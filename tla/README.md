# A verification project for cap-containers

cap-containers is a header-only C library of containers.  This directory holds
TLA+ modules that model its containers, TLC configurations that check them on
small instances, and proofs that TLAPS checks for every value of the constants.
Source paths below are relative to `src/cap-containers/` where they
name a header (`FQ` stands for `concurrent-container/concurrent_fixed_queue.h`,
`HT` for `concurrent-container/concurrent_hash_table_separate_chaining.h`, `FL`
for `concurrent-container/concurrent_forward_list.h`, and `MAP` for `map.h`).

## 1. The system

### 1.1 Components

**Concurrent containers** (`concurrent-container/`, five headers).  Each keeps
its data and one `pthread_mutex_t`; each operation is *lock, body, unlock,
return*.  The only concurrency of the library is here: threads that call the
operations of one container.

| component | state | operations | what makes it correct |
|---|---|---|---|
| fixed queue | list with sentinels, `_current_size`, `_capacity` | init, push, pop, front, back, size, capacity, remaining_space, free, deep_free | counter = length of list outside the two-step window; never above capacity; an atomic bounded FIFO; every path unlocks |
| dynamic queue | list with sentinels, `_current_size` | init, push, pop, front, back, size, free, deep_free | the same without a bound |
| stack | array, `_current_size`, `_capacity` | init, push (doubles a full array with realloc), pop, top, size, empty | slots below the size are the pushed elements; an atomic LIFO |
| forward list | singly linked list, `size` | push_front, pop_front, front, find_if, remove_if, empty, size, free, deep_free | counter = length, find_if and remove_if touch only what matches |
| hash table, separate chaining | array of chains, size, capacity | insert (rehashes a loaded table), lookup, contains, erase, deep_erase, size, empty, bucket_size, free, deep_free | a map; growth changes no answer; erased keys are gone |

**Sequential containers** (`src/cap-containers/` itself).  They keep no lock;
what is hard in them is long sequences of calls (duplicates, deletions,
wrap-around, growth) and the edges (empty, full, one element).

| component | state | operations | what makes it correct |
|---|---|---|---|
| ordered map, `map.h` | skip list: nodes with a tower of links, size, level; iterators | insert, find, contains, remove, size, empty, iteration, free, deep_free | a map in key order; no link to a freed node is followed |
| LRU cache, `lru_cache.h` | table from hash to node, doubly linked list by recency, size | get, put, free | the slot of a key leads to its node with its last value; the least recently used entry goes |
| linear probing, `hash_table_linear_probing.h` | array of buckets, size, capacity | insert (grows a loaded table), lookup, contains, erase, deep_erase, size, empty, free, deep_free | every key is found by a probe from its home bucket; every probe ends |
| separate chaining, `hash_table_separate_chaining.h` | array of chains, size, capacity | as the concurrent table, and swap | a map |
| priority queue, `priority_queue.h` | binary heap in an array numbered from 1 | push (grows), pop, top, size, clear, free | no item is lost or made up; the highest comes first |
| circular queue, `circular_queue.h` | array, head, tail, size | push, pop, size, capacity, free, deep_free | a FIFO through every wrap-around |
| arena, `arena_allocator.h` | block, position | alloc, reset, size, remaining_size, capacity, free | what it gives is disjoint and inside |
| doubly linked list, `list.h` | two sentinels and nodes with two links | push, pop and look at both ends, insert_after, find_if, remove_if (deep), free, deep_free | the two chains of links are each other's reverse |
| forward list, `forward_list.h` | singly linked nodes, size | as the concurrent one, and swap | a sequence; the counter is its length |
| vector, `vector.h` | array, size, capacity; an iterator with index and data | push, pop at both ends, at, find_if, remove_if, resize, shrink_to_fit, copies, swap, iteration with insert and remove | a sequence, kept by moves and growths; nothing past the elements is read |
| stack, `stack.h` | array, size, capacity | push, pop, top, size, empty, swap | a LIFO |
| fixed and dynamic queue | list with sentinels, size, capacity | push, pop, front, back, size, swap, free, deep_free | a FIFO whose counter is its length |

**Internal list** (the private `_cap_list` inside the queue headers, and
`list.h`): a doubly linked list whose two sentinels share one allocation.

Tests (`src/tests`) and examples exercise the sequential containers; they are
used as statements of intent.  No test includes a concurrent header or the LRU
cache.

### 1.2 Interactions

Clients call containers; containers call `malloc`/`calloc`/`realloc`/`free`, the
pthread mutex, and, in `find_if`, `remove_if` and the hash tables, functions
given by the client.  Containers do not call each other, except that the queues
own a `_cap_list`.  What crosses
component borders is therefore: the mutex (shared by the threads), the
allocator (may refuse), and ownership of elements (`deep_*` frees them).

### 1.3 What is hard

* Lists and their counters are updated in two separate steps of a body, and
  some operations trust the counter while others trust the pointers.
* An allocation that fails between the two, where the code does not look.
* `free` is inside the mutex it destroys, and unlocks it afterwards.
* The growth of a table goes on inside an insertion and calls it back.
* Keys inserted twice, then erased, then a growth: orders no test writes.
* Links of the skip list's upper levels that outlive the nodes they point at.
* Two structures over the same nodes: the LRU cache's table and its recency list,
  with keys that share a slot; the two directions of links of a list.
* Holes: an erase in an open-addressed table has to close its hole.
* Numbers at their edges: an index one past the end, a heap numbered from 1, a
  ring that is overfull, a sum of two `size_t` that wraps.

`PROJECT.json` lists each hazard at its line, with the property that covers it
or the reason why none does yet.

### 1.4 A note on building

The five concurrent headers assign `x->_mtx = PTHREAD_MUTEX_INITIALIZER;`, which
compiles where the macro is an expression (the BSDs, winpthreads) and not with
glibc's brace initialiser; `concurrent_dynamic_queue.h` includes `<cstdlib>` and
so wants a C++ compiler.  The models take the initialised default mutex that the
line asks for.

## 2. The modules

```
CapValues ─┬─ PthreadClients ─┬─ ConcurrentFixedQueue ── _proofs
           │                  ├─ ConcurrentDynamicQueue ┐
           │                  ├─ ConcurrentStack        ├─ MCConcurrentContainers
           │                  ├─ ConcurrentForwardList  ┘   (_proofs)
           ├─ ChainedTable ───┴─ ConcurrentHashTable ── _proofs
           ├─ SkipListMap ── _proofs
           ├─ abstract: BoundedQueue, AtomicStack, AtomicMap, OrderedMap
           │
           ├─ SequentialClient ──┬─ Vector, LinkedList, ForwardList, ArrayStack,
           │                     │  FixedQueue, DynamicQueue, CircularQueue,
           │                     │  LinearProbing, LruCache, PriorityQueue, Arena
           │        ChainedTable ┴─ SeparateChaining
           └─ abstract: SequenceSpec, MapSpec, LruSpec, PoolSpec
   MCSequentialContainers INSTANCEs the twelve and the four abstract ones;
   SequentialContainers_proofs and SequentialQueues_proofs extend it, and
   SequentialTables_proofs both (and INSTANCEs ConcurrentHashTable_proofs);
   MCConcurrentContainers INSTANCEs the three above it, and
   ConcurrentContainers_proofs extends it.  The proofs about lists and sequences
   extend CommonLemmas.  A module that a run checks by itself declares its own
   constants; the two MC modules declare those of the modules they choose from.
```

* `CapValues`: the values all modules share (`Null`, C's true and false), and
  `_cap_list` as the sequence of its nodes' data, head to tail, for the operations
  the queues use.  Pointers are abstracted there; dereferences of a missing node are
  kept, as separate actions of the queues.
* `PthreadClients`: the bracket that is the same in every concurrent header.
  Each thread has a place `pc` (idle, lock, body, rest, unlock, return), the
  call it is in, and `return_value`; `mtx` is the holder.  `Lock` may be taken
  by any waiter of a free mutex: a default pthread mutex has no queue.
* `ConcurrentFixedQueue`, `ConcurrentDynamicQueue`, `ConcurrentStack`,
  `ConcurrentForwardList`: one action per step of each body.  A body that
  changes two things has two steps (`PushInsert` then `PushCount`), so the stale
  counter between them exists in the model and the mutex has something to do.
  `Create` and `CreateFails` are the init function, `Call` the entry of any
  operation, `Acquire`/`Release`/`Finish` lock, unlock and return.  `life` is
  `none`, `live`, `freed`, or what ended the program: a NULL dereference, an
  illegal `free`, a use after free, an `exit` from a mutex macro.
* `ChainedTable`: the internal functions of the hash table on a table value.
  `insert` and `rehash` are mutually recursive in the code: a rehash inserts,
  and an insertion into the new table may find that one loaded as well, because
  duplicate keys are in the chains and not in the size.  The growth inside a growth
  fills a table of twice as many buckets as there are keys among its nodes, so a
  third level is never entered, whatever the table (`NestedGrowthEnds`,
  proved), and the model unrolls two: `Rehash` prepares each insertion with `Regrow`,
  and `Regrow` with `Same`.  `size` is a `size_t`, modulo `SizeModulus`: erasing duplicate keys
  takes it below zero.
* `ConcurrentHashTable`: the table under its mutex, with `insert` in two steps,
  growth and store.  `promised` remembers what the calls so far say of each key,
  `released` the elements that the table has freed; neither is read by a guard
  that stands for code (`released` is in the guard that keeps clients from
  inserting a pointer they have had freed).
* `SkipListMap`: `cap_map` with its nodes as addresses, `_forward` as a function
  from address and level to address, and the set of nodes that are allocated.
  The search loop, which insert, find, contains and remove share in shape, is
  taken a round at a time (`SearchDown`, `SearchRight`), with its locals in
  `scan`: the node reached, the level, `previous[]`, the last comparison.  What
  the loop's end does is one action per outcome.  The height of a new node is
  any (`_cap_map_get_rand_level`).  One iterator may live across other calls;
  `iter.changed` remembers that an insert or remove has changed the map since
  it was made.  calloc may give out any freed address again, also one to which a
  link of a higher level or the iterator still points (`Fresh`): such a link then
  leads to the new node, whatever its key.  `MaxIndex` bounds the client's steps with
  an iterator, which a map changed under it can keep from ever ending.
* `BoundedQueue`, `AtomicStack`, `AtomicMap`, `OrderedMap`: what the containers promise.  They
  have no mutex, counter, capacity step or chain; a call *takes effect* in one
  step between call and return, that is, operations are linearizable.
* `SequentialClient`: the one thread that uses a container without a mutex.  A
  call is a step; `last` is the call and its answer, `other` a second container
  of the same type (for swap and copies), `life` whether the container is alive
  or freed.  A call to which C gives no meaning (a NULL dereference, the use of a
  pointer that nobody wrote, a double free, a failed assert) sets `life` to
  `undefined`, and the model ends there.
* `Vector`, `ArrayStack`, `CircularQueue`, `PriorityQueue`: an array is a
  sequence or function of words; a word is an element, NULL from `calloc`, or
  `Garbage`, and slots that an operation leaves keep their words, because the
  off-by-one reads of `vector.h` find them again.  A read past an allocation
  gives `Garbage`; a write past it breaks the program, or not, in the priority
  queue, whose word after the array may be anybody's.  `realloc` to zero words
  may answer NULL with the block freed, or a block.
* `LinkedList`: `list.h` with its pointers, `next` and `previous` as functions of
  the address; `Link` and `Unlink` are the assignments of every insertion and
  removal.  A popped node is leaked in the code; nothing points at it, and the
  model takes its address back.
* `ForwardList`, `FixedQueue`, `DynamicQueue`: the contents as a sequence, the
  counter beside it, allocation failures where the code looks for them and
  where it does not.
* `LinearProbing`: buckets as a function of the index; probing is arithmetic on
  the distance from a key's home, so that *the first empty bucket* is one
  expression and not a loop.  What a loop builds (a rehash, the moves of erase, the
  rounds of `Swim` and `Sink` in `PriorityQueue`, the walks along links of
  `LinkedList` and `LruCache`) is a recursive function on the rounds, whose
  last value is the result; one round after the loop has ended changes nothing.  The search of erase is the exception: its index
  never moves, each turn is a step (`EraseTurn`), and it may go on for ever.
* `SeparateChaining`: the table functions of `ChainedTable`, which the two
  headers have in common but for the copy of the key; swap, and a free that
  visits buckets 1 to size - 1.
* `LruCache`: nodes with both links and the table; `MoveToHead`, `AtHead` and
  `RemoveTail` are the code's functions.  `latest` is a history variable.
* `Arena`: the position modulo `SizeModulus`, and the history of what was given:
  each answer, taken for the start of its buffer as the header says, with its size.
* `SequenceSpec` (push, pop and look at both ends, insert, remove, find, swap),
  `MapSpec`, `LruSpec` (an order of entries), `PoolSpec` (a bag: how often each item
  is in): what a sequential container promises, by the kind of call in `last`.
* `MCSequentialContainers`: the initial state chooses the container (`kind`).
* Variants with a fault (`PushFullCounts`, `RehashInPlace`, ...) stand before
  the definition that they vary and are used by nothing; `PROJECT.json`
  "mutants" says which property each of them breaks.

### 2.1 Rules the clients keep

The headers take these for granted and so do the models: a container is freed
by a thread only while no other thread is in a call, and is not used afterwards
until a new one is made; pushed elements are not NULL (asserted in the code).
For the hash table, the value pointers belong to one node at a time and a
pointer freed by a `deep_` operation is not inserted again.  Predicates of the
lists do not call the list back.  A program frees no ordered map while it
holds an iterator of it, but may insert and remove, of which `map.h` says
nothing.  Clients of the sequential chained table have one of two keys twice at a
time at most, and those of the vector use an iterator or a second vector, not both
at once (bounds for TLC, not rules of the headers).

### 2.2 Abstractions

An element or a key is a model value; a predicate is the set of elements that it
accepts; the hash is a fixed function.  Reading and writing inside one step of a
body is atomic, which is sound because the container's state is touched by the
holder of the mutex only (`HolderIsCritical`, proved) and every return value is
a local.  Memory that is leaked (popped nodes of `_cap_list` and `list.h`, the old bucket
array of a rehash) is not kept.  Without a mutex there is one thread, and a call
is a step.  An item of the priority queue is its priority.  An out-of-range `capacity * 2` in the stack is
not modelled.

## 3. The runs

| run | instance | what it shows |
|---|---|---|
| `fixed_queue` | 3 threads, 2 elements, capacity 2, all operations, any malloc may fail | types, mutual exclusion, capacity never exceeded even inside a body; the counter covers the list and is exact until a malloc fails, slots lost never come back, a NULL dereference needs a failed malloc; until one fails, the refinement of `BoundedQueue` |
| `fixed_queue_live` | 3 threads, capacity 1, push/pop/size for ever | under fairness the mutex is always released and some call always returns; no deadlock |
| `containers` | 2 threads, 2 elements, at most 3 stored, initial capacity 1, allocation may fail; queue, stack or list chosen at the start | counters and slots against contents; each implements its abstract container (the queue and the list until an allocation fails, the stack always) |
| `hash_table_map` | 2 threads, 3 keys, 3 elements, 3 nodes, initial capacity 1; absent keys only | the table is an atomic map, growth is invisible, nothing freed stays reachable |
| `hash_table_reinsert` | as above with 4 nodes and present keys inserted again | no key is lost, every node is in the bucket where lookups search, through growths of tables whose size lies |
| `skip_list` | 3 keys, 2 values, 2 levels, 4 addresses, 3 steps of an iterator, calloc may fail | the bottom level is the map whatever happens above it, a search encloses its key on every level it leaves, remove frees the right node, an unchanged map is iterated in order, only stale iterators crash, and the map refines `OrderedMap` up to the first freed node searched |
| `sequential` | one client on one of twelve containers, 2 elements, allocation may fail; see below | each is what it promises under the conditions below; links, slots and probes are consistent after every sequence of calls |
| `skip_list_dangling`, `hash_table_stale`, `linear_probing_spin`, `priority_queue_order`, `arena_start` | the smallest instance that shows it | section 5 |

**Why the bounds are enough.**  The operations look at whether the container is
empty, full, has one node or more than one, and at one neighbour; capacities 2
and 3 have all of these.  Two threads give every order of two bodies and their
windows; a third adds a waiter that is passed over.  With initial capacity 1 a
stack grows at its second and third element (two growths, one from 1 to 2 and
one from 2 to 4), and a table with keys hashing to 0, 1 and 2 separates keys in
one growth and keeps two of them together in the first and parts them in the
second.  Three keys on two levels have a node before, at
and behind any other and levels that a node is and is not on; a fourth address
lets calloc choose between one that stale links point at and one that none does.  `MaxElements`, `MaxNodes`
bound contents in the guard of `Call`, which
is the client's choice and never a container's refusal.  `SizeModulus` is
small so that a size below zero is a value above every capacity, as in the
code.  Symmetry is on threads and elements, which no safety property tells
apart; the liveness run uses none.

**The sequential run.**  A promise that the code keeps only in part is stated
for the part it keeps, and what lies outside is modelled, and told in section 5.

| containers | instance | property, and when it is claimed |
|---|---|---|
| vector | 3 words at most, from 1; an iterator, or a second vector of 2 words at most (`SecondUse`) | `VectorImplementsSequence`: while the size is within the buffer and the iterator before the end; not for the calls whose answers are not the header's: find_if answered from past the end, front of an empty vector, and at but for its NULL beyond the last element (section 5) |
| doubly linked list | 3 nodes | `ListImplementsSequence` for every call that returns, `ListLinksMatch` always |
| stack, fixed queue, dynamic queue, forward list, ring | 3 or 4 elements in two containers; 3 slots and the counter to 5 in the ring | `QueuesImplementSequence`: the ring while it is not overfull, the forward list while its counter is its length, and not remove_if when the head matches |
| linear probing | 4 keys, three with one home in 5 buckets and two of them in 10; 4 nodes, so one growth | `ProbingKeysReachable` always; `TablesImplementMap` while no key is in twice |
| separate chaining | 2 keys, 3 nodes in two tables, from 1 bucket | `TablesImplementMap` while both tables are exact (one node a key, all counted) |
| LRU cache | capacity 3, 4 keys, 2 of them sharing a slot | `LruSlotsLive` always; `CacheImplementsLru` while no collision has displaced a node |
| priority queue | 3 priorities, 6 items, from 5 slots, so one growth | `HeapKeepsItems`: no item is lost or made up; the order is in `priority_queue_order` |
| arena | 4 bytes, requests of 1, 2 and 5, `size_t` modulo 6 | its type only: what it promises is refuted (`arena_start`, section 5) |

In these every position is met: the end, the middle and the front of a list of
three; a cluster of probes that goes round the end of the array; an eviction of
the tail with a neighbour, and of a node whose slot another key has taken; a ring
that wraps and overruns; a request of 5 from position 1 or more, which wraps.
`TypesOK` collects the type invariants, with the sizes that the counters may take.

`CHECK_DEADLOCK FALSE` is used where the program can end (a crash, an exit) or
where the clients of an instance have nothing left to do.

**Fairness** (`FairSpec`).  Weak fairness of each step of the thread that holds
the mutex and of the return of each thread: the scheduler runs a runnable
thread.  Weak fairness of *some* thread taking a free mutex that is waited for:
that is what unlocking a pthread mutex does.  Nothing is assumed about a given
waiter, so no property says that each call returns; starvation is possible.
Clients are free to stop calling.  In `linear_probing_spin` the fairness is that of
a turn of erase's loop: the thread that called erase goes on running, and still it
does not return.

## 4. The proofs

All theorems are checked with no assumptions but the modules' named ASSUMEs
(`ClientsAssumption`, `FixedQueueAssumption`, `ContainerAssumption`,
`NullAssumption`, `SkipListAssumption`, `ChainedTableAssumption`,
`HashTableAssumption`, `ClientAssumption`, `SequentialAssumption`,
`ArenaAssumption`, `ContainersAssumption`), which say that capacities and bounds
are numbers, capacities at least one, elements are not NULL, the holder of a free
mutex is no thread, NULL is no number and no node of a table or of the cache, keys
are ordered as numbers are, hashes and priorities are numbers, the sizes of an arena
are `size_t`, the client's bound on a vector is not below its first capacity, and a
table with linear probing starts with three buckets or more (the header's
`CAP_HASHTABLE_LP_INIT_SIZE` is 5: with two, an insert can fill the table and
the next probe has no empty bucket to end at); and with the hypotheses named below.

* `CommonLemmas`: sequences and the operators the models are built from: the list
  operations of `CapValues` on any sequence (lengths, types, and that popping the
  back is taking the head of the reversed list), insertion and removal at a place,
  and what `Matching` collects.
* `ConcurrentFixedQueue_proofs`: for any threads, elements, capacity, subset of
  the operations, with or without malloc failures: `TypeOK`, `HolderIsCritical`,
  `CounterCoversList`, `CapacityRespected`, `NullDerefNeedsFailedMalloc` hold and
  `DriftNeverShrinks`.  The counter property is not inductive: push counts what
  it inserted only if nobody else ran in between.  The inductive invariant
  `IInv` adds (1) mutual exclusion, in the form *a thread is critical iff it is
  the holder*, so that at most one thread is in the list-then-count window and
  `Uncounted` is its doing; (2) the bounds the window remembers (`CountWindow`: a
  push there has found room, a pop an element), so that the counter stays in
  `0..Capacity`; (3) that calls are what clients make (`InCall`).
  One lemma per action, then `StepIInv`.

  Until malloc fails, `Spec` implements
  `BoundedQueue` with `queue <- Reverse(nodes)`; insertions, removals, looks and
  free take effect in their body, all other steps are stutters.  The abstract
  guards are about the length of the queue, the code's about the counter, and
  `IInv` makes them the same.
* `ConcurrentContainers_proofs`: the invariants of `MCConcurrentContainers`, for
  any threads, elements and bounds: the type invariant of the container in use,
  `QueueCounterCoversList`, `StackSlotsInUse`, `ListCounterCoversList`.  Again none
  is inductive.  `QueueInv` is mutual exclusion, the calls in progress, what the
  thread between the list's step and the counter's has done, that the counter is
  exact but for it until malloc has failed and never too small after; `StackInv`
  adds that a thread past the growth still has a free slot (`StackBefore`), which
  is why its store is inside the array; `ListInv` has the same shape as `QueueInv`.
  The dynamic queue implements a `BoundedQueue` that is never full and the forward list an
  `AtomicStack` until an allocation fails, and the stack an `AtomicStack` always.
  The insertion takes effect where the node is linked, a pop where it is unlinked,
  and find_if and remove_if in one step of the body.  `AtomicStack` says what
  remove_if keeps by positions: the provers do not unfold `SelectSeq`.
* `SkipListMap_proofs`: for any keys, values, addresses, heights of nodes and
  with or without calloc failures: `TypeOK`, `BottomIsTheMap`, `PreviousEnclose`,
  `LastComparisonDecides`, `IterationInOrder`, `OnlyStaleIteratorsCrash`, and
  `Spec` implements `OrderedMap` while no freed node has been searched.  Where the
  upper levels are broken (section 5) the bottom is not, and the reason is the
  strengthening: `BottomShape` says that the bottom level is a chain through
  exactly the nodes of the map, in order, with nothing between neighbours
  (`Closest`), and `ScanShape` what the search knows at each round: the node it
  has reached is held and lies before the key, and from level 0 on its bottom
  neighbour is the first that does not.  Of an upper
  link nothing is assumed: it may lead to a freed node, or to a node that was given
  a freed address, with any key.  It does not matter, since a search goes on only to
  nodes whose key it has found to be lower, and leaves a level with NULL or a key that
  is not lower ahead (`PreviousEnclose`).  `IterShape` says the same of an iterator.
* `ConcurrentHashTable_proofs`: for any threads, keys, hash, elements and bounds,
  with growth, erase and free.  The lemmas say what `Store`, `Erase`, `Rehash` and
  the growth inside a growth keep of a table: the shape of its buckets, every node
  in the bucket of its key, the set of its keys, and that of two nodes with one
  key there is a first.  The invariants come in three layers, each under what it
  needs:
  1. with no hypothesis, duplicates and a wrapped size counter included:
     `TypeOK`, `NodesInTheirBuckets`, `KeysNeverLost`.  A growth must keep the keys of
     all chains even when the size that bounds its loop has wrapped or lags behind
     the chains.  It does, because a table grows only when `size = capacity`, so that
     the loop over `size` buckets visits all; and that the thread stores after the
     growth in the bucket of the new capacity is why `Placed` survives.
  2. when clients insert absent keys only (`~Reinsert`): no two nodes have a key or
     an element in common, what is about to be inserted is neither in the table
     nor freed, and no two threads insert the same; hence `NoFreedDataInTable` and
     `GrowthIsInvisible`.  With
     present keys inserted again both are false of the code (`hash_table_stale`).
  3. when moreover a `size_t` counts the nodes (`MaxNodes < SizeModulus`, which in
     C is that the nodes fit in memory): the size is the number of keys, and the table
     implements `AtomicMap`.  Without the hypothesis a table of `SizeModulus` keys
     would answer that it is empty.
* `SequentialContainers_proofs`: `MCSequentialContainers` with the doubly linked list,
  the arena or the LRU cache chosen, for any elements, keys, hashes, bounds and sizes.
  `ListLinksMatch` is not provable from itself: `LinksMatch` speaks of what walks
  along the links meet, and a step changes links, not walks.  The invariant
  names the walk: there is a chain `p` of distinct allocated addresses from one
  sentinel to the other, `next` and `previous` are its neighbours in both directions,
  and the client's sequence is the words at its inner addresses.  Each operation maps
  `p` to `p` with an address inserted or taken out, and so the contents to what
  `SequenceSpec` says of the call (`ListImplementsSequence`), remove_if and the walk
  of find_if included.  Of the arena there is its type: what
  it counts, and so every answer, is within it, wrapped sums included.
  For the cache the chain has no sentinels (`IsLru`): `p` is the list of nodes,
  most recent first, every live node is in it (`AllListed`), the counter is its
  length, and a slot leads to a node of `p` with the slot's hash and the value last
  put with its key (`SlotsHold`).  That survives collisions, in which `p` has a node that
  no slot leads to, and gives `LruSlotsLive`.  `move_to_head` is proved in its two
  halves: the node is unlinked, then put before the head; a put into a full
  cache removes the last of `p`.  While no node is displaced the slots and `p` are one
  to one, and the entries along `p` change as `LruSpec` says (`CacheImplementsLru`).
* `SequentialQueues_proofs`: the rest of `QueuesImplementSequence`, the vector and the
  priority queue.  The invariant
  speaks of both containers of a pair, as swap gives one the other's list, counter
  and capacity.  Fixed and dynamic queue: the counter is the length of the list, so
  that pop's two tests (of the counter, and of the popped pointer) agree.  Stack: the
  slots below the size are filled and the size within the capacity, through refused
  reallocations.  Ring: `tail = (head + size) % Capacity`, also when it is overfull,
  with lemmas on remainders for the slot that a push takes and the
  ones that keep their elements.  Forward list: its counter is at least its length;
  where it is equal (`Regular`) its calls are those of a sequence, but a remove_if whose
  head matches.
  Vector: the words below the size that are inside the buffer are not NULL
  (`Buffered`), which is what makes find_if and remove_if look at all elements;
  it holds also of a vector that a resize has cut short, where the
  refinement claims nothing.  Priority queue: the slots up to the size hold priorities,
  and the exchanges of `Swim` and `Sink` rearrange them (`Rearranged`: for every item the
  number of places it is at is the same), by induction over the rounds; whether
  the exchange is the right one does not matter, and it is not always
  (section 5).
* `SequentialTables_proofs`: the two hash tables without a mutex, and the types.
  Linear probing: `ProbingKeysReachable` says that the first empty bucket comes after a
  key's; the invariant `Ordered` says it of every bucket on the way (`AllNear`: no
  bucket from a node's home to the node is empty) and that the counter counts
  the filled ones.  An insert fills the first empty bucket from its home; a rehash inserts
  node by node into an empty table; erase empties a bucket and then
  takes out and inserts again each node of the cluster behind it, and the invariant
  of that loop (`ErasedUpTo`) is that one bucket more than before is empty, and that
  the nodes visited are in order again.  That the load is at most one node
  above a half, with three buckets or more, leaves an empty bucket for
  every probe to end at.  Separate chaining: the table functions are those of the
  concurrent header, and so are their lemmas, through an INSTANCE of
  `ConcurrentHashTable_proofs`; added are the second table of a swap and the free that
  starts at bucket 1.  Both
  give `TablesImplementMap`.
  `TypesCorrect` collects the types of all twelve containers (`TypesOK`): each
  invariant above contains the type of its container, and that the vector stays within
  `MaxCapacity` is an invariant of its own.

Every invariant and every action property of a passing run is a theorem.  What stays
with TLC is liveness (`MutexReleased`, `SomeCallReturns`), which is outside the reach of
the installed backends: ENABLED, in the weak fairness of `FairSpec`, is not
expanded.  The five counterexamples of section 5 are TLC's as well.

## 5. Where the code and its words part

In a run that TLC refutes:

* `remove` of the map relinks all levels with the removed node's links (MAP:351),
  also those it is not on, where the links are NULL.  Taller nodes drop out and
  keep links to nodes that are freed later; a removal can put such a link back
  in reach, and the next search reads a freed key.  With keys 1, 2, 3 of heights
  1, 2, 2: remove 1, remove 3, remove 2, find anything (`skip_list_dangling`).
  Against MAP:86-87, by which find answers the element or NULL.
* Inserting a key that is in the hash table updates its node and pushes a second
  one (HT:358).  A later growth can bring an old value back (HT:225; the test
  `test-hash-table-separate-chaining.c:102-104` expects the last one,
  `hash_table_stale`), and an erase leaves the key there (test lines 91-92).
* `erase` and `deep_erase` of the table with linear probing never advance the
  index of their first loop (`hash_table_linear_probing.h:172`): with another key
  in the home bucket they do not return (`linear_probing_spin`).
* A pop of the priority queue sinks the last item past the wrong child
  (`priority_queue.h:184`): after pushes of 1, 3, 3, 2 the second pop answers 2
  (`priority_queue_order`, comment at `priority_queue.h:83-84`).
* An arena answers the end of the bytes it has counted (`arena_allocator.h:111`),
  where its header promises the start of a buffer that can hold the size (:42,
  :50): of 4 bytes, alloc 2 and alloc 1 give two buffers that overlap, and the last
  answer of a full arena points past the block (`arena_start`).

Seen while modelling, in the models, and in no run of their own:

* When calloc gives a new node of the map the address of a freed one to which a link
  is left on an upper level, the link leads to the new node, whatever its key:
  with keys 1, 2, 3 of heights 1, 2, 2, remove 1 and 3, insert 1 again with height 2
  at the address that node 3 had, and remove 2.  That gives node 1 the stale link of
  node 2, which is one to node 1 itself, and `find` of 3 goes round it for ever, in
  the model as a search that only stutters.  What the properties say of searches
  (`PreviousEnclose`, `LastComparisonDecides`, `ImplementsOrderedMap`) is so said of
  what they have found, not that they end.
* A size that wraps the sum with the bytes in use passes the arena's test
  (`arena_allocator.h:108`), takes its position back and lets blocks in use be given
  again; its header promises NULL (:45-46).
* `front` of an empty vector answers the word in its first slot, after a push and a
  pop the element that was popped, not NULL (`vector.h:581`, comment at :112-113),
  and `at` answers the address of a slot, not an element (:592, comment at :75-76).
* `push` of the concurrent fixed queue ignores the result of the list's push: it
  answers true and counts an element it has dropped (FQ:244; the comment at
  FQ:118-119 promises false).  From then on the counter is too high for ever
  (`DriftNeverShrinks`) and a later pop of the emptied list dereferences NULL.
  `fixed_queue.h` has the test that is missing here.
* `remove_if` of the concurrent forward list goes on with the node it has just
  freed unless that was the only one (FL:304, comment at FL:124-126).  That of
  `forward_list.h` follows a NULL head once all elements have matched (:242), and
  returns after it has removed heads, later matches or not (:248).
* `free` of an empty queue or list frees the tail sentinel, which is the inside of
  another allocation (FQ:343, comment at FQ:147); a concurrent one unlocks the
  freed mutex.  `free` of the map leaks its last node and `deep_free` makes as many
  rounds as the first node is high (MAP:367, MAP:382).  `free` of the sequential
  chained table visits buckets 1 to size - 1
  (`hash_table_separate_chaining.h:334`).
* A pop of an empty `list.h` follows the NULL link of a sentinel (:231).
* `deep_free` frees the pointers it finds: an element that a list, queue, vector
  or table of `sequential` holds twice is freed twice.
* `push` of the circular queue overwrites the oldest element of a full ring and
  counts past the capacity (`circular_queue.h:120`); the loop of its `deep_free`
  does nothing or leaves the array.
* `find_if` and `for_each` of the vector visit the word after the last element
  (`vector.h:495`); iterators look before the first and after the last; `resize`
  below the size keeps the size, and the next push may write past the buffer.
* The push that fills a priority queue writes one word past its array
  (`priority_queue.h:153`).
* The two keys of a collision in the LRU cache share a slot: the displaced node
  stays in the list, where no get finds it, and its eviction clears the slot of the
  other (`lru_cache.h:121`).  No get answers a stale value (`LruSlotsLive`).

## 6. What is not modelled

Not modelled: `cap_vector_copy`, after which two vectors own one buffer, so that
a growth of either leaves the other with a freed one; allocations that fail
while a sequential container is made, which leave nothing to use; the pointers of the
`_cap_list` copies inside the queue headers (those of `list.h` are, in
`LinkedList`).  Not to be modelled: tests, examples, build and documentation scripts.

What could come next: `cap_vector_copy` with the ownership of buffers, the
`_cap_list` copies with their pointers, and a bound on the drift of the counter of the
concurrent fixed queue in the number of failed mallocs.
