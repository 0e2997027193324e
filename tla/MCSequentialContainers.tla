------------------------ MODULE MCSequentialContainers ------------------------
(***************************************************************************)
(* The containers without a mutex in one run: `kind`, chosen at the start, *)
(* says which one the client uses.  Their modules share the variables, so  *)
(* the states of the run are the sum of theirs.                            *)
(***************************************************************************)
EXTENDS SequentialClient, Functions, TLC

CONSTANTS
    Elements,                     \* the pointers clients push or put
    Capacity,                     \* of the fixed queue, the ring and the cache
    OtherCapacity,                \* of the second fixed queue
    InitialCapacity,              \* of the vectors and the stacks
    Total, Sizes, SizeModulus,    \* of the arena
    Keys, Hash, LruHash,          \* of the tables and the cache
    ProbingCapacity, MaxNodes,    \* of the table with linear probing
    ChainedKeys, ChainedModulus, MaxChained,  \* of the table with chains
    MaxCapacity,                  \* of the vectors
    MaxElements, MaxQueued, MaxRing,  \* of the lists, the queues, the ring
    Priorities, HeapInitial, MaxItems,  \* of the priority queue
    k1, k2, k3, k4

ASSUME SequentialAssumption ==
    /\ Null \notin Elements              \* assert(data != NULL) of the pushes
    /\ {Capacity, OtherCapacity} \subseteq Nat \ {0}  \* assert(capacity_of_queue)
    /\ InitialCapacity \in Nat \ {0}     \* CAP_STACK_INITIAL_SIZE; assert(initial_size > 0)

ASSUME ArenaAssumption ==
    /\ SizeModulus \in Nat \ {0}
    /\ Total \in 0..(SizeModulus - 1)
    /\ Sizes \subseteq 0..(SizeModulus - 1)

ASSUME ContainersAssumption ==
    /\ \A k \in Keys : Hash[k] \in Nat /\ LruHash[k] \in Nat
    /\ ChainedKeys \subseteq Keys /\ ChainedModulus \in Nat \ {0}
    /\ ProbingCapacity \in Nat /\ ProbingCapacity >= 3  \* CAP_HASHTABLE_LP_INIT_SIZE is 5
    /\ Null \notin [key : Keys, value : Elements]  \* NULL is no node of a table
    /\ LET Links == (1..Capacity) \cup {Null}       \* and none of a cache
       IN  Null \notin [key : Keys, value : Elements, prev : Links, next : Links]
    /\ MaxNodes \in Nat
    /\ {MaxCapacity, MaxElements, MaxQueued, MaxRing} \subseteq Nat
    /\ InitialCapacity <= MaxCapacity
    /\ Priorities \subseteq Nat /\ HeapInitial \in Nat \ {0} /\ MaxItems \in Nat

VARIABLES kind,
          obj,       \* the container
          iterator   \* of a vector

allVars == <<kind, obj, iterator, clientVars>>

(* k1, k2 and k4 share the last of five buckets, k1 and k2 the fifth of ten;   *)
(* k1 and k2 share a bucket of two and have one each of four.                *)
MCHash == k1 :> 4 @@ k2 :> 14 @@ k3 :> 0 @@ k4 :> 9
MCLruHash == k1 :> 0 @@ k2 :> 1 @@ k3 :> 0 @@ k4 :> 2

VectorM == INSTANCE Vector WITH vector <- obj
ListM == INSTANCE LinkedList WITH list <- obj
ForwardM == INSTANCE ForwardList WITH flist <- obj
StackM == INSTANCE ArrayStack WITH stack <- obj, MaxElements <- MaxQueued
FixedM == INSTANCE FixedQueue WITH queue <- obj
DynamicM == INSTANCE DynamicQueue WITH queue <- obj, MaxElements <- MaxQueued
RingM == INSTANCE CircularQueue WITH ring <- obj, MaxElements <- MaxRing
ProbingM == INSTANCE LinearProbing WITH probing <- obj, InitialCapacity <- ProbingCapacity
ChainedM == INSTANCE SeparateChaining
    WITH chained <- obj, Keys <- ChainedKeys, SizeModulus <- ChainedModulus, MaxNodes <- MaxChained
LruM == INSTANCE LruCache WITH cache <- obj, Hash <- LruHash
HeapM == INSTANCE PriorityQueue WITH heap <- obj, Items <- Priorities, InitialCapacity <- HeapInitial
ArenaM == INSTANCE Arena WITH arena <- obj

Init ==
    /\ iterator = Null
    /\ \/ kind = "vector" /\ VectorM!Init
       \/ kind = "list" /\ ListM!Init
       \/ kind = "forward" /\ ForwardM!Init
       \/ kind = "stack" /\ StackM!Init
       \/ kind = "fixed" /\ FixedM!Init
       \/ kind = "dynamic" /\ DynamicM!Init
       \/ kind = "ring" /\ RingM!Init
       \/ kind = "probing" /\ ProbingM!Init
       \/ kind = "chained" /\ ChainedM!Init
       \/ kind = "lru" /\ LruM!Init
       \/ kind = "heap" /\ HeapM!Init
       \/ kind = "arena" /\ ArenaM!Init

Next ==
    /\ UNCHANGED kind
    /\ \/ kind = "vector" /\ VectorM!Next
       \/ /\ UNCHANGED iterator
          /\ \/ kind = "list" /\ ListM!Next
             \/ kind = "forward" /\ ForwardM!Next
             \/ kind = "stack" /\ StackM!Next
             \/ kind = "fixed" /\ FixedM!Next
             \/ kind = "dynamic" /\ DynamicM!Next
             \/ kind = "ring" /\ RingM!Next
             \/ kind = "probing" /\ ProbingM!Next
             \/ kind = "chained" /\ ChainedM!Next
             \/ kind = "lru" /\ LruM!Next
             \/ kind = "heap" /\ HeapM!Next
             \/ kind = "arena" /\ ArenaM!Next

Spec == Init /\ [][Next]_allVars

-----------------------------------------------------------------------------
(* Every container has the type its module gives it. *)
TypesOK ==
    CASE kind = "vector" -> VectorM!TypeOK
      [] kind = "list" -> ListM!TypeOK
      [] kind = "forward" -> ForwardM!TypeOK
      [] kind = "stack" -> StackM!TypeOK
      [] kind = "fixed" -> FixedM!TypeOK
      [] kind = "dynamic" -> DynamicM!TypeOK
      [] kind = "ring" -> RingM!TypeOK
      [] kind = "probing" -> ProbingM!TypeOK
      [] kind = "chained" -> ChainedM!TypeOK
      [] kind = "lru" -> LruM!TypeOK
      [] kind = "heap" -> HeapM!TypeOK
      [] kind = "arena" -> ArenaM!TypeOK

Returned == life' # "undefined"

(* The items of obj and of other, as clients see them. *)
Items ==
    CASE kind = "vector" -> VectorM!Contents
      [] kind = "list" -> ListM!Contents
      [] kind = "forward" -> obj.nodes
      [] kind = "stack" -> StackM!Contents(obj)
      [] kind \in {"fixed", "dynamic"} -> obj.list
      [] kind = "ring" -> RingM!Contents
      [] OTHER -> <<>>

OtherItems ==
    CASE kind = "vector" -> Realloc(other.buffer, other.size)
      [] kind = "forward" -> other.nodes
      [] kind = "stack" -> StackM!Contents(other)
      [] kind \in {"fixed", "dynamic"} -> other.list
      [] OTHER -> <<>>

Seq0 == INSTANCE SequenceSpec WITH items <- Items, others <- OtherItems

(* A vector that is not cut short by a resize is a sequence.  Left out are    *)
(* the calls whose answers are not the header's: a find_if answered from past *)
(* the end; front of an empty vector, which answers the word in the first     *)
(* slot, where vector.h:112-113 promises NULL; at, where it does not answer   *)
(* NULL: a slot's address, where vector.h:75-76 promises the element; and an  *)
(* iterator past the end.                                                     *)
VectorImplementsSequence ==
    [][kind = "vector" /\ Returned /\ VectorM!InBounds /\ VectorM!InBounds'
         /\ (last'.op = "find_if" => last'.answer \in Range(Items) \cup {Null})
         /\ ~(last'.op = "front" /\ Items = <<>>)
         /\ (last'.op = "at" => last'.answer = Null)
       => [Seq0!Next]_(Seq0!vars)]_allVars

(* The links of the doubly linked list agree in both directions. *)
ListLinksMatch == kind = "list" => ListM!LinksMatch

(* The doubly linked list is a sequence: what is pushed, inserted, popped,    *)
(* found and removed at its pointers is what the sequence gives.             *)
ListImplementsSequence ==
    [][kind = "list" /\ Returned => [Seq0!Next]_(Seq0!vars)]_allVars

(* A ring with no more elements than slots, and a forward list whose counter  *)
(* is its length. *)
Regular ==
    CASE kind = "ring" -> obj.size <= Capacity
      [] kind = "forward" -> obj.size = Len(obj.nodes) /\ other.size = Len(other.nodes)
      [] OTHER -> kind \in {"fixed", "dynamic", "stack"}

(* The queues, the stack, the ring while it is not overfull and the forward   *)
(* list until calloc fails are sequences, except that remove_if of a forward  *)
(* list whose head matches stops after the heads.                            *)
QueuesImplementSequence ==
    [][Regular /\ Regular' /\ Returned
         /\ ~(last'.op = "remove_if" /\ Items # <<>> /\ Head(Items) \in last'.arg)
       => [Seq0!Next]_(Seq0!vars)]_allVars

-----------------------------------------------------------------------------
(* In a table with linear probing every key can be reached from its home,    *)
(* every probe ends, and the inserts that erase makes never rehash.          *)
ProbingKeysReachable ==
    kind = "probing" => ProbingM!Reachable /\ ProbingM!NoNestedRehash

Mapped ==
    CASE kind = "probing" -> [k \in Keys |-> ProbingM!Find(obj, k)]
      [] kind = "chained" -> [k \in Keys |-> IF k \in ChainedKeys THEN ChainedM!Lookup(obj, k) ELSE Null]
      [] OTHER -> [k \in Keys |-> Null]

OtherMapped ==
    [k \in Keys |-> IF kind = "chained" /\ k \in ChainedKeys THEN ChainedM!Lookup(other, k) ELSE Null]

Map == INSTANCE MapSpec WITH map <- Mapped, others <- OtherMapped

(* One node for each key, in both tables. *)
KeysOnce ==
    \/ kind = "chained" /\ ChainedM!IsExact(obj) /\ ChainedM!IsExact(other)
    \/ kind = "probing" /\ ProbingM!KeysOnce

(* As long as clients insert absent keys only both tables are maps: a lookup  *)
(* answers what was inserted, through growth, swaps and the moves of erase.   *)
(* A present key that is inserted again has two nodes.                       *)
TablesImplementMap ==
    [][KeysOnce /\ KeysOnce' /\ Returned => [Map!Next]_(Map!vars)]_allVars

-----------------------------------------------------------------------------
(* No slot of the cache's table leads to a node that has been freed, and a    *)
(* get never answers a value that a later put has replaced, collisions or    *)
(* not.                                                                      *)
LruSlotsLive == kind = "lru" => LruM!SlotsLive

Lru == INSTANCE LruSpec
    WITH entries <- IF kind = "lru" THEN LruM!Entries ELSE <<>>

(* As long as no collision displaces a node the cache evicts the entry least  *)
(* recently put or got.                                                      *)
CacheImplementsLru ==
    [][kind = "lru" /\ Returned /\ LruM!NoneDisplaced(obj) /\ LruM!NoneDisplaced(obj')
       => [Lru!Next]_(Lru!vars)]_allVars

(* How often each item is in the priority queue, and how many are. *)
Held == IF kind = "heap" THEN HeapM!Contents ELSE [x \in Priorities |-> 0]
HeldCount == IF kind = "heap" THEN obj.size ELSE 0

Pool == INSTANCE PoolSpec WITH held <- Held, count <- HeldCount, Items <- Priorities

(* The priority queue loses no item and makes none up, through every          *)
(* exchange and every growth.                                                *)
HeapKeepsItems ==
    [][kind = "heap" /\ Returned => [Pool!Next]_(Pool!vars)]_allVars

(* The thread that called erase on a table with linear probing keeps running. *)
ProbingSpec == Init /\ kind = "probing" /\ [][Next]_allVars /\ WF_(ProbingM!vars)(ProbingM!EraseTurn)

(* Every erase returns, as its documentation says it does: true if the key    *)
(* was there and false otherwise.                                            *)
EveryEraseReturns == ProbingM!EveryEraseReturns

Symmetry == Permutations(Elements)
=============================================================================
