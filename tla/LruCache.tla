------------------------------- MODULE LruCache -------------------------------
(***************************************************************************)
(* lru_cache.h: a doubly linked list of nodes, most recently used first,   *)
(* and a table with one slot for each hash.  Two keys with one hash share  *)
(* the slot: a put of one takes it from the other, whose node stays in the *)
(* list; and the eviction of a node clears the slot of its hash, whoever   *)
(* has it.                                                                 *)
(***************************************************************************)
EXTENDS SequentialClient, Functions, FiniteSets

CONSTANTS Keys,
          Elements,  \* the value pointers clients put
          Capacity,  \* of the cache
          Hash       \* *key % CAP_HASH_SIZE for each key, which is not negative

VARIABLE cache  \* [table, nodes, head, tail, size] and a history: latest

vars == <<cache, clientVars>>

(* As many addresses as the cache can hold nodes. *)
Addresses == 1..Capacity
Hashes == {Hash[k] : k \in Keys}

(* cap_lru_cache_init.  A free address has no node; `latest` is the value    *)
(* each key was last put with.                                               *)
Init ==
    /\ ClientInit
    /\ other = Null
    /\ cache = [table |-> [h \in Hashes |-> Null], nodes |-> [n \in Addresses |-> Null],
                head |-> Null, tail |-> Null, size |-> 0, latest |-> [k \in Keys |-> Null]]

Node(k, x) == [key |-> k, value |-> x, prev |-> Null, next |-> Null]

SetPrev(c, n, m) == IF n = Null THEN c ELSE [c EXCEPT !.nodes[n].prev = m]
SetNext(c, n, m) == IF n = Null THEN c ELSE [c EXCEPT !.nodes[n].next = m]

(* The node n before the head, as in move_to_head and in put. *)
AtHead(c, n) ==
    LET linked == SetPrev(SetNext([c EXCEPT !.nodes[n].prev = Null], n, c.head), c.head, n)
    IN  [linked EXCEPT !.head = n, !.tail = IF @ = Null THEN n ELSE @]

(* Variant of move_to_head that leaves the list as it is. *)
StayInPlace(c, n) == c

(* move_to_head *)
MoveToHead(c, n) ==
    LET prev == c.nodes[n].prev
        next == c.nodes[n].next
        unlinked == SetPrev(SetNext(c, prev, next), next, prev)
    IN  IF n = c.head THEN c
        ELSE AtHead([unlinked EXCEPT !.tail = IF n = @ THEN prev ELSE @], n)

(* Variant of remove_tail that leaves the table as it is. *)
RemoveTailKeepSlot(c) ==
    LET n == c.tail
        prev == c.nodes[n].prev
        unlinked == SetNext([c EXCEPT !.tail = prev, !.head = IF prev = Null THEN Null ELSE @],
                            prev, Null)
    IN  IF n = Null THEN c
        ELSE [unlinked EXCEPT !.nodes[n] = Null, !.size = @ - 1]

(* remove_tail *)
RemoveTail(c) ==
    LET n == c.tail
        prev == c.nodes[n].prev
        unlinked == SetNext([c EXCEPT !.tail = prev, !.head = IF prev = Null THEN Null ELSE @],
                            prev, Null)
    IN  IF n = Null THEN c
        ELSE [unlinked EXCEPT !.table[Hash[c.nodes[n].key]] = Null,
                              !.nodes[n] = Null,
                              !.size = @ - 1]

Slot(k) == cache.table[Hash[k]]
IsHit(k) == Slot(k) # Null /\ cache.nodes[Slot(k)].key = k

(* cap_lru_cache_get *)
Get(k) ==
    IF IsHit(k) THEN /\ Did("get", k, cache.nodes[Slot(k)].value)
                     /\ cache' = MoveToHead(cache, Slot(k))
    ELSE Did("get", k, Null) /\ UNCHANGED cache

(* cap_lru_cache_put with the key in its slot. *)
PutHit(k, x) ==
    /\ IsHit(k)
    /\ Did("put", <<k, x>>, Null)
    /\ cache' = MoveToHead([cache EXCEPT !.nodes[Slot(k)].value = x, !.latest[k] = x], Slot(k))

(* cap_lru_cache_put otherwise, and create_node, which does not look at      *)
(* malloc's answer.                                                          *)
PutMiss(k, x) ==
    LET room == IF cache.size = Capacity THEN RemoveTail(cache) ELSE cache
        n == CHOOSE a \in Addresses : room.nodes[a] = Null
    IN  /\ ~IsHit(k)
        /\ \/ MallocMayFail /\ Breaks("put", <<k, x>>) /\ UNCHANGED cache
           \/ /\ Did("put", <<k, x>>, Null)
              /\ cache' = [AtHead([room EXCEPT !.nodes[n] = Node(k, x)], n)
                              EXCEPT !.table[Hash[k]] = n, !.size = @ + 1, !.latest[k] = x]

(* cap_lru_cache_free *)
Free == Frees("free") /\ UNCHANGED cache

Next ==
    \/ \E k \in Keys : Get(k) \/ \E x \in Elements : PutHit(k, x) \/ PutMiss(k, x)
    \/ Free

-----------------------------------------------------------------------------
Links == Addresses \cup {Null}

TypeOK ==
    /\ cache.table \in [Hashes -> Links]
    /\ cache.nodes \in [Addresses -> [key : Keys, value : Elements, prev : Links, next : Links]
                                         \cup {Null}]
    /\ {cache.head, cache.tail} \subseteq Links
    /\ cache.size \in 0..Capacity
    /\ life \in Lives

(* The addresses from the head on. *)
List ==
    LET steps == 0..Capacity
        at[i \in steps] ==
            IF i = 0 THEN cache.head
            ELSE IF at[i - 1] = Null THEN Null ELSE cache.nodes[at[i - 1]].next
        length == Cardinality({i \in steps : at[i] # Null})
    IN  [i \in 1..length |-> at[i - 1]]

(* A slot of the table leads to a node of the list, with a key of that hash;  *)
(* the size is the length of the list; and the value of the node a get would  *)
(* answer from is the last one its key was put with, although an older node   *)
(* of the key may still be in the list.                                       *)
SlotsLive ==
    /\ Len(List) = cache.size
    /\ \A h \in Hashes :
        LET n == cache.table[h]
        IN  n # Null =>
                /\ n \in Range(List)
                /\ Hash[cache.nodes[n].key] = h
                /\ cache.nodes[n].value = cache.latest[cache.nodes[n].key]

(* Every node of the list is in the slot of its hash: no two of its keys      *)
(* collide, and no collision has happened since they were put.                *)
NoneDisplaced(c) ==
    \A n \in Addresses : c.nodes[n] # Null => c.table[Hash[c.nodes[n].key]] = n

Entries == [i \in DOMAIN List |-> <<cache.nodes[List[i]].key, cache.nodes[List[i]].value>>]
=============================================================================
