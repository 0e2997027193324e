----------------------------- MODULE LinearProbing -----------------------------
(***************************************************************************)
(* hash_table_linear_probing.h: the open-addressed hash table.  A bucket   *)
(* is a [key, value] pair or Null, and a key is probed for from its home   *)
(* bucket on.  erase's first loop is a step of its own, because its index  *)
(* never advances.                                                         *)
(***************************************************************************)
EXTENDS SequentialClient, FiniteSetsExt

CONSTANTS Keys,
          Elements,         \* the value pointers clients insert
          Hash,             \* the number hash_fn gives for each key
          InitialCapacity,  \* CAP_HASHTABLE_LP_INIT_SIZE
          MaxNodes          \* a bound on the nodes, for TLC

VARIABLE probing  \* [size, capacity, buckets, erasing]

vars == <<probing, clientVars>>

Empty(capacity) == [i \in 0..(capacity - 1) |-> Null]

(* cap_lp_hash_table_init, with calloc. *)
Init ==
    /\ ClientInit
    /\ other = Null
    /\ probing = [size |-> 0, capacity |-> InitialCapacity,
                  buckets |-> Empty(InitialCapacity), erasing |-> Null]

Home(t, k) == Hash[k] % t.capacity

(* How many buckets after the home of k the first bucket of `places` is.      *)
Distance(t, k, places) ==
    Min({(i - Home(t, k) + t.capacity) % t.capacity : i \in places})

EmptyPlaces(t) == {i \in DOMAIN t.buckets : t.buckets[i] = Null}
KeyPlaces(t, k) == {i \in DOMAIN t.buckets : t.buckets[i] # Null /\ t.buckets[i].key = k}

(* Both loops of the header end at an empty bucket. *)
EndOfProbe(t, k) == (Home(t, k) + Distance(t, k, EmptyPlaces(t))) % t.capacity

(* cap_lp_hash_table_insert below its load test: no look for the key. *)
Place(t, node) ==
    [t EXCEPT !.buckets[EndOfProbe(t, node.key)] = node, !.size = @ + 1]

(* The load test: more than half of the buckets. *)
IsLoaded(t) == t.size > 0 /\ 2 * t.size > t.capacity

(* _cap_lp_hash_table_rehash: twice the buckets, filled in bucket order.      *)
(* The load test of its inserts is false: at most half of the new is used.   *)
Rehash(t) ==
    LET filled[n \in 0..t.capacity] ==
            IF n = 0 THEN [size |-> 0, capacity |-> 2 * t.capacity,
                           buckets |-> Empty(2 * t.capacity), erasing |-> t.erasing]
            ELSE IF t.buckets[n - 1] = Null THEN filled[n - 1]
            ELSE Place(filled[n - 1], t.buckets[n - 1])
    IN  filled[t.capacity]

Insert(k, x) ==
    /\ probing.erasing = Null
    /\ probing.size < MaxNodes
    /\ Did("insert", <<k, x>>, Null)
    /\ probing' = Place(IF IsLoaded(probing) THEN Rehash(probing) ELSE probing,
                        [key |-> k, value |-> x])

(* cap_lp_hash_table_lookup: the first node with the key before an empty     *)
(* bucket.                                                                   *)
Find(t, k) ==
    LET places == KeyPlaces(t, k)
        d == IF places = {} THEN t.capacity ELSE Distance(t, k, places)
    IN  IF d < Distance(t, k, EmptyPlaces(t))
        THEN t.buckets[(Home(t, k) + d) % t.capacity].value ELSE Null

Look ==
    /\ probing.erasing = Null
    /\ \/ \E k \in Keys : \/ Did("lookup", k, Find(probing, k))
                          \/ Did("contains", k, Bool(Find(probing, k) # Null))
       \/ Did("size", Null, probing.size)
       \/ Did("empty", Null, Bool(probing.size = 0))
    /\ UNCHANGED probing

(* The nodes after place i, up to an empty bucket, taken out and put back one *)
(* by one; the load test of these inserts is false, as NoNestedRehash says.  *)
PutBack(t, i) ==
    LET moved[d \in 0..(t.capacity - 1)] ==
            IF d = 0 THEN [table |-> t, moving |-> TRUE]
            ELSE LET before == moved[d - 1]
                     u == before.table
                     j == (i + d) % t.capacity
                 IN  IF before.moving /\ u.buckets[j] # Null
                     THEN [before EXCEPT
                              !.table = Place([u EXCEPT !.buckets[j] = Null, !.size = @ - 1],
                                              u.buckets[j])]
                     ELSE [before EXCEPT !.moving = FALSE]
    IN  moved[t.capacity - 1].table

(* Variant that leaves the cluster where it is. *)
RemoveOnly(t, i) == [t EXCEPT !.buckets[i] = Null, !.size = @ - 1, !.erasing = Null]

(* The second half of erase and of deep_erase. *)
TakeOut(t, i) ==
    PutBack([t EXCEPT !.buckets[i] = Null, !.size = @ - 1, !.erasing = Null], i)

BeginErase(op, k) ==
    /\ probing.erasing = Null
    /\ Did("memory", k, Null)
    /\ probing' = [probing EXCEPT !.erasing = [op |-> op, key |-> k, odd |-> FALSE]]

(* One turn of erase's first loop.  With another key in the home bucket it    *)
(* leaves everything as it is, the index included; `odd` only tells one turn  *)
(* from the next, so that each is a step.                                    *)
EraseTurn ==
    /\ probing.erasing # Null
    /\ LET k == probing.erasing.key
           i == Home(probing, k)
           node == probing.buckets[i]
       IN  \/ /\ node = Null
              /\ Did(probing.erasing.op, k, CFalse)
              /\ probing' = [probing EXCEPT !.erasing = Null]
           \/ /\ node # Null /\ node.key = k
              /\ Did(probing.erasing.op, k, CTrue)
              /\ probing' = TakeOut(probing, i)
           \/ /\ node # Null /\ node.key # k
              /\ life = "alive"
              /\ probing' = [probing EXCEPT !.erasing.odd = ~@]
              /\ UNCHANGED clientVars

(* cap_lp_hash_table_free; cap_lp_hash_table_deep_free frees the keys and    *)
(* the values, but neither the buckets nor the table.  A value of two nodes  *)
(* is freed twice.                                                           *)
ValuesDiffer ==
    LET nodes == {i \in DOMAIN probing.buckets : probing.buckets[i] # Null}
    IN  IsInjective([i \in nodes |-> probing.buckets[i].value])

Free ==
    /\ probing.erasing = Null
    /\ Frees("free") \/ (~ValuesDiffer /\ Breaks("free", Null))
    /\ UNCHANGED probing

Next ==
    \/ \E k \in Keys :
        \/ \E x \in Elements : Insert(k, x)
        \/ \E op \in {"erase", "deep_erase"} : BeginErase(op, k)
    \/ EraseTurn \/ Look \/ Free

Spec == Init /\ [][Next]_vars

-----------------------------------------------------------------------------
(* Every key has one node at most, as when clients insert absent keys only.  *)
KeysOnce ==
    \A i, j \in DOMAIN probing.buckets \ EmptyPlaces(probing) :
        probing.buckets[i].key = probing.buckets[j].key => i = j

TypeOK ==
    /\ probing.buckets \in [0..(probing.capacity - 1) ->
                              [key : Keys, value : Elements] \cup {Null}]
    /\ probing.size = probing.capacity - Cardinality(EmptyPlaces(probing))
    /\ life \in Lives

(* Every node can be reached from the home of its key without passing an     *)
(* empty bucket, and there is an empty bucket to end every probe.  A growth   *)
(* moves all nodes, and an erase those behind the hole.                      *)
Reachable ==
    /\ EmptyPlaces(probing) # {}
    /\ \A i \in DOMAIN probing.buckets :
        LET node == probing.buckets[i]
        IN  node # Null =>
                Distance(probing, node.key, {i})
                    < Distance(probing, node.key, EmptyPlaces(probing))

(* While erase walks its index stays good: no insert it makes may rehash.    *)
NoNestedRehash ==
    probing.size >= 2 => 2 * (probing.size - 2) <= probing.capacity

(* Every erase returns, as its documentation says it does: true if the key    *)
(* was there and false otherwise.                                            *)
EveryEraseReturns == [](probing.erasing # Null => <>(probing.erasing = Null))
=============================================================================
