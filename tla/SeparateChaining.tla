---------------------------- MODULE SeparateChaining ----------------------------
(***************************************************************************)
(* hash_table_separate_chaining.h: the chained hash table without a mutex. *)
(* Its functions make of a table what those of the concurrent header do    *)
(* (ChainedTable), with two differences: a node holds the client's key     *)
(* pointer, not a copy, and free and deep_free start at bucket 1.          *)
(***************************************************************************)
EXTENDS ChainedTable, SequentialClient

CONSTANTS InitialCapacity,
          MaxNodes          \* a bound on the nodes of the two tables, for TLC

VARIABLE chained  \* a table of ChainedTable

vars == <<chained, clientVars>>

Init == ClientInit /\ chained = NewTable(InitialCapacity) /\ other = NewTable(1)

(* One node for each key, and all counted.  An insert of a present key adds a *)
(* node that is not counted; after an erase of it the size is still too low. *)
IsExact(t) ==
    LET nodes == AllNodes(t)
    IN  IsInjective([i \in DOMAIN nodes |-> nodes[i].key]) /\ t.size = Len(nodes)

(* cap_hash_table_insert, with the growth before it.  A bound on the clients: *)
(* one of two keys with two nodes is there at a time.                        *)
InsertKey(k, x) ==
    /\ HasKey(chained, k) => IsExact(chained) /\ IsExact(other)
    /\ Len(AllNodes(chained)) + Len(AllNodes(other)) < MaxNodes
    /\ Did("insert", <<k, x>>, Null)
    /\ chained' = Insert(chained, k, x)

(* Two nodes of a key have one element: when it is freed with the first node, *)
(* the next look at the second is a use after free.                          *)
Shared(k) == Len(SelectSeq(AllNodes(chained), LAMBDA node : node.key = k)) > 1

(* cap_hash_table_erase *)
EraseKey(k) ==
    /\ Did("erase", k, Bool(HasKey(chained, k)))
    /\ chained' = Erase(chained, k)

(* cap_hash_table_deep_erase frees the key and the element of the node.      *)
DeepEraseKey(k) ==
    IF Shared(k) THEN Breaks("deep_erase", k) /\ UNCHANGED chained
    ELSE /\ Did("deep_erase", k, Bool(HasKey(chained, k)))
         /\ chained' = Erase(chained, k)

LookupKey(k) == Did("lookup", k, Lookup(chained, k)) /\ UNCHANGED chained

ContainsKey(k) == Did("contains", k, Bool(HasKey(chained, k))) /\ UNCHANGED chained

Measure ==
    /\ \/ Did("size", Null, chained.size)
       \/ Did("empty", Null, Bool(chained.size = 0))
       \/ Did("memory", Null, chained.capacity)
    /\ UNCHANGED chained

(* cap_hash_table_swap, of all six fields. *)
Swap ==
    /\ Makes("swap", Null, Null)
    /\ chained' = other
    /\ other' = chained
    /\ UNCHANGED life

(* The buckets that cap_hash_table_free and _deep_free visit: 1 to size - 1,  *)
(* which leaves the array when the size has wrapped below 0.  _deep_free     *)
(* frees the element of each node there, that of two nodes twice.            *)
Visited == 1..(chained.size - 1)

DataDiffer ==
    LET nodes == FlattenSeq([i \in Visited |-> chained.buckets[i]])
    IN  IsInjective([i \in DOMAIN nodes |-> nodes[i].data])

Free ==
    /\ IF Visited \subseteq DOMAIN chained.buckets
       THEN Frees("free") \/ (~DataDiffer /\ Breaks("free", Null))
       ELSE Breaks("free", Null)
    /\ UNCHANGED chained

Next ==
    \/ \E k \in Keys :
        \/ \E x \in Elements : InsertKey(k, x)
        \/ EraseKey(k) \/ DeepEraseKey(k) \/ LookupKey(k) \/ ContainsKey(k)
    \/ Measure \/ Swap \/ Free

TypeOK ==
    /\ \A t \in {chained, other} :
        /\ t.size \in 0..(SizeModulus - 1)
        /\ t.buckets \in [0..(t.capacity - 1) -> Seq(Nodes)]
    /\ life \in Lives
=============================================================================
