----------------------------- MODULE ChainedTable -----------------------------
(***************************************************************************)
(* The hash table with separate chaining of                                *)
(* concurrent_hash_table_separate_chaining.h as a value: what each internal *)
(* function makes of a table, with no threads and no mutex.  A chain is the *)
(* sequence of its nodes from _head_node on.  calloc is taken to succeed,   *)
(* and the memory a rehash leaks (the old bucket array) is not kept.        *)
(*                                                                         *)
(* In the C functions insert calls rehash and rehash calls insert.  Here   *)
(* that is unrolled twice, which is as deep as it goes: see Regrow.        *)
(***************************************************************************)
EXTENDS CapValues, SequencesExt

CONSTANTS Keys,
          Elements,    \* the value pointers clients insert
          Hash,        \* what hash_fn gives for each key
          SizeModulus  \* the number of values of a size_t

ASSUME ChainedTableAssumption ==
    /\ \A k \in Keys : Hash[k] \in Nat
    /\ Null \notin Elements
    /\ SizeModulus \in Nat \ {0}

Nodes == [key : Keys, data : Elements]

(* Variant of cap_hash_table_init with a bucket too many. *)
NewTableOneMore(capacity) ==
    [size |-> 0, capacity |-> capacity, buckets |-> [i \in 0..capacity |-> <<>>]]

(* cap_hash_table_init: one empty chain per bucket. *)
NewTable(capacity) ==
    [size |-> 0,
     capacity |-> capacity,
     buckets |-> [i \in 0..(capacity - 1) |-> <<>>]]

KeyIndex(table, key) == Hash[key] % table.capacity

Chain(table, key) == table.buckets[KeyIndex(table, key)]

(* Variant of find_if without the memcmp. *)
FindAny(chain, key) == IF chain = <<>> THEN 0 ELSE 1

(* _cap_ll_chain_find_if: the place of the first node with the key, or 0. *)
FindIf(chain, key) == SelectInSeq(chain, LAMBDA node : node.key = key)

HasKey(table, key) == FindIf(Chain(table, key), key) # 0

Lookup(table, key) ==
    LET i == FindIf(Chain(table, key), key)
    IN  IF i = 0 THEN Null ELSE Chain(table, key)[i].data

(* _cap_ll_chain_push_front: the node keeps a copy of the key. *)
PushFront(chain, key, value) == <<[key |-> key, data |-> value]>> \o chain

(* The second half of cap_hash_table_insert.  A node with the key gets the   *)
(* new data, and a new node is pushed in front of the chain in either case;  *)
(* the size only counts a key that was absent.                               *)
Store(table, key, value) ==
    LET chain == Chain(table, key)
        i == FindIf(chain, key)
        updated == IF i = 0 THEN chain ELSE [chain EXCEPT ![i].data = value]
    IN  [table EXCEPT
            !.buckets[KeyIndex(table, key)] = PushFront(updated, key, value),
            !.size = IF i = 0 THEN (@ + 1) % SizeModulus ELSE @]

(* CAP_HASHTABLE_LOAD_FACTOR *)
IsLoaded(table) == table.size = table.capacity

(* Variant of the loop that starts at bucket 1. *)
NodesWithoutBucket0(table, count) ==
    FlattenSeq([i \in 1..(count - 1) |-> table.buckets[i]])

(* The nodes of buckets 0 to count - 1, in the order a loop visits them. *)
NodesOfFirst(table, count) ==
    FlattenSeq([i \in 1..count |-> table.buckets[i - 1]])

(* The tables that the loops of a rehash make: the n-th holds the first n of  *)
(* the old table's nodes.  Prepare is what an insertion does before it stores. *)
Filled(table, Prepare(_)) ==
    LET nodes == NodesOfFirst(table, table.size)
        filled[n \in 0..Len(nodes)] ==
            IF n = 0 THEN NewTable(2 * table.capacity)
            ELSE Store(Prepare(filled[n - 1]), nodes[n].key, nodes[n].data)
    IN  filled

LastFilled(table, Prepare(_)) ==
    Filled(table, Prepare)[Len(NodesOfFirst(table, table.size))]

(* A rehash inside a rehash.  The table that it fills has twice the buckets   *)
(* that the nodes have keys, so that none of its insertions rehashes again    *)
(* (NestedGrowthEnds in ConcurrentHashTable_proofs).                         *)
Same(table) == table

Regrow(table) == IF IsLoaded(table) THEN LastFilled(table, Same) ELSE table

(* Variant of rehash that keeps the chains where they are. *)
RehashInPlace(table) ==
    [table EXCEPT
        !.capacity = 2 * @,
        !.buckets = [i \in 0..(2 * table.capacity - 1) |->
                        IF i < table.capacity THEN table.buckets[i] ELSE <<>>]]

(* _cap_hash_table_rehash: every node of buckets 0 to size - 1 is inserted,  *)
(* in chain order, in a new table of twice the capacity.                     *)
Rehash(table) == LastFilled(table, Regrow)

(* The first half of cap_hash_table_insert, with _cap_hash_table_swap. *)
Grow(table) == IF IsLoaded(table) THEN Rehash(table) ELSE table

Insert(table, key, value) == Store(Grow(table), key, value)

(* Variants of remove_if: the head of a longer chain stays linked, and the    *)
(* chain is cut where the node was.                                          *)
EraseNotTheHead(table, key) ==
    LET chain == Chain(table, key)
        i == FindIf(chain, key)
    IN  IF i = 0 THEN table
        ELSE [table EXCEPT !.buckets[KeyIndex(table, key)] =
                               IF i = 1 /\ Len(chain) > 1 THEN chain ELSE RemoveAt(chain, i),
                           !.size = (@ - 1) % SizeModulus]

EraseCutsChain(table, key) ==
    LET chain == Chain(table, key)
        i == FindIf(chain, key)
    IN  IF i = 0 THEN table
        ELSE [table EXCEPT !.buckets[KeyIndex(table, key)] = SubSeq(chain, 1, i - 1),
                           !.size = (@ - 1) % SizeModulus]

(* _cap_ll_chain_remove_if and the size of cap_hash_table_erase: the first   *)
(* node with the key goes.                                                   *)
Erase(table, key) ==
    LET chain == Chain(table, key)
        i == FindIf(chain, key)
    IN  IF i = 0 THEN table
        ELSE [table EXCEPT !.buckets[KeyIndex(table, key)] = RemoveAt(chain, i),
                           !.size = (@ - 1) % SizeModulus]

AllNodes(table) == NodesOfFirst(table, table.capacity)
=============================================================================
