-------------------------------- MODULE LruSpec --------------------------------
(***************************************************************************)
(* What a cache that evicts the least recently used entry promises: at     *)
(* most Capacity entries, most recently used first, one for each key.      *)
(***************************************************************************)
EXTENDS CapValues, SequencesExt

CONSTANTS Keys, Elements, Capacity

VARIABLES entries,  \* <<key, value>> pairs, most recently used first
          last      \* the last call and its answer

vars == <<entries, last>>

Init == entries = <<>> /\ last = [op |-> "init", arg |-> Null, answer |-> Null]

Made(op, arg, answer) == last' = [op |-> op, arg |-> arg, answer |-> answer]

Places(k) == {i \in DOMAIN entries : entries[i][1] = k}

(* A hit becomes the most recent entry. *)
GetHit(k) ==
    \E i \in Places(k) :
        /\ Made("get", k, entries[i][2])
        /\ entries' = <<entries[i]>> \o RemoveAt(entries, i)

GetMiss(k) == Places(k) = {} /\ Made("get", k, Null) /\ UNCHANGED entries

PutHit(k, x) ==
    /\ Made("put", <<k, x>>, Null)
    /\ \E i \in Places(k) : entries' = <<<<k, x>>>> \o RemoveAt(entries, i)

(* A new key drives out the least recent entry of a full cache. *)
PutMiss(k, x) ==
    /\ Places(k) = {}
    /\ Made("put", <<k, x>>, Null)
    /\ entries' = <<<<k, x>>>> \o IF Len(entries) = Capacity THEN Front(entries) ELSE entries

Free == Made("free", Null, Null) /\ UNCHANGED entries

Next ==
    \/ \E k \in Keys : GetHit(k) \/ GetMiss(k) \/ \E x \in Elements : PutHit(k, x) \/ PutMiss(k, x)
    \/ Free

Spec == Init /\ [][Next]_vars
=============================================================================
