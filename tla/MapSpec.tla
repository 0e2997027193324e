-------------------------------- MODULE MapSpec --------------------------------
(***************************************************************************)
(* What the hash tables promise a single client: a map from keys to        *)
(* elements, whose calls answer from the map only.  No bucket, probe,      *)
(* chain or hash is left.                                                  *)
(***************************************************************************)
EXTENDS CapValues, FiniteSets

CONSTANTS Keys, Elements

VARIABLES map,     \* the element of each key, or Null
          others,  \* the map of a second table
          last     \* the last call and its answer

vars == <<map, others, last>>

EmptyMap == [k \in Keys |-> Null]

Init ==
    /\ map = EmptyMap
    /\ others = EmptyMap
    /\ last = [op |-> "init", arg |-> Null, answer |-> Null]

Present == {k \in Keys : map[k] # Null}

Truth(b) == IF b THEN CTrue ELSE CFalse

Call(op, arg, answer, new) ==
    /\ last'.op = op /\ last'.arg = arg
    /\ last' = [op |-> op, arg |-> arg, answer |-> answer]
    /\ map' = new
    /\ UNCHANGED others

Insert(k, x) == Call("insert", <<k, x>>, Null, [map EXCEPT ![k] = x])

OfKey(k) ==
    \/ Call("lookup", k, map[k], map)
    \/ Call("contains", k, Truth(k \in Present), map)
    \/ \E op \in {"erase", "deep_erase"} :
        Call(op, k, Truth(k \in Present), [map EXCEPT ![k] = Null])

Measure ==
    \/ Call("size", Null, Cardinality(Present), map)
    \/ Call("empty", Null, Truth(Present = {}), map)

Swap ==
    /\ map' = others
    /\ others' = map
    /\ last' = [op |-> "swap", arg |-> Null, answer |-> Null]

(* Calls about memory, and a call that has not come back yet. *)
Keep == last' # last /\ last'.op \in {"memory", "free"} /\ UNCHANGED <<map, others>>

Next ==
    \/ \E k \in Keys : OfKey(k) \/ \E x \in Elements : Insert(k, x)
    \/ Measure \/ Swap \/ Keep

Spec == Init /\ [][Next]_vars
=============================================================================
