------------------------------ MODULE OrderedMap ------------------------------
(***************************************************************************)
(* What the ordered map promises a program with one thread: a finite map   *)
(* from keys to values.  Of a call that is made and not yet in effect it   *)
(* keeps only that; no levels, links or nodes are left.                    *)
(***************************************************************************)
EXTENDS CapValues, FiniteSets

CONSTANTS Keys,
          Requests  \* the calls programs make, records with a `name`

VARIABLES map,      \* the value of each key, or Null
          exists,   \* the program holds a map: created and not freed
          phase,    \* idle, called (not in effect yet) or done
          request,  \* the call the program is in
          answer    \* its result, from when it takes effect

vars == <<map, exists, phase, request, answer>>

NoRequest == [name |-> "none"]

Present == {k \in Keys : map[k] # Null}

EmptyMap == [k \in Keys |-> Null]

(* The codes insert and remove answer. *)
Success == 0
Failure == -1

Init ==
    /\ map = EmptyMap
    /\ exists = FALSE
    /\ phase = "idle"
    /\ request = NoRequest
    /\ answer = Null

Create ==
    /\ ~exists
    /\ phase = "idle"
    /\ exists' = TRUE
    /\ map' = EmptyMap
    /\ UNCHANGED <<phase, request, answer>>

Call(r) ==
    /\ exists
    /\ phase = "idle"
    /\ phase' = "called"
    /\ request' = r
    /\ UNCHANGED <<map, exists, answer>>

TakesEffect(name, value) ==
    /\ phase = "called"
    /\ request.name = name
    /\ phase' = "done"
    /\ answer' = value
    /\ UNCHANGED request

(* insert sets the value of a key, present or absent; it may run out of     *)
(* memory, and then changes nothing.                                        *)
Insert ==
    /\ \/ /\ TakesEffect("insert", Success)
          /\ map' = [map EXCEPT ![request.key] = request.value]
       \/ /\ TakesEffect("insert", Failure)
          /\ UNCHANGED map
    /\ UNCHANGED exists

Remove ==
    /\ \/ /\ TakesEffect("remove", Success)
          /\ request.key \in Present
       \/ /\ TakesEffect("remove", Failure)
          /\ request.key \notin Present
    /\ map' = [map EXCEPT ![request.key] = Null]
    /\ UNCHANGED exists

Truth(b) == IF b THEN CTrue ELSE CFalse

(* The least key, or Null: where the iterations start. *)
Least == IF Present = {} THEN Null
         ELSE CHOOSE k \in Present : \A j \in Present : k <= j

Look ==
    /\ \/ TakesEffect("find", map[request.key])
       \/ TakesEffect("contains", Truth(request.key \in Present))
       \/ TakesEffect("size", Cardinality(Present))
       \/ TakesEffect("empty", Truth(Present = {}))
       \/ TakesEffect("front", Least)
    /\ UNCHANGED <<map, exists>>

Free ==
    /\ TakesEffect("free", Null) \/ TakesEffect("deep_free", Null)
    /\ exists' = FALSE
    /\ map' = EmptyMap

Return ==
    /\ phase = "done"
    /\ phase' = "idle"
    /\ request' = NoRequest
    /\ answer' = Null
    /\ UNCHANGED <<map, exists>>

Next ==
    \/ Create
    \/ \E r \in Requests : Call(r)
    \/ Insert \/ Remove \/ Look \/ Free
    \/ Return

Spec == Init /\ [][Next]_vars
=============================================================================
