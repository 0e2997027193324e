-------------------------------- MODULE PoolSpec --------------------------------
(***************************************************************************)
(* What the priority queue keeps of its promise: a bag.  A push puts an    *)
(* item in, a pop takes out one that is in, and none is lost or made up.   *)
(* Which one a pop takes is left open.                                     *)
(***************************************************************************)
EXTENDS CapValues

CONSTANT Items

VARIABLES held,   \* how often each item is in
          count,  \* how many are in
          last    \* the last call and its answer

vars == <<held, count, last>>

Made(op, arg, answer) == last' = [op |-> op, arg |-> arg, answer |-> answer]

None == [x \in Items |-> 0]

Init == held = None /\ count = 0 /\ last = [op |-> "init", arg |-> Null, answer |-> Null]

Push(x) ==
    \/ /\ Made("push", x, CTrue)
       /\ held' = [held EXCEPT ![x] = @ + 1]
       /\ count' = count + 1
    \/ Made("push", x, CFalse) /\ UNCHANGED <<held, count>>

Pop ==
    \/ count = 0 /\ Made("pop", Null, Null) /\ UNCHANGED <<held, count>>
    \/ \E x \in Items :
          /\ held[x] > 0
          /\ Made("pop", Null, x)
          /\ held' = [held EXCEPT ![x] = @ - 1]
          /\ count' = count - 1

Look ==
    /\ \/ Made("size", Null, count)
       \/ \E x \in Items : held[x] > 0 /\ Made("top", Null, x)
       \/ count = 0 /\ last' # last /\ last'.op = "top"
       \/ Made("free", Null, Null)
    /\ UNCHANGED <<held, count>>

Clear == Made("clear", Null, Null) /\ held' = None /\ count' = 0

Next == Pop \/ Look \/ Clear \/ \E x \in Items : Push(x)

Spec == Init /\ [][Next]_vars
=============================================================================
