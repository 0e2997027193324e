----------------------------- MODULE CircularQueue -----------------------------
(***************************************************************************)
(* circular_queue.h: a ring of Capacity slots, pushed at tail and popped   *)
(* at head.  push does not ask whether the ring is full: it overwrites the *)
(* oldest element, and the counter goes on above the capacity.             *)
(***************************************************************************)
EXTENDS SequentialClient

CONSTANTS Elements,    \* the pointers clients push
          Capacity,    \* capacity_of_queue
          MaxElements  \* a bound on the counter, for TLC

VARIABLE ring  \* [buffer, head, tail, size], with slots 0 to Capacity - 1

vars == <<ring, clientVars>>

(* cap_circular_queue_init: malloc leaves the slots as it finds them. *)
Init ==
    /\ ClientInit
    /\ ring = [buffer |-> [i \in 0..(Capacity - 1) |-> Garbage], head |-> 0, tail |-> 0, size |-> 0]
    /\ other = Null

Push(x) ==
    /\ ring.size < MaxElements
    /\ Did("push_back", x, CTrue)
    /\ ring' = [ring EXCEPT !.buffer[ring.tail] = x,
                            !.tail = (@ + 1) % Capacity,
                            !.size = @ + 1]

Pop ==
    IF ring.size = 0 THEN Did("pop_front", Null, Null) /\ UNCHANGED ring
    ELSE /\ Did("pop_front", Null, ring.buffer[ring.head])
         /\ ring' = [ring EXCEPT !.head = (@ + 1) % Capacity, !.size = @ - 1]

Look ==
    /\ Did("size", Null, ring.size) \/ Did("memory", Null, Capacity)
    /\ UNCHANGED ring

(* The loop of cap_circular_queue_deep_free starts below head, at an index   *)
(* that is huge when head is 0, and counts up while it is not below tail.    *)
(* It does nothing, or it leaves the array.                                  *)
LoopRunsAway == ring.head = 0 \/ ring.head - 1 >= ring.tail

Free ==
    /\ Frees("free") \/ (IF LoopRunsAway THEN Breaks("free", Null) ELSE Frees("free"))
    /\ UNCHANGED ring

Next == (\E x \in Elements : Push(x)) \/ Pop \/ Look \/ Free

TypeOK ==
    /\ ring.buffer \in [0..(Capacity - 1) -> Elements \cup {Garbage}]
    /\ ring.head \in 0..(Capacity - 1)
    /\ ring.tail = (ring.head + ring.size) % Capacity
    /\ life \in Lives

(* The elements between head and tail, while the ring is not overfull. *)
Contents == [i \in 1..ring.size |-> ring.buffer[(ring.head + i - 1) % Capacity]]
=============================================================================
