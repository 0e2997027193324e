----------------------------- MODULE DynamicQueue -----------------------------
(***************************************************************************)
(* dynamic_queue.h: the unbounded queue without a mutex.                   *)
(***************************************************************************)
EXTENDS SequentialClient, Functions

CONSTANTS Elements,    \* the pointers clients push
          MaxElements  \* a bound on the two queues, for TLC

VARIABLE queue  \* [list, size]

vars == <<queue, clientVars>>

(* cap_dynamic_queue_init *)
New == [list |-> ListInit, size |-> 0]

Init == ClientInit /\ queue = New /\ other = New

Push(x) ==
    \E ok \in Malloc :
        /\ Len(queue.list) + Len(other.list) < MaxElements
        /\ Did("push_front", x, Bool(ok))
        /\ queue' = IF ok THEN [list |-> ListPushFront(queue.list, x), size |-> queue.size + 1]
                    ELSE queue

Pop ==
    LET returner == ListBack(queue.list)
    IN  IF queue.size <= 0 THEN Did("pop_back", Null, Null) /\ UNCHANGED queue
        ELSE /\ Did("pop_back", Null, returner)
             /\ queue' = [list |-> ListPopBack(queue.list),
                          size |-> IF returner # Null THEN queue.size - 1 ELSE queue.size]

QueueFront ==
    /\ Did("back", Null, IF queue.size <= 0 THEN Null ELSE ListBack(queue.list))
    /\ UNCHANGED queue

(* cap_dynamic_queue_back does not test the counter: it reads the sentinel. *)
QueueBack == Did("front", Null, ListFront(queue.list)) /\ UNCHANGED queue

Size == Did("size", Null, queue.size) /\ UNCHANGED queue

Swap ==
    /\ Makes("swap", Null, Null)
    /\ queue' = other
    /\ other' = queue
    /\ UNCHANGED life

(* cap_dynamic_queue_free and _deep_free: the first node of an empty list is *)
(* the tail sentinel.  _deep_free also frees each element, a repeated one    *)
(* twice.                                                                    *)
Free ==
    /\ IF queue.list = <<>> THEN Breaks("free", Null)
       ELSE Frees("free") \/ (~IsInjective(queue.list) /\ Breaks("free", Null))
    /\ UNCHANGED queue

Next ==
    \/ \E x \in Elements : Push(x)
    \/ Pop \/ QueueFront \/ QueueBack \/ Size \/ Swap \/ Free

TypeOK ==
    /\ {queue, other} \subseteq [list : Seq(Elements), size : Nat]
    /\ life \in Lives
=============================================================================
