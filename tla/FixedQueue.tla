------------------------------ MODULE FixedQueue ------------------------------
(***************************************************************************)
(* fixed_queue.h: the bounded queue without a mutex.  Unlike its           *)
(* concurrent counterpart it counts a push only when its list has the      *)
(* node, and a pop only when it has an element to answer.                  *)
(***************************************************************************)
EXTENDS SequentialClient, Functions

CONSTANTS Elements,      \* the pointers clients push
          Capacity,      \* initial_size
          OtherCapacity  \* of the second queue

VARIABLE queue  \* [list, size, capacity]

vars == <<queue, clientVars>>

(* cap_fixed_queue_init *)
New(capacity) == [list |-> ListInit, size |-> 0, capacity |-> capacity]

Init == ClientInit /\ queue = New(Capacity) /\ other = New(OtherCapacity)

Push(x) ==
    \E ok \in Malloc :
        /\ queue' = IF queue.size < queue.capacity /\ ok
                    THEN [queue EXCEPT !.list = ListPushFront(@, x), !.size = @ + 1]
                    ELSE queue
        /\ Did("push_front", x, Bool(queue.size < queue.capacity /\ ok))

(* Variant of pop that leaves the counter alone. *)
PopUncounted ==
    LET returner == ListBack(queue.list)
    IN  /\ Did("pop_back", Null, IF queue.size <= 0 THEN Null ELSE returner)
        /\ queue' = IF queue.size <= 0 THEN queue
                    ELSE [queue EXCEPT !.list = ListPopBack(@)]

Pop ==
    LET returner == ListBack(queue.list)
    IN  IF queue.size <= 0 THEN Did("pop_back", Null, Null) /\ UNCHANGED queue
        ELSE /\ Did("pop_back", Null, returner)
             /\ queue' = [queue EXCEPT !.list = ListPopBack(@),
                                       !.size = IF returner # Null THEN @ - 1 ELSE @]

(* cap_fixed_queue_front is the back of the list, the next to be popped. *)
QueueFront ==
    /\ Did("back", Null, IF queue.size <= 0 THEN Null ELSE ListBack(queue.list))
    /\ UNCHANGED queue

QueueBack ==
    /\ Did("front", Null, IF queue.size <= 0 THEN Null ELSE ListFront(queue.list))
    /\ UNCHANGED queue

Size ==
    /\ \/ Did("size", Null, queue.size)
       \/ Did("memory", Null, queue.capacity)
       \/ Did("memory", Null, queue.capacity - queue.size)
    /\ UNCHANGED queue

Swap ==
    /\ Makes("swap", Null, Null)
    /\ queue' = other
    /\ other' = queue
    /\ UNCHANGED life

(* cap_fixed_queue_free and _deep_free: their do-while frees the first node  *)
(* before it looks for the tail, which in an empty list is the tail          *)
(* sentinel, a pointer into the middle of a block.  _deep_free also frees    *)
(* each element, a repeated one twice.                                       *)
Free ==
    /\ IF queue.list = <<>> THEN Breaks("free", Null)
       ELSE Frees("free") \/ (~IsInjective(queue.list) /\ Breaks("free", Null))
    /\ UNCHANGED queue

Next ==
    \/ \E x \in Elements : Push(x)
    \/ Pop \/ QueueFront \/ QueueBack \/ Size \/ Swap \/ Free

Spec == Init /\ [][Next]_vars

TypeOK ==
    /\ {queue, other} \subseteq [list : Seq(Elements), size : Nat, capacity : {Capacity, OtherCapacity}]
    /\ life \in Lives
    /\ queue.size <= queue.capacity
=============================================================================
