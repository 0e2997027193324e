----------------------------- MODULE PriorityQueue -----------------------------
(***************************************************************************)
(* priority_queue.h: a binary heap in an array whose slot 0 is not used.   *)
(* Items are their priorities.  The array has one word for each unit of    *)
(* the capacity, so the push that reaches the capacity writes the word     *)
(* after it: that word may keep what is written, or the program may break. *)
(***************************************************************************)
EXTENDS SequentialClient, FiniteSets

CONSTANTS Items,            \* the priorities, as numbers
          InitialCapacity,  \* default_size, above 0
          MaxItems          \* a bound on the size, for TLC

VARIABLE heap  \* [slots, size]: slots 1 to capacity, the last past the array

vars == <<heap, clientVars>>

HeapCapacity == Len(heap.slots)

(* cap_priority_queue_init: malloc leaves the words as it finds them. *)
Init ==
    /\ ClientInit
    /\ other = Null
    /\ heap = [slots |-> [i \in 1..InitialCapacity |-> Garbage], size |-> 0]

Exchange(s, i, j) == [s EXCEPT ![i] = s[j], ![j] = s[i]]

(* _cap_priority_queue_swim: from the last item up, while larger than the    *)
(* parent.  A round in which the loop has ended changes nothing.             *)
Swim(s, size) ==
    LET round[n \in 0..size] ==
            IF n = 0 THEN [slots |-> s, index |-> size]
            ELSE LET t == round[n - 1].slots
                     i == round[n - 1].index
                 IN  IF i > 1 /\ t[i] > t[i \div 2]
                     THEN [slots |-> Exchange(t, i, i \div 2), index |-> i \div 2]
                     ELSE round[n - 1]
    IN  round[size].slots

(* _cap_priority_queue_sink.  The item at i goes down to 2 * i when it is     *)
(* smaller; when it is not, it is exchanged with 2 * i + 1, whichever is      *)
(* larger.  The index goes on at 2 * i in either case.                       *)
Sink(s, size) ==
    LET round[n \in 0..size] ==
            IF n = 0 THEN [slots |-> s, index |-> 1]
            ELSE LET t == round[n - 1].slots
                     i == round[n - 1].index
                     child == IF t[i] < t[2 * i] THEN 2 * i ELSE 2 * i + 1
                 IN  IF 2 * i > size THEN round[n - 1]
                     ELSE [slots |-> IF child <= size THEN Exchange(t, i, child) ELSE t,
                           index |-> 2 * i]
    IN  round[size].slots

(* _cap_priority_queue_resize: memcpy of size + 1 words to a new array. *)
Resized(s, n) == Realloc(s, n)

Push(x) ==
    /\ heap.size < MaxItems
    /\ \E ok \in Malloc :
        LET full == HeapCapacity <= heap.size
            room == IF full THEN Resized(heap.slots, 2 * HeapCapacity) ELSE heap.slots
        IN  IF full /\ ~ok THEN Did("push", x, CFalse) /\ UNCHANGED heap
            ELSE \/ /\ Did("push", x, CTrue)
                    /\ heap' = [slots |-> Swim([room EXCEPT ![heap.size + 1] = x], heap.size + 1),
                                size |-> heap.size + 1]
                 \/ /\ heap.size + 1 = Len(room)
                    /\ Breaks("push", x)
                    /\ UNCHANGED heap

(* Variant of pop that reads the slot after the last. *)
PopBeyond ==
    IF heap.size < 1 THEN Did("pop", Null, Null) /\ UNCHANGED heap
    ELSE LET n == heap.size - 1
             moved == [heap.slots EXCEPT ![1] = heap.slots[IF n = 0 THEN 1 ELSE n]]
         IN  Did("pop", Null, heap.slots[1]) /\ heap' = [slots |-> Sink(moved, n), size |-> n]

Pop ==
    IF heap.size < 1 THEN Did("pop", Null, Null) /\ UNCHANGED heap
    ELSE LET moved == [heap.slots EXCEPT ![1] = heap.slots[heap.size]]
         IN  /\ Did("pop", Null, heap.slots[1])
             /\ heap' = [slots |-> Sink(moved, heap.size - 1), size |-> heap.size - 1]

(* cap_priority_queue_top does not ask whether there is an item. *)
Look ==
    /\ Did("top", Null, heap.slots[1]) \/ Did("size", Null, heap.size)
    /\ UNCHANGED heap

Free == Frees("free") /\ UNCHANGED heap

Clear == Did("clear", Null, Null) /\ heap' = [heap EXCEPT !.size = 0]

Next == (\E x \in Items : Push(x)) \/ Pop \/ Look \/ Free \/ Clear

Spec == Init /\ [][Next]_vars

-----------------------------------------------------------------------------
TypeOK ==
    /\ heap.slots \in Seq(Items \cup {Garbage})
    /\ heap.size \in 0..HeapCapacity
    /\ life \in Lives

(* How often each item is between slot 1 and the last. *)
Contents == [x \in Items |-> Cardinality({i \in 1..heap.size : heap.slots[i] = x})]

(* A pop answers an item that no other in the queue exceeds: "the one with    *)
(* the highest priority".                                                    *)
PopsTheHighest ==
    [][last'.op = "pop" /\ heap.size > 0 =>
          \A i \in 1..heap.size : last'.answer >= heap.slots[i]]_vars
=============================================================================
