------------------------------ MODULE ArrayStack ------------------------------
(***************************************************************************)
(* stack.h: the stack without a mutex, on an array that doubles.           *)
(***************************************************************************)
EXTENDS SequentialClient

CONSTANTS Elements,         \* the pointers clients push
          InitialCapacity,  \* CAP_STACK_INITIAL_SIZE
          MaxElements       \* a bound on the two stacks, for TLC

VARIABLE stack  \* [buffer, size]; the capacity is the length of the buffer

vars == <<stack, clientVars>>

(* cap_stack_init and _cap_vector_init, with calloc. *)
New == [buffer |-> [i \in 1..InitialCapacity |-> Null], size |-> 0]

Init == ClientInit /\ stack = New /\ other = New

(* _cap_vector_reserve, with a realloc that gives the block. *)
Reserve(s) == [s EXCEPT !.buffer = Realloc(@, 2 * Len(@))]

(* cap_stack_push and _cap_vector_push_back *)
Push(x) ==
    /\ stack.size + other.size < MaxElements
    /\ \E ok \in Malloc :
        LET full == Len(stack.buffer) <= stack.size
            room == IF full THEN Reserve(stack) ELSE stack
        IN  IF full /\ ~ok THEN Did("push_back", x, CFalse) /\ UNCHANGED stack
            ELSE /\ Did("push_back", x, CTrue)
                 /\ stack' = [room EXCEPT !.buffer[stack.size + 1] = x, !.size = @ + 1]

(* cap_stack_pop and _cap_vector_pop_back: the word stays in its slot. *)
Pop ==
    IF stack.size <= 0 THEN Did("pop_back", Null, Null) /\ UNCHANGED stack
    ELSE /\ Did("pop_back", Null, stack.buffer[stack.size])
         /\ stack' = [stack EXCEPT !.size = @ - 1]

(* cap_stack_top, _cap_vector_back, cap_stack_size and cap_stack_empty. *)
Look ==
    /\ \/ Did("back", Null, IF stack.size = 0 THEN Null ELSE stack.buffer[stack.size])
       \/ Did("size", Null, stack.size)
       \/ Did("empty", Null, Bool(stack.size = 0))
    /\ UNCHANGED stack

(* cap_stack_swap exchanges the arrays. *)
Swap ==
    /\ Makes("swap", Null, Null)
    /\ stack' = other
    /\ other' = stack
    /\ UNCHANGED life

Next ==
    \/ \E x \in Elements : Push(x)
    \/ Pop \/ Look \/ Swap

TypeOK ==
    /\ {stack, other} \subseteq [buffer : Seq(Elements \cup {Null, Garbage}), size : Nat]
    /\ stack.size <= Len(stack.buffer)
    /\ life \in Lives

Contents(s) == SubSeq(s.buffer, 1, s.size)
=============================================================================
