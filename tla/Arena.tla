--------------------------------- MODULE Arena ---------------------------------
(***************************************************************************)
(* arena_allocator.h: a block of Total bytes handed out from its start on. *)
(* cap_arena_alloc answers the address after the bytes it has counted.     *)
(***************************************************************************)
EXTENDS SequentialClient

CONSTANTS Total,       \* init_size
          Sizes,       \* what clients ask for
          SizeModulus  \* the number of values of a size_t

VARIABLE arena  \* [current, given]; given is a history of [answer, size] records

vars == <<arena, clientVars>>

(* cap_arena_allocator_init *)
Init ==
    /\ ClientInit
    /\ other = Null
    /\ arena = [current |-> 0, given |-> {}]

(* Variant whose test allows one byte too many. *)
FitsOneMore(size) == (arena.current + size) % SizeModulus <= Total + 1

(* The sum is a size_t, which may wrap. *)
Fits(size) == (arena.current + size) % SizeModulus <= Total

(* cap_arena_alloc *)
Alloc(size) ==
    LET sum == (arena.current + size) % SizeModulus
    IN  IF ~Fits(size) THEN Did("alloc", size, Null) /\ UNCHANGED arena
        ELSE /\ Did("alloc", size, sum)
             /\ arena' = [current |-> sum,
                          given |-> arena.given \cup {[answer |-> sum, size |-> size]}]

(* cap_arena_reset: what was given may be given again. *)
Reset == Did("reset", Null, Null) /\ arena' = [current |-> 0, given |-> {}]

Look ==
    /\ \/ Did("size", Null, arena.current)
       \/ Did("remaining_size", Null, (Total - arena.current) % SizeModulus)
       \/ Did("capacity", Null, Total)
    /\ UNCHANGED arena

Free == Frees("free") /\ UNCHANGED arena

Next == (\E size \in Sizes : Alloc(size)) \/ Reset \/ Look \/ Free

Spec == Init /\ [][Next]_vars

-----------------------------------------------------------------------------
TypeOK ==
    /\ arena.current \in 0..Total
    /\ arena.given \subseteq [answer : 0..Total, size : 0..(SizeModulus - 1)]
    /\ life \in Lives

(***************************************************************************)
(* An answer points "to the start of the buffer" (:50), "which can hold    *)
(* the given size" (:42): since the last reset the buffers are parts of    *)
(* the arena that do not overlap.                                          *)
(***************************************************************************)
BuffersInside ==
    \A g, h \in arena.given :
        /\ g.answer + g.size <= Total
        /\ g # h => g.answer + g.size <= h.answer \/ h.answer + h.size <= g.answer
=============================================================================
