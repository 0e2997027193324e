--------------------------- MODULE SequentialClient ---------------------------
(***************************************************************************)
(* The client of a container that has no mutex: one thread, whose calls    *)
(* are steps.  `last` records the call just made and its answer; `other`   *)
(* is a second container of the same type, there to be swapped with.       *)
(* A call that C gives no meaning to (a NULL dereference, a write past an  *)
(* allocation, a failed assert) ends what the model follows.               *)
(***************************************************************************)
EXTENDS CapValues

CONSTANTS Garbage,        \* a word nobody initialised, or past an allocation
          MallocMayFail   \* whether an allocation may answer NULL

ASSUME ClientAssumption == Garbage # Null /\ MallocMayFail \in BOOLEAN

VARIABLES other, last, life

clientVars == <<other, last, life>>

Lives == {"alive", "freed", "undefined"}

ClientInit ==
    /\ last = [op |-> "init", arg |-> Null, answer |-> Null]
    /\ life = "alive"

Makes(op, arg, answer) ==
    /\ life = "alive"
    /\ last' = [op |-> op, arg |-> arg, answer |-> answer]

(* A call that returns. *)
Did(op, arg, answer) == Makes(op, arg, answer) /\ UNCHANGED <<life, other>>

Breaks(op, arg) == Makes(op, arg, Null) /\ life' = "undefined" /\ UNCHANGED other

Frees(op) == Makes(op, Null, Null) /\ life' = "freed" /\ UNCHANGED other

(* malloc and calloc: a block, or NULL. *)
Malloc == IF MallocMayFail THEN {TRUE, FALSE} ELSE {TRUE}

(* realloc of an array of words to n words. *)
Realloc(words, n) == [i \in 1..n |-> IF i <= Len(words) THEN words[i] ELSE Garbage]

Bool(b) == IF b THEN CTrue ELSE CFalse
=============================================================================
