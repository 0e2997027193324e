---------------------------- MODULE ConcurrentStack ----------------------------
(***************************************************************************)
(* cap_stack of concurrent_stack.h: an array with a capacity, the number   *)
(* of its slots in use, and one mutex around every operation.  The array   *)
(* doubles when a push finds it full; realloc may refuse.  The stack has   *)
(* no free operation, so once created it stays.                            *)
(***************************************************************************)
EXTENDS PthreadClients, SequencesExt

CONSTANTS Elements,         \* the pointers clients push
          MallocMayFail,    \* malloc, calloc and realloc may return NULL
          MaxElements,      \* bound: how far clients fill the stack
          InitialCapacity   \* CAP_STACK_INITIAL_SIZE

LookNames == {"top", "size", "empty"}

VARIABLES life,      \* whether there is a stack, or what ended the program
          buffer,    \* _internal_buffer: slot 1 is index 0; NULL is <<>>
          size,      \* _size: the slots in use
          capacity   \* _capacity

stackVars == <<life, buffer, size, capacity>>
vars == <<callVars, stackVars>>

(* What can end the program: a NULL pointer is dereferenced. *)
Ended == {"nullDeref"}

Calls ==
    [name : {"push"}, data : Elements] \cup [name : {"pop"} \cup LookNames]

Init ==
    /\ ClientsInit
    /\ life = "none"
    /\ buffer = <<>>
    /\ size = 0
    /\ capacity = InitialCapacity

(* cap_stack_init: the stack's own calloc is tested, the two of the vector   *)
(* are not; a stack whose buffer is NULL is handed out all the same.         *)
Create ==
    /\ life = "none"
    /\ life' = "live"
    /\ buffer' = [i \in 1..InitialCapacity |-> Null]
    /\ UNCHANGED <<callVars, size, capacity>>

CreateFails ==
    /\ MallocMayFail
    /\ life = "none"
    /\ life' \in {"none", "nullDeref", "live"}
    /\ UNCHANGED <<callVars, buffer, size, capacity>>

InFlight == {t \in Threads : op[t].name = "push"}

Call(t, c) ==
    /\ life = "live"
    /\ c.name = "push" => size + Cardinality(InFlight) < MaxElements
    /\ Invoke(t, c)
    /\ UNCHANGED stackVars

Acquire(t) ==
    /\ life = "live"
    /\ Lock(t)
    /\ UNCHANGED stackVars

-----------------------------------------------------------------------------
(* Variant of the test for room that is one too late. *)
PushRoomOneMore(t) ==
    /\ life = "live"
    /\ InBody(t, "push")
    /\ size <= capacity
    /\ Proceed(t, "rest")
    /\ UNCHANGED stackVars

(* _cap_vector_push_back: a full buffer grows or the push is refused, then   *)
(* the element is stored.                                                    *)
PushRoom(t) ==
    /\ life = "live"
    /\ InBody(t, "push")
    /\ size < capacity
    /\ Proceed(t, "rest")
    /\ UNCHANGED stackVars

(* Variant of the growth that does not carry the elements over. *)
PushGrowAfresh(t) ==
    /\ life = "live"
    /\ InBody(t, "push")
    /\ capacity <= size
    /\ capacity' = 2 * capacity
    /\ buffer' = [i \in 1..(2 * capacity) |-> Null]
    /\ Proceed(t, "rest")
    /\ UNCHANGED <<life, size>>

(* _cap_vector_reserve: the new slots hold anything, here Null. *)
PushGrow(t) ==
    /\ life = "live"
    /\ InBody(t, "push")
    /\ capacity <= size
    /\ capacity' = 2 * capacity
    /\ buffer' = [i \in 1..(2 * capacity) |-> IF i <= Len(buffer) THEN buffer[i] ELSE Null]
    /\ Proceed(t, "rest")
    /\ UNCHANGED <<life, size>>

PushRefused(t) ==
    /\ MallocMayFail
    /\ life = "live"
    /\ InBody(t, "push")
    /\ capacity <= size
    /\ Answer(t, CFalse, "unlock")
    /\ UNCHANGED stackVars

PushStore(t) ==
    /\ life = "live"
    /\ pc[t] = "rest"
    /\ IF buffer = <<>>
         THEN life' = "nullDeref" /\ UNCHANGED <<callVars, buffer, size>>
         ELSE /\ buffer' = [buffer EXCEPT ![size + 1] = op[t].data]
              /\ size' = size + 1
              /\ Answer(t, CTrue, "unlock")
              /\ UNCHANGED life
    /\ UNCHANGED capacity

(* _cap_vector_pop_back: the slot keeps what it held. *)
Pop(t) ==
    /\ life = "live"
    /\ InBody(t, "pop")
    /\ IF size = 0
         THEN Answer(t, Null, "unlock") /\ UNCHANGED size
         ELSE Answer(t, buffer[size], "unlock") /\ size' = size - 1
    /\ UNCHANGED <<life, buffer, capacity>>

Seen(name) ==
    CASE name = "top" -> IF size = 0 THEN Null ELSE buffer[size]
      [] name = "size" -> size
      [] name = "empty" -> IF size = 0 THEN CTrue ELSE CFalse

Look(t) ==
    /\ life = "live"
    /\ \E name \in LookNames : InBody(t, name) /\ Answer(t, Seen(name), "unlock")
    /\ UNCHANGED stackVars

Release(t) ==
    /\ life = "live"
    /\ Unlock(t)
    /\ UNCHANGED stackVars

Finish(t) ==
    /\ life \notin Ended
    /\ Return(t)
    /\ UNCHANGED stackVars

Next ==
    \/ Create
    \/ CreateFails
    \/ \E t \in Threads :
        \/ \E c \in Calls : Call(t, c)
        \/ Acquire(t)
        \/ PushRoom(t) \/ PushGrow(t) \/ PushRefused(t) \/ PushStore(t)
        \/ Pop(t)
        \/ Look(t)
        \/ Release(t)
        \/ Finish(t)

Spec == Init /\ [][Next]_vars

-----------------------------------------------------------------------------
(* The type of every variable. *)
TypeOK ==
    /\ pc \in [Threads -> Places]
    /\ op \in [Threads -> Calls \cup {NoCall}]
    /\ ret \in [Threads -> Elements \cup {Null} \cup Nat]
    /\ mtx \in Threads \cup {NoThread}
    /\ life \in {"none", "live"} \cup Ended
    /\ buffer \in Seq(Elements \cup {Null})
    /\ size \in Nat
    /\ capacity \in Nat \ {0}

(***************************************************************************)
(* The slots in use are inside the buffer and hold elements, and a thread  *)
(* about to store has a slot to store in, whatever the other threads did   *)
(* between its call and its turn.                                          *)
(***************************************************************************)
SlotsInUse ==
    /\ size <= Len(buffer)
    /\ \A i \in 1..size : buffer[i] \in Elements
    /\ buffer # <<>> => Len(buffer) = capacity
    /\ \A t \in Threads : pc[t] = "rest" => size < capacity

(***************************************************************************)
(* The stack is a last-in first-out sequence with atomic operations: also  *)
(* when realloc refuses, a push that answers false has changed nothing.    *)
(***************************************************************************)
Phase ==
    [t \in Threads |->
        CASE pc[t] = "idle" -> "idle"
          [] pc[t] \in {"lock", "body", "rest"} -> "called"
          [] OTHER -> "done"]

AS == INSTANCE AtomicStack WITH
        contents <- Reverse(SubSeq(buffer, 1, size)),
        exists <- life # "none",
        phase <- Phase,
        request <- op,
        answer <- ret

ImplementsAtomicStack == AS!Spec
=============================================================================
