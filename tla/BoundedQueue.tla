----------------------------- MODULE BoundedQueue -----------------------------
(***************************************************************************)
(* What the fixed queue promises its clients: a first-in first-out queue   *)
(* of at most Capacity elements, each of whose operations takes effect     *)
(* atomically at some moment between its call and its return.  No mutex,   *)
(* no list and no size counter is left: `queue` is the contents, oldest    *)
(* element first.                                                          *)
(***************************************************************************)
EXTENDS CapValues, SequencesExt

CONSTANTS Threads,
          Elements,   \* the pointers clients push
          Capacity,   \* initial_size of the queue
          CallNames   \* the operations clients use

VARIABLES queue,    \* the elements in the queue, oldest first
          exists,   \* the clients hold a queue: created and not freed
          phase,    \* idle, called (not in effect yet) or done, by thread
          request,  \* the call each thread is in
          answer    \* its result, from when it takes effect

vars == <<queue, exists, phase, request, answer>>

NoRequest == [name |-> "none"]

FreeNames == {"free", "deep_free"}

Requests ==
    [name : CallNames \cap {"push"}, data : Elements]
        \cup [name : CallNames \ {"push"}]

Init ==
    /\ queue = <<>>
    /\ exists = FALSE
    /\ phase = [t \in Threads |-> "idle"]
    /\ request = [t \in Threads |-> NoRequest]
    /\ answer = [t \in Threads |-> Null]

AllIdle == \A t \in Threads : phase[t] = "idle"

Create ==
    /\ ~exists
    /\ AllIdle
    /\ exists' = TRUE
    /\ queue' = <<>>
    /\ UNCHANGED <<phase, request, answer>>

Call(t, r) ==
    /\ exists
    /\ phase[t] = "idle"
    /\ phase' = [phase EXCEPT ![t] = "called"]
    /\ request' = [request EXCEPT ![t] = r]
    /\ UNCHANGED <<queue, exists, answer>>

TakesEffect(t, name, value) ==
    /\ phase[t] = "called"
    /\ request[t].name = name
    /\ phase' = [phase EXCEPT ![t] = "done"]
    /\ answer' = [answer EXCEPT ![t] = value]
    /\ UNCHANGED request

Push(t) ==
    \/ /\ Len(queue) < Capacity
       /\ TakesEffect(t, "push", CTrue)
       /\ queue' = Append(queue, request[t].data)
       /\ UNCHANGED exists
    \/ /\ Len(queue) = Capacity
       /\ TakesEffect(t, "push", CFalse)
       /\ UNCHANGED <<queue, exists>>

Pop(t) ==
    \/ /\ queue # <<>>
       /\ TakesEffect(t, "pop", Head(queue))
       /\ queue' = Tail(queue)
       /\ UNCHANGED exists
    \/ /\ queue = <<>>
       /\ TakesEffect(t, "pop", Null)
       /\ UNCHANGED <<queue, exists>>

(* The operations that only look. *)
Look(t) ==
    /\ \/ TakesEffect(t, "front", IF queue = <<>> THEN Null ELSE Head(queue))
       \/ TakesEffect(t, "back", IF queue = <<>> THEN Null ELSE queue[Len(queue)])
       \/ TakesEffect(t, "size", Len(queue))
       \/ TakesEffect(t, "capacity", Capacity)
       \/ TakesEffect(t, "remaining_space", Capacity - Len(queue))
    /\ UNCHANGED <<queue, exists>>

Free(t) ==
    /\ \E name \in FreeNames : TakesEffect(t, name, Null)
    /\ exists' = FALSE
    /\ queue' = <<>>

Return(t) ==
    /\ phase[t] = "done"
    /\ phase' = [phase EXCEPT ![t] = "idle"]
    /\ request' = [request EXCEPT ![t] = NoRequest]
    /\ answer' = [answer EXCEPT ![t] = Null]
    /\ UNCHANGED <<queue, exists>>

Next ==
    \/ Create
    \/ \E t \in Threads :
        \/ \E r \in Requests : Call(t, r)
        \/ Push(t) \/ Pop(t) \/ Look(t) \/ Free(t)
        \/ Return(t)

Spec == Init /\ [][Next]_vars
=============================================================================
