------------------------------ MODULE AtomicStack ------------------------------
(***************************************************************************)
(* What the stack and the forward list promise their clients: a last-in    *)
(* first-out sequence, each of whose operations takes effect atomically at *)
(* some moment between its call and its return.  A push answers true or,   *)
(* when memory runs out, answers false and changes nothing.  `contents` is *)
(* the elements, the youngest first.                                       *)
(***************************************************************************)
EXTENDS CapValues, SequencesExt

CONSTANTS Threads,
          Calls    \* the calls clients make, records with a `name`

VARIABLES contents, \* the elements, the youngest first
          exists,   \* the clients hold a container: created and not freed
          phase,    \* idle, called (not in effect yet) or done, by thread
          request,  \* the call each thread is in
          answer    \* its result, from when it takes effect

vars == <<contents, exists, phase, request, answer>>

NoRequest == [name |-> "none"]

Init ==
    /\ contents = <<>>
    /\ exists = FALSE
    /\ phase = [t \in Threads |-> "idle"]
    /\ request = [t \in Threads |-> NoRequest]
    /\ answer = [t \in Threads |-> Null]

Create ==
    /\ ~exists
    /\ \A t \in Threads : phase[t] = "idle"
    /\ exists' = TRUE
    /\ contents' = <<>>
    /\ UNCHANGED <<phase, request, answer>>

Call(t, r) ==
    /\ exists
    /\ phase[t] = "idle"
    /\ phase' = [phase EXCEPT ![t] = "called"]
    /\ request' = [request EXCEPT ![t] = r]
    /\ UNCHANGED <<contents, exists, answer>>

TakesEffect(t, names, value) ==
    /\ phase[t] = "called"
    /\ request[t].name \in names
    /\ phase' = [phase EXCEPT ![t] = "done"]
    /\ answer' = [answer EXCEPT ![t] = value]
    /\ UNCHANGED request

Youngest == IF contents = <<>> THEN Null ELSE Head(contents)

Push(t) ==
    /\ \/ /\ TakesEffect(t, {"push", "push_front"}, CTrue)
          /\ contents' = <<request[t].data>> \o contents
       \/ /\ TakesEffect(t, {"push", "push_front"}, CFalse)
          /\ UNCHANGED contents
    /\ UNCHANGED exists

Pop(t) ==
    /\ TakesEffect(t, {"pop", "pop_front"}, Youngest)
    /\ contents' = IF contents = <<>> THEN <<>> ELSE Tail(contents)
    /\ UNCHANGED exists

(* The positions of the elements that a predicate accepts, and the youngest  *)
(* of these elements.                                                        *)
Accepted(matches) == {i \in 1..Len(contents) : contents[i] \in matches}

FirstAccepted(matches) ==
    IF Accepted(matches) = {} THEN Null ELSE contents[Min(Accepted(matches))]

(* Every accepted element goes, and the others keep their order: `at` lists  *)
(* their positions.                                                          *)
RemoveIf(t) ==
    /\ LET gone == Accepted(request[t].matches)
           stay == (1..Len(contents)) \ gone
       IN  /\ TakesEffect(t, {"remove_if"}, IF gone = {} THEN CFalse ELSE CTrue)
           /\ \E n \in 0..Len(contents) : \E at \in [1..n -> stay] :
                /\ \A i, j \in 1..n : i < j => at[i] < at[j]
                /\ \A k \in stay : \E i \in 1..n : at[i] = k
                /\ contents' = [i \in 1..n |-> contents[at[i]]]
    /\ UNCHANGED exists

Look(t) ==
    /\ \/ TakesEffect(t, {"top", "front"}, Youngest)
       \/ TakesEffect(t, {"size"}, Len(contents))
       \/ TakesEffect(t, {"empty"}, IF contents = <<>> THEN CTrue ELSE CFalse)
       \/ TakesEffect(t, {"find_if"}, FirstAccepted(request[t].matches))
    /\ UNCHANGED <<contents, exists>>

Free(t) ==
    /\ TakesEffect(t, {"free", "deep_free"}, Null)
    /\ exists' = FALSE
    /\ contents' = <<>>

Return(t) ==
    /\ phase[t] = "done"
    /\ phase' = [phase EXCEPT ![t] = "idle"]
    /\ request' = [request EXCEPT ![t] = NoRequest]
    /\ answer' = [answer EXCEPT ![t] = Null]
    /\ UNCHANGED <<contents, exists>>

Next ==
    \/ Create
    \/ \E t \in Threads :
        \/ \E r \in Calls : Call(t, r)
        \/ Push(t) \/ Pop(t) \/ RemoveIf(t) \/ Look(t) \/ Free(t)
        \/ Return(t)

Spec == Init /\ [][Next]_vars
=============================================================================
