------------------------------- MODULE AtomicMap -------------------------------
(***************************************************************************)
(* What the hash table promises its clients: a map from keys to elements,  *)
(* each of whose operations takes effect atomically at some moment between *)
(* its call and its return.  No bucket, chain, hash or counter is left.    *)
(***************************************************************************)
EXTENDS CapValues, FiniteSets

CONSTANTS Threads,
          Keys,
          Elements,   \* the value pointers clients insert
          CallNames,  \* the operations clients use
          MaxBuckets  \* a bound on what bucket_size answers

VARIABLES map,      \* the element of each key, or Null
          exists,   \* the clients hold a table: created and not freed
          phase,    \* idle, called (not in effect yet) or done, by thread
          request,  \* the call each thread is in
          answer    \* its result, from when it takes effect

vars == <<map, exists, phase, request, answer>>

NoRequest == [name |-> "none"]

KeyNames == {"lookup", "contains", "erase", "deep_erase"}

Requests ==
    [name : CallNames \cap {"insert"}, key : Keys, data : Elements]
        \cup [name : CallNames \cap KeyNames, key : Keys]
        \cup [name : CallNames \ (KeyNames \cup {"insert"})]

Present == {k \in Keys : map[k] # Null}

EmptyMap == [k \in Keys |-> Null]

Init ==
    /\ map = EmptyMap
    /\ exists = FALSE
    /\ phase = [t \in Threads |-> "idle"]
    /\ request = [t \in Threads |-> NoRequest]
    /\ answer = [t \in Threads |-> Null]

Create ==
    /\ ~exists
    /\ \A t \in Threads : phase[t] = "idle"
    /\ exists' = TRUE
    /\ map' = EmptyMap
    /\ UNCHANGED <<phase, request, answer>>

Call(t, r) ==
    /\ exists
    /\ phase[t] = "idle"
    /\ phase' = [phase EXCEPT ![t] = "called"]
    /\ request' = [request EXCEPT ![t] = r]
    /\ UNCHANGED <<map, exists, answer>>

TakesEffect(t, names, value) ==
    /\ phase[t] = "called"
    /\ request[t].name \in names
    /\ phase' = [phase EXCEPT ![t] = "done"]
    /\ answer' = [answer EXCEPT ![t] = value]
    /\ UNCHANGED request

(* The last insert of a key wins, and there is one element per key. *)
Insert(t) ==
    /\ TakesEffect(t, {"insert"}, Null)
    /\ map' = [map EXCEPT ![request[t].key] = request[t].data]
    /\ UNCHANGED exists

Erase(t) ==
    /\ LET k == request[t].key
       IN  /\ TakesEffect(t, {"erase", "deep_erase"},
                          IF k \in Present THEN CTrue ELSE CFalse)
           /\ map' = [map EXCEPT ![k] = Null]
    /\ UNCHANGED exists

Look(t) ==
    /\ LET k == request[t].key
       IN  \/ TakesEffect(t, {"lookup"}, map[k])
           \/ TakesEffect(t, {"contains"}, IF k \in Present THEN CTrue ELSE CFalse)
           \/ TakesEffect(t, {"size"}, Cardinality(Present))
           \/ TakesEffect(t, {"empty"}, IF Present = {} THEN CTrue ELSE CFalse)
           \/ \E n \in 1..MaxBuckets : TakesEffect(t, {"bucket_size"}, n)
    /\ UNCHANGED <<map, exists>>

Free(t) ==
    /\ TakesEffect(t, {"free", "deep_free"}, Null)
    /\ exists' = FALSE
    /\ map' = EmptyMap

Return(t) ==
    /\ phase[t] = "done"
    /\ phase' = [phase EXCEPT ![t] = "idle"]
    /\ request' = [request EXCEPT ![t] = NoRequest]
    /\ answer' = [answer EXCEPT ![t] = Null]
    /\ UNCHANGED <<map, exists>>

Next ==
    \/ Create
    \/ \E t \in Threads :
        \/ \E r \in Requests : Call(t, r)
        \/ Insert(t) \/ Erase(t) \/ Look(t) \/ Free(t)
        \/ Return(t)

Spec == Init /\ [][Next]_vars
=============================================================================
