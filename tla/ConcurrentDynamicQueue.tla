------------------------ MODULE ConcurrentDynamicQueue ------------------------
(***************************************************************************)
(* cap_dynamic_queue of concurrent_dynamic_queue.h: a list with sentinels  *)
(* (CapValues), a size counter beside it and one mutex around every          *)
(* operation.  It differs from the fixed queue in two ways: no capacity,   *)
(* and push returns what _cap_list_push_front returned.  The counter goes  *)
(* up in either case.                                                      *)
(*                                                                         *)
(* A thread frees the queue only when no other thread is in a call.        *)
(***************************************************************************)
EXTENDS PthreadClients, SequencesExt

CONSTANTS Elements,      \* the pointers clients push
          MallocMayFail, \* malloc and calloc may return NULL
          MaxElements    \* bound: how far clients fill a container

FreeNames == {"free", "deep_free"}
LookNames == {"front", "back", "size"}

VARIABLES life,         \* whether there is a queue, or what ended the program
          nodes,        \* _internal_list: the data of its nodes, head to tail
          size,         \* _current_size
          mallocFailed  \* malloc has returned NULL (history)

queueVars == <<life, nodes, size, mallocFailed>>
vars == <<callVars, queueVars>>

Ended == {"nullDeref", "badFree", "exited"}

Calls ==
    [name : {"push"}, data : Elements]
        \cup [name : {"pop"} \cup LookNames \cup FreeNames]

Init ==
    /\ ClientsInit
    /\ life = "none"
    /\ nodes = ListInit
    /\ size = 0
    /\ mallocFailed = FALSE

(* cap_dynamic_queue_init; as in the fixed queue the allocations of          *)
(* _cap_list_init are dereferenced untested.                                 *)
Create ==
    /\ life \in {"none", "freed"}
    /\ AllIdle
    /\ life' = "live"
    /\ nodes' = ListInit
    /\ size' = 0
    /\ mtx' = NoThread
    /\ UNCHANGED <<pc, op, ret, mallocFailed>>

CreateFails ==
    /\ MallocMayFail
    /\ life \in {"none", "freed"}
    /\ AllIdle
    /\ mallocFailed' = TRUE
    /\ life' \in {life, "nullDeref"}
    /\ UNCHANGED <<callVars, nodes, size>>

BeingFreed == \E t \in Threads : op[t].name \in FreeNames

InFlight == {t \in Threads : op[t].name = "push"}

Call(t, c) ==
    /\ life = "live"
    /\ ~BeingFreed
    /\ c.name \in FreeNames => \A u \in Threads \ {t} : pc[u] = "idle"
    /\ c.name = "push" => size + Cardinality(InFlight) < MaxElements
    /\ Invoke(t, c)
    /\ UNCHANGED queueVars

Acquire(t) ==
    /\ life = "live"
    /\ Lock(t)
    /\ UNCHANGED queueVars

-----------------------------------------------------------------------------
(* cap_dynamic_queue_push. *)
PushInsert(t) ==
    /\ life = "live"
    /\ InBody(t, "push")
    /\ nodes' = ListPushFront(nodes, op[t].data)
    /\ Answer(t, CTrue, "rest")
    /\ UNCHANGED <<life, size, mallocFailed>>

PushRefused(t) ==
    /\ MallocMayFail
    /\ life = "live"
    /\ InBody(t, "push")
    /\ mallocFailed' = TRUE
    /\ Answer(t, CFalse, "rest")
    /\ UNCHANGED <<life, nodes, size>>

PushCount(t) ==
    /\ life = "live"
    /\ pc[t] = "rest"
    /\ op[t].name = "push"
    /\ size' = size + 1
    /\ Proceed(t, "unlock")
    /\ UNCHANGED <<life, nodes, mallocFailed>>

(* Variants of pop: an empty queue is counted down, the newest element goes. *)
PopEmptyCounts(t) ==
    /\ life = "live"
    /\ InBody(t, "pop")
    /\ size <= 0
    /\ Answer(t, Null, "unlock")
    /\ size' = size - 1
    /\ UNCHANGED <<life, nodes, mallocFailed>>

PopUnlinkNewest(t) ==
    /\ life = "live"
    /\ InBody(t, "pop")
    /\ size > 0
    /\ nodes # <<>>
    /\ Answer(t, ListFront(nodes), "rest")
    /\ nodes' = Tail(nodes)
    /\ UNCHANGED <<life, size, mallocFailed>>

(* cap_dynamic_queue_pop. *)
PopEmpty(t) ==
    /\ life = "live"
    /\ InBody(t, "pop")
    /\ size <= 0
    /\ Answer(t, Null, "unlock")
    /\ UNCHANGED queueVars

PopUnlink(t) ==
    /\ life = "live"
    /\ InBody(t, "pop")
    /\ size > 0
    /\ nodes # <<>>
    /\ Answer(t, ListBack(nodes), "rest")
    /\ nodes' = ListPopBack(nodes)
    /\ UNCHANGED <<life, size, mallocFailed>>

PopNullDeref(t) ==
    /\ life = "live"
    /\ InBody(t, "pop")
    /\ size > 0
    /\ nodes = <<>>
    /\ life' = "nullDeref"
    /\ UNCHANGED <<callVars, nodes, size, mallocFailed>>

PopCount(t) ==
    /\ life = "live"
    /\ pc[t] = "rest"
    /\ op[t].name = "pop"
    /\ size' = size - 1
    /\ Proceed(t, "unlock")
    /\ UNCHANGED <<life, nodes, mallocFailed>>

Seen(name) ==
    CASE name = "front" -> IF size <= 0 THEN Null ELSE ListBack(nodes)
      [] name = "back" -> ListFront(nodes)
      [] name = "size" -> size

Look(t) ==
    /\ life = "live"
    /\ \E name \in LookNames : InBody(t, name) /\ Answer(t, Seen(name), "unlock")
    /\ UNCHANGED queueVars

(* cap_dynamic_queue_free and _deep_free: the loops of the fixed queue, with *)
(* the same first round on an empty list and the same double free.           *)
FreedTwice ==
    \E i, j \in 1..Len(nodes) : i < j /\ nodes[i] = nodes[j]

FreeBody(t) ==
    /\ life = "live"
    /\ \E name \in FreeNames :
        /\ InBody(t, name)
        /\ IF nodes = <<>> \/ (name = "deep_free" /\ FreedTwice)
             THEN life' = "badFree" /\ UNCHANGED <<callVars, nodes>>
             ELSE life' = "freed" /\ nodes' = <<>> /\ Answer(t, Null, "unlock")
    /\ UNCHANGED <<size, mallocFailed>>

Release(t) ==
    /\ life = "live"
    /\ Unlock(t)
    /\ UNCHANGED queueVars

(* The unlock of a mutex inside the freed queue. *)
ReleaseFreed(t) ==
    /\ life = "freed"
    /\ \/ Unlock(t) /\ UNCHANGED life
       \/ pc[t] = "unlock" /\ life' = "exited" /\ UNCHANGED callVars
    /\ UNCHANGED <<nodes, size, mallocFailed>>

Finish(t) ==
    /\ life \notin Ended
    /\ Return(t)
    /\ UNCHANGED queueVars

Next ==
    \/ Create
    \/ CreateFails
    \/ \E t \in Threads :
        \/ \E c \in Calls : Call(t, c)
        \/ Acquire(t)
        \/ PushInsert(t) \/ PushRefused(t) \/ PushCount(t)
        \/ PopEmpty(t) \/ PopUnlink(t) \/ PopNullDeref(t) \/ PopCount(t)
        \/ Look(t)
        \/ FreeBody(t)
        \/ Release(t) \/ ReleaseFreed(t)
        \/ Finish(t)

Spec == Init /\ [][Next]_vars

-----------------------------------------------------------------------------
(* The type of every variable. *)
TypeOK ==
    /\ pc \in [Threads -> Places]
    /\ op \in [Threads -> Calls \cup {NoCall}]
    /\ ret \in [Threads -> Elements \cup {Null} \cup Nat]
    /\ mtx \in Threads \cup {NoThread}
    /\ life \in {"none", "live", "freed"} \cup Ended
    /\ nodes \in Seq(Elements)
    /\ size \in Nat
    /\ mallocFailed \in BOOLEAN

(* What the holder of the mutex has done to the list and not yet counted. *)
Uncounted ==
    IF mtx = NoThread THEN 0
    ELSE IF pc[mtx] # "rest" THEN 0
    ELSE IF op[mtx].name = "pop" THEN -1
    ELSE IF ret[mtx] = CTrue THEN 1 ELSE 0

(***************************************************************************)
(* The counter, with the node inserted or unlinked in a body and not       *)
(* counted yet, never falls short of the list, and it is the list's length *)
(* as long as no malloc has failed.                                        *)
(***************************************************************************)
CounterCoversList ==
    life = "live" => /\ size + Uncounted >= Len(nodes)
                     /\ ~mallocFailed => size + Uncounted = Len(nodes)

(***************************************************************************)
(* As long as malloc has not failed the queue is an unbounded FIFO queue   *)
(* with atomic operations: BoundedQueue with a capacity out of reach.      *)
(***************************************************************************)
Phase ==
    [t \in Threads |-> CASE pc[t] = "idle" -> "idle"
                        [] pc[t] \in {"lock", "body"} -> "called"
                        [] OTHER -> "done"]

BQ == INSTANCE BoundedQueue WITH
        queue <- Reverse(nodes),
        exists <- life \notin {"none", "freed", "exited"},
        phase <- Phase,
        request <- op,
        answer <- ret,
        Capacity <- MaxElements + 1,
        CallNames <- {"push", "pop"} \cup LookNames \cup FreeNames

ImplementsFifo ==
    /\ BQ!Init
    /\ [][mallocFailed' \/ [BQ!Next]_(BQ!vars)]_vars
=============================================================================
