------------------------- MODULE ConcurrentFixedQueue -------------------------
(***************************************************************************)
(* cap_fixed_queue of concurrent_fixed_queue.h: a queue of at most         *)
(* Capacity elements in a list with sentinels (CapValues), a size counter  *)
(* beside the list, and one mutex around every operation.  The list and    *)
(* the counter are updated by two separate steps of a body, so between the *)
(* two the counter is stale; the mutex is what hides that from the others. *)
(*                                                                         *)
(* Elements enter at the front of the list and leave at its back.          *)
(*                                                                         *)
(* Clients keep one rule the header takes for granted: a thread frees the  *)
(* queue only when no other thread is in a call, and then nobody calls it  *)
(* until a new one is created.  A step whose behaviour C leaves undefined  *)
(* ends the run of the program in the model, and `life` keeps the cause.   *)
(***************************************************************************)
EXTENDS PthreadClients, SequencesExt

CONSTANTS Elements,      \* the pointers clients push
          Capacity,      \* initial_size, the _capacity of the queue
          CallNames,     \* the operations clients use
          MallocMayFail  \* malloc may return NULL

FreeNames == {"free", "deep_free"}
LookNames == {"front", "back", "size", "capacity", "remaining_space"}
AllNames == {"push", "pop"} \cup LookNames \cup FreeNames

ASSUME FixedQueueAssumption ==
    /\ Capacity \in Nat \ {0}              \* assert(initial_size > 0)
    /\ Null \notin Elements                \* assert(data != NULL) in push
    /\ CallNames \subseteq AllNames
    /\ MallocMayFail \in BOOLEAN

VARIABLES life,         \* whether there is a queue, or what ended the program
          nodes,        \* _internal_list: the data of its nodes, head to tail
          size,         \* _current_size
          mallocFailed  \* malloc has returned NULL (history)

queueVars == <<life, nodes, size, mallocFailed>>
vars == <<callVars, queueVars>>

(* What can end the program: a NULL pointer is dereferenced, free() gets a   *)
(* pointer malloc did not return, or CAP_PTHREAD_MUTEX_UNLOCK_STATUS exits.  *)
Ended == {"nullDeref", "badFree", "exited"}

Calls ==
    [name : CallNames \cap {"push"}, data : Elements]
        \cup [name : CallNames \ {"push"}]

Init ==
    /\ ClientsInit
    /\ life = "none"
    /\ nodes = ListInit
    /\ size = 0
    /\ mallocFailed = FALSE

-----------------------------------------------------------------------------
(* cap_fixed_queue_init.  It tests the result of the first malloc; the two   *)
(* in _cap_list_init are dereferenced untested.  Nobody has the pointer yet, *)
(* so nothing interleaves.                                                   *)
Create ==
    /\ life \in {"none", "freed"}
    /\ AllIdle
    /\ life' = "live"
    /\ nodes' = ListInit
    /\ size' = 0
    /\ mtx' = NoThread
    /\ UNCHANGED <<pc, op, ret, mallocFailed>>

CreateFails ==
    /\ MallocMayFail
    /\ life \in {"none", "freed"}
    /\ AllIdle
    /\ mallocFailed' = TRUE
    /\ life' \in {life, "nullDeref"}
    /\ UNCHANGED <<callVars, nodes, size>>

BeingFreed == \E t \in Threads : op[t].name \in FreeNames

Call(t, c) ==
    /\ life = "live"
    /\ ~BeingFreed
    /\ c.name \in FreeNames => \A u \in Threads \ {t} : pc[u] = "idle"
    /\ Invoke(t, c)
    /\ UNCHANGED queueVars

Acquire(t) ==
    /\ life = "live"
    /\ Lock(t)
    /\ UNCHANGED queueVars

-----------------------------------------------------------------------------
(* Variants of push with a fault: returning from the full queue without the  *)
(* unlock, counting outside the else branch, a test that is one too late.    *)
PushFullKeepsMutex(t) ==
    /\ life = "live"
    /\ InBody(t, "push")
    /\ size >= Capacity
    /\ Answer(t, CFalse, "return")
    /\ UNCHANGED queueVars

PushFullCounts(t) ==
    /\ life = "live"
    /\ InBody(t, "push")
    /\ size >= Capacity
    /\ Answer(t, CFalse, "unlock")
    /\ size' = size + 1
    /\ UNCHANGED <<life, nodes, mallocFailed>>

PushInsertOneMore(t) ==
    /\ life = "live"
    /\ InBody(t, "push")
    /\ size <= Capacity
    /\ nodes' = ListPushFront(nodes, op[t].data)
    /\ Answer(t, CTrue, "rest")
    /\ UNCHANGED <<life, size, mallocFailed>>

(* cap_fixed_queue_push: the result of _cap_list_push_front is not looked at.*)
PushFull(t) ==
    /\ life = "live"
    /\ InBody(t, "push")
    /\ size >= Capacity
    /\ Answer(t, CFalse, "unlock")
    /\ UNCHANGED queueVars

PushInsert(t) ==
    /\ life = "live"
    /\ InBody(t, "push")
    /\ size < Capacity
    /\ \/ /\ nodes' = ListPushFront(nodes, op[t].data)
          /\ UNCHANGED mallocFailed
       \/ /\ MallocMayFail
          /\ mallocFailed' = TRUE
          /\ UNCHANGED nodes
    /\ Answer(t, CTrue, "rest")
    /\ UNCHANGED <<life, size>>

PushCount(t) ==
    /\ life = "live"
    /\ pc[t] = "rest"
    /\ op[t].name = "push"
    /\ size' = size + 1
    /\ Proceed(t, "unlock")
    /\ UNCHANGED <<life, nodes, mallocFailed>>

(* Variants of pop with a fault: no unlock on the empty path, a count        *)
(* outside the else branch, the node of the wrong end, and a list found      *)
(* empty that is counted down all the same.                                  *)
PopEmptyKeepsMutex(t) ==
    /\ life = "live"
    /\ InBody(t, "pop")
    /\ size <= 0
    /\ Answer(t, Null, "return")
    /\ UNCHANGED queueVars

PopEmptyCounts(t) ==
    /\ life = "live"
    /\ InBody(t, "pop")
    /\ size <= 0
    /\ Answer(t, Null, "unlock")
    /\ size' = size - 1
    /\ UNCHANGED <<life, nodes, mallocFailed>>

PopUnlinkNewest(t) ==
    /\ life = "live"
    /\ InBody(t, "pop")
    /\ size > 0
    /\ nodes # <<>>
    /\ Answer(t, ListFront(nodes), "rest")
    /\ nodes' = Tail(nodes)
    /\ UNCHANGED <<life, size, mallocFailed>>

PopMissingNode(t) ==
    /\ life = "live"
    /\ InBody(t, "pop")
    /\ size > 0
    /\ nodes = <<>>
    /\ Answer(t, Null, "rest")
    /\ UNCHANGED queueVars

(* cap_fixed_queue_pop: it trusts the counter, and in a list with no node    *)
(* _cap_list_pop_back follows the head sentinel's NULL previous.             *)
PopEmpty(t) ==
    /\ life = "live"
    /\ InBody(t, "pop")
    /\ size <= 0
    /\ Answer(t, Null, "unlock")
    /\ UNCHANGED queueVars

PopUnlink(t) ==
    /\ life = "live"
    /\ InBody(t, "pop")
    /\ size > 0
    /\ nodes # <<>>
    /\ Answer(t, ListBack(nodes), "rest")
    /\ nodes' = ListPopBack(nodes)
    /\ UNCHANGED <<life, size, mallocFailed>>

PopNullDeref(t) ==
    /\ life = "live"
    /\ InBody(t, "pop")
    /\ size > 0
    /\ nodes = <<>>
    /\ life' = "nullDeref"
    /\ UNCHANGED <<callVars, nodes, size, mallocFailed>>

PopCount(t) ==
    /\ life = "live"
    /\ pc[t] = "rest"
    /\ op[t].name = "pop"
    /\ size' = size - 1
    /\ Proceed(t, "unlock")
    /\ UNCHANGED <<life, nodes, mallocFailed>>

-----------------------------------------------------------------------------
(* The operations that only read: front is the back of the list, back is its *)
(* front and does not test the counter.                                      *)
Seen(name) ==
    CASE name = "front" -> IF size <= 0 THEN Null ELSE ListBack(nodes)
      [] name = "back" -> ListFront(nodes)
      [] name = "size" -> size
      [] name = "capacity" -> Capacity
      [] name = "remaining_space" -> Capacity - size

Look(t) ==
    /\ life = "live"
    /\ \E name \in LookNames : InBody(t, name) /\ Answer(t, Seen(name), "unlock")
    /\ UNCHANGED queueVars

(* cap_fixed_queue_free and _deep_free.  The do-while over the nodes starts  *)
(* by freeing head->next: in an empty list that is the tail sentinel, the    *)
(* second half of the block both sentinels share.  _deep_free also frees     *)
(* every data pointer, an element that is queued twice two times.            *)
FreedTwice ==
    \E i, j \in 1..Len(nodes) : i < j /\ nodes[i] = nodes[j]

FreeBody(t) ==
    /\ life = "live"
    /\ \E name \in FreeNames :
        /\ InBody(t, name)
        /\ IF nodes = <<>> \/ (name = "deep_free" /\ FreedTwice)
             THEN life' = "badFree" /\ UNCHANGED <<callVars, nodes>>
             ELSE life' = "freed" /\ nodes' = <<>> /\ Answer(t, Null, "unlock")
    /\ UNCHANGED <<size, mallocFailed>>

-----------------------------------------------------------------------------
Release(t) ==
    /\ life = "live"
    /\ Unlock(t)
    /\ UNCHANGED queueVars

(* The unlock of a mutex inside the freed queue: undefined, and in practice  *)
(* it succeeds or returns an error, which ends the program.                  *)
ReleaseFreed(t) ==
    /\ life = "freed"
    /\ \/ Unlock(t) /\ UNCHANGED life
       \/ pc[t] = "unlock" /\ life' = "exited" /\ UNCHANGED callVars
    /\ UNCHANGED <<nodes, size, mallocFailed>>

Finish(t) ==
    /\ life \notin Ended
    /\ Return(t)
    /\ UNCHANGED queueVars

(* Every step of the thread that holds the mutex. *)
HolderStep(t) ==
    \/ PushFull(t) \/ PushInsert(t) \/ PushCount(t)
    \/ PopEmpty(t) \/ PopUnlink(t) \/ PopNullDeref(t) \/ PopCount(t)
    \/ Look(t)
    \/ FreeBody(t)
    \/ Release(t) \/ ReleaseFreed(t)

Next ==
    \/ Create
    \/ CreateFails
    \/ \E t \in Threads :
        \/ \E c \in Calls : Call(t, c)
        \/ Acquire(t)
        \/ HolderStep(t)
        \/ Finish(t)

Spec == Init /\ [][Next]_vars

(***************************************************************************)
(* What the scheduler and the mutex give: a running thread keeps running,  *)
(* and a free mutex that threads wait for goes to one of them.  A default  *)
(* pthread mutex does not promise any given waiter its turn.               *)
(***************************************************************************)
Fairness ==
    /\ \A t \in Threads : WF_vars(HolderStep(t)) /\ WF_vars(Finish(t))
    /\ WF_vars(\E t \in Threads : Acquire(t))

FairSpec == Spec /\ Fairness

-----------------------------------------------------------------------------
(* The type of every variable. *)
TypeOK ==
    /\ pc \in [Threads -> Places]
    /\ op \in [Threads -> Calls \cup {NoCall}]
    /\ ret \in [Threads -> Elements \cup {Null} \cup Nat]
    /\ mtx \in Threads \cup {NoThread}
    /\ life \in {"none", "live", "freed"} \cup Ended
    /\ nodes \in Seq(Elements)
    /\ size \in Nat
    /\ mallocFailed \in BOOLEAN

(* What the holder of the mutex has done to the list and not yet counted. *)
Uncounted ==
    IF mtx = NoThread THEN 0
    ELSE IF pc[mtx] # "rest" THEN 0
    ELSE IF op[mtx].name = "push" THEN 1 ELSE -1

(* The elements the counter has and the list has not. *)
Drift == size + Uncounted - Len(nodes)

(***************************************************************************)
(* The invariant the header's comment speaks of: outside the two-step      *)
(* window of a body the counter is the length of the list, and whatever    *)
(* goes wrong it never falls short of it.  Only a malloc that failed in    *)
(* push, which the code counts all the same, makes it exceed the length.   *)
(***************************************************************************)
CounterCoversList ==
    life = "live" => /\ Drift >= 0
                     /\ ~mallocFailed => Drift = 0

(***************************************************************************)
(* The queue never holds more than its capacity, in its list or in its     *)
(* counter, the step inside a body included; so remaining_space, a         *)
(* subtraction of two size_t, does not wrap.                               *)
(***************************************************************************)
CapacityRespected == size <= Capacity /\ Len(nodes) <= Capacity

(***************************************************************************)
(* As long as malloc succeeds no operation follows a NULL pointer: pop     *)
(* unlinks a node whenever the counter it read under the mutex says there  *)
(* is one, whatever the interleaving.                                      *)
(***************************************************************************)
NullDerefNeedsFailedMalloc == life = "nullDeref" => mallocFailed

(***************************************************************************)
(* A slot lost to a failed malloc is lost for the life of the queue: no    *)
(* sequence of pushes and pops brings the counter back to the list.        *)
(***************************************************************************)
DriftNeverShrinks == [][life = "live" /\ life' = "live" => Drift' >= Drift]_vars

(***************************************************************************)
(* As long as malloc has not failed the queue is a bounded FIFO queue      *)
(* whose operations are atomic: an operation takes effect when its body    *)
(* touches the list, and the abstract contents are the list read from its  *)
(* tail.                                                                   *)
(***************************************************************************)
Phase ==
    [t \in Threads |-> CASE pc[t] = "idle" -> "idle"
                        [] pc[t] \in {"lock", "body"} -> "called"
                        [] OTHER -> "done"]

BQ == INSTANCE BoundedQueue WITH
        queue <- Reverse(nodes),
        exists <- life \notin {"none", "freed", "exited"},
        phase <- Phase,
        request <- op,
        answer <- ret

ImplementsBoundedQueue ==
    /\ BQ!Init
    /\ [][mallocFailed' \/ [BQ!Next]_(BQ!vars)]_vars

(* The holder never keeps the mutex: every path of every body unlocks it. *)
MutexReleased == mtx # NoThread ~> mtx = NoThread

(***************************************************************************)
(* When threads wait for the mutex some call returns: the operations are   *)
(* deadlock-free (a given waiter may be passed over for ever).             *)
(***************************************************************************)
SomeCallReturns ==
    (\E t \in Threads : pc[t] = "lock") ~> (\E t \in Threads : pc[t] = "return")

(* For TLC: no action or safety property tells two threads, or two elements, *)
(* apart.                                                                    *)
Symmetry == Permutations(Threads) \cup Permutations(Elements)
=============================================================================
