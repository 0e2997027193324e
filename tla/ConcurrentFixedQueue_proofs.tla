---------------------- MODULE ConcurrentFixedQueue_proofs ----------------------
(***************************************************************************)
(* Proofs about ConcurrentFixedQueue, for every set of threads and of      *)
(* elements, every capacity, every subset of the operations, and with or   *)
(* without a malloc that fails.                                            *)
(***************************************************************************)
EXTENDS ConcurrentFixedQueue, CommonLemmas

(* A thread inside a function is in one of the calls clients make. *)
InCall == \A t \in Threads : pc[t] # "idle" => op[t] \in Calls

(* The second step of a body exists in push, which has made sure there is   *)
(* room, and in pop, which has made sure there is an element.               *)
CountWindow ==
    \A t \in Threads :
        pc[t] = "rest" => \/ /\ op[t].name = "push"
                             /\ size < Capacity
                          \/ /\ op[t].name = "pop"
                             /\ size > 0

(***************************************************************************)
(* The inductive invariant.  CounterCoversList alone is not inductive: it  *)
(* needs the mutex to keep two threads out of the list-then-count window,  *)
(* and the window's own bounds to keep the counter in 0..Capacity.         *)
(***************************************************************************)
IInv ==
    /\ TypeOK
    /\ HolderIsCritical
    /\ InCall
    /\ CountWindow
    /\ CounterCoversList
    /\ CapacityRespected
    /\ NullDerefNeedsFailedMalloc

-----------------------------------------------------------------------------
(* A call of push carries an element, and no call is NoCall. *)
LEMMA CallFacts ==
    ASSUME NEW c \in Calls
    PROVE  /\ c.name \in CallNames
           /\ c.name = "push" => c.data \in Elements
           /\ c.name \in AllNames
  BY FixedQueueAssumption DEF Calls

(* Only the holder is inside a body; the window is seen from its place. *)
LEMMA HolderFacts ==
    ASSUME TypeOK, HolderIsCritical, NEW t \in Threads, pc[t] \in Critical
    PROVE  /\ mtx = t
           /\ mtx # NoThread
           /\ \A u \in Threads \ {t} : pc[u] \notin Critical
           /\ Uncounted = IF pc[t] # "rest" THEN 0
                          ELSE IF op[t].name = "push" THEN 1 ELSE -1
  BY ClientsAssumption DEF HolderIsCritical, Uncounted

LEMMA InitIInv == Init => IInv
  <1> SUFFICES ASSUME Init PROVE IInv
    OBVIOUS
  <1> USE DEF Init, ClientsInit, ListInit
  <1>1. TypeOK
    BY EmptySeq DEF TypeOK, Places, Ended
  <1>2. HolderIsCritical
    BY ClientsAssumption DEF HolderIsCritical, Critical
  <1>3. InCall /\ CountWindow
    BY DEF InCall, CountWindow
  <1>4. CounterCoversList /\ CapacityRespected /\ NullDerefNeedsFailedMalloc
    BY FixedQueueAssumption
    DEF CounterCoversList, CapacityRespected, NullDerefNeedsFailedMalloc
  <1> QED
    BY <1>1, <1>2, <1>3, <1>4 DEF IInv

-----------------------------------------------------------------------------
(* Every action keeps IInv. *)
LEMMA CreateKeeps == IInv /\ (Create \/ CreateFails) => IInv'
  <1> SUFFICES ASSUME IInv, Create \/ CreateFails PROVE IInv'
    OBVIOUS
  <1> USE DEF Create, CreateFails, callVars, ListInit
  <1>1. TypeOK'
    <2>1. CASE Create
      BY <2>1, EmptySeq, ClientsAssumption DEF IInv, TypeOK
    <2>2. CASE CreateFails
      BY <2>2 DEF IInv, TypeOK, Ended
    <2> QED
      BY <2>1, <2>2
  <1>2. HolderIsCritical'
    BY ClientsAssumption DEF IInv, HolderIsCritical, Critical, AllIdle
  <1>3. InCall' /\ CountWindow'
    BY DEF IInv, InCall, CountWindow, AllIdle, TypeOK
  <1>4. CapacityRespected' /\ NullDerefNeedsFailedMalloc'
    BY FixedQueueAssumption, EmptySeq DEF IInv, CapacityRespected, NullDerefNeedsFailedMalloc
  <1>5. CounterCoversList'
    BY EmptySeq DEF IInv, CounterCoversList, Drift, Uncounted, TypeOK, Ended
  <1> QED
    BY <1>1, <1>2, <1>3, <1>4, <1>5 DEF IInv

LEMMA CallKeeps ==
    ASSUME IInv, NEW t \in Threads, NEW c \in Calls, Call(t, c)
    PROVE  IInv'
  <1> USE DEF Call, Invoke, queueVars
  <1>1. TypeOK'
    BY DEF IInv, TypeOK, Places
  <1>2. HolderIsCritical'
    BY DEF IInv, TypeOK, HolderIsCritical, Critical
  <1>3. InCall' /\ CountWindow'
    BY DEF IInv, TypeOK, InCall, CountWindow
  <1>4. CapacityRespected' /\ NullDerefNeedsFailedMalloc'
    BY DEF IInv, CapacityRespected, NullDerefNeedsFailedMalloc
  <1>5. CounterCoversList'
    <2>1. mtx # t
      BY DEF IInv, HolderIsCritical, Critical
    <2>2. Uncounted' = Uncounted
      BY <2>1 DEF IInv, TypeOK, Uncounted
    <2> QED
      BY <2>2 DEF IInv, CounterCoversList, Drift
  <1> QED
    BY <1>1, <1>2, <1>3, <1>4, <1>5 DEF IInv

LEMMA AcquireKeeps ==
    ASSUME IInv, NEW t \in Threads, Acquire(t)
    PROVE  IInv'
  <1> USE DEF Acquire, Lock, queueVars
  <1>1. TypeOK'
    BY DEF IInv, TypeOK, Places
  <1>2. HolderIsCritical'
    BY ClientsAssumption DEF IInv, TypeOK, HolderIsCritical, Critical
  <1>3. InCall' /\ CountWindow'
    BY DEF IInv, TypeOK, InCall, CountWindow
  <1>4. CapacityRespected' /\ NullDerefNeedsFailedMalloc'
    BY DEF IInv, CapacityRespected, NullDerefNeedsFailedMalloc
  <1>5. CounterCoversList'
    <2>1. Uncounted' = 0 /\ Uncounted = 0
      BY DEF IInv, TypeOK, Uncounted
    <2> QED
      BY <2>1 DEF IInv, CounterCoversList, Drift
  <1> QED
    BY <1>1, <1>2, <1>3, <1>4, <1>5 DEF IInv

(* The bodies that leave the queue as it is: they set return_value and go on *)
(* to the unlock.                                                            *)
LEMMA ReadOnlyBodyKeeps ==
    ASSUME IInv, NEW t \in Threads, NEW v \in Elements \cup {Null} \cup Nat,
           pc[t] = "body", Answer(t, v, "unlock"), UNCHANGED queueVars
    PROVE  IInv'
  <1> USE DEF Answer, queueVars
  <1>1. TypeOK'
    BY DEF IInv, TypeOK, Places
  <1>2. HolderIsCritical'
    BY DEF IInv, TypeOK, HolderIsCritical, Critical
  <1>3. InCall' /\ CountWindow'
    BY DEF IInv, TypeOK, InCall, CountWindow
  <1>4. CapacityRespected' /\ NullDerefNeedsFailedMalloc'
    BY DEF IInv, CapacityRespected, NullDerefNeedsFailedMalloc
  <1>5. CounterCoversList'
    <2>1. mtx = t /\ mtx' = t /\ Uncounted = 0
      BY HolderFacts DEF IInv, Critical
    <2>2. Uncounted' = 0
      BY <2>1 DEF IInv, TypeOK, Uncounted
    <2> QED
      BY <2>1, <2>2 DEF IInv, CounterCoversList, Drift
  <1> QED
    BY <1>1, <1>2, <1>3, <1>4, <1>5 DEF IInv

LEMMA LookKeeps ==
    ASSUME IInv, NEW t \in Threads, PushFull(t) \/ PopEmpty(t) \/ Look(t)
    PROVE  IInv'
  <1>1. CASE PushFull(t)
    BY <1>1, ReadOnlyBodyKeeps DEF PushFull, InBody, CFalse
  <1>2. CASE PopEmpty(t)
    BY <1>2, ReadOnlyBodyKeeps DEF PopEmpty, InBody
  <1>3. CASE Look(t)
    <2>1. PICK name \in LookNames : InBody(t, name) /\ Answer(t, Seen(name), "unlock")
      BY <1>3 DEF Look
    <2>2. nodes \in Seq(Elements) /\ size \in Nat /\ size <= Capacity
      BY DEF IInv, TypeOK, CapacityRespected
    <2>3. /\ ListBack(nodes) \in Elements \cup {Null}
          /\ ListFront(nodes) \in Elements \cup {Null}
      BY <2>2, EndsFacts
    <2>4. Capacity \in Nat /\ Capacity - size \in Nat
      BY <2>2, FixedQueueAssumption
    <2>5. Seen(name) \in Elements \cup {Null} \cup Nat
      BY <2>2, <2>3, <2>4 DEF Seen, LookNames
    <2> QED
      BY <1>3, <2>1, <2>5, ReadOnlyBodyKeeps DEF Look, InBody
  <1> QED
    BY <1>1, <1>2, <1>3

(* The list step of push, with and without a node. *)
LEMMA PushInsertKeeps ==
    ASSUME IInv, NEW t \in Threads, PushInsert(t)
    PROVE  IInv'
  <1> USE DEF PushInsert, InBody, Answer
  <1>1. /\ op[t] \in Calls
        /\ op[t].data \in Elements
        /\ nodes \in Seq(Elements)
        /\ size \in Nat
        /\ size < Capacity
    BY CallFacts DEF IInv, InCall, TypeOK
  <1>2. /\ mtx = t /\ mtx' = t
        /\ mtx # NoThread
        /\ \A u \in Threads \ {t} : pc[u] \notin Critical
        /\ Uncounted = 0
    BY HolderFacts DEF IInv, Critical
  <1>3. /\ nodes' \in Seq(Elements)
        /\ \/ Len(nodes') = Len(nodes) + 1 /\ mallocFailed' = mallocFailed
           \/ Len(nodes') = Len(nodes) /\ mallocFailed' = TRUE /\ MallocMayFail
    <2>1. CASE nodes' = ListPushFront(nodes, op[t].data) /\ mallocFailed' = mallocFailed
      <3>1. /\ ListPushFront(nodes, op[t].data) \in Seq(Elements)
            /\ Len(ListPushFront(nodes, op[t].data)) = Len(nodes) + 1
        BY <1>1, PushFrontFacts
      <3> QED
        BY <2>1, <3>1
    <2>2. CASE nodes' = nodes /\ mallocFailed' = TRUE /\ MallocMayFail
      BY <1>1, <2>2
    <2> QED
      BY <2>1, <2>2
  <1>4. Uncounted' = 1
    BY <1>2 DEF IInv, TypeOK, Uncounted
  <1>5. Len(nodes) \in Nat /\ Len(nodes') \in Nat /\ Len(nodes) <= size
    BY <1>1, <1>2, <1>3 DEF IInv, CounterCoversList, Drift
  <1>6. TypeOK'
    BY <1>3 DEF IInv, TypeOK, Places, CTrue
  <1>7. HolderIsCritical'
    BY <1>2 DEF IInv, TypeOK, HolderIsCritical, Critical
  <1>8. InCall'
    BY DEF IInv, TypeOK, InCall
  <1>9. CountWindow'
    <2>1. \A u \in Threads \ {t} : pc'[u] # "rest"
      BY <1>2 DEF IInv, TypeOK, Critical
    <2>2. op'[t].name = "push" /\ size' < Capacity
      BY <1>1
    <2>3. ASSUME NEW u \in Threads, pc'[u] = "rest"
          PROVE  op'[u].name = "push" /\ size' < Capacity
      BY <2>1, <2>2, <2>3
    <2> QED
      BY <2>3 DEF CountWindow
  <1>10. CapacityRespected' /\ NullDerefNeedsFailedMalloc'
    BY <1>1, <1>3, <1>5, FixedQueueAssumption
    DEF IInv, CapacityRespected, NullDerefNeedsFailedMalloc
  <1>11. CounterCoversList'
    BY <1>1, <1>2, <1>3, <1>4, <1>5 DEF IInv, CounterCoversList, Drift
  <1> QED
    BY <1>6, <1>7, <1>8, <1>9, <1>10, <1>11 DEF IInv

(* The list step of pop. *)
LEMMA PopUnlinkKeeps ==
    ASSUME IInv, NEW t \in Threads, PopUnlink(t)
    PROVE  IInv'
  <1> USE DEF PopUnlink, InBody, Answer
  <1>1. nodes \in Seq(Elements) /\ size \in Nat /\ size > 0
    BY DEF IInv, TypeOK
  <1>2. /\ mtx = t /\ mtx' = t
        /\ mtx # NoThread
        /\ \A u \in Threads \ {t} : pc[u] \notin Critical
        /\ Uncounted = 0
    BY HolderFacts DEF IInv, Critical
  <1>3. /\ nodes' \in Seq(Elements)
        /\ Len(nodes') = Len(nodes) - 1
        /\ ListBack(nodes) \in Elements
    BY <1>1, PopBackFacts, EndsFacts
  <1>4. Uncounted' = -1
    BY <1>2 DEF IInv, TypeOK, Uncounted
  <1>5. Len(nodes) \in Nat /\ Len(nodes') \in Nat
    BY <1>1, <1>3
  <1>6. TypeOK'
    BY <1>3 DEF IInv, TypeOK, Places
  <1>7. HolderIsCritical'
    BY <1>2 DEF IInv, TypeOK, HolderIsCritical, Critical
  <1>8. InCall'
    BY DEF IInv, TypeOK, InCall
  <1>9. CountWindow'
    BY <1>1, <1>2 DEF IInv, TypeOK, CountWindow, Critical
  <1>10. CapacityRespected' /\ NullDerefNeedsFailedMalloc'
    BY <1>1, <1>3, <1>5, FixedQueueAssumption
    DEF IInv, CapacityRespected, NullDerefNeedsFailedMalloc
  <1>11. CounterCoversList'
    BY <1>1, <1>2, <1>3, <1>4, <1>5 DEF IInv, CounterCoversList, Drift
  <1> QED
    BY <1>6, <1>7, <1>8, <1>9, <1>10, <1>11 DEF IInv

(* The counter catches up with the list: the drift does not move. *)
LEMMA CountKeeps ==
    ASSUME IInv, NEW t \in Threads, PushCount(t) \/ PopCount(t)
    PROVE  IInv'
  <1> USE DEF PushCount, PopCount, Proceed
  <1>1. pc[t] = "rest" /\ nodes \in Seq(Elements) /\ size \in Nat
    BY DEF IInv, TypeOK
  <1>2. /\ mtx = t /\ mtx' = t
        /\ mtx # NoThread
        /\ \A u \in Threads \ {t} : pc[u] \notin Critical
        /\ Uncounted = IF op[t].name = "push" THEN 1 ELSE -1
    BY <1>1, HolderFacts DEF IInv, Critical
  <1>3. Uncounted' = 0
    BY <1>2 DEF IInv, TypeOK, Uncounted
  <1>4. /\ size' \in Nat
        /\ size' <= Capacity
        /\ size' = size + Uncounted
    BY <1>1, <1>2, FixedQueueAssumption DEF IInv, CountWindow, CapacityRespected
  <1>5. TypeOK'
    BY <1>4 DEF IInv, TypeOK, Places
  <1>6. HolderIsCritical'
    BY <1>2 DEF IInv, TypeOK, HolderIsCritical, Critical
  <1>7. InCall'
    BY DEF IInv, TypeOK, InCall
  <1>8. CountWindow'
    BY <1>2 DEF IInv, TypeOK, CountWindow, Critical
  <1>9. CapacityRespected' /\ NullDerefNeedsFailedMalloc'
    BY <1>4 DEF IInv, CapacityRespected, NullDerefNeedsFailedMalloc
  <1>10. CounterCoversList'
    <2>1. Uncounted \in Int /\ Len(nodes) \in Nat
      BY <1>1, <1>2
    <2>2. Drift' = Drift
      BY <1>1, <1>3, <1>4, <2>1 DEF Drift
    <2> QED
      BY <2>2 DEF IInv, CounterCoversList
  <1> QED
    BY <1>5, <1>6, <1>7, <1>8, <1>9, <1>10 DEF IInv

(* pop finds a counter above an empty list: only a failed malloc can have    *)
(* put them apart.                                                           *)
LEMMA PopNullDerefKeeps ==
    ASSUME IInv, NEW t \in Threads, PopNullDeref(t)
    PROVE  IInv'
  <1> USE DEF PopNullDeref, InBody, callVars
  <1>1. Uncounted = 0
    BY HolderFacts DEF IInv, Critical
  <1>2. Len(nodes) = 0
    BY EmptySeq
  <1>3. mallocFailed
    BY <1>1, <1>2 DEF IInv, TypeOK, CounterCoversList, Drift
  <1>4. TypeOK' /\ HolderIsCritical'
    BY DEF IInv, TypeOK, Ended, HolderIsCritical
  <1>5. InCall' /\ CountWindow'
    BY DEF IInv, InCall, CountWindow
  <1>6. CounterCoversList' /\ CapacityRespected' /\ NullDerefNeedsFailedMalloc'
    BY <1>3 DEF IInv, CounterCoversList, CapacityRespected, NullDerefNeedsFailedMalloc
  <1> QED
    BY <1>4, <1>5, <1>6 DEF IInv

LEMMA FreeBodyKeeps ==
    ASSUME IInv, NEW t \in Threads, FreeBody(t)
    PROVE  IInv'
  <1> USE DEF FreeBody, InBody, Answer, callVars
  <1>1. pc[t] = "body" /\ life' \in {"badFree", "freed"}
    BY DEF IInv
  <1>2. /\ mtx = t /\ mtx' = t
        /\ \A u \in Threads \ {t} : pc[u] \notin Critical
    BY <1>1, HolderFacts DEF IInv, Critical
  <1>3. Len(nodes') <= Capacity /\ nodes' \in Seq(Elements)
    <2>1. nodes' = nodes \/ nodes' = <<>>
      OBVIOUS
    <2>2. <<>> \in Seq(Elements) /\ Len(<<>>) <= Capacity
      BY EmptySeq, FixedQueueAssumption
    <2> QED
      BY <2>1, <2>2 DEF IInv, TypeOK, CapacityRespected
  <1>4. TypeOK'
    BY <1>3 DEF IInv, TypeOK, Places, Ended
  <1>5. HolderIsCritical'
    BY <1>2 DEF IInv, TypeOK, HolderIsCritical, Critical
  <1>6. InCall' /\ CountWindow'
    BY DEF IInv, TypeOK, InCall, CountWindow
  <1>7. CounterCoversList' /\ CapacityRespected' /\ NullDerefNeedsFailedMalloc'
    BY <1>1, <1>3 DEF IInv, CounterCoversList, CapacityRespected, NullDerefNeedsFailedMalloc
  <1> QED
    BY <1>4, <1>5, <1>6, <1>7 DEF IInv

LEMMA UnlockKeeps ==
    ASSUME IInv, NEW t \in Threads, Release(t) \/ ReleaseFreed(t)
    PROVE  IInv'
  <1> USE DEF Release, ReleaseFreed, queueVars, callVars
  <1>1. /\ pc[t] = "unlock"
        /\ mtx = t
        /\ \A u \in Threads \ {t} : pc[u] \notin Critical
        /\ Uncounted = 0
    <2>1. pc[t] = "unlock"
      BY DEF Unlock
    <2> QED
      BY <2>1, HolderFacts DEF IInv, Critical
  <1>2. CASE Unlock(t) /\ UNCHANGED <<life, nodes, size, mallocFailed>>
    <2> USE <1>2 DEF Unlock
    <2>1. TypeOK'
      BY DEF IInv, TypeOK, Places
    <2>2. HolderIsCritical'
      BY <1>1, ClientsAssumption DEF IInv, TypeOK, HolderIsCritical, Critical
    <2>3. InCall' /\ CountWindow'
      BY DEF IInv, TypeOK, InCall, CountWindow
    <2>4. CapacityRespected' /\ NullDerefNeedsFailedMalloc'
      BY DEF IInv, CapacityRespected, NullDerefNeedsFailedMalloc
    <2>5. CounterCoversList'
      BY <1>1 DEF IInv, CounterCoversList, Drift, Uncounted
    <2> QED
      BY <2>1, <2>2, <2>3, <2>4, <2>5 DEF IInv
  <1>3. CASE life' = "exited" /\ UNCHANGED <<callVars, nodes, size, mallocFailed>>
    <2> USE <1>3
    <2>1. TypeOK' /\ HolderIsCritical'
      BY DEF IInv, TypeOK, HolderIsCritical, Ended
    <2>2. InCall' /\ CountWindow'
      BY DEF IInv, InCall, CountWindow
    <2>3. CounterCoversList' /\ CapacityRespected' /\ NullDerefNeedsFailedMalloc'
      BY DEF IInv, CounterCoversList, CapacityRespected, NullDerefNeedsFailedMalloc
    <2> QED
      BY <2>1, <2>2, <2>3 DEF IInv
  <1> QED
    BY <1>2, <1>3

LEMMA FinishKeeps ==
    ASSUME IInv, NEW t \in Threads, Finish(t)
    PROVE  IInv'
  <1> USE DEF Finish, Return, queueVars
  <1>1. TypeOK'
    BY DEF IInv, TypeOK, Places
  <1>2. HolderIsCritical'
    BY DEF IInv, TypeOK, HolderIsCritical, Critical
  <1>3. InCall' /\ CountWindow'
    BY DEF IInv, TypeOK, InCall, CountWindow
  <1>4. CapacityRespected' /\ NullDerefNeedsFailedMalloc'
    BY DEF IInv, CapacityRespected, NullDerefNeedsFailedMalloc
  <1>5. CounterCoversList'
    <2>1. mtx # t
      BY DEF IInv, HolderIsCritical, Critical
    <2>2. Uncounted' = Uncounted
      BY <2>1 DEF IInv, TypeOK, Uncounted
    <2> QED
      BY <2>2 DEF IInv, CounterCoversList, Drift
  <1> QED
    BY <1>1, <1>2, <1>3, <1>4, <1>5 DEF IInv

LEMMA StepIInv == IInv /\ [Next]_vars => IInv'
  <1> SUFFICES ASSUME IInv, [Next]_vars PROVE IInv'
    OBVIOUS
  <1>1. CASE Create \/ CreateFails
    BY <1>1, CreateKeeps
  <1>2. ASSUME NEW t \in Threads, NEW c \in Calls, Call(t, c) PROVE IInv'
    BY <1>2, CallKeeps
  <1>3. ASSUME NEW t \in Threads, Acquire(t) PROVE IInv'
    BY <1>3, AcquireKeeps
  <1>4. ASSUME NEW t \in Threads, HolderStep(t) PROVE IInv'
    BY <1>4, LookKeeps, PushInsertKeeps, PopUnlinkKeeps, CountKeeps, PopNullDerefKeeps,
       FreeBodyKeeps, UnlockKeeps DEF HolderStep
  <1>5. ASSUME NEW t \in Threads, Finish(t) PROVE IInv'
    BY <1>5, FinishKeeps
  <1>6. CASE UNCHANGED vars
    <2> USE <1>6 DEF vars, callVars, queueVars
    <2>1. TypeOK' /\ HolderIsCritical' /\ InCall' /\ CountWindow'
      BY DEF IInv, TypeOK, HolderIsCritical, InCall, CountWindow
    <2>2. CounterCoversList' /\ CapacityRespected' /\ NullDerefNeedsFailedMalloc'
      BY DEF IInv, CounterCoversList, Drift, Uncounted, CapacityRespected,
             NullDerefNeedsFailedMalloc
    <2> QED
      BY <2>1, <2>2 DEF IInv
  <1> QED
    BY <1>1, <1>2, <1>3, <1>4, <1>5, <1>6 DEF Next

(* The invariant holds in every reachable state, for every value of the      *)
(* constants.                                                                *)
THEOREM InvariantHolds == Spec => []IInv
  BY InitIInv, StepIInv, PTL DEF Spec

(* Every variable keeps its type. *)
THEOREM TypeCorrect == Spec => []TypeOK
  <1>1. IInv => TypeOK
    BY DEF IInv
  <1> QED
    BY <1>1, InvariantHolds, PTL

(* The mutex is held by the one thread inside a body, and by nobody else:    *)
(* two bodies never overlap.                                                 *)
THEOREM MutualExclusion == Spec => []HolderIsCritical
  <1>1. IInv => HolderIsCritical
    BY DEF IInv
  <1> QED
    BY <1>1, InvariantHolds, PTL

(* The counter is never below the length of the list, and equals it, the     *)
(* window inside a body apart, until a malloc fails.                         *)
THEOREM CounterCorrect == Spec => []CounterCoversList
  <1>1. IInv => CounterCoversList
    BY DEF IInv
  <1> QED
    BY <1>1, InvariantHolds, PTL

(* Neither the list nor the counter ever exceeds the capacity. *)
THEOREM CapacityCorrect == Spec => []CapacityRespected
  <1>1. IInv => CapacityRespected
    BY DEF IInv
  <1> QED
    BY <1>1, InvariantHolds, PTL

(* pop dereferences NULL only after a malloc has failed in this program. *)
THEOREM NullDerefCorrect == Spec => []NullDerefNeedsFailedMalloc
  <1>1. IInv => NullDerefNeedsFailedMalloc
    BY DEF IInv
  <1> QED
    BY <1>1, InvariantHolds, PTL

-----------------------------------------------------------------------------
(* No step of a live queue brings the counter nearer to the list: what the   *)
(* list step of a body adds or takes is what its count step adds or takes,   *)
(* and only a push without a node changes the difference, upwards.           *)
LEMMA DriftStep ==
    ASSUME IInv, [Next]_vars, life = "live", life' = "live"
    PROVE  Drift' >= Drift
  <1>1. /\ nodes \in Seq(Elements) /\ Len(nodes) \in Nat
        /\ size \in Nat
        /\ Uncounted \in Int
    <2>1. nodes \in Seq(Elements) /\ size \in Nat
      BY DEF IInv, TypeOK
    <2> QED
      BY <2>1 DEF Uncounted
  <1>2. ASSUME UNCHANGED <<nodes, size>>, Uncounted' = Uncounted
        PROVE  Drift' >= Drift
    BY <1>1, <1>2 DEF Drift
  <1>3. ~Create
    BY DEF Create
  <1>4. CASE CreateFails \/ UNCHANGED vars
    BY <1>2, <1>4 DEF CreateFails, vars, callVars, queueVars, Uncounted
  <1>5. ASSUME NEW t \in Threads, NEW c \in Calls, Call(t, c)
        PROVE  Drift' >= Drift
    <2>1. mtx # t
      BY <1>5 DEF Call, Invoke, IInv, HolderIsCritical, Critical
    <2> QED
      BY <1>2, <1>5, <2>1 DEF Call, Invoke, queueVars, IInv, TypeOK, Uncounted
  <1>6. ASSUME NEW t \in Threads, Acquire(t)
        PROVE  Drift' >= Drift
    BY <1>2, <1>6 DEF Acquire, Lock, queueVars, IInv, TypeOK, Uncounted
  <1>7. ASSUME NEW t \in Threads, Finish(t)
        PROVE  Drift' >= Drift
    <2>1. mtx # t
      BY <1>7 DEF Finish, Return, IInv, HolderIsCritical, Critical
    <2> QED
      BY <1>2, <1>7, <2>1 DEF Finish, Return, queueVars, IInv, TypeOK, Uncounted
  <1>8. ASSUME NEW t \in Threads, HolderStep(t)
        PROVE  Drift' >= Drift
    <2>1. /\ pc[t] \in Critical
          /\ mtx = t
          /\ mtx # NoThread
          /\ Uncounted = IF pc[t] # "rest" THEN 0
                         ELSE IF op[t].name = "push" THEN 1 ELSE -1
      <3>1. pc[t] \in Critical
        BY <1>8 DEF HolderStep, PushFull, PushInsert, PushCount, PopEmpty, PopUnlink,
                    PopNullDeref, PopCount, Look, FreeBody, Release, ReleaseFreed,
                    InBody, Unlock, Critical
      <3> QED
        BY <3>1, HolderFacts DEF IInv
    <2>2. CASE PushFull(t) \/ PopEmpty(t) \/ Look(t)
      BY <1>2, <2>1, <2>2
      DEF PushFull, PopEmpty, Look, InBody, Answer, queueVars, IInv, TypeOK, Uncounted
    <2>3. CASE PushInsert(t)
      <3>1. Uncounted = 0 /\ Uncounted' = 1
        BY <2>1, <2>3 DEF PushInsert, InBody, Answer, IInv, TypeOK, Uncounted
      <3>2. op[t].data \in Elements
        BY <2>3, CallFacts DEF PushInsert, InBody, IInv, InCall
      <3>3. Len(nodes') \in {Len(nodes), Len(nodes) + 1}
        <4>1. CASE nodes' = ListPushFront(nodes, op[t].data)
          <5>1. Len(ListPushFront(nodes, op[t].data)) = Len(nodes) + 1
            BY <1>1, <3>2, PushFrontFacts
          <5> QED
            BY <4>1, <5>1
        <4> QED
          BY <2>3, <4>1 DEF PushInsert
      <3> QED
        BY <1>1, <2>3, <3>1, <3>3 DEF PushInsert, Drift
    <2>4. CASE PopUnlink(t)
      <3>1. Uncounted = 0 /\ Uncounted' = -1
        BY <2>1, <2>4 DEF PopUnlink, InBody, Answer, IInv, TypeOK, Uncounted
      <3>2. Len(nodes') = Len(nodes) - 1
        BY <1>1, <2>4, PopBackFacts DEF PopUnlink
      <3> QED
        BY <1>1, <2>4, <3>1, <3>2 DEF PopUnlink, Drift
    <2>5. CASE PushCount(t) \/ PopCount(t)
      <3>1. Uncounted' = 0 /\ size' = size + Uncounted /\ nodes' = nodes
        BY <2>1, <2>5 DEF PushCount, PopCount, Proceed, IInv, TypeOK, Uncounted
      <3> QED
        BY <1>1, <3>1 DEF Drift
    <2>6. CASE Release(t)
      BY <1>2, <2>1, <2>6 DEF Release, Unlock, queueVars, Uncounted
    <2>7. ~(PopNullDeref(t) \/ FreeBody(t) \/ ReleaseFreed(t))
      BY DEF PopNullDeref, FreeBody, ReleaseFreed
    <2> QED
      BY <1>8, <2>2, <2>3, <2>4, <2>5, <2>6, <2>7 DEF HolderStep
  <1> QED
    BY <1>3, <1>4, <1>5, <1>6, <1>7, <1>8 DEF Next

(* A slot a failed malloc has cost the queue never comes back. *)
THEOREM DriftCorrect == Spec => DriftNeverShrinks
  <1>1. IInv /\ [Next]_vars => [life = "live" /\ life' = "live" => Drift' >= Drift]_vars
    BY DriftStep
  <1> QED
    BY <1>1, InvariantHolds, PTL DEF Spec, DriftNeverShrinks

-----------------------------------------------------------------------------
(***************************************************************************)
(* While malloc does not fail, ConcurrentFixedQueue implements             *)
(* BoundedQueue.  The operation takes effect in the step of its body that  *)
(* touches the list.  The two steps that only adjust the counter, taking   *)
(* the mutex and releasing it are stutters; that the guards on the counter *)
(* are guards on the length of the list is CounterCoversList.              *)
(***************************************************************************)

(* The phase of a call at place p. *)
PhaseAt(p) ==
    CASE p = "idle" -> "idle"
      [] p \in {"lock", "body"} -> "called"
      [] OTHER -> "done"

LEMMA PhaseFacts ==
    ASSUME NEW t \in Threads
    PROVE  Phase[t] = PhaseAt(pc[t])
  BY DEF Phase, PhaseAt

(* A thread that moves to place p moves its phase alone. *)
LEMMA PhaseMoves ==
    ASSUME TypeOK, NEW t \in Threads, NEW p, pc' = [pc EXCEPT ![t] = p]
    PROVE  Phase' = [Phase EXCEPT ![t] = PhaseAt(p)]
  BY DEF Phase, PhaseAt, TypeOK

(* ... and if the phase of p is the one it has, Phase stays. *)
LEMMA PhaseStays ==
    ASSUME TypeOK, NEW t \in Threads, NEW p, pc' = [pc EXCEPT ![t] = p],
           PhaseAt(p) = PhaseAt(pc[t])
    PROVE  Phase' = Phase
  BY DEF Phase, PhaseAt, TypeOK

LEMMA RefinementInit == Init => BQ!Init
  <1> SUFFICES ASSUME Init PROVE BQ!Init
    OBVIOUS
  <1> USE DEF Init, ClientsInit
  <1>1. Reverse(nodes) = <<>>
    BY EmptySeq DEF ListInit, Reverse
  <1>2. Phase = [t \in Threads |-> "idle"]
    BY DEF Phase
  <1> QED
    BY <1>1, <1>2 DEF BQ!Init, BQ!NoRequest, NoCall

(* Until malloc fails the counter read by a body that has not touched the    *)
(* list is the length of the list, and so of the abstract queue.         *)
LEMMA CounterIsLength ==
    ASSUME IInv, ~mallocFailed, life = "live", NEW t \in Threads, pc[t] = "body"
    PROVE  /\ nodes \in Seq(Elements)
           /\ Reverse(nodes) \in Seq(Elements)
           /\ size = Len(nodes)
           /\ Len(Reverse(nodes)) = Len(nodes)
           /\ size <= Capacity
           /\ nodes = <<>> <=> Reverse(nodes) = <<>>
           /\ nodes = <<>> <=> size = 0
  <1>1. nodes \in Seq(Elements) /\ size \in Nat
    BY DEF IInv, TypeOK
  <1>2. Uncounted = 0
    BY HolderFacts DEF IInv, Critical
  <1>3. size = Len(nodes)
    BY <1>1, <1>2 DEF IInv, CounterCoversList, Drift
  <1>4. Reverse(nodes) \in Seq(Elements) /\ Len(Reverse(nodes)) = Len(nodes)
    BY <1>1, ReverseFacts
  <1> QED
    BY <1>1, <1>3, <1>4, EmptySeq DEF IInv, CapacityRespected

-----------------------------------------------------------------------------
LEMMA CreateRefines ==
    ASSUME IInv, Create
    PROVE  BQ!Create
  <1> USE DEF Create
  <1>1. Reverse(nodes') = <<>>
    BY EmptySeq DEF ListInit, Reverse
  <1>2. BQ!AllIdle
    BY PhaseFacts DEF BQ!AllIdle, AllIdle, PhaseAt
  <1>3. Phase' = Phase
    BY DEF Phase
  <1> QED
    BY <1>1, <1>2, <1>3 DEF BQ!Create

LEMMA CallRefines ==
    ASSUME IInv, NEW t \in Threads, NEW c \in Calls, Call(t, c)
    PROVE  BQ!Call(t, c)
  <1> USE DEF Call, Invoke, queueVars
  <1>1. Phase[t] = "idle" /\ Phase' = [Phase EXCEPT ![t] = "called"]
    BY PhaseFacts, PhaseMoves DEF IInv, PhaseAt
  <1>2. Reverse(nodes') = Reverse(nodes)
    OBVIOUS
  <1> QED
    BY <1>1, <1>2 DEF BQ!Call

LEMMA FinishRefines ==
    ASSUME IInv, NEW t \in Threads, Finish(t)
    PROVE  BQ!Return(t)
  <1> USE DEF Finish, Return, queueVars
  <1>1. Phase[t] = "done" /\ Phase' = [Phase EXCEPT ![t] = "idle"]
    BY PhaseFacts, PhaseMoves DEF IInv, PhaseAt
  <1>2. Reverse(nodes') = Reverse(nodes)
    OBVIOUS
  <1> QED
    BY <1>1, <1>2 DEF BQ!Return, BQ!NoRequest, NoCall

(* A body step that answers v and leaves the places before the effect is     *)
(* the abstract step that takes effect with v.                               *)
LEMMA AnswerTakesEffect ==
    ASSUME IInv, NEW t \in Threads, NEW name, NEW v, NEW p \in {"rest", "unlock"},
           InBody(t, name), Answer(t, v, p)
    PROVE  BQ!TakesEffect(t, name, v)
  <1>1. Phase[t] = "called" /\ Phase' = [Phase EXCEPT ![t] = "done"]
    BY PhaseFacts, PhaseMoves DEF IInv, PhaseAt, InBody, Answer
  <1> QED
    BY <1>1 DEF BQ!TakesEffect, InBody, Answer

LEMMA PushRefines ==
    ASSUME IInv, ~mallocFailed, ~mallocFailed', NEW t \in Threads, PushFull(t) \/ PushInsert(t)
    PROVE  BQ!Push(t)
  <1>1. CASE PushFull(t)
    <2> USE <1>1 DEF PushFull, queueVars
    <2>1. Len(Reverse(nodes)) = Capacity
      BY CounterIsLength, FixedQueueAssumption DEF InBody
    <2>2. BQ!TakesEffect(t, "push", CFalse)
      BY AnswerTakesEffect
    <2>3. Reverse(nodes') = Reverse(nodes)
      OBVIOUS
    <2> QED
      BY <2>1, <2>2, <2>3 DEF BQ!Push, BQ!CFalse, CFalse
  <1>2. CASE PushInsert(t)
    <2> USE <1>2 DEF PushInsert
    <2>1. Len(Reverse(nodes)) < Capacity
      BY CounterIsLength DEF InBody
    <2>2. BQ!TakesEffect(t, "push", CTrue)
      BY AnswerTakesEffect
    <2>3. op[t].data \in Elements /\ nodes \in Seq(Elements)
      BY CallFacts DEF IInv, InCall, InBody, TypeOK
    <2>4. Reverse(nodes') = Append(Reverse(nodes), op[t].data)
      BY <2>3, ReversePushFront
    <2> QED
      BY <2>1, <2>2, <2>4 DEF BQ!Push, BQ!CTrue, CTrue
  <1> QED
    BY <1>1, <1>2

LEMMA PopRefines ==
    ASSUME IInv, ~mallocFailed, NEW t \in Threads, PopEmpty(t) \/ PopUnlink(t)
    PROVE  BQ!Pop(t)
  <1>1. CASE PopEmpty(t)
    <2> USE <1>1 DEF PopEmpty, queueVars
    <2>1. Reverse(nodes) = <<>>
      BY CounterIsLength DEF InBody, IInv, TypeOK
    <2>2. BQ!TakesEffect(t, "pop", Null)
      BY AnswerTakesEffect
    <2>3. Reverse(nodes') = Reverse(nodes)
      OBVIOUS
    <2> QED
      BY <2>1, <2>2, <2>3 DEF BQ!Pop
  <1>2. CASE PopUnlink(t)
    <2> USE <1>2 DEF PopUnlink
    <2>1. nodes \in Seq(Elements)
      BY DEF IInv, TypeOK
    <2>2. /\ Reverse(nodes) # <<>>
          /\ Reverse(nodes') = Tail(Reverse(nodes))
          /\ ListBack(nodes) = Head(Reverse(nodes))
      BY <2>1, ReversePopBack
    <2>3. BQ!TakesEffect(t, "pop", ListBack(nodes))
      BY AnswerTakesEffect
    <2> QED
      BY <2>2, <2>3 DEF BQ!Pop
  <1> QED
    BY <1>1, <1>2

LEMMA LookRefines ==
    ASSUME IInv, ~mallocFailed, NEW t \in Threads, Look(t)
    PROVE  BQ!Look(t)
  <1> USE DEF Look, queueVars
  <1>1. PICK name \in LookNames : InBody(t, name) /\ Answer(t, Seen(name), "unlock")
    OBVIOUS
  <1>2. BQ!TakesEffect(t, name, Seen(name))
    BY <1>1, AnswerTakesEffect
  <1>3. Reverse(nodes') = Reverse(nodes) /\ life' = life
    OBVIOUS
  <1> DEFINE q == Reverse(nodes)
  <1>4. /\ nodes \in Seq(Elements) /\ q \in Seq(Elements)
        /\ size = Len(q) /\ Len(q) = Len(nodes)
        /\ nodes = <<>> <=> q = <<>>
        /\ nodes = <<>> <=> size = 0
    BY <1>1, CounterIsLength DEF InBody
  <1>5. name = "front" => Seen(name) = IF q = <<>> THEN Null ELSE Head(q)
    <2>1. nodes = <<>> => Seen("front") = Null
      BY <1>4 DEF Seen
    <2>2. nodes # <<>> => Seen("front") = ListBack(nodes)
      BY <1>4, EmptySeq DEF Seen
    <2>3. nodes # <<>> => ListBack(nodes) = Head(q)
      BY <1>4, ReversePopBack
    <2> QED
      BY <1>4, <2>1, <2>2, <2>3
  <1>6. name = "back" => Seen(name) = IF q = <<>> THEN Null ELSE q[Len(q)]
    <2>1. Seen("back") = IF nodes = <<>> THEN Null ELSE nodes[1]
      BY DEF Seen, ListFront
    <2>2. nodes # <<>> => q[Len(q)] = nodes[1]
      <3>1. nodes # <<>> => Len(nodes) \in 1..Len(nodes) /\ Len(nodes) - Len(nodes) + 1 = 1
        BY <1>4, EmptySeq
      <3> QED
        BY <1>4, <3>1, ReverseFacts
    <2> QED
      BY <1>4, <2>1, <2>2
  <1>7. /\ name = "size" => Seen(name) = Len(q)
        /\ name = "capacity" => Seen(name) = Capacity
        /\ name = "remaining_space" => Seen(name) = Capacity - Len(q)
    BY <1>4 DEF Seen
  <1> HIDE DEF q
  <1>8. \/ BQ!TakesEffect(t, "front", IF q = <<>> THEN Null ELSE Head(q))
        \/ BQ!TakesEffect(t, "back", IF q = <<>> THEN Null ELSE q[Len(q)])
        \/ BQ!TakesEffect(t, "size", Len(q))
        \/ BQ!TakesEffect(t, "capacity", Capacity)
        \/ BQ!TakesEffect(t, "remaining_space", Capacity - Len(q))
    BY <1>1, <1>2, <1>5, <1>6, <1>7 DEF LookNames
  <1> QED
    BY <1>3, <1>8 DEF BQ!Look, q

-----------------------------------------------------------------------------
(* The steps that only move the mutex or the counter. *)
LEMMA StutterRefines ==
    ASSUME IInv, NEW t \in Threads,
           \/ Acquire(t) \/ PushCount(t) \/ PopCount(t)
           \/ Release(t) \/ ReleaseFreed(t)
    PROVE  UNCHANGED BQ!vars
  <1> USE DEF queueVars, callVars
  <1>1. UNCHANGED <<op, ret, nodes>> /\ Phase' = Phase
    <2>1. CASE Acquire(t)
      BY <2>1, PhaseStays DEF Acquire, Lock, PhaseAt, IInv
    <2>2. CASE PushCount(t) \/ PopCount(t)
      BY <2>2, PhaseStays DEF PushCount, PopCount, Proceed, PhaseAt, IInv
    <2>3. CASE Release(t)
      BY <2>3, PhaseStays DEF Release, Unlock, PhaseAt, IInv
    <2>4. CASE ReleaseFreed(t)
      <3>1. CASE Unlock(t)
        BY <2>4, <3>1, PhaseStays DEF ReleaseFreed, Unlock, PhaseAt, IInv
      <3>2. CASE UNCHANGED callVars
        BY <2>4, <3>2 DEF ReleaseFreed, Phase
      <3> QED
        BY <2>4, <3>1, <3>2 DEF ReleaseFreed
    <2> QED
      BY <2>1, <2>2, <2>3, <2>4
  <1>2. (life \notin {"none", "freed", "exited"})' = (life \notin {"none", "freed", "exited"})
    BY DEF Acquire, PushCount, PopCount, Release, ReleaseFreed
  <1> QED
    BY <1>1, <1>2 DEF BQ!vars

(* A free that is defined ends the abstract queue; one that is not stops the *)
(* program before it takes effect.                                           *)
LEMMA FreeRefines ==
    ASSUME IInv, NEW t \in Threads, FreeBody(t)
    PROVE  BQ!Free(t) \/ UNCHANGED BQ!vars
  <1>1. PICK name \in FreeNames :
            /\ InBody(t, name)
            /\ \/ life' = "badFree" /\ UNCHANGED <<callVars, nodes>>
               \/ life' = "freed" /\ nodes' = <<>> /\ Answer(t, Null, "unlock")
    BY DEF FreeBody
  <1>2. CASE life' = "badFree" /\ UNCHANGED <<callVars, nodes>>
    BY <1>2 DEF FreeBody, BQ!vars, callVars, Phase
  <1>3. CASE life' = "freed" /\ nodes' = <<>> /\ Answer(t, Null, "unlock")
    <2>1. BQ!TakesEffect(t, name, Null)
      BY <1>1, <1>3, AnswerTakesEffect
    <2>2. Reverse(nodes') = <<>>
      BY <1>3, EmptySeq DEF Reverse
    <2> QED
      BY <1>1, <1>3, <2>1, <2>2 DEF BQ!Free, BQ!FreeNames, FreeNames
  <1> QED
    BY <1>1, <1>2, <1>3

(* The counter and the list agree, so pop never finds them apart. *)
LEMMA NoNullDeref ==
    ASSUME IInv, ~mallocFailed, NEW t \in Threads
    PROVE  ~PopNullDeref(t)
  <1> SUFFICES ASSUME PopNullDeref(t) PROVE FALSE
    OBVIOUS
  <1> QED
    BY CounterIsLength DEF PopNullDeref, InBody

(* A failed malloc is never forgotten. *)
LEMMA MallocRemembered == [Next]_vars => (mallocFailed => mallocFailed')
  <1>1. ASSUME NEW t \in Threads, HolderStep(t), mallocFailed PROVE mallocFailed'
    BY <1>1 DEF HolderStep, PushFull, PushInsert, PushCount, PopEmpty, PopUnlink, PopNullDeref,
                PopCount, Look, FreeBody, Release, ReleaseFreed, queueVars
  <1>2. ASSUME NEW t \in Threads, Acquire(t) \/ Finish(t) \/ \E c \in Calls : Call(t, c), mallocFailed
        PROVE  mallocFailed'
    BY <1>2 DEF Acquire, Finish, Call, queueVars
  <1>3. ASSUME Create \/ CreateFails \/ UNCHANGED vars, mallocFailed PROVE mallocFailed'
    BY <1>3 DEF Create, CreateFails, vars, queueVars
  <1> QED
    BY <1>1, <1>2, <1>3 DEF Next

(* Until malloc fails every step of the fixed queue is a step of the bounded *)
(* queue or a stutter.                                                       *)
LEMMA StepRefines == IInv /\ ~mallocFailed' /\ [Next]_vars => [BQ!Next]_(BQ!vars)
  <1> SUFFICES ASSUME IInv, ~mallocFailed', [Next]_vars
               PROVE  BQ!Next \/ UNCHANGED BQ!vars
    OBVIOUS
  <1>0. ~mallocFailed
    BY MallocRemembered
  <1>1. CASE Create
    BY <1>1, CreateRefines DEF BQ!Next
  <1>2. ~CreateFails
    BY DEF CreateFails
  <1>3. ASSUME NEW t \in Threads, NEW c \in Calls, Call(t, c)
        PROVE  BQ!Next
    <2>1. c \in BQ!Requests
      BY DEF Calls, BQ!Requests
    <2> QED
      BY <1>3, <2>1, CallRefines DEF BQ!Next
  <1>4. ASSUME NEW t \in Threads, Acquire(t)
        PROVE  UNCHANGED BQ!vars
    BY <1>4, StutterRefines
  <1>5. ASSUME NEW t \in Threads, HolderStep(t)
        PROVE  BQ!Next \/ UNCHANGED BQ!vars
    <2>1. CASE PushFull(t) \/ PushInsert(t)
      BY <1>0, <2>1, PushRefines DEF BQ!Next
    <2>2. CASE PopEmpty(t) \/ PopUnlink(t)
      BY <1>0, <2>2, PopRefines DEF BQ!Next
    <2>3. CASE Look(t)
      BY <1>0, <2>3, LookRefines DEF BQ!Next
    <2>4. CASE FreeBody(t)
      BY <2>4, FreeRefines DEF BQ!Next
    <2>5. CASE PushCount(t) \/ PopCount(t) \/ Release(t) \/ ReleaseFreed(t)
      BY <2>5, StutterRefines
    <2> QED
      BY <1>0, <1>5, <2>1, <2>2, <2>3, <2>4, <2>5, NoNullDeref DEF HolderStep
  <1>6. ASSUME NEW t \in Threads, Finish(t)
        PROVE  BQ!Next
    BY <1>6, FinishRefines DEF BQ!Next
  <1>7. CASE UNCHANGED vars
    BY <1>7 DEF vars, callVars, queueVars, BQ!vars, Phase
  <1> QED
    BY <1>1, <1>2, <1>3, <1>4, <1>5, <1>6, <1>7 DEF Next

(* Until malloc fails the fixed queue is a bounded FIFO queue with atomic    *)
(* operations, however its threads interleave.                               *)
THEOREM Refinement == Spec => ImplementsBoundedQueue
  <1>1. IInv /\ [Next]_vars => [mallocFailed' \/ [BQ!Next]_(BQ!vars)]_vars
    BY StepRefines
  <1> QED
    BY <1>1, RefinementInit, InvariantHolds, PTL DEF Spec, ImplementsBoundedQueue
=============================================================================
