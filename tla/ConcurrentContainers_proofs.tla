---------------------- MODULE ConcurrentContainers_proofs ----------------------
(***************************************************************************)
(* Proofs about the dynamic queue, the stack and the forward list of       *)
(* MCConcurrentContainers, for every set of threads and of elements, every *)
(* bound on the elements, every initial capacity, and with or without an   *)
(* allocation that fails: first the invariants, then the refinements of    *)
(* BoundedQueue (until malloc fails) and of AtomicStack (by the stack      *)
(* always, by the forward list until calloc fails).                        *)
(***************************************************************************)
EXTENDS MCConcurrentContainers, CommonLemmas, FiniteSetTheorems

-----------------------------------------------------------------------------
(* The mutex, for all three: a thread that moves keeps the holder critical  *)
(* if it moves within the bracket, or takes or gives back the mutex.        *)
LEMMA HolderMoves ==
    ASSUME HolderIsCritical, pc \in [Threads -> Places],
           NEW t \in Threads, NEW p, pc' = [pc EXCEPT ![t] = p],
           \/ mtx' = mtx /\ (p \in Critical <=> pc[t] \in Critical)
           \/ mtx = NoThread /\ mtx' = t /\ p \in Critical
           \/ pc[t] \in Critical /\ mtx' = NoThread /\ p \notin Critical
    PROVE  HolderIsCritical'
  BY ClientsAssumption DEF HolderIsCritical

(* The thread inside a body is the only one there. *)
LEMMA HolderAlone ==
    ASSUME HolderIsCritical, NEW t \in Threads, pc[t] \in {"body", "rest", "unlock"}
    PROVE  /\ mtx = t
           /\ mtx # NoThread
           /\ \A u \in Threads \ {t} : pc[u] \notin {"body", "rest", "unlock"}
  BY ClientsAssumption DEF HolderIsCritical, Critical

(* The modules' own copies of the library's operators are those operators. *)
LEMMA SameOperators ==
    /\ \A s : Queue!Reverse(s) = Reverse(s) /\ Stack!Reverse(s) = Reverse(s)
    /\ \A S : Queue!Cardinality(S) = Cardinality(S) /\ Stack!Cardinality(S) = Cardinality(S)
    /\ \A S : List!Cardinality(S) = Cardinality(S)
  BY DEF Queue!Reverse, Stack!Reverse, Reverse,
         Queue!Cardinality, Stack!Cardinality, List!Cardinality, Cardinality

-----------------------------------------------------------------------------
(* The dynamic queue. *)

(* A thread inside a function is in one of the calls clients make. *)
QueueInCall == \A t \in Threads : pc[t] # "idle" => op[t] \in Queue!Calls

(* The second step of a body: a push has a node unless malloc has failed, a *)
(* pop has found an element.                                                *)
QueueWindow ==
    \A t \in Threads : pc[t] = "rest" =>
        \/ /\ op[t].name = "push"
           /\ ret[t] \in {CTrue, CFalse}
           /\ ret[t] = CFalse => mallocFailed
        \/ op[t].name = "pop" /\ size > 0

(* The pushes that are called and not counted yet leave room for each other: *)
(* clients fill the queue up to MaxElements and no further.                  *)
Pending == {t \in Threads : op[t].name = "push" /\ pc[t] \in {"lock", "body", "rest"}}

QueueBound ==
    /\ IsFiniteSet(Queue!InFlight)
    /\ size + Cardinality(Pending) <= MaxElements

(***************************************************************************)
(* The inductive invariant of the dynamic queue.  The counter is right     *)
(* only together with the mutex, which keeps a second thread out of the    *)
(* list-then-count window, and with what is known inside that window.      *)
(***************************************************************************)
QueueInv ==
    /\ Queue!TypeOK
    /\ HolderIsCritical
    /\ QueueInCall
    /\ QueueWindow
    /\ Queue!CounterCoversList
    /\ QueueBound

(* What the calls of the queue are. *)
LEMMA QueueCallFacts ==
    ASSUME NEW c \in Queue!Calls
    PROVE  /\ c.name \in {"push", "pop", "front", "back", "size", "free", "deep_free"}
           /\ c.name = "push" => c.data \in Elements
  BY DEF Queue!Calls, Queue!LookNames, Queue!FreeNames

(* What a thread in the window has not counted. *)
QueueUncountedOf(c, r) ==
    IF c.name = "pop" THEN -1 ELSE IF r = CTrue THEN 1 ELSE 0

QueueUncountedIs ==
    /\ \A t \in Threads : pc[t] = "rest" => Queue!Uncounted = QueueUncountedOf(op[t], ret[t])
    /\ (\A t \in Threads : pc[t] # "rest") => Queue!Uncounted = 0

(* Queue!Uncounted is that of the thread in the window, if there is one. *)
LEMMA QueueUncountedFacts ==
    HolderIsCritical /\ mtx \in Threads \cup {NoThread} => QueueUncountedIs
  BY ClientsAssumption
  DEF HolderIsCritical, Critical, QueueUncountedIs, Queue!Uncounted, QueueUncountedOf,
      Queue!CTrue, CTrue

LEMMA QueueUncountedFactsNext ==
    (HolderIsCritical /\ mtx \in Threads \cup {NoThread} => QueueUncountedIs)'
  BY QueueUncountedFacts, PTL

(* Pushes are finitely many at any time. *)
LEMMA PendingFinite ==
    ASSUME IsFiniteSet(Queue!InFlight)
    PROVE  IsFiniteSet(Pending) /\ Cardinality(Pending) \in Nat
  <1>1. Pending \in SUBSET Queue!InFlight
    BY DEF Pending, Queue!InFlight
  <1> QED
    BY <1>1, FS_Subset, FS_CardinalityType

LEMMA QueueInitInv == Queue!Init => QueueInv
  <1> SUFFICES ASSUME Queue!Init PROVE QueueInv
    OBVIOUS
  <1> USE DEF Queue!Init, Queue!ClientsInit, Queue!ListInit, Queue!NoCall
  <1>1. Queue!TypeOK
    BY EmptySeq DEF Queue!TypeOK, Queue!Places, Queue!Ended, Queue!NoCall
  <1>2. HolderIsCritical
    BY ClientsAssumption DEF HolderIsCritical, Critical
  <1>3. QueueInCall /\ QueueWindow /\ Queue!CounterCoversList
    BY DEF QueueInCall, QueueWindow, Queue!CounterCoversList
  <1>4. QueueBound
    <2>1. Queue!InFlight = {} /\ Pending = {}
      BY DEF Queue!InFlight, Pending
    <2> QED
      BY <2>1, FS_EmptySet, ContainerAssumption DEF QueueBound
  <1> QED
    BY <1>1, <1>2, <1>3, <1>4 DEF QueueInv

(***************************************************************************)
(* A thread moves outside the window and leaves the queue as it is: it     *)
(* makes a call, takes or gives back the mutex, or answers from a body.    *)
(***************************************************************************)
LEMMA QueueMoves ==
    ASSUME QueueInv, NEW t \in Threads, NEW p \in Places \ {"rest"}, pc[t] # "rest",
           NEW c \in Queue!Calls \cup {NoCall}, p # "idle" => c \in Queue!Calls,
           NEW v \in Elements \cup {Null} \cup Nat,
           pc' = [pc EXCEPT ![t] = p], op' = [op EXCEPT ![t] = c],
           ret' = [ret EXCEPT ![t] = v], mtx' \in Threads \cup {NoThread},
           HolderIsCritical', QueueBound',
           UNCHANGED <<life, nodes, size, mallocFailed>>
    PROVE  QueueInv'
  <1>1. Queue!TypeOK'
    BY DEF QueueInv, Queue!TypeOK, Places, Queue!Places, NoCall, Queue!NoCall
  <1>2. QueueInCall' /\ QueueWindow'
    BY DEF QueueInv, Queue!TypeOK, QueueInCall, QueueWindow
  <1>3. Queue!Uncounted' = Queue!Uncounted
    <2>1. QueueUncountedIs /\ QueueUncountedIs'
      BY QueueUncountedFacts, QueueUncountedFactsNext DEF QueueInv, Queue!TypeOK
    <2>2. \A u \in Threads : pc'[u] = "rest" =>
                u # t /\ pc[u] = "rest" /\ op'[u] = op[u] /\ ret'[u] = ret[u]
      BY DEF QueueInv, Queue!TypeOK
    <2>3. \A u \in Threads : pc[u] = "rest" => pc'[u] = "rest"
      BY DEF QueueInv, Queue!TypeOK
    <2> QED
      BY <2>1, <2>2, <2>3 DEF QueueUncountedIs, QueueUncountedOf
  <1>4. Queue!CounterCoversList'
    BY <1>3 DEF QueueInv, Queue!CounterCoversList
  <1> QED
    BY <1>1, <1>2, <1>4 DEF QueueInv

(* The same for a thread that keeps its call and its return_value. *)
LEMMA QueueMovesInCall ==
    ASSUME QueueInv, NEW t \in Threads, NEW p \in Places \ {"rest", "idle"},
           pc[t] \notin {"rest", "idle"}, pc' = [pc EXCEPT ![t] = p],
           UNCHANGED <<op, ret, life, nodes, size, mallocFailed>>,
           mtx' \in Threads \cup {NoThread}, HolderIsCritical', QueueBound'
    PROVE  QueueInv'
  <1>1. PICK c \in Queue!Calls : c = op[t]
    BY DEF QueueInv, QueueInCall
  <1>2. PICK v \in Elements \cup {Null} \cup Nat : v = ret[t]
    BY DEF QueueInv, Queue!TypeOK
  <1>3. op' = [op EXCEPT ![t] = c] /\ ret' = [ret EXCEPT ![t] = v]
    BY <1>1, <1>2 DEF QueueInv, Queue!TypeOK
  <1>4. p \in Places \ {"rest"} /\ pc[t] # "rest" /\ c \in Queue!Calls \cup {NoCall}
    OBVIOUS
  <1> QED
    BY <1>3, <1>4, QueueMoves

(* No new push, and no more elements: the bound is kept. *)
LEMMA QueueBoundKept ==
    ASSUME QueueBound, Pending' \subseteq Pending, Queue!InFlight' \subseteq Queue!InFlight,
           size \in Nat, size' \in Nat, size' <= size
    PROVE  QueueBound'
  <1>1. /\ IsFiniteSet(Pending) /\ IsFiniteSet(Queue!InFlight)
        /\ Cardinality(Pending) \in Nat
    BY PendingFinite DEF QueueBound
  <1>2. IsFiniteSet(Queue!InFlight')
    BY <1>1, FS_Subset
  <1>3. Cardinality(Pending') \in Nat /\ Cardinality(Pending') <= Cardinality(Pending)
    BY <1>1, FS_Subset, FS_CardinalityType
  <1> QED
    BY <1>1, <1>2, <1>3, ContainerAssumption DEF QueueBound

LEMMA QueueCreateKeeps == QueueInv /\ (Queue!Create \/ Queue!CreateFails) => QueueInv'
  <1> SUFFICES ASSUME QueueInv, Queue!Create \/ Queue!CreateFails PROVE QueueInv'
    OBVIOUS
  <1> USE DEF Queue!Create, Queue!CreateFails, Queue!callVars, Queue!ListInit, Queue!AllIdle
  <1>0. /\ \A t \in Threads : pc[t] = "idle"
        /\ UNCHANGED <<pc, op, ret>>
    OBVIOUS
  <1>1. Queue!TypeOK'
    <2>1. CASE Queue!Create
      BY <2>1, EmptySeq DEF QueueInv, Queue!TypeOK
    <2>2. CASE Queue!CreateFails
      BY <2>2 DEF QueueInv, Queue!TypeOK, Queue!Ended
    <2> QED
      BY <2>1, <2>2
  <1>2. HolderIsCritical'
    BY <1>0, ClientsAssumption DEF QueueInv, HolderIsCritical, Critical
  <1>3. QueueInCall' /\ QueueWindow'
    BY <1>0 DEF QueueInCall, QueueWindow
  <1>4. Queue!Uncounted' = 0
    BY <1>0, <1>1, <1>2, QueueUncountedFactsNext DEF QueueUncountedIs, Queue!TypeOK
  <1>5. Queue!CounterCoversList'
    BY <1>4, EmptySeq DEF QueueInv, Queue!CounterCoversList, Queue!Ended
  <1>6. QueueBound'
    <2>1. Pending' \subseteq Pending /\ Queue!InFlight' \subseteq Queue!InFlight
      BY <1>0 DEF Pending, Queue!InFlight
    <2>2. size \in Nat /\ size' \in Nat /\ size' <= size
      BY DEF QueueInv, Queue!TypeOK
    <2> QED
      BY <2>1, <2>2, QueueBoundKept DEF QueueInv
  <1> QED
    BY <1>1, <1>2, <1>3, <1>5, <1>6 DEF QueueInv

LEMMA QueueCallKeeps ==
    ASSUME QueueInv, NEW t \in Threads, NEW c \in Queue!Calls, Queue!Call(t, c)
    PROVE  QueueInv'
  <1> USE DEF Queue!Call, Queue!Invoke, Queue!queueVars
  <1>1. HolderIsCritical'
    BY HolderMoves DEF QueueInv, Queue!TypeOK, Critical, Places, Queue!Places
  <1>2. QueueBound'
    <2>1. /\ IsFiniteSet(Queue!InFlight) /\ IsFiniteSet(Pending)
          /\ Cardinality(Pending) \in Nat /\ size \in Nat
      BY PendingFinite DEF QueueInv, QueueBound, Queue!TypeOK
    <2>2. CASE c.name = "push"
      <3>1. /\ Pending' = Pending \cup {t} /\ t \notin Pending
            /\ Queue!InFlight' = Queue!InFlight \cup {t}
            /\ Pending \in SUBSET Queue!InFlight
        BY <2>2 DEF Pending, Queue!InFlight, QueueInv, Queue!TypeOK
      <3>2. /\ IsFiniteSet(Queue!InFlight')
            /\ Cardinality(Pending') = Cardinality(Pending) + 1
        BY <2>1, <3>1, FS_AddElement
      <3>3. /\ Cardinality(Pending) <= Cardinality(Queue!InFlight)
            /\ Cardinality(Queue!InFlight) \in Nat
        BY <2>1, <3>1, FS_Subset, FS_CardinalityType
      <3>4. size + Cardinality(Queue!InFlight) < MaxElements
        BY <2>2, SameOperators
      <3> QED
        BY <2>1, <3>2, <3>3, <3>4, ContainerAssumption DEF QueueBound
    <2>3. CASE c.name # "push"
      <3>1. Pending' \subseteq Pending /\ Queue!InFlight' \subseteq Queue!InFlight
        BY <2>3 DEF Pending, Queue!InFlight, QueueInv, Queue!TypeOK
      <3> QED
        BY <2>1, <3>1, QueueBoundKept DEF QueueInv
    <2> QED
      BY <2>2, <2>3
  <1>3. ret' = [ret EXCEPT ![t] = ret[t]] /\ ret[t] \in Elements \cup {Null} \cup Nat
    BY DEF QueueInv, Queue!TypeOK
  <1> QED
    BY <1>1, <1>2, <1>3, QueueMoves DEF Places, QueueInv, Queue!TypeOK

(* A move that brings no new push. *)
LEMMA QueueBoundMoves ==
    ASSUME QueueInv, NEW t \in Threads, NEW p,
           pc' = [pc EXCEPT ![t] = p],
           p \in {"lock", "body", "rest"} => pc[t] \in {"lock", "body", "rest"},
           op' = op \/ op' = [op EXCEPT ![t] = NoCall],
           size' = size
    PROVE  QueueBound'
  <1>1. Pending' \subseteq Pending /\ Queue!InFlight' \subseteq Queue!InFlight
    BY DEF Pending, Queue!InFlight, QueueInv, Queue!TypeOK, NoCall
  <1>2. size \in Nat /\ size' \in Nat /\ size' <= size
    BY DEF QueueInv, Queue!TypeOK
  <1> QED
    BY <1>1, <1>2, QueueBoundKept DEF QueueInv

LEMMA QueueAcquireKeeps ==
    ASSUME QueueInv, NEW t \in Threads, Queue!Acquire(t)
    PROVE  QueueInv'
  <1>1. /\ pc' = [pc EXCEPT ![t] = "body"] /\ pc[t] = "lock"
        /\ mtx = NoThread /\ mtx' = t
        /\ UNCHANGED <<op, ret, life, nodes, size, mallocFailed>>
    BY DEF Queue!Acquire, Queue!Lock, Queue!queueVars
  <1>2. HolderIsCritical'
    BY <1>1, HolderMoves DEF QueueInv, Queue!TypeOK, Critical, Places, Queue!Places
  <1>3. QueueBound'
    BY <1>1, QueueBoundMoves
  <1>4. "body" \in Places \ {"rest", "idle"}
    BY DEF Places
  <1> QED
    BY <1>1, <1>2, <1>3, <1>4, QueueMovesInCall

(* The bodies that leave the queue as it is. *)
LEMMA QueueReadKeeps ==
    ASSUME QueueInv, NEW t \in Threads, NEW v \in Elements \cup {Null} \cup Nat,
           pc[t] = "body", Queue!Answer(t, v, "unlock"), UNCHANGED Queue!queueVars
    PROVE  QueueInv'
  <1> USE DEF Queue!Answer, Queue!queueVars
  <1>1. HolderIsCritical'
    BY HolderMoves DEF QueueInv, Queue!TypeOK, Critical, Places, Queue!Places
  <1>2. QueueBound'
    BY QueueBoundMoves
  <1>3. op' = [op EXCEPT ![t] = op[t]] /\ op[t] \in Queue!Calls
    BY DEF QueueInv, QueueInCall, Queue!TypeOK
  <1> QED
    BY <1>1, <1>2, <1>3, QueueMoves DEF Places, QueueInv, Queue!TypeOK

LEMMA QueueLookKeeps ==
    ASSUME QueueInv, NEW t \in Threads, Queue!PopEmpty(t) \/ Queue!Look(t)
    PROVE  QueueInv'
  <1>1. CASE Queue!PopEmpty(t)
    BY <1>1, QueueReadKeeps DEF Queue!PopEmpty, Queue!InBody
  <1>2. CASE Queue!Look(t)
    <2>1. PICK name \in Queue!LookNames :
            Queue!InBody(t, name) /\ Queue!Answer(t, Queue!Seen(name), "unlock")
      BY <1>2 DEF Queue!Look
    <2>2. nodes \in Seq(Elements) /\ size \in Nat
      BY DEF QueueInv, Queue!TypeOK
    <2>3. /\ Queue!ListBack(nodes) \in Elements \cup {Null}
          /\ Queue!ListFront(nodes) \in Elements \cup {Null}
      <3>1. Queue!ListBack(nodes) = ListBack(nodes) /\ Queue!ListFront(nodes) = ListFront(nodes)
        BY SameOperators DEF Queue!ListBack, Queue!ListFront, ListBack, ListFront
      <3> QED
        BY <2>2, <3>1, EndsFacts
    <2>4. Queue!Seen(name) \in Elements \cup {Null} \cup Nat
      BY <2>2, <2>3 DEF Queue!Seen, Queue!LookNames
    <2> QED
      BY <1>2, <2>1, <2>4, QueueReadKeeps DEF Queue!Look, Queue!InBody
  <1> QED
    BY <1>1, <1>2

(* A list step of a body: the window opens with what is not counted yet. *)
LEMMA QueueOpensWindow ==
    ASSUME QueueInv, NEW t \in Threads, NEW v \in Elements \cup {Null} \cup Nat,
           life = "live", pc[t] = "body", Queue!Answer(t, v, "rest"),
           nodes' \in Seq(Elements), mallocFailed' \in BOOLEAN,
           mallocFailed => mallocFailed',
           \/ /\ op[t].name = "push" /\ v \in {CTrue, CFalse}
              /\ v = CFalse => mallocFailed'
           \/ op[t].name = "pop" /\ size > 0,
           Len(nodes') = Len(nodes) + QueueUncountedOf(op[t], v),
           UNCHANGED <<life, size>>
    PROVE  QueueInv'
  <1> USE DEF Queue!Answer
  <1>1. Queue!TypeOK'
    BY DEF QueueInv, Queue!TypeOK, Queue!Places
  <1>2. HolderIsCritical'
    BY HolderMoves DEF QueueInv, Queue!TypeOK, Critical, Places, Queue!Places
  <1>3. \A u \in Threads \ {t} : pc[u] # "rest" /\ pc'[u] # "rest"
    BY HolderAlone DEF QueueInv, Queue!TypeOK
  <1>4. pc'[t] = "rest" /\ ret'[t] = v /\ op' = op
    BY DEF QueueInv, Queue!TypeOK
  <1>5. QueueInCall' /\ QueueWindow'
    BY <1>3, <1>4 DEF QueueInv, QueueInCall, QueueWindow, Queue!TypeOK
  <1>6. Queue!Uncounted = 0 /\ Queue!Uncounted' = QueueUncountedOf(op[t], v)
    <2>1. QueueUncountedIs /\ QueueUncountedIs'
      BY <1>1, <1>2, QueueUncountedFacts, QueueUncountedFactsNext DEF QueueInv, Queue!TypeOK
    <2> QED
      BY <2>1, <1>3, <1>4 DEF QueueUncountedIs, QueueUncountedOf
  <1>7. QueueUncountedOf(op[t], v) \in Int /\ size \in Nat /\ Len(nodes) \in Nat
    BY DEF QueueUncountedOf, QueueInv, Queue!TypeOK
  <1>8. Queue!CounterCoversList'
    <2> HIDE DEF QueueUncountedOf
    <2> QED
      BY <1>6, <1>7 DEF QueueInv, Queue!CounterCoversList, Queue!TypeOK
  <1>9. QueueBound'
    BY QueueBoundMoves
  <1> QED
    BY <1>1, <1>2, <1>5, <1>8, <1>9 DEF QueueInv

LEMMA QueuePushKeeps ==
    ASSUME QueueInv, NEW t \in Threads, Queue!PushInsert(t) \/ Queue!PushRefused(t)
    PROVE  QueueInv'
  <1>1. /\ pc[t] = "body" /\ op[t].name = "push" /\ op[t].data \in Elements
        /\ life = "live" /\ nodes \in Seq(Elements) /\ mallocFailed \in BOOLEAN
    BY QueueCallFacts
    DEF Queue!PushInsert, Queue!PushRefused, Queue!InBody, QueueInv, QueueInCall, Queue!TypeOK
  <1>2. CASE Queue!PushInsert(t)
    <2>1. nodes' \in Seq(Elements) /\ Len(nodes') = Len(nodes) + 1
      <3>1. nodes' = ListPushFront(nodes, op[t].data)
        BY <1>2 DEF Queue!PushInsert, Queue!ListPushFront, ListPushFront
      <3> QED
        BY <1>1, <3>1, PushFrontFacts
    <2> QED
      BY <1>1, <1>2, <2>1, QueueOpensWindow
      DEF Queue!PushInsert, QueueUncountedOf, CTrue, CFalse, Queue!CTrue
  <1>3. CASE Queue!PushRefused(t)
    <2>1. Len(nodes) \in Nat
      BY <1>1
    <2> QED
      BY <1>1, <1>3, <2>1, QueueOpensWindow
      DEF Queue!PushRefused, QueueUncountedOf, CTrue, CFalse, Queue!CFalse
  <1> QED
    BY <1>2, <1>3

LEMMA QueuePopKeeps ==
    ASSUME QueueInv, NEW t \in Threads, Queue!PopUnlink(t)
    PROVE  QueueInv'
  <1>1. /\ pc[t] = "body" /\ op[t].name = "pop" /\ size > 0 /\ nodes # <<>>
        /\ life = "live" /\ nodes \in Seq(Elements) /\ mallocFailed \in BOOLEAN
    BY DEF Queue!PopUnlink, Queue!InBody, QueueInv, Queue!TypeOK
  <1>2. nodes' = ListPopBack(nodes) /\ Queue!ListBack(nodes) = ListBack(nodes)
    BY SameOperators
    DEF Queue!PopUnlink, Queue!ListPopBack, ListPopBack, Queue!ListBack, ListBack
  <1>3. /\ nodes' \in Seq(Elements) /\ Len(nodes') = Len(nodes) - 1
        /\ Queue!ListBack(nodes) \in Elements
    BY <1>1, <1>2, PopBackFacts, EndsFacts
  <1>4. Len(nodes') = Len(nodes) + QueueUncountedOf(op[t], Queue!ListBack(nodes))
    BY <1>1, <1>3 DEF QueueUncountedOf
  <1> QED
    BY <1>1, <1>3, <1>4, QueueOpensWindow DEF Queue!PopUnlink

(* The counter catches up with the list. *)
LEMMA QueueCountKeeps ==
    ASSUME QueueInv, NEW t \in Threads, Queue!PushCount(t) \/ Queue!PopCount(t)
    PROVE  QueueInv'
  <1> USE DEF Queue!PushCount, Queue!PopCount, Queue!Proceed
  <1>1. /\ pc[t] = "rest" /\ life = "live" /\ UNCHANGED <<life, nodes, mallocFailed, op, ret>>
        /\ pc' = [pc EXCEPT ![t] = "unlock"] /\ mtx' = mtx
    OBVIOUS
  <1>2. \A u \in Threads \ {t} : pc[u] # "rest" /\ pc'[u] # "rest"
    BY <1>1, HolderAlone DEF QueueInv, Queue!TypeOK
  <1>3. \/ op[t].name = "push" /\ size' = size + 1
        \/ op[t].name = "pop" /\ size' = size - 1 /\ size > 0
    BY DEF QueueInv, QueueWindow
  <1>4. Queue!TypeOK'
    BY <1>1, <1>3 DEF QueueInv, Queue!TypeOK, Queue!Places
  <1>5. HolderIsCritical'
    BY <1>1, HolderMoves DEF QueueInv, Queue!TypeOK, Critical, Places, Queue!Places
  <1>6. QueueInCall' /\ QueueWindow'
    BY <1>1, <1>2 DEF QueueInv, QueueInCall, QueueWindow, Queue!TypeOK
  <1>7. Queue!Uncounted = QueueUncountedOf(op[t], ret[t]) /\ Queue!Uncounted' = 0
    <2>1. QueueUncountedIs /\ QueueUncountedIs'
      BY <1>4, <1>5, QueueUncountedFacts, QueueUncountedFactsNext DEF QueueInv, Queue!TypeOK
    <2>2. \A u \in Threads : pc'[u] # "rest"
      BY <1>1, <1>2 DEF QueueInv, Queue!TypeOK
    <2> QED
      BY <2>1, <2>2, <1>1 DEF QueueUncountedIs
  <1>8. Queue!CounterCoversList'
    <2>1. /\ size \in Nat /\ Len(nodes) \in Nat
          /\ op[t].name = "push" /\ ~mallocFailed => ret[t] = CTrue
      BY <1>1 DEF QueueInv, QueueWindow, Queue!TypeOK
    <2> QED
      BY <1>1, <1>3, <1>7, <2>1
      DEF QueueInv, Queue!CounterCoversList, QueueUncountedOf
  <1>9. QueueBound'
    <2>1. CASE op[t].name = "push" /\ size' = size + 1
      <3>1. /\ Pending' = Pending \ {t} /\ t \in Pending
            /\ Queue!InFlight' = Queue!InFlight
        BY <1>1, <2>1 DEF Pending, Queue!InFlight, QueueInv, Queue!TypeOK
      <3>2. /\ IsFiniteSet(Pending) /\ Cardinality(Pending) \in Nat
            /\ Cardinality(Pending') = Cardinality(Pending) - 1
        BY <3>1, PendingFinite, FS_RemoveElement DEF QueueInv, QueueBound
      <3> QED
        BY <2>1, <3>1, <3>2, ContainerAssumption DEF QueueInv, QueueBound, Queue!TypeOK
    <2>2. CASE op[t].name = "pop" /\ size' = size - 1 /\ size > 0
      <3>1. Pending' \subseteq Pending /\ Queue!InFlight' \subseteq Queue!InFlight
        BY <1>1, <2>2 DEF Pending, Queue!InFlight, QueueInv, Queue!TypeOK
      <3>2. size \in Nat /\ size' \in Nat /\ size' <= size
        BY <2>2 DEF QueueInv, Queue!TypeOK
      <3> QED
        BY <3>1, <3>2, QueueBoundKept DEF QueueInv
    <2> QED
      BY <1>3, <2>1, <2>2
  <1> QED
    BY <1>4, <1>5, <1>6, <1>8, <1>9 DEF QueueInv

(* A step after which there is no queue to say anything of. *)
LEMMA QueueEndsKeeps ==
    ASSUME QueueInv, life' \in {"freed"} \cup Queue!Ended,
           UNCHANGED <<callVars, size, mallocFailed>>, nodes' \in Seq(Elements)
    PROVE  QueueInv'
  <1> USE DEF callVars, Queue!Ended
  <1>1. Queue!TypeOK' /\ HolderIsCritical'
    BY DEF QueueInv, Queue!TypeOK, HolderIsCritical
  <1>2. QueueInCall' /\ QueueWindow' /\ Queue!CounterCoversList'
    BY DEF QueueInv, QueueInCall, QueueWindow, Queue!CounterCoversList
  <1>3. QueueBound'
    BY DEF QueueInv, QueueBound, Pending, Queue!InFlight
  <1> QED
    BY <1>1, <1>2, <1>3 DEF QueueInv

LEMMA QueueFreeKeeps ==
    ASSUME QueueInv, NEW t \in Threads, Queue!FreeBody(t)
    PROVE  QueueInv'
  <1>1. pc[t] = "body" /\ UNCHANGED <<size, mallocFailed>>
    BY DEF Queue!FreeBody, Queue!InBody
  <1>2. CASE life' = "badFree" /\ UNCHANGED <<Queue!callVars, nodes>>
    BY <1>1, <1>2, QueueEndsKeeps
    DEF Queue!callVars, callVars, Queue!Ended, QueueInv, Queue!TypeOK
  <1>3. CASE life' = "freed" /\ nodes' = <<>> /\ Queue!Answer(t, Null, "unlock")
    <2> USE <1>1, <1>3 DEF Queue!Answer
    <2>1. Queue!TypeOK'
      BY EmptySeq DEF QueueInv, Queue!TypeOK, Queue!Places
    <2>2. HolderIsCritical'
      BY HolderMoves DEF QueueInv, Queue!TypeOK, Critical, Places, Queue!Places
    <2>3. QueueInCall' /\ QueueWindow'
      BY DEF QueueInv, QueueInCall, QueueWindow, Queue!TypeOK
    <2>4. Queue!CounterCoversList'
      BY DEF Queue!CounterCoversList
    <2>5. QueueBound'
      BY QueueBoundMoves
    <2> QED
      BY <2>1, <2>2, <2>3, <2>4, <2>5 DEF QueueInv
  <1> QED
    BY <1>2, <1>3 DEF Queue!FreeBody

LEMMA QueueReleaseKeeps ==
    ASSUME QueueInv, NEW t \in Threads, Queue!Release(t) \/ Queue!ReleaseFreed(t)
    PROVE  QueueInv'
  <1>1. CASE Queue!Unlock(t) /\ UNCHANGED <<life, nodes, size, mallocFailed>>
    <2>1. /\ pc' = [pc EXCEPT ![t] = "return"] /\ pc[t] = "unlock"
          /\ mtx' = NoThread /\ UNCHANGED <<op, ret>>
      BY <1>1 DEF Queue!Unlock
    <2>2. HolderIsCritical'
      BY <1>1, HolderMoves
      DEF Queue!Unlock, QueueInv, Queue!TypeOK, Critical, Places, Queue!Places
    <2>3. QueueBound'
      BY <1>1, <2>1, QueueBoundMoves
    <2>4. "return" \in Places \ {"rest", "idle"}
      BY DEF Places
    <2> QED
      BY <1>1, <2>1, <2>2, <2>3, <2>4, QueueMovesInCall
  <1>2. CASE /\ life' = "exited"
             /\ UNCHANGED <<Queue!callVars, nodes, size, mallocFailed>>
    BY <1>2, QueueEndsKeeps DEF Queue!callVars, callVars, Queue!Ended, QueueInv, Queue!TypeOK
  <1> QED
    BY <1>1, <1>2 DEF Queue!Release, Queue!ReleaseFreed, Queue!queueVars

LEMMA QueueFinishKeeps ==
    ASSUME QueueInv, NEW t \in Threads, Queue!Finish(t)
    PROVE  QueueInv'
  <1> USE DEF Queue!Finish, Queue!Return, Queue!queueVars
  <1>1. HolderIsCritical'
    BY HolderMoves DEF QueueInv, Queue!TypeOK, Critical, Places, Queue!Places
  <1>2. op' = [op EXCEPT ![t] = NoCall]
    BY DEF NoCall, Queue!NoCall
  <1>3. QueueBound'
    BY <1>2, QueueBoundMoves
  <1> QED
    BY <1>1, <1>2, <1>3, QueueMoves DEF Places, QueueInv, Queue!TypeOK

LEMMA QueueStepInv == QueueInv /\ Queue!Next => QueueInv'
  <1> SUFFICES ASSUME QueueInv, Queue!Next PROVE QueueInv'
    OBVIOUS
  <1>1. ASSUME NEW t \in Threads, Queue!PopNullDeref(t) PROVE QueueInv'
    BY <1>1, QueueEndsKeeps
    DEF Queue!PopNullDeref, Queue!callVars, callVars, Queue!Ended, QueueInv, Queue!TypeOK
  <1> QED
    BY <1>1, QueueCreateKeeps, QueueCallKeeps, QueueAcquireKeeps, QueuePushKeeps,
       QueueCountKeeps, QueueLookKeeps, QueuePopKeeps, QueueFreeKeeps, QueueReleaseKeeps,
       QueueFinishKeeps
    DEF Queue!Next

-----------------------------------------------------------------------------
(* The stack. *)

StackInCall ==
    \A t \in Threads :
        /\ pc[t] # "idle" => op[t] \in Stack!Calls
        /\ pc[t] = "rest" => op[t].name = "push"

(* Nobody calls a stack that is not there. *)
StackBefore ==
    life = "none" => /\ size = 0 /\ capacity = InitialCapacity
                     /\ \A t \in Threads : pc[t] = "idle"

(***************************************************************************)
(* The inductive invariant of the stack.  SlotsInUse needs the mutex: the  *)
(* slot a push has found free is still free when it stores.                *)
(***************************************************************************)
StackInv ==
    /\ Stack!TypeOK
    /\ HolderIsCritical
    /\ StackInCall
    /\ StackBefore
    /\ Stack!SlotsInUse

LEMMA StackInitInv == Stack!Init => StackInv
  <1> SUFFICES ASSUME Stack!Init PROVE StackInv
    OBVIOUS
  <1> USE DEF Stack!Init, Stack!ClientsInit, Stack!NoCall
  <1>1. Stack!TypeOK
    BY EmptySeq, ContainerAssumption DEF Stack!TypeOK, Stack!Places, Stack!Ended, Stack!NoCall
  <1>2. HolderIsCritical
    BY ClientsAssumption DEF HolderIsCritical, Critical
  <1>3. StackInCall /\ StackBefore /\ Stack!SlotsInUse
    BY EmptySeq DEF StackInCall, StackBefore, Stack!SlotsInUse
  <1> QED
    BY <1>1, <1>2, <1>3 DEF StackInv

(* A thread moves to p in call c, with v as its answer. *)
LEMMA StackMoves ==
    ASSUME StackInv, NEW t \in Threads, NEW p \in Places,
           NEW c \in Stack!Calls \cup {NoCall}, p # "idle" => c \in Stack!Calls,
           p = "rest" => c.name = "push",
           NEW v \in Elements \cup {Null} \cup Nat,
           pc' = [pc EXCEPT ![t] = p], op' = [op EXCEPT ![t] = c],
           ret' = [ret EXCEPT ![t] = v],
           mtx' \in Threads \cup {NoThread}, HolderIsCritical',
           life' = "live", buffer' \in Seq(Elements \cup {Null}), size' \in Nat,
           capacity' \in Nat \ {0}, Stack!SlotsInUse'
    PROVE  StackInv'
  <1>1. Stack!TypeOK'
    BY DEF StackInv, Stack!TypeOK, Places, Stack!Places, NoCall, Stack!NoCall
  <1>2. StackInCall' /\ StackBefore'
    BY DEF StackInv, Stack!TypeOK, StackInCall, StackBefore
  <1> QED
    BY <1>1, <1>2 DEF StackInv

(* ... and leaves the array as it is, without claiming a slot. *)
LEMMA StackStays ==
    ASSUME StackInv, NEW t \in Threads, NEW p \in Places \ {"rest"},
           NEW c \in Stack!Calls \cup {NoCall}, p # "idle" => c \in Stack!Calls,
           NEW v \in Elements \cup {Null} \cup Nat,
           pc' = [pc EXCEPT ![t] = p], op' = [op EXCEPT ![t] = c],
           ret' = [ret EXCEPT ![t] = v],
           mtx' \in Threads \cup {NoThread}, HolderIsCritical',
           life = "live", UNCHANGED <<life, buffer, size, capacity>>
    PROVE  StackInv'
  <1>1. Stack!SlotsInUse'
    BY DEF StackInv, Stack!TypeOK, Stack!SlotsInUse
  <1>2. /\ buffer' \in Seq(Elements \cup {Null}) /\ size' \in Nat
        /\ capacity' \in Nat \ {0} /\ life' = "live"
    BY DEF StackInv, Stack!TypeOK
  <1> QED
    BY <1>1, <1>2, StackMoves

(* The thread keeps its call and its answer so far. *)
LEMMA StackKeepsCall ==
    ASSUME StackInv, NEW t \in Threads, pc[t] # "idle"
    PROVE  /\ op = [op EXCEPT ![t] = op[t]] /\ op[t] \in Stack!Calls
           /\ ret = [ret EXCEPT ![t] = ret[t]]
           /\ ret[t] \in Elements \cup {Null} \cup Nat
  BY DEF StackInv, StackInCall, Stack!TypeOK

LEMMA StackCreateKeeps ==
    ASSUME StackInv, Stack!Create \/ Stack!CreateFails
    PROVE  StackInv'
  <1> USE DEF Stack!Create, Stack!CreateFails, Stack!callVars
  <1>1. life = "none" /\ UNCHANGED <<pc, op, ret, mtx, size, capacity>>
    OBVIOUS
  <1>2. /\ InitialCapacity \in Nat \ {0}
        /\ [i \in 1..InitialCapacity |-> Null] \in Seq(Elements \cup {Null})
        /\ Len([i \in 1..InitialCapacity |-> Null]) = InitialCapacity
    <2>1. InitialCapacity \in Nat \ {0}
      BY ContainerAssumption
    <2>2. [i \in 1..InitialCapacity |-> Null] \in Seq(Elements \cup {Null})
      BY <2>1, SeqDef
    <2>3. DOMAIN [i \in 1..InitialCapacity |-> Null] = 1..InitialCapacity
      OBVIOUS
    <2> QED
      BY <2>1, <2>2, <2>3, LenProperties
  <1>3. Stack!TypeOK' /\ HolderIsCritical'
    BY <1>1, <1>2 DEF StackInv, Stack!TypeOK, Stack!Ended, HolderIsCritical
  <1>4. StackInCall' /\ StackBefore'
    BY <1>1 DEF StackInv, StackInCall, StackBefore
  <1>5. Stack!SlotsInUse'
    <2>1. /\ capacity' = InitialCapacity /\ size' = 0
          /\ \A t \in Threads : pc'[t] # "rest"
      BY <1>1 DEF StackInv, StackBefore
    <2>2. buffer' # <<>> => Len(buffer') = capacity'
      BY <1>2, <2>1 DEF StackInv, Stack!SlotsInUse
    <2>3. Len(buffer') \in Nat
      BY <1>3 DEF Stack!TypeOK
    <2> QED
      BY <2>1, <2>2, <2>3 DEF Stack!SlotsInUse
  <1> QED
    BY <1>3, <1>4, <1>5 DEF StackInv

LEMMA StackCallKeeps ==
    ASSUME StackInv, NEW t \in Threads, NEW c \in Stack!Calls, Stack!Call(t, c)
    PROVE  StackInv'
  <1> USE DEF Stack!Call, Stack!Invoke, Stack!stackVars
  <1>1. HolderIsCritical' /\ mtx' \in Threads \cup {NoThread}
    BY HolderMoves DEF StackInv, Stack!TypeOK, Critical, Places, Stack!Places
  <1>2. ret' = [ret EXCEPT ![t] = ret[t]] /\ ret[t] \in Elements \cup {Null} \cup Nat
    BY DEF StackInv, Stack!TypeOK
  <1> QED
    BY <1>1, <1>2, StackStays DEF Places

LEMMA StackAcquireKeeps ==
    ASSUME StackInv, NEW t \in Threads, Stack!Acquire(t)
    PROVE  StackInv'
  <1> USE DEF Stack!Acquire, Stack!Lock, Stack!stackVars
  <1>1. HolderIsCritical' /\ mtx' \in Threads \cup {NoThread}
    BY HolderMoves DEF StackInv, Stack!TypeOK, Critical, Places, Stack!Places
  <1> QED
    BY <1>1, StackKeepsCall, StackStays DEF Places

LEMMA StackReleaseKeeps ==
    ASSUME StackInv, NEW t \in Threads, Stack!Release(t)
    PROVE  StackInv'
  <1> USE DEF Stack!Release, Stack!Unlock, Stack!stackVars
  <1>1. HolderIsCritical' /\ mtx' \in Threads \cup {NoThread}
    BY HolderMoves DEF StackInv, Stack!TypeOK, Critical, Places, Stack!Places
  <1> QED
    BY <1>1, StackKeepsCall, StackStays DEF Places

LEMMA StackFinishKeeps ==
    ASSUME StackInv, NEW t \in Threads, Stack!Finish(t)
    PROVE  StackInv'
  <1> USE DEF Stack!Finish, Stack!Return, Stack!stackVars
  <1>1. HolderIsCritical' /\ mtx' \in Threads \cup {NoThread}
    BY HolderMoves DEF StackInv, Stack!TypeOK, Critical, Places, Stack!Places
  <1>2. op' = [op EXCEPT ![t] = NoCall]
    BY DEF NoCall, Stack!NoCall
  <1>3. life = "live"
    BY DEF StackInv, StackBefore, Stack!TypeOK, Stack!Ended
  <1> QED
    BY <1>1, <1>2, <1>3, StackStays DEF Places

(* A body that leaves the array as it is and answers. *)
LEMMA StackReadKeeps ==
    ASSUME StackInv, NEW t \in Threads, NEW v \in Elements \cup {Null} \cup Nat,
           life = "live", pc[t] = "body", Stack!Answer(t, v, "unlock"),
           UNCHANGED Stack!stackVars
    PROVE  StackInv'
  <1> USE DEF Stack!Answer, Stack!stackVars
  <1>1. HolderIsCritical' /\ mtx' \in Threads \cup {NoThread}
    BY HolderMoves DEF StackInv, Stack!TypeOK, Critical, Places, Stack!Places
  <1> QED
    BY <1>1, StackKeepsCall, StackStays DEF Places

(* The top of a stack that has one is an element. *)
LEMMA StackTop ==
    ASSUME StackInv, size # 0
    PROVE  buffer[size] \in Elements
  BY DEF StackInv, Stack!SlotsInUse, Stack!TypeOK

LEMMA StackLookKeeps ==
    ASSUME StackInv, NEW t \in Threads, Stack!Look(t)
    PROVE  StackInv'
  <1>1. PICK name \in Stack!LookNames :
          Stack!InBody(t, name) /\ Stack!Answer(t, Stack!Seen(name), "unlock")
    BY DEF Stack!Look
  <1>2. Stack!Seen(name) \in Elements \cup {Null} \cup Nat
    BY StackTop DEF Stack!Seen, Stack!LookNames, Stack!CTrue, Stack!CFalse, StackInv, Stack!TypeOK
  <1> QED
    BY <1>1, <1>2, StackReadKeeps DEF Stack!Look, Stack!InBody

LEMMA StackPopKeeps ==
    ASSUME StackInv, NEW t \in Threads, Stack!Pop(t)
    PROVE  StackInv'
  <1>1. life = "live" /\ pc[t] = "body" /\ UNCHANGED <<life, buffer, capacity>>
    BY DEF Stack!Pop, Stack!InBody
  <1>2. CASE size = 0
    BY <1>1, <1>2, StackReadKeeps DEF Stack!Pop, Stack!stackVars
  <1>3. CASE size # 0
    <2> USE <1>1, <1>3 DEF Stack!Pop, Stack!Answer
    <2>1. HolderIsCritical' /\ mtx' \in Threads \cup {NoThread}
      BY HolderMoves DEF StackInv, Stack!TypeOK, Critical, Places, Stack!Places
    <2>2. size \in Nat /\ size' = size - 1 /\ size' \in Nat
      BY DEF StackInv, Stack!TypeOK
    <2>3. \A u \in Threads : pc'[u] # "rest"
      BY HolderAlone DEF StackInv, Stack!TypeOK
    <2>4. Stack!SlotsInUse'
      BY <2>2, <2>3 DEF StackInv, Stack!SlotsInUse, Stack!TypeOK
    <2>5. /\ buffer' \in Seq(Elements \cup {Null}) /\ capacity' \in Nat \ {0}
          /\ life' = "live"
      BY DEF StackInv, Stack!TypeOK
    <2> QED
      BY <2>1, <2>2, <2>4, <2>5, StackTop, StackKeepsCall, StackMoves DEF Places
  <1> QED
    BY <1>2, <1>3

(* A push that has room, or has made it. *)
LEMMA StackPushKeeps ==
    ASSUME StackInv, NEW t \in Threads,
           Stack!PushRoom(t) \/ Stack!PushGrow(t) \/ Stack!PushRefused(t)
    PROVE  StackInv'
  <1> USE DEF Stack!Proceed, Stack!Answer, Stack!stackVars
  <1>1. life = "live" /\ pc[t] = "body" /\ op[t].name = "push"
    BY DEF Stack!PushRoom, Stack!PushGrow, Stack!PushRefused, Stack!InBody
  <1>2. size \in Nat /\ capacity \in Nat \ {0} /\ buffer \in Seq(Elements \cup {Null})
    BY DEF StackInv, Stack!TypeOK
  <1>3. CASE Stack!PushRefused(t)
    BY <1>1, <1>3, StackReadKeeps DEF Stack!PushRefused, Stack!CFalse
  <1>4. CASE pc' = [pc EXCEPT ![t] = "rest"] /\ UNCHANGED <<op, ret, mtx, life, size>>
             /\ size < capacity' /\ capacity' \in Nat \ {0}
             /\ buffer' \in Seq(Elements \cup {Null})
             /\ (buffer' # <<>> => Len(buffer') = capacity') /\ size <= Len(buffer')
             /\ \A i \in 1..size : buffer'[i] = buffer[i]
    <2>1. HolderIsCritical' /\ mtx' \in Threads \cup {NoThread}
      BY <1>1, <1>4, HolderMoves DEF StackInv, Stack!TypeOK, Critical, Places, Stack!Places
    <2>2. Stack!SlotsInUse'
      BY <1>4 DEF StackInv, Stack!SlotsInUse
    <2>3. /\ op' = [op EXCEPT ![t] = op[t]] /\ op[t] \in Stack!Calls
          /\ ret' = [ret EXCEPT ![t] = ret[t]]
          /\ ret[t] \in Elements \cup {Null} \cup Nat
      BY <1>1, <1>4, StackKeepsCall
    <2>4. /\ size' \in Nat /\ life' = "live" /\ "rest" \in Places /\ op[t].name = "push"
          /\ capacity' \in Nat \ {0} /\ buffer' \in Seq(Elements \cup {Null})
          /\ pc' = [pc EXCEPT ![t] = "rest"]
      BY <1>1, <1>2, <1>4 DEF Places
    <2> QED
      BY <2>1, <2>2, <2>3, <2>4, StackMoves
  <1>5. CASE Stack!PushRoom(t)
    BY <1>2, <1>4, <1>5 DEF Stack!PushRoom, StackInv, Stack!SlotsInUse
  <1>6. CASE Stack!PushGrow(t)
    <2> DEFINE grown == [i \in 1..(2 * capacity) |-> IF i <= Len(buffer) THEN buffer[i] ELSE Null]
    <2>1. buffer' = grown /\ capacity' = 2 * capacity /\ capacity <= size
      BY <1>6 DEF Stack!PushGrow
    <2>2. 2 * capacity \in Nat \ {0} /\ size <= Len(buffer) /\ buffer # <<>>
      BY <1>2, <2>1, EmptySeq DEF StackInv, Stack!SlotsInUse
    <2>3. Len(buffer) = capacity /\ size < 2 * capacity
      BY <1>2, <2>1, <2>2 DEF StackInv, Stack!SlotsInUse
    <2>4. \A i \in 1..(2 * capacity) :
             (IF i <= Len(buffer) THEN buffer[i] ELSE Null) \in Elements \cup {Null}
      BY <1>2, ElementOfSeq
    <2>5. grown \in [1..(2 * capacity) -> Elements \cup {Null}]
      BY <2>4
    <2>6. \A i \in 1..size : grown[i] = buffer[i]
      BY <1>2, <2>2, <2>3
    <2>7. DOMAIN grown = 1..(2 * capacity)
      OBVIOUS
    <2> HIDE DEF grown
    <2>8. grown \in Seq(Elements \cup {Null}) /\ Len(grown) = 2 * capacity
      BY <2>2, <2>5, <2>7, SeqDef, LenProperties
    <2> QED
      BY <1>2, <1>4, <1>6, <2>1, <2>2, <2>3, <2>6, <2>8 DEF Stack!PushGrow
  <1> QED
    BY <1>3, <1>5, <1>6

LEMMA StackStoreKeeps ==
    ASSUME StackInv, NEW t \in Threads, Stack!PushStore(t)
    PROVE  StackInv'
  <1>1. life = "live" /\ pc[t] = "rest" /\ capacity' = capacity
    BY DEF Stack!PushStore
  <1>2. op[t] \in Stack!Calls /\ op[t].name = "push" /\ op[t].data \in Elements
    BY <1>1 DEF StackInv, StackInCall, Stack!Calls, Stack!LookNames
  <1>3. CASE buffer = <<>>
    <2> USE <1>1, <1>3 DEF Stack!PushStore, Stack!callVars
    <2>1. Stack!TypeOK' /\ HolderIsCritical'
      BY DEF StackInv, Stack!TypeOK, Stack!Ended, HolderIsCritical
    <2>2. StackInCall' /\ StackBefore' /\ Stack!SlotsInUse'
      BY DEF StackInv, StackInCall, StackBefore, Stack!SlotsInUse
    <2> QED
      BY <2>1, <2>2 DEF StackInv
  <1>4. CASE buffer # <<>>
    <2>1. /\ buffer' = [buffer EXCEPT ![size + 1] = op[t].data]
          /\ size' = size + 1 /\ life' = "live" /\ Stack!Answer(t, Stack!CTrue, "unlock")
      BY <1>1, <1>4 DEF Stack!PushStore
    <2>2. /\ size \in Nat /\ capacity \in Nat \ {0}
          /\ buffer \in Seq(Elements \cup {Null})
          /\ Len(buffer) = capacity /\ size < capacity
          /\ \A i \in 1..size : buffer[i] \in Elements
      BY <1>1, <1>4 DEF StackInv, Stack!TypeOK, Stack!SlotsInUse
    <2>3. /\ buffer' \in Seq(Elements \cup {Null}) /\ Len(buffer') = Len(buffer)
          /\ \A i \in 1..Len(buffer) : buffer'[i] = IF i = size + 1 THEN op[t].data ELSE buffer[i]
      <3>1. size + 1 \in 1..Len(buffer)
        BY <2>2
      <3> QED
        BY <1>2, <2>1, <2>2, <3>1, ExceptSeq
    <2>4. \A u \in Threads : pc'[u] # "rest"
      BY <1>1, <2>1, HolderAlone DEF StackInv, Stack!TypeOK, Stack!Answer
    <2>5. Stack!SlotsInUse'
      <3>1. \A i \in 1..(size + 1) : buffer'[i] \in Elements
        <4>1. TAKE i \in 1..(size + 1)
        <4>2. CASE i = size + 1
          BY <1>2, <2>2, <2>3, <4>1, <4>2
        <4>3. CASE i # size + 1
          <5>1. i \in 1..size /\ i \in 1..Len(buffer)
            BY <2>2, <4>1, <4>3
          <5> QED
            BY <2>2, <2>3, <4>3, <5>1
        <4> QED
          BY <4>2, <4>3
      <3> QED
        BY <1>1, <2>1, <2>2, <2>3, <2>4, <3>1 DEF Stack!SlotsInUse
    <2>6. HolderIsCritical' /\ mtx' \in Threads \cup {NoThread}
      BY <1>1, <2>1, HolderMoves
      DEF StackInv, Stack!TypeOK, Critical, Places, Stack!Places, Stack!Answer
    <2>7. /\ pc' = [pc EXCEPT ![t] = "unlock"] /\ ret' = [ret EXCEPT ![t] = 1]
          /\ op' = [op EXCEPT ![t] = op[t]] /\ op[t] \in Stack!Calls
      BY <1>1, <2>1, StackKeepsCall DEF Stack!Answer, Stack!CTrue
    <2>8. /\ size' \in Nat /\ capacity' \in Nat \ {0} /\ life' = "live"
          /\ "unlock" \in Places /\ 1 \in Elements \cup {Null} \cup Nat
      BY <1>1, <2>1, <2>2 DEF Places
    <2> QED
      BY <2>3, <2>5, <2>6, <2>7, <2>8, StackMoves
  <1> QED
    BY <1>3, <1>4

LEMMA StackStepInv == StackInv /\ Stack!Next => StackInv'
  BY StackCreateKeeps, StackCallKeeps, StackAcquireKeeps, StackPushKeeps, StackStoreKeeps,
     StackPopKeeps, StackLookKeeps, StackReleaseKeeps, StackFinishKeeps
  DEF Stack!Next

-----------------------------------------------------------------------------
(* The forward list. *)

ListInCall ==
    \A t \in Threads :
        /\ pc[t] # "idle" => op[t] \in List!Calls
        /\ pc[t] = "rest" => op[t].name \in {"push_front", "pop_front"}

(* The inductive invariant of the forward list. *)
ListInv ==
    /\ List!TypeOK
    /\ HolderIsCritical
    /\ ListInCall
    /\ List!CounterCoversList

(* The loop with the predicate stops at a node it accepts, or finds none. *)
LEMMA FirstMatchFacts ==
    ASSUME nodes \in Seq(Elements), NEW matches
    PROVE  /\ List!FirstMatch(matches) \in 0..Len(nodes)
           /\ List!FirstMatch(matches) # 0 => nodes[List!FirstMatch(matches)] \in matches
  <1> DEFINE I == {i \in 1..Len(nodes) : nodes[i] \in matches}
             f == List!FirstMatch(matches)
  <1>1. f = IF I # {} THEN CHOOSE x \in I : \A y \in I : x <= y ELSE 0
    BY DEF List!FirstMatch, List!SelectInSeq, List!Min
  <1>2. I # {} => \E x \in I : \A y \in I : x <= y
    <2>1. I \subseteq Nat
      OBVIOUS
    <2> HIDE DEF I
    <2> QED
      BY <2>1, LeastOf
  <1> HIDE DEF f
  <1>3. f \in I \/ f = 0
    <2> HIDE DEF I
    <2> QED
      BY <1>1, <1>2
  <1>4. f \in 0..Len(nodes) /\ (f # 0 => nodes[f] \in matches)
    BY <1>3
  <1> QED
    BY <1>4 DEF f

(* What a thread in the window has not counted. *)
ListUncountedOf(c) == IF c.name = "push_front" THEN 1 ELSE -1

ListUncountedIs ==
    /\ \A t \in Threads : pc[t] = "rest" => List!Uncounted = ListUncountedOf(op[t])
    /\ (\A t \in Threads : pc[t] # "rest") => List!Uncounted = 0

LEMMA ListUncountedFacts ==
    HolderIsCritical /\ mtx \in Threads \cup {NoThread} => ListUncountedIs
  BY ClientsAssumption
  DEF HolderIsCritical, Critical, ListUncountedIs, List!Uncounted, ListUncountedOf

LEMMA ListUncountedFactsNext ==
    (HolderIsCritical /\ mtx \in Threads \cup {NoThread} => ListUncountedIs)'
  BY ListUncountedFacts, PTL

LEMMA ListInitInv == List!Init => ListInv
  <1> SUFFICES ASSUME List!Init PROVE ListInv
    OBVIOUS
  <1> USE DEF List!Init, List!ClientsInit, List!NoCall
  <1>1. List!TypeOK
    BY EmptySeq DEF List!TypeOK, List!Places, List!Ended, List!NoCall
  <1>2. HolderIsCritical
    BY ClientsAssumption DEF HolderIsCritical, Critical
  <1>3. ListInCall /\ List!CounterCoversList
    BY DEF ListInCall, List!CounterCoversList
  <1> QED
    BY <1>1, <1>2, <1>3 DEF ListInv

(* A thread moves outside the window and leaves the list as it is. *)
LEMMA ListMoves ==
    ASSUME ListInv, NEW t \in Threads, NEW p \in Places \ {"rest"}, pc[t] # "rest",
           NEW c \in List!Calls \cup {NoCall}, p # "idle" => c \in List!Calls,
           NEW v \in Elements \cup {Null} \cup Nat,
           pc' = [pc EXCEPT ![t] = p], op' = [op EXCEPT ![t] = c],
           ret' = [ret EXCEPT ![t] = v], mtx' \in Threads \cup {NoThread},
           HolderIsCritical', UNCHANGED <<life, nodes, size, mallocFailed>>
    PROVE  ListInv'
  <1>1. List!TypeOK'
    BY DEF ListInv, List!TypeOK, Places, List!Places, NoCall, List!NoCall
  <1>2. ListInCall'
    BY DEF ListInv, List!TypeOK, ListInCall
  <1>3. List!Uncounted' = List!Uncounted
    <2>1. ListUncountedIs /\ ListUncountedIs'
      BY ListUncountedFacts, ListUncountedFactsNext DEF ListInv, List!TypeOK
    <2>2. \A u \in Threads : pc'[u] = "rest" => u # t /\ pc[u] = "rest" /\ op'[u] = op[u]
      BY DEF ListInv, List!TypeOK
    <2>3. \A u \in Threads : pc[u] = "rest" => pc'[u] = "rest"
      BY DEF ListInv, List!TypeOK
    <2> QED
      BY <2>1, <2>2, <2>3 DEF ListUncountedIs, ListUncountedOf
  <1>4. List!CounterCoversList'
    BY <1>3 DEF ListInv, List!CounterCoversList
  <1> QED
    BY <1>1, <1>2, <1>4 DEF ListInv

(* The thread keeps its call and its answer so far. *)
LEMMA ListKeepsCall ==
    ASSUME ListInv, NEW t \in Threads, pc[t] # "idle"
    PROVE  /\ op = [op EXCEPT ![t] = op[t]] /\ op[t] \in List!Calls
           /\ ret = [ret EXCEPT ![t] = ret[t]]
           /\ ret[t] \in Elements \cup {Null} \cup Nat
  BY DEF ListInv, ListInCall, List!TypeOK

(* With the mutex held by a thread that is not in the window, the counter is *)
(* to be compared with the list as it stands.                                *)
LEMMA ListNothingUncounted ==
    ASSUME ListInv, NEW t \in Threads, pc[t] = "body", life = "live"
    PROVE  /\ size >= Len(nodes)
           /\ ~mallocFailed => size = Len(nodes)
           /\ size \in Nat /\ Len(nodes) \in Nat
  <1>1. List!Uncounted = 0
    <2>1. ListUncountedIs
      BY ListUncountedFacts DEF ListInv, List!TypeOK
    <2>2. \A u \in Threads : pc[u] # "rest"
      BY HolderAlone DEF ListInv
    <2> QED
      BY <2>1, <2>2 DEF ListUncountedIs
  <1> QED
    BY <1>1 DEF ListInv, List!CounterCoversList, List!TypeOK

(* A body that does all it does to the list in one step. *)
LEMMA ListBodyKeeps ==
    ASSUME ListInv, NEW t \in Threads, NEW v \in Elements \cup {Null} \cup Nat,
           pc[t] = "body", List!Answer(t, v, "unlock"),
           life' \in {"live", "freed"}, nodes' \in Seq(Elements),
           size' \in Nat, mallocFailed' \in BOOLEAN,
           life' = "live" => /\ size' >= Len(nodes')
                             /\ ~mallocFailed' => size' = Len(nodes')
    PROVE  ListInv'
  <1> USE DEF List!Answer
  <1>1. List!TypeOK'
    BY DEF ListInv, List!TypeOK, List!Places
  <1>2. HolderIsCritical'
    BY HolderMoves DEF ListInv, List!TypeOK, Critical, Places, List!Places
  <1>3. ListInCall'
    BY DEF ListInv, List!TypeOK, ListInCall
  <1>4. List!Uncounted' = 0
    <2>1. ListUncountedIs'
      BY <1>1, <1>2, ListUncountedFactsNext DEF List!TypeOK
    <2>2. \A u \in Threads : pc'[u] # "rest"
      BY HolderAlone DEF ListInv, List!TypeOK
    <2> QED
      BY <2>1, <2>2 DEF ListUncountedIs
  <1>5. List!CounterCoversList'
    <2>1. size' + List!Uncounted' = size'
      <3>1. \A n \in Nat : n + 0 = n
        OBVIOUS
      <3>2. PICK n \in Nat : n = size'
        OBVIOUS
      <3> QED
        BY <1>4, <3>1, <3>2
    <2> QED
      BY <2>1 DEF List!CounterCoversList
  <1> QED
    BY <1>1, <1>2, <1>3, <1>5 DEF ListInv

(* A step of a body that ends the program. *)
LEMMA ListEndsKeeps ==
    ASSUME ListInv, life' \in List!Ended,
           UNCHANGED <<callVars, size>>, nodes' \in Seq(Elements), mallocFailed' \in BOOLEAN
    PROVE  ListInv'
  <1> USE DEF callVars, List!Ended
  <1>1. List!TypeOK' /\ HolderIsCritical'
    BY DEF ListInv, List!TypeOK, HolderIsCritical
  <1>2. ListInCall' /\ List!CounterCoversList'
    BY DEF ListInv, ListInCall, List!CounterCoversList
  <1> QED
    BY <1>1, <1>2 DEF ListInv

LEMMA ListCreateKeeps ==
    ASSUME ListInv, List!Create \/ List!CreateFails
    PROVE  ListInv'
  <1> USE DEF List!Create, List!CreateFails, List!callVars, List!AllIdle
  <1>1. CASE List!Create
    <2>1. List!TypeOK'
      BY <1>1, EmptySeq DEF ListInv, List!TypeOK
    <2>2. HolderIsCritical'
      BY <1>1, ClientsAssumption DEF HolderIsCritical, Critical
    <2>3. ListInCall'
      BY <1>1 DEF ListInCall
    <2>4. List!Uncounted' = 0 /\ Len(nodes') = 0 /\ size' = 0
      BY <1>1, EmptySeq DEF List!Uncounted
    <2>5. List!CounterCoversList'
      BY <2>4 DEF List!CounterCoversList
    <2> QED
      BY <2>1, <2>2, <2>3, <2>5 DEF ListInv
  <1>2. CASE List!CreateFails
    BY <1>2, ListEndsKeeps DEF callVars, List!Ended, ListInv, List!TypeOK
  <1> QED
    BY <1>1, <1>2

LEMMA ListCallKeeps ==
    ASSUME ListInv, NEW t \in Threads, NEW c \in List!Calls, List!Call(t, c)
    PROVE  ListInv'
  <1> USE DEF List!Call, List!Invoke, List!listVars
  <1>1. HolderIsCritical' /\ mtx' \in Threads \cup {NoThread}
    BY HolderMoves DEF ListInv, List!TypeOK, Critical, Places, List!Places
  <1>2. ret' = [ret EXCEPT ![t] = ret[t]] /\ ret[t] \in Elements \cup {Null} \cup Nat
    BY DEF ListInv, List!TypeOK
  <1> QED
    BY <1>1, <1>2, ListMoves DEF Places

LEMMA ListAcquireKeeps ==
    ASSUME ListInv, NEW t \in Threads, List!Acquire(t)
    PROVE  ListInv'
  <1> USE DEF List!Acquire, List!Lock, List!listVars
  <1>1. HolderIsCritical' /\ mtx' \in Threads \cup {NoThread}
    BY HolderMoves DEF ListInv, List!TypeOK, Critical, Places, List!Places
  <1> QED
    BY <1>1, ListKeepsCall, ListMoves DEF Places

LEMMA ListReleaseKeeps ==
    ASSUME ListInv, NEW t \in Threads, List!Release(t)
    PROVE  ListInv'
  <1> USE DEF List!Release, List!Unlock, List!listVars
  <1>1. HolderIsCritical' /\ mtx' \in Threads \cup {NoThread}
    BY HolderMoves DEF ListInv, List!TypeOK, Critical, Places, List!Places
  <1> QED
    BY <1>1, ListKeepsCall, ListMoves DEF Places

LEMMA ListFinishKeeps ==
    ASSUME ListInv, NEW t \in Threads, List!Finish(t)
    PROVE  ListInv'
  <1> USE DEF List!Finish, List!Return, List!listVars
  <1>1. HolderIsCritical' /\ mtx' \in Threads \cup {NoThread}
    BY HolderMoves DEF ListInv, List!TypeOK, Critical, Places, List!Places
  <1>2. op' = [op EXCEPT ![t] = NoCall]
    BY DEF NoCall, List!NoCall
  <1> QED
    BY <1>1, <1>2, ListMoves DEF Places

(* A body that leaves the list as it is and answers. *)
LEMMA ListReadKeeps ==
    ASSUME ListInv, NEW t \in Threads, NEW v \in Elements \cup {Null} \cup Nat,
           life = "live", pc[t] = "body", List!Answer(t, v, "unlock"),
           UNCHANGED List!listVars
    PROVE  ListInv'
  <1> USE DEF List!listVars
  <1>1. /\ life' = "live" /\ nodes' \in Seq(Elements)
        /\ size' \in Nat /\ mallocFailed' \in BOOLEAN
        /\ size' >= Len(nodes')
        /\ ~mallocFailed' => size' = Len(nodes')
    BY ListNothingUncounted DEF ListInv, List!TypeOK
  <1> QED
    BY <1>1, ListBodyKeeps

LEMMA ListLookKeeps ==
    ASSUME ListInv, NEW t \in Threads, List!Look(t)
    PROVE  ListInv'
  <1>1. /\ life = "live" /\ pc[t] = "body" /\ op[t].name \in List!LookNames
        /\ List!Answer(t, List!Seen(op[t]), "unlock") /\ UNCHANGED List!listVars
    BY DEF List!Look
  <1>2. nodes \in Seq(Elements) /\ size \in Nat
    BY DEF ListInv, List!TypeOK
  <1>3. List!Seen(op[t]) \in Elements \cup {Null} \cup Nat
    <2>1. CASE op[t].name = "front"
      BY <1>2, <2>1, HeadTailProperties DEF List!Seen
    <2>2. CASE op[t].name = "size"
      BY <1>2, <2>2 DEF List!Seen
    <2>3. CASE op[t].name = "empty"
      BY <2>3 DEF List!Seen, List!CTrue, List!CFalse
    <2>4. CASE op[t].name = "find_if"
      <3> DEFINE found == List!FirstMatch(op[t].matches)
      <3>1. List!Seen(op[t]) = IF found = 0 THEN Null ELSE nodes[found]
        BY <2>4 DEF List!Seen
      <3>2. found \in 0..Len(nodes)
        BY <1>2, FirstMatchFacts
      <3> HIDE DEF found
      <3>3. found # 0 => nodes[found] \in Elements
        BY <1>2, <3>2, ElementOfSeq
      <3> QED
        BY <3>1, <3>3
    <2> QED
      BY <1>1, <2>1, <2>2, <2>3, <2>4 DEF List!LookNames
  <1> QED
    BY <1>1, <1>3, ListReadKeeps

(* The first step of a body of two: the window opens. *)
LEMMA ListOpensWindow ==
    ASSUME ListInv, NEW t \in Threads, NEW v \in Elements \cup {Null} \cup Nat,
           life = "live", pc[t] = "body", op[t].name \in {"push_front", "pop_front"},
           List!Answer(t, v, "rest"), nodes' \in Seq(Elements),
           Len(nodes') = Len(nodes) + ListUncountedOf(op[t]),
           UNCHANGED <<life, size, mallocFailed>>
    PROVE  ListInv'
  <1> USE DEF List!Answer
  <1>1. List!TypeOK'
    BY DEF ListInv, List!TypeOK, List!Places
  <1>2. HolderIsCritical'
    BY HolderMoves DEF ListInv, List!TypeOK, Critical, Places, List!Places
  <1>3. ListInCall'
    BY DEF ListInv, List!TypeOK, ListInCall
  <1>4. List!Uncounted' = ListUncountedOf(op[t])
    <2>1. ListUncountedIs'
      BY <1>1, <1>2, ListUncountedFactsNext DEF List!TypeOK
    <2>2. pc'[t] = "rest" /\ op'[t] = op[t]
      BY DEF ListInv, List!TypeOK
    <2> QED
      BY <2>1, <2>2 DEF ListUncountedIs, ListUncountedOf
  <1>5. List!CounterCoversList'
    <2>1. ListUncountedOf(op[t]) \in Int
      BY DEF ListUncountedOf
    <2>2. /\ size >= Len(nodes) /\ (~mallocFailed => size = Len(nodes))
          /\ size \in Nat /\ Len(nodes) \in Nat
      BY ListNothingUncounted
    <2> HIDE DEF ListUncountedOf
    <2> QED
      BY <1>4, <2>1, <2>2 DEF List!CounterCoversList
  <1> QED
    BY <1>1, <1>2, <1>3, <1>5 DEF ListInv

LEMMA ListPushKeeps ==
    ASSUME ListInv, NEW t \in Threads, List!PushLink(t) \/ List!PushRefused(t)
    PROVE  ListInv'
  <1>1. /\ life = "live" /\ pc[t] = "body" /\ op[t].name = "push_front"
        /\ nodes \in Seq(Elements) /\ size \in Nat
    BY DEF List!PushLink, List!PushRefused, List!InBody, ListInv, List!TypeOK
  <1>2. CASE List!PushLink(t)
    <2>1. op[t].data \in Elements
      BY <1>1 DEF ListInv, ListInCall, List!Calls, List!PredicateNames, List!FreeNames
    <2>2. nodes' \in Seq(Elements) /\ Len(nodes') = Len(nodes) + 1
      <3>1. nodes' = ListPushFront(nodes, op[t].data)
        BY <1>2 DEF List!PushLink, ListPushFront
      <3> QED
        BY <1>1, <2>1, <3>1, PushFrontFacts
    <2> QED
      BY <1>1, <1>2, <2>2, ListOpensWindow DEF List!PushLink, ListUncountedOf, List!CTrue
  <1>3. CASE List!PushRefused(t)
    <2>1. nodes' \in Seq(Elements) /\ Len(nodes') = 0 /\ mallocFailed' = TRUE /\ life' = "live"
      BY <1>1, <1>3, EmptySeq DEF List!PushRefused
    <2> QED
      BY <1>1, <1>3, <2>1, ListBodyKeeps DEF List!PushRefused, List!CFalse
  <1> QED
    BY <1>2, <1>3

LEMMA ListPopKeeps ==
    ASSUME ListInv, NEW t \in Threads, List!PopEmpty(t) \/ List!PopUnlink(t)
    PROVE  ListInv'
  <1>1. CASE List!PopEmpty(t)
    BY <1>1, ListReadKeeps DEF List!PopEmpty, List!InBody
  <1>2. CASE List!PopUnlink(t)
    <2>1. /\ life = "live" /\ pc[t] = "body" /\ op[t].name = "pop_front"
          /\ nodes \in Seq(Elements) /\ nodes # <<>>
      BY <1>2 DEF List!PopUnlink, List!InBody, ListInv, List!TypeOK
    <2>2. /\ Head(nodes) \in Elements /\ nodes' \in Seq(Elements)
          /\ Len(nodes') = Len(nodes) - 1 /\ Len(nodes) \in Nat
      BY <1>2, <2>1, HeadTailProperties DEF List!PopUnlink
    <2>3. Len(nodes') = Len(nodes) + ListUncountedOf(op[t])
      BY <2>1, <2>2 DEF ListUncountedOf
    <2> QED
      BY <1>2, <2>1, <2>2, <2>3, ListOpensWindow DEF List!PopUnlink
  <1> QED
    BY <1>1, <1>2

(* The counter catches up with the list. *)
LEMMA ListCountKeeps ==
    ASSUME ListInv, NEW t \in Threads, List!PushCount(t) \/ List!PopCount(t)
    PROVE  ListInv'
  <1> USE DEF List!PushCount, List!PopCount, List!Proceed
  <1>1. /\ pc[t] = "rest" /\ life = "live" /\ UNCHANGED <<life, nodes, mallocFailed, op, ret>>
        /\ pc' = [pc EXCEPT ![t] = "unlock"] /\ mtx' = mtx
    OBVIOUS
  <1>2. List!Uncounted = ListUncountedOf(op[t]) /\ size' = size + ListUncountedOf(op[t])
    <2>1. ListUncountedIs
      BY ListUncountedFacts DEF ListInv, List!TypeOK
    <2>2. size' = size + ListUncountedOf(op[t])
      BY DEF ListUncountedOf, ListInv, List!TypeOK
    <2> QED
      BY <1>1, <2>1, <2>2 DEF ListUncountedIs
  <1>3. /\ size' >= Len(nodes) /\ (~mallocFailed => size' = Len(nodes))
        /\ Len(nodes) \in Nat
    BY <1>1, <1>2 DEF ListInv, List!CounterCoversList, List!TypeOK
  <1>4. size' \in Nat
    <2>1. size' \in Int
      BY DEF ListInv, List!TypeOK
    <2> QED
      BY <1>3, <2>1
  <1>5. List!TypeOK'
    BY <1>1, <1>4 DEF ListInv, List!TypeOK, List!Places
  <1>6. HolderIsCritical'
    BY <1>1, HolderMoves DEF ListInv, List!TypeOK, Critical, Places, List!Places
  <1>7. ListInCall'
    BY <1>1 DEF ListInv, ListInCall, List!TypeOK
  <1>8. List!Uncounted' = 0
    <2>1. ListUncountedIs'
      BY <1>5, <1>6, ListUncountedFactsNext DEF List!TypeOK
    <2>2. \A u \in Threads : pc'[u] # "rest"
      BY <1>1, HolderAlone DEF ListInv, List!TypeOK
    <2> QED
      BY <2>1, <2>2 DEF ListUncountedIs
  <1>9. List!CounterCoversList'
    BY <1>1, <1>3, <1>4, <1>8 DEF List!CounterCoversList
  <1> QED
    BY <1>5, <1>6, <1>7, <1>9 DEF ListInv

LEMMA ListRemoveIfKeeps ==
    ASSUME ListInv, NEW t \in Threads, List!RemoveIf(t)
    PROVE  ListInv'
  <1>1. /\ life = "live" /\ pc[t] = "body" /\ nodes \in Seq(Elements)
        /\ size \in Nat /\ mallocFailed' = mallocFailed /\ mallocFailed \in BOOLEAN
    BY DEF List!RemoveIf, List!InBody, ListInv, List!TypeOK
  <1>2. CASE List!Answer(t, List!CFalse, "unlock") /\ UNCHANGED <<life, nodes, size>>
    BY <1>1, <1>2, ListReadKeeps DEF List!CFalse, List!listVars
  <1>3. CASE /\ nodes' = <<>> /\ size' = 0
             /\ List!Answer(t, List!CTrue, "unlock") /\ UNCHANGED life
    <2>1. nodes' \in Seq(Elements) /\ Len(nodes') = 0 /\ life' = "live"
      BY <1>1, <1>3, EmptySeq
    <2> QED
      BY <1>1, <1>3, <2>1, ListBodyKeeps DEF List!CTrue
  <1>4. CASE life' = "useAfterFree" /\ UNCHANGED <<List!callVars, nodes, size>>
    BY <1>1, <1>4, ListEndsKeeps DEF List!callVars, callVars, List!Ended
  <1> QED
    BY <1>2, <1>3, <1>4 DEF List!RemoveIf

LEMMA ListFreeKeeps ==
    ASSUME ListInv, NEW t \in Threads, List!FreeBody(t)
    PROVE  ListInv'
  <1>1. /\ pc[t] = "body" /\ UNCHANGED <<size, mallocFailed>>
        /\ nodes \in Seq(Elements) /\ size \in Nat /\ mallocFailed \in BOOLEAN
    BY DEF List!FreeBody, List!InBody, ListInv, List!TypeOK
  <1>2. CASE life' = "useAfterFree" /\ UNCHANGED <<List!callVars, nodes>>
    BY <1>1, <1>2, ListEndsKeeps DEF List!callVars, callVars, List!Ended
  <1>3. CASE life' = "freed" /\ nodes' = <<>> /\ List!Answer(t, Null, "unlock")
    BY <1>1, <1>3, ListBodyKeeps, EmptySeq
  <1> QED
    BY <1>2, <1>3 DEF List!FreeBody

LEMMA ListStepInv == ListInv /\ List!Next => ListInv'
  BY ListCreateKeeps, ListCallKeeps, ListAcquireKeeps, ListPushKeeps, ListCountKeeps,
     ListPopKeeps, ListRemoveIfKeeps, ListLookKeeps, ListFreeKeeps, ListReleaseKeeps,
     ListFinishKeeps
  DEF List!Next

-----------------------------------------------------------------------------
(* The three together. *)

Kinds == {"queue", "stack", "list"}

(* Whatever container the clients use, its invariant holds. *)
IInv ==
    /\ kind \in Kinds
    /\ kind = "queue" => QueueInv
    /\ kind = "stack" => StackInv
    /\ kind = "list" => ListInv

LEMMA InitIInv == Init => IInv
  BY QueueInitInv, StackInitInv, ListInitInv DEF Init, IInv, Kinds

LEMMA StutterIInv == IInv /\ UNCHANGED allVars => IInv'
  <1> SUFFICES ASSUME IInv, UNCHANGED allVars PROVE IInv'
    OBVIOUS
  <1>0. UNCHANGED <<kind, pc, op, ret, mtx, life, size, nodes, mallocFailed, buffer, capacity>>
    BY DEF allVars, callVars, listVars, arrayVars
  <1>1. HolderIsCritical => HolderIsCritical'
    BY <1>0 DEF HolderIsCritical
  <1>2. QueueInv => QueueInv'
    <2>1. Queue!TypeOK => Queue!TypeOK'
      BY <1>0 DEF Queue!TypeOK
    <2>2. (QueueInCall => QueueInCall') /\ (QueueWindow => QueueWindow')
      BY <1>0 DEF QueueInCall, QueueWindow
    <2>3. Queue!Uncounted' = Queue!Uncounted
      BY <1>0 DEF Queue!Uncounted
    <2>4. Queue!CounterCoversList => Queue!CounterCoversList'
      BY <1>0, <2>3 DEF Queue!CounterCoversList
    <2>5. QueueBound => QueueBound'
      <3>1. Pending' = Pending /\ Queue!InFlight' = Queue!InFlight
        BY <1>0 DEF Pending, Queue!InFlight
      <3> QED
        BY <1>0, <3>1 DEF QueueBound
    <2> QED
      BY <1>1, <2>1, <2>2, <2>4, <2>5 DEF QueueInv
  <1>3. StackInv => StackInv'
    <2>1. Stack!TypeOK => Stack!TypeOK'
      BY <1>0 DEF Stack!TypeOK
    <2>2. (StackInCall => StackInCall') /\ (StackBefore => StackBefore')
      BY <1>0 DEF StackInCall, StackBefore
    <2>3. Stack!SlotsInUse => Stack!SlotsInUse'
      BY <1>0 DEF Stack!SlotsInUse
    <2> QED
      BY <1>1, <2>1, <2>2, <2>3 DEF StackInv
  <1>4. ListInv => ListInv'
    <2>1. List!TypeOK => List!TypeOK'
      BY <1>0 DEF List!TypeOK
    <2>2. ListInCall => ListInCall'
      BY <1>0 DEF ListInCall
    <2>3. List!Uncounted' = List!Uncounted
      BY <1>0 DEF List!Uncounted
    <2>4. List!CounterCoversList => List!CounterCoversList'
      BY <1>0, <2>3 DEF List!CounterCoversList
    <2> QED
      BY <1>1, <2>1, <2>2, <2>4 DEF ListInv
  <1> QED
    BY <1>0, <1>2, <1>3, <1>4 DEF IInv

LEMMA NextIInv == IInv /\ [Next]_allVars => IInv'
  <1> SUFFICES ASSUME IInv, [Next]_allVars PROVE IInv'
    OBVIOUS
  <1>1. CASE UNCHANGED allVars
    BY <1>1, StutterIInv
  <1>2. CASE Next
    BY <1>2, QueueStepInv, StackStepInv, ListStepInv DEF Next, IInv, Kinds
  <1> QED
    BY <1>1, <1>2

(* The inductive invariant holds in every reachable state. *)
THEOREM InvariantHolds == Spec => []IInv
  BY InitIInv, NextIInv, PTL DEF Spec

(* Every variable always has the type its module gives it: no counter goes  *)
(* below zero, and nothing but elements is ever in a list or popped.        *)
THEOREM TypesCorrect == Spec => []TypesOK
  <1>1. IInv => TypesOK
    BY DEF IInv, Kinds, TypesOK, QueueInv, StackInv, ListInv
  <1> QED
    BY <1>1, InvariantHolds, PTL

(* However the threads interleave and whichever malloc fails, the counter of *)
(* the dynamic queue never falls short of its list.                          *)
THEOREM QueueCounterAlwaysCovers == Spec => []QueueCounterCoversList
  <1>1. IInv => QueueCounterCoversList
    BY DEF IInv, QueueInv, QueueCounterCoversList
  <1> QED
    BY <1>1, InvariantHolds, PTL

(* The slots in use of the stack always hold elements, and the slot a push   *)
(* has found or made is still there when it stores.                          *)
THEOREM StackSlotsAlwaysInUse == Spec => []StackSlotsInUse
  <1>1. IInv => StackSlotsInUse
    BY DEF IInv, StackInv, StackSlotsInUse
  <1> QED
    BY <1>1, InvariantHolds, PTL

(* The counter of the forward list always covers its nodes, and is their     *)
(* number until a calloc fails.                                              *)
THEOREM ListCounterAlwaysCovers == Spec => []ListCounterCoversList
  <1>1. IInv => ListCounterCoversList
    BY DEF IInv, ListInv, ListCounterCoversList
  <1> QED
    BY <1>1, InvariantHolds, PTL

-----------------------------------------------------------------------------
(* The refinements. An operation of the queue or of the list takes effect in  *)
(* the step that touches the list, a push of the stack in the step that       *)
(* stores the element; all the other steps of a call are stutters.           *)

(* The phases are functions of the places. *)
QueuePhaseAt(p) ==
    CASE p = "idle" -> "idle"
      [] p \in {"lock", "body"} -> "called"
      [] OTHER -> "done"

StackPhaseAt(p) ==
    CASE p = "idle" -> "idle"
      [] p \in {"lock", "body", "rest"} -> "called"
      [] OTHER -> "done"

(* A thread that moves to place p moves its phase alone; if the phase of p   *)
(* is the one it has, the phases stay.                                       *)
LEMMA QueuePhaseMoves ==
    ASSUME Queue!TypeOK, NEW t \in Threads, NEW p, pc' = [pc EXCEPT ![t] = p]
    PROVE  /\ Queue!Phase[t] = QueuePhaseAt(pc[t])
           /\ Queue!Phase' = [Queue!Phase EXCEPT ![t] = QueuePhaseAt(p)]
  BY DEF Queue!Phase, QueuePhaseAt, Queue!TypeOK

LEMMA QueuePhaseStays ==
    ASSUME Queue!TypeOK, NEW t \in Threads, NEW p, pc' = [pc EXCEPT ![t] = p],
           QueuePhaseAt(p) = QueuePhaseAt(pc[t])
    PROVE  Queue!Phase' = Queue!Phase
  BY DEF Queue!Phase, QueuePhaseAt, Queue!TypeOK

LEMMA StackPhaseMoves ==
    ASSUME Stack!TypeOK, NEW t \in Threads, NEW p, pc' = [pc EXCEPT ![t] = p]
    PROVE  /\ Stack!Phase[t] = StackPhaseAt(pc[t])
           /\ Stack!Phase' = [Stack!Phase EXCEPT ![t] = StackPhaseAt(p)]
  BY DEF Stack!Phase, StackPhaseAt, Stack!TypeOK

LEMMA StackPhaseStays ==
    ASSUME Stack!TypeOK, NEW t \in Threads, NEW p, pc' = [pc EXCEPT ![t] = p],
           StackPhaseAt(p) = StackPhaseAt(pc[t])
    PROVE  Stack!Phase' = Stack!Phase
  BY DEF Stack!Phase, StackPhaseAt, Stack!TypeOK

-----------------------------------------------------------------------------
(* The dynamic queue. *)

LEMMA QueueRefinementInit == Queue!Init => Queue!BQ!Init
  <1> SUFFICES ASSUME Queue!Init PROVE Queue!BQ!Init
    OBVIOUS
  <1> USE DEF Queue!Init, Queue!ClientsInit, Queue!ListInit
  <1>1. Queue!Reverse(nodes) = <<>>
    BY EmptySeq DEF Queue!Reverse
  <1>2. Queue!Phase = [t \in Threads |-> "idle"]
    BY DEF Queue!Phase
  <1> QED
    BY <1>1, <1>2 DEF Queue!BQ!Init, Queue!BQ!NoRequest, Queue!NoCall

(* Until malloc fails the counter read by a body that has not touched the    *)
(* list is the length of the list, and so of the abstract queue.             *)
LEMMA QueueCounterIsLength ==
    ASSUME QueueInv, ~mallocFailed, life = "live", NEW t \in Threads, pc[t] = "body"
    PROVE  /\ nodes \in Seq(Elements)
           /\ Queue!Reverse(nodes) \in Seq(Elements)
           /\ size = Len(nodes)
           /\ Len(Queue!Reverse(nodes)) = Len(nodes)
           /\ size <= MaxElements
           /\ nodes = <<>> <=> Queue!Reverse(nodes) = <<>>
           /\ nodes = <<>> <=> size = 0
  <1>1. nodes \in Seq(Elements) /\ size \in Nat
    BY DEF QueueInv, Queue!TypeOK
  <1>2. Queue!Uncounted = 0
    <2>1. QueueUncountedIs
      BY QueueUncountedFacts DEF QueueInv, Queue!TypeOK
    <2>2. \A u \in Threads : pc[u] # "rest"
      BY HolderAlone DEF QueueInv
    <2> QED
      BY <2>1, <2>2 DEF QueueUncountedIs
  <1>3. size = Len(nodes)
    BY <1>1, <1>2 DEF QueueInv, Queue!CounterCoversList
  <1>4. Queue!Reverse(nodes) \in Seq(Elements) /\ Len(Queue!Reverse(nodes)) = Len(nodes)
    BY <1>1, SameOperators, ReverseFacts
  <1>5. size <= MaxElements
    <2>1. Cardinality(Pending) \in Nat /\ MaxElements \in Nat
      BY PendingFinite, ContainerAssumption DEF QueueInv, QueueBound
    <2>2. size + Cardinality(Pending) <= MaxElements
      BY DEF QueueInv, QueueBound
    <2> QED
      BY <1>1, <2>1, <2>2
  <1> QED
    BY <1>1, <1>3, <1>4, <1>5, EmptySeq

(* A body step that answers v is the abstract step that takes effect with v. *)
LEMMA QueueAnswerTakesEffect ==
    ASSUME QueueInv, NEW t \in Threads, NEW name, NEW v, NEW p \in {"rest", "unlock"},
           Queue!InBody(t, name), Queue!Answer(t, v, p)
    PROVE  Queue!BQ!TakesEffect(t, name, v)
  <1>1. Queue!Phase[t] = "called" /\ Queue!Phase' = [Queue!Phase EXCEPT ![t] = "done"]
    BY QueuePhaseMoves DEF QueueInv, QueuePhaseAt, Queue!InBody, Queue!Answer
  <1> QED
    BY <1>1 DEF Queue!BQ!TakesEffect, Queue!InBody, Queue!Answer

LEMMA QueueCreateRefines ==
    ASSUME QueueInv, Queue!Create
    PROVE  Queue!BQ!Create
  <1> USE DEF Queue!Create, Queue!ListInit, Queue!AllIdle
  <1>1. Queue!Reverse(nodes') = <<>>
    BY EmptySeq DEF Queue!Reverse
  <1>2. Queue!BQ!AllIdle
    BY DEF Queue!BQ!AllIdle, Queue!Phase
  <1>3. Queue!Phase' = Queue!Phase
    BY DEF Queue!Phase
  <1> QED
    BY <1>1, <1>2, <1>3 DEF Queue!BQ!Create

LEMMA QueueCallRefines ==
    ASSUME QueueInv, NEW t \in Threads, NEW c \in Queue!Calls, Queue!Call(t, c)
    PROVE  Queue!BQ!Next
  <1> USE DEF Queue!Call, Queue!Invoke, Queue!queueVars
  <1>1. Queue!Phase[t] = "idle" /\ Queue!Phase' = [Queue!Phase EXCEPT ![t] = "called"]
    BY QueuePhaseMoves DEF QueueInv, QueuePhaseAt
  <1>2. Queue!Reverse(nodes') = Queue!Reverse(nodes)
    OBVIOUS
  <1>3. Queue!BQ!Call(t, c)
    BY <1>1, <1>2 DEF Queue!BQ!Call
  <1>4. c \in Queue!BQ!Requests
    BY DEF Queue!Calls, Queue!BQ!Requests, Queue!LookNames, Queue!FreeNames
  <1> QED
    BY <1>3, <1>4 DEF Queue!BQ!Next

LEMMA QueueFinishRefines ==
    ASSUME QueueInv, NEW t \in Threads, Queue!Finish(t)
    PROVE  Queue!BQ!Return(t)
  <1> USE DEF Queue!Finish, Queue!Return, Queue!queueVars
  <1>1. Queue!Phase[t] = "done" /\ Queue!Phase' = [Queue!Phase EXCEPT ![t] = "idle"]
    BY QueuePhaseMoves DEF QueueInv, QueuePhaseAt
  <1>2. Queue!Reverse(nodes') = Queue!Reverse(nodes)
    OBVIOUS
  <1> QED
    BY <1>1, <1>2 DEF Queue!BQ!Return, Queue!BQ!NoRequest, Queue!NoCall

LEMMA QueuePushRefines ==
    ASSUME QueueInv, ~mallocFailed, NEW t \in Threads, Queue!PushInsert(t)
    PROVE  Queue!BQ!Push(t)
  <1> USE DEF Queue!PushInsert
  <1>1. Len(Queue!Reverse(nodes)) < MaxElements + 1
    BY QueueCounterIsLength, ContainerAssumption DEF Queue!InBody
  <1>2. Queue!BQ!TakesEffect(t, "push", 1)
    BY QueueAnswerTakesEffect DEF Queue!CTrue
  <1>3. op[t].data \in Elements /\ nodes \in Seq(Elements)
    BY QueueCallFacts DEF QueueInv, QueueInCall, Queue!InBody, Queue!TypeOK
  <1>4. Queue!Reverse(nodes') = Append(Queue!Reverse(nodes), op[t].data)
    <2>1. nodes' = ListPushFront(nodes, op[t].data)
      BY DEF Queue!ListPushFront, ListPushFront
    <2> QED
      BY <1>3, <2>1, ReversePushFront, SameOperators
  <1> QED
    BY <1>1, <1>2, <1>4 DEF Queue!BQ!Push, Queue!BQ!CTrue

LEMMA QueuePopRefines ==
    ASSUME QueueInv, ~mallocFailed, NEW t \in Threads,
           Queue!PopEmpty(t) \/ Queue!PopUnlink(t)
    PROVE  Queue!BQ!Pop(t)
  <1>1. CASE Queue!PopEmpty(t)
    <2> USE <1>1 DEF Queue!PopEmpty, Queue!queueVars
    <2>1. Queue!Reverse(nodes) = <<>>
      BY QueueCounterIsLength DEF Queue!InBody, QueueInv, Queue!TypeOK
    <2>2. Queue!BQ!TakesEffect(t, "pop", Null)
      BY QueueAnswerTakesEffect
    <2>3. Queue!Reverse(nodes') = Queue!Reverse(nodes)
      OBVIOUS
    <2> QED
      BY <2>1, <2>2, <2>3 DEF Queue!BQ!Pop
  <1>2. CASE Queue!PopUnlink(t)
    <2> USE <1>2 DEF Queue!PopUnlink
    <2>1. nodes \in Seq(Elements)
      BY DEF QueueInv, Queue!TypeOK
    <2>2. nodes' = ListPopBack(nodes) /\ Queue!ListBack(nodes) = ListBack(nodes)
      BY SameOperators DEF Queue!ListPopBack, ListPopBack, Queue!ListBack, ListBack
    <2>3. /\ Queue!Reverse(nodes) # <<>>
          /\ Queue!Reverse(nodes') = Tail(Queue!Reverse(nodes))
          /\ Queue!ListBack(nodes) = Head(Queue!Reverse(nodes))
      BY <2>1, <2>2, ReversePopBack, SameOperators
    <2>4. Queue!BQ!TakesEffect(t, "pop", Queue!ListBack(nodes))
      BY QueueAnswerTakesEffect
    <2> QED
      BY <2>3, <2>4 DEF Queue!BQ!Pop
  <1> QED
    BY <1>1, <1>2

LEMMA QueueLookRefines ==
    ASSUME QueueInv, ~mallocFailed, NEW t \in Threads, Queue!Look(t)
    PROVE  Queue!BQ!Look(t)
  <1> USE DEF Queue!Look, Queue!queueVars
  <1>1. PICK name \in Queue!LookNames :
          Queue!InBody(t, name) /\ Queue!Answer(t, Queue!Seen(name), "unlock")
    OBVIOUS
  <1>2. Queue!BQ!TakesEffect(t, name, Queue!Seen(name))
    BY <1>1, QueueAnswerTakesEffect
  <1>3. Queue!Reverse(nodes') = Queue!Reverse(nodes) /\ life' = life
    OBVIOUS
  <1> DEFINE q == Queue!Reverse(nodes)
  <1>4. /\ nodes \in Seq(Elements) /\ q \in Seq(Elements) /\ q = Reverse(nodes)
        /\ size = Len(q) /\ Len(q) = Len(nodes)
        /\ nodes = <<>> <=> q = <<>>
        /\ nodes = <<>> <=> size = 0
    BY <1>1, QueueCounterIsLength, SameOperators DEF Queue!InBody
  <1>5. name = "front" => Queue!Seen(name) = IF q = <<>> THEN Null ELSE Head(q)
    <2>1. nodes = <<>> => Queue!Seen("front") = Null
      BY <1>4 DEF Queue!Seen
    <2>2. nodes # <<>> => Queue!Seen("front") = ListBack(nodes)
      BY <1>4, EmptySeq, SameOperators DEF Queue!Seen, Queue!ListBack, ListBack
    <2>3. nodes # <<>> => ListBack(nodes) = Head(q)
      BY <1>4, ReversePopBack
    <2> QED
      BY <1>4, <2>1, <2>2, <2>3
  <1>6. name = "back" => Queue!Seen(name) = IF q = <<>> THEN Null ELSE q[Len(q)]
    <2>1. Queue!Seen("back") = IF nodes = <<>> THEN Null ELSE nodes[1]
      BY DEF Queue!Seen, Queue!ListFront
    <2>2. nodes # <<>> => q[Len(q)] = nodes[1]
      <3>1. nodes # <<>> => Len(nodes) \in 1..Len(nodes) /\ Len(nodes) - Len(nodes) + 1 = 1
        BY <1>4, EmptySeq
      <3> QED
        BY <1>4, <3>1, ReverseFacts
    <2> QED
      BY <1>4, <2>1, <2>2
  <1>7. name = "size" => Queue!Seen(name) = Len(q)
    BY <1>4 DEF Queue!Seen
  <1> HIDE DEF q
  <1>8. \/ Queue!BQ!TakesEffect(t, "front", IF q = <<>> THEN Null ELSE Head(q))
        \/ Queue!BQ!TakesEffect(t, "back", IF q = <<>> THEN Null ELSE q[Len(q)])
        \/ Queue!BQ!TakesEffect(t, "size", Len(q))
    BY <1>1, <1>2, <1>5, <1>6, <1>7 DEF Queue!LookNames
  <1> QED
    BY <1>3, <1>8 DEF Queue!BQ!Look, q

(* The steps that only move the mutex or the counter. *)
LEMMA QueueStutterRefines ==
    ASSUME QueueInv, NEW t \in Threads,
           \/ Queue!Acquire(t) \/ Queue!PushCount(t) \/ Queue!PopCount(t)
           \/ Queue!Release(t) \/ Queue!ReleaseFreed(t)
    PROVE  UNCHANGED Queue!BQ!vars
  <1> USE DEF Queue!queueVars, Queue!callVars
  <1>1. UNCHANGED <<op, ret, nodes>> /\ Queue!Phase' = Queue!Phase
    <2>1. CASE Queue!Acquire(t)
      BY <2>1, QueuePhaseStays DEF Queue!Acquire, Queue!Lock, QueuePhaseAt, QueueInv
    <2>2. CASE Queue!PushCount(t) \/ Queue!PopCount(t)
      BY <2>2, QueuePhaseStays
      DEF Queue!PushCount, Queue!PopCount, Queue!Proceed, QueuePhaseAt, QueueInv
    <2>3. CASE Queue!Release(t)
      BY <2>3, QueuePhaseStays DEF Queue!Release, Queue!Unlock, QueuePhaseAt, QueueInv
    <2>4. CASE Queue!ReleaseFreed(t)
      <3>1. CASE Queue!Unlock(t)
        BY <2>4, <3>1, QueuePhaseStays
        DEF Queue!ReleaseFreed, Queue!Unlock, QueuePhaseAt, QueueInv
      <3>2. CASE UNCHANGED Queue!callVars
        BY <2>4, <3>2 DEF Queue!ReleaseFreed, Queue!Phase
      <3> QED
        BY <2>4, <3>1, <3>2 DEF Queue!ReleaseFreed
    <2> QED
      BY <2>1, <2>2, <2>3, <2>4
  <1>2. (life \notin {"none", "freed", "exited"})' = (life \notin {"none", "freed", "exited"})
    BY DEF Queue!Acquire, Queue!PushCount, Queue!PopCount, Queue!Release, Queue!ReleaseFreed
  <1> QED
    BY <1>1, <1>2 DEF Queue!BQ!vars

(* A free that is defined ends the abstract queue; one that is not stops the *)
(* program before it takes effect.                                           *)
LEMMA QueueFreeRefines ==
    ASSUME QueueInv, NEW t \in Threads, Queue!FreeBody(t)
    PROVE  Queue!BQ!Free(t) \/ UNCHANGED Queue!BQ!vars
  <1>1. PICK name \in Queue!FreeNames :
            /\ Queue!InBody(t, name)
            /\ \/ life' = "badFree" /\ UNCHANGED <<Queue!callVars, nodes>>
               \/ life' = "freed" /\ nodes' = <<>> /\ Queue!Answer(t, Null, "unlock")
    BY DEF Queue!FreeBody
  <1>2. CASE life' = "badFree" /\ UNCHANGED <<Queue!callVars, nodes>>
    BY <1>2 DEF Queue!FreeBody, Queue!BQ!vars, Queue!callVars, Queue!Phase
  <1>3. CASE life' = "freed" /\ nodes' = <<>> /\ Queue!Answer(t, Null, "unlock")
    <2>1. Queue!BQ!TakesEffect(t, name, Null)
      BY <1>1, <1>3, QueueAnswerTakesEffect
    <2>2. Queue!Reverse(nodes') = <<>>
      BY <1>3, EmptySeq DEF Queue!Reverse
    <2> QED
      BY <1>1, <1>3, <2>1, <2>2 DEF Queue!BQ!Free, Queue!BQ!FreeNames, Queue!FreeNames
  <1> QED
    BY <1>1, <1>2, <1>3

(* Until malloc fails every step of the dynamic queue is a step of the FIFO  *)
(* queue or a stutter: in particular pop never finds the counter above zero  *)
(* and the list empty.                                                       *)
LEMMA QueueStepRefines ==
    ASSUME QueueInv, Queue!Next, ~mallocFailed'
    PROVE  [Queue!BQ!Next]_(Queue!BQ!vars)
  <1>0. CASE mallocFailed
    BY <1>0
    DEF Queue!Next, Queue!Create, Queue!CreateFails, Queue!Call, Queue!Acquire,
        Queue!PushInsert, Queue!PushRefused, Queue!PushCount, Queue!PopEmpty,
        Queue!PopUnlink, Queue!PopNullDeref, Queue!PopCount, Queue!Look, Queue!FreeBody,
        Queue!Release, Queue!ReleaseFreed, Queue!Finish, Queue!queueVars
  <1>1. CASE ~mallocFailed
    <2>1. ASSUME Queue!Create PROVE Queue!BQ!Next
      BY <2>1, QueueCreateRefines DEF Queue!BQ!Next
    <2>2. ~Queue!CreateFails
      BY DEF Queue!CreateFails
    <2>3. ASSUME NEW t \in Threads PROVE ~Queue!PushRefused(t) /\ ~Queue!PopNullDeref(t)
      BY <1>1, QueueCounterIsLength
      DEF Queue!PushRefused, Queue!PopNullDeref, Queue!InBody, QueueInv, Queue!TypeOK
    <2>4. ASSUME NEW t \in Threads, Queue!PushInsert(t) PROVE Queue!BQ!Next
      BY <1>1, <2>4, QueuePushRefines DEF Queue!BQ!Next
    <2>5. ASSUME NEW t \in Threads, Queue!PopEmpty(t) \/ Queue!PopUnlink(t)
          PROVE  Queue!BQ!Next
      BY <1>1, <2>5, QueuePopRefines DEF Queue!BQ!Next
    <2>6. ASSUME NEW t \in Threads, Queue!Look(t) PROVE Queue!BQ!Next
      BY <1>1, <2>6, QueueLookRefines DEF Queue!BQ!Next
    <2>7. ASSUME NEW t \in Threads, Queue!FreeBody(t)
          PROVE  Queue!BQ!Next \/ UNCHANGED Queue!BQ!vars
      BY <2>7, QueueFreeRefines DEF Queue!BQ!Next
    <2>8. ASSUME NEW t \in Threads, Queue!Finish(t) PROVE Queue!BQ!Next
      BY <2>8, QueueFinishRefines DEF Queue!BQ!Next
    <2> QED
      BY <2>1, <2>2, <2>3, <2>4, <2>5, <2>6, <2>7, <2>8, QueueCallRefines,
         QueueStutterRefines
      DEF Queue!Next
  <1> QED
    BY <1>0, <1>1

-----------------------------------------------------------------------------
(* The stack. *)

(* SequencesExt's Reverse of one more element. *)
LEMMA ReverseAppend ==
    ASSUME NEW S, NEW s \in Seq(S), NEW e \in S
    PROVE  Reverse(Append(s, e)) = <<e>> \o Reverse(s)
  <1> DEFINE n == Len(s)
             longer == Append(s, e)
             r == Reverse(s)
             rl == Reverse(longer)
             er == <<e>> \o r
  <1>0. n \in Nat
    OBVIOUS
  <1>1. /\ longer \in Seq(S) /\ Len(longer) = n + 1 /\ longer[n + 1] = e
        /\ \A i \in 1..n : longer[i] = s[i]
    BY AppendProperties
  <1> HIDE DEF longer
  <1>2. r \in Seq(S) /\ Len(r) = n /\ \A i \in 1..n : r[i] = s[n - i + 1]
    BY ReverseFacts
  <1>3. /\ rl \in Seq(S) /\ Len(rl) = n + 1
        /\ \A i \in 1..(n + 1) : rl[i] = longer[n + 1 - i + 1]
    BY <1>1, ReverseFacts
  <1> HIDE DEF r, rl, n
  <1>4. /\ er \in Seq(S) /\ Len(er) = n + 1
        /\ \A i \in 1..(n + 1) : er[i] = IF i = 1 THEN e ELSE r[i - 1]
    BY <1>0, <1>2
  <1>5. \A i \in 1..(n + 1) : rl[i] = er[i]
    <2>1. TAKE i \in 1..(n + 1)
    <2>2. CASE i = 1
      <3>1. n + 1 - i + 1 = n + 1
        BY <1>0, <2>2
      <3>2. rl[i] = e
        BY <1>1, <1>3, <2>1, <3>1
      <3>3. er[i] = e
        BY <1>4, <2>1, <2>2
      <3> QED
        BY <3>2, <3>3
    <2>3. CASE i # 1
      <3>1. PICK j \in 1..n : j = i - 1
        BY <1>0, <2>1, <2>3
      <3>2. n - j + 1 \in 1..n /\ n + 1 - i + 1 = n - j + 1
        BY <1>0, <2>1, <3>1
      <3>3. rl[i] = s[n - j + 1]
        BY <1>1, <1>3, <2>1, <3>2
      <3>4. er[i] = s[n - j + 1]
        BY <1>2, <1>4, <2>1, <2>3, <3>1
      <3> QED
        BY <3>3, <3>4
    <2> QED
      BY <2>2, <2>3
  <1> HIDE DEF er
  <1>6. rl = er
    BY <1>3, <1>4, <1>5, SeqEqual
  <1> QED
    BY <1>6 DEF rl, er, longer, r

(* A prefix of an array. *)
LEMMA PrefixFacts ==
    ASSUME NEW S, NEW b, NEW n \in Nat, \A i \in 1..n : b[i] \in S
    PROVE  /\ SubSeq(b, 1, n) \in Seq(S)
           /\ Len(SubSeq(b, 1, n)) = n
           /\ \A i \in 1..n : SubSeq(b, 1, n)[i] = b[i]
  <1>1. /\ SubSeq(b, 1, n) \in Seq(S)
        /\ Len(SubSeq(b, 1, n)) = IF 1 <= n THEN n - 1 + 1 ELSE 0
        /\ \A i \in 1..(n - 1 + 1) : SubSeq(b, 1, n)[i] = b[1 + i - 1]
    BY SubSeqProperties
  <1> QED
    BY <1>1

(* The elements of the stack, the oldest first. *)
Used == SubSeq(buffer, 1, size)

LEMMA UsedFacts ==
    StackInv => /\ Used \in Seq(Elements)
                /\ Len(Used) = size
                /\ \A i \in 1..size : Used[i] = buffer[i]
                /\ size \in Nat
  BY PrefixFacts DEF StackInv, Stack!TypeOK, Stack!SlotsInUse, Used

LEMMA UsedFactsNext ==
    (StackInv => /\ Used \in Seq(Elements)
                 /\ Len(Used) = size
                 /\ \A i \in 1..size : Used[i] = buffer[i]
                 /\ size \in Nat)'
  BY UsedFacts, PTL

(* The abstract contents are the elements, the youngest first. *)
LEMMA ContentsFacts ==
    ASSUME StackInv
    PROVE  /\ Stack!Reverse(Used) \in Seq(Elements)
           /\ Len(Stack!Reverse(Used)) = size
           /\ size = 0 <=> Stack!Reverse(Used) = <<>>
           /\ size # 0 => /\ Head(Stack!Reverse(Used)) = buffer[size]
                          /\ Used = Append(SubSeq(buffer, 1, size - 1), buffer[size])
                          /\ SubSeq(buffer, 1, size - 1) \in Seq(Elements)
                          /\ buffer[size] \in Elements
  <1>1. /\ Used \in Seq(Elements) /\ Len(Used) = size /\ size \in Nat
        /\ \A i \in 1..size : Used[i] = buffer[i]
    BY UsedFacts
  <1>2. /\ Reverse(Used) \in Seq(Elements) /\ Len(Reverse(Used)) = size
        /\ \A i \in 1..size : Reverse(Used)[i] = Used[size - i + 1]
    BY <1>1, ReverseFacts
  <1>3. ASSUME size # 0
        PROVE  /\ Head(Reverse(Used)) = buffer[size]
               /\ Used = Append(SubSeq(buffer, 1, size - 1), buffer[size])
               /\ SubSeq(buffer, 1, size - 1) \in Seq(Elements)
               /\ buffer[size] \in Elements
    <2>1. 1 \in 1..size /\ size - 1 + 1 = size /\ size \in 1..size /\ size - 1 \in Nat
      BY <1>1, <1>3
    <2>2. Head(Reverse(Used)) = buffer[size]
      BY <1>1, <1>2, <2>1
    <2>3. \A i \in 1..size : buffer[i] \in Elements
      BY DEF StackInv, Stack!SlotsInUse
    <2>4. /\ SubSeq(buffer, 1, size - 1) \in Seq(Elements)
          /\ Len(SubSeq(buffer, 1, size - 1)) = size - 1
          /\ \A i \in 1..(size - 1) : SubSeq(buffer, 1, size - 1)[i] = buffer[i]
      BY <2>1, <2>3, PrefixFacts
    <2> DEFINE older == SubSeq(buffer, 1, size - 1)
               whole == Append(older, buffer[size])
    <2> HIDE DEF older
    <2>5. /\ whole \in Seq(Elements) /\ Len(whole) = size /\ whole[size] = buffer[size]
          /\ \A i \in 1..(size - 1) : whole[i] = buffer[i]
      BY <2>1, <2>3, <2>4, AppendProperties DEF older
    <2> HIDE DEF whole
    <2>6. \A i \in 1..size : Used[i] = whole[i]
      <3>1. TAKE i \in 1..size
      <3>2. i = size \/ i \in 1..(size - 1)
        BY <1>1, <3>1
      <3> QED
        BY <1>1, <2>5, <3>1, <3>2
    <2>7. Used = whole
      BY <1>1, <2>5, <2>6, SeqEqual
    <2> QED
      BY <2>1, <2>2, <2>3, <2>4, <2>7 DEF whole, older
  <1> QED
    BY <1>1, <1>2, <1>3, EmptySeq, SameOperators

LEMMA StackRefinementInit == Stack!Init => Stack!AS!Init
  <1> SUFFICES ASSUME Stack!Init PROVE Stack!AS!Init
    OBVIOUS
  <1> USE DEF Stack!Init, Stack!ClientsInit
  <1>1. Stack!Reverse(SubSeq(buffer, 1, size)) = <<>>
    BY StackInitInv, ContentsFacts DEF Used
  <1>2. Stack!Phase = [t \in Threads |-> "idle"]
    BY DEF Stack!Phase
  <1> QED
    BY <1>1, <1>2 DEF Stack!AS!Init, Stack!AS!NoRequest, Stack!NoCall

LEMMA StackCreateRefines ==
    ASSUME StackInv, Stack!Create \/ Stack!CreateFails
    PROVE  Stack!AS!Create \/ UNCHANGED Stack!AS!vars
  <1> USE DEF Stack!Create, Stack!CreateFails, Stack!callVars
  <1>1. /\ life = "none" /\ UNCHANGED <<pc, op, ret, mtx, size, capacity>>
        /\ life' \in {"none", "nullDeref", "live"}
    OBVIOUS
  <1>2. size = 0 /\ (\A t \in Threads : pc[t] = "idle") /\ StackInv'
    BY <1>1, StackCreateKeeps DEF StackInv, StackBefore
  <1>3. Stack!Reverse(SubSeq(buffer, 1, size)) = <<>>
    BY <1>2, ContentsFacts DEF Used
  <1>4. Stack!Reverse(SubSeq(buffer', 1, size')) = <<>>
    <2>1. Used' \in Seq(Elements) /\ Len(Used') = 0
      BY <1>1, <1>2, UsedFactsNext
    <2> QED
      BY <2>1, EmptySeq DEF Used, Stack!Reverse
  <1>5. Stack!Phase' = Stack!Phase /\ \A t \in Threads : Stack!Phase[t] = "idle"
    BY <1>1, <1>2 DEF Stack!Phase
  <1>6. CASE life' = "none"
    BY <1>1, <1>3, <1>4, <1>5, <1>6 DEF Stack!AS!vars
  <1>7. CASE life' # "none"
    BY <1>1, <1>3, <1>4, <1>5, <1>7 DEF Stack!AS!Create
  <1> QED
    BY <1>6, <1>7

LEMMA StackCallRefines ==
    ASSUME StackInv, NEW t \in Threads, NEW c \in Stack!Calls, Stack!Call(t, c)
    PROVE  Stack!AS!Call(t, c)
  <1> USE DEF Stack!Call, Stack!Invoke, Stack!stackVars
  <1>1. Stack!Phase[t] = "idle" /\ Stack!Phase' = [Stack!Phase EXCEPT ![t] = "called"]
    BY StackPhaseMoves DEF StackInv, StackPhaseAt
  <1> QED
    BY <1>1 DEF Stack!AS!Call

LEMMA StackFinishRefines ==
    ASSUME StackInv, NEW t \in Threads, Stack!Finish(t)
    PROVE  Stack!AS!Return(t)
  <1> USE DEF Stack!Finish, Stack!Return, Stack!stackVars
  <1>1. Stack!Phase[t] = "done" /\ Stack!Phase' = [Stack!Phase EXCEPT ![t] = "idle"]
    BY StackPhaseMoves DEF StackInv, StackPhaseAt
  <1> QED
    BY <1>1 DEF Stack!AS!Return, Stack!AS!NoRequest, Stack!NoCall

(* The steps that take or give back the mutex, or find room. *)
LEMMA StackStutterRefines ==
    ASSUME StackInv, NEW t \in Threads,
           Stack!Acquire(t) \/ Stack!Release(t) \/ Stack!PushRoom(t) \/ Stack!PushGrow(t)
    PROVE  UNCHANGED Stack!AS!vars
  <1>1. UNCHANGED <<op, ret, life>> /\ Stack!Phase' = Stack!Phase
    <2>1. CASE Stack!Acquire(t)
      BY <2>1, StackPhaseStays
      DEF Stack!Acquire, Stack!Lock, Stack!stackVars, StackPhaseAt, StackInv
    <2>2. CASE Stack!Release(t)
      BY <2>2, StackPhaseStays
      DEF Stack!Release, Stack!Unlock, Stack!stackVars, StackPhaseAt, StackInv
    <2>3. CASE Stack!PushRoom(t)
      BY <2>3, StackPhaseStays
      DEF Stack!PushRoom, Stack!InBody, Stack!Proceed, Stack!stackVars, StackPhaseAt, StackInv
    <2>4. CASE Stack!PushGrow(t)
      BY <2>4, StackPhaseStays
      DEF Stack!PushGrow, Stack!InBody, Stack!Proceed, StackPhaseAt, StackInv
    <2> QED
      BY <2>1, <2>2, <2>3, <2>4
  <1>2. Used' = Used
    <2>1. CASE UNCHANGED <<buffer, size>>
      BY <2>1 DEF Used
    <2>2. CASE Stack!PushGrow(t)
      <3>1. StackInv' /\ size' = size
        BY <2>2, StackPushKeeps DEF Stack!PushGrow
      <3>2. \A i \in 1..size : buffer'[i] = buffer[i]
        <4>1. /\ buffer \in Seq(Elements \cup {Null}) /\ size \in Nat
              /\ size <= Len(buffer) /\ capacity \in Nat \ {0}
              /\ buffer # <<>> => Len(buffer) = capacity
          BY DEF StackInv, Stack!TypeOK, Stack!SlotsInUse
        <4>2. buffer' = [i \in 1..(2 * capacity) |->
                            IF i <= Len(buffer) THEN buffer[i] ELSE Null]
          BY <2>2 DEF Stack!PushGrow
        <4>3. Len(buffer) <= 2 * capacity
          BY <4>1, EmptySeq
        <4> QED
          BY <4>1, <4>2, <4>3
      <3>3. /\ Used \in Seq(Elements) /\ Used' \in Seq(Elements)
            /\ Len(Used) = size /\ Len(Used') = size
            /\ \A i \in 1..size : Used[i] = buffer[i] /\ Used'[i] = buffer'[i]
        BY <3>1, UsedFacts, UsedFactsNext
      <3> QED
        BY <3>2, <3>3, SeqEqual
    <2> QED
      BY <2>1, <2>2
      DEF Stack!Acquire, Stack!Release, Stack!PushRoom, Stack!stackVars
  <1> QED
    BY <1>1, <1>2 DEF Stack!AS!vars, Used

(* A step that ends a body with v is the abstract step that takes effect.    *)
LEMMA StackAnswerTakesEffect ==
    ASSUME StackInv, NEW t \in Threads, NEW names, NEW v,
           pc[t] \in {"body", "rest"}, op[t].name \in names, Stack!Answer(t, v, "unlock")
    PROVE  Stack!AS!TakesEffect(t, names, v)
  <1>1. pc' = [pc EXCEPT ![t] = "unlock"]
    BY DEF Stack!Answer
  <1>2. /\ Stack!Phase[t] = StackPhaseAt(pc[t])
        /\ Stack!Phase' = [Stack!Phase EXCEPT ![t] = StackPhaseAt("unlock")]
    BY <1>1, StackPhaseMoves DEF StackInv
  <1>3. StackPhaseAt(pc[t]) = "called" /\ StackPhaseAt("unlock") = "done"
    BY DEF StackPhaseAt
  <1> QED
    BY <1>2, <1>3 DEF Stack!AS!TakesEffect, Stack!Answer

LEMMA StackPushRefines ==
    ASSUME StackInv, NEW t \in Threads, Stack!PushRefused(t) \/ Stack!PushStore(t)
    PROVE  Stack!AS!Push(t) \/ UNCHANGED Stack!AS!vars
  <1>1. CASE Stack!PushRefused(t)
    <2> USE <1>1 DEF Stack!PushRefused, Stack!InBody, Stack!stackVars
    <2>1. Stack!AS!TakesEffect(t, {"push", "push_front"}, 0)
      BY StackAnswerTakesEffect DEF Stack!CFalse
    <2> QED
      BY <2>1 DEF Stack!AS!Push, Stack!AS!CFalse
  <1>2. CASE Stack!PushStore(t) /\ buffer = <<>>
    BY <1>2 DEF Stack!PushStore, Stack!callVars, Stack!AS!vars, Stack!Phase
  <1>3. CASE Stack!PushStore(t) /\ buffer # <<>>
    <2>1. /\ life = "live" /\ life' = "live" /\ pc[t] = "rest" /\ size' = size + 1
          /\ buffer' = [buffer EXCEPT ![size + 1] = op[t].data]
          /\ Stack!Answer(t, 1, "unlock")
      BY <1>3 DEF Stack!PushStore, Stack!CTrue
    <2>2. op[t].name = "push" /\ op[t].data \in Elements
      BY <2>1 DEF StackInv, StackInCall, Stack!Calls, Stack!LookNames
    <2>3. Stack!AS!TakesEffect(t, {"push", "push_front"}, 1)
      BY <2>1, <2>2, StackAnswerTakesEffect
    <2>4. StackInv'
      BY <1>3, StackStoreKeeps
    <2>5. Used' = Append(Used, op[t].data)
      <3>1. /\ Used \in Seq(Elements) /\ Len(Used) = size /\ size \in Nat
            /\ \A i \in 1..size : Used[i] = buffer[i]
        BY UsedFacts
      <3>2. /\ Used' \in Seq(Elements) /\ Len(Used') = size + 1
            /\ \A i \in 1..(size + 1) : Used'[i] = buffer'[i]
        BY <2>1, <2>4, UsedFactsNext
      <3> DEFINE longer == Append(Used, op[t].data)
      <3>3. /\ longer \in Seq(Elements) /\ Len(longer) = size + 1
            /\ longer[size + 1] = op[t].data
            /\ \A i \in 1..size : longer[i] = buffer[i]
        BY <2>2, <3>1, AppendProperties
      <3>4. \A i \in 1..(size + 1) : buffer'[i] = IF i = size + 1 THEN op[t].data ELSE buffer[i]
        <4>1. /\ buffer \in Seq(Elements \cup {Null}) /\ size + 1 \in 1..Len(buffer)
          BY <1>3, <2>1, <3>1 DEF StackInv, Stack!TypeOK, Stack!SlotsInUse
        <4>2. \A i \in 1..Len(buffer) :
                buffer'[i] = IF i = size + 1 THEN op[t].data ELSE buffer[i]
          BY <2>1, <2>2, <4>1, ExceptSeq
        <4> QED
          BY <3>1, <4>1, <4>2
      <3> HIDE DEF longer
      <3>5. \A i \in 1..(size + 1) : Used'[i] = longer[i]
        <4>1. TAKE i \in 1..(size + 1)
        <4>2. i = size + 1 \/ (i # size + 1 /\ i \in 1..size)
          BY <3>1, <4>1
        <4> QED
          BY <3>2, <3>3, <3>4, <4>1, <4>2
      <3>6. Used' = longer
        BY <3>2, <3>3, <3>5, SeqEqual
      <3> QED
        BY <3>6 DEF longer
    <2>6. Stack!Reverse(Used') = <<op[t].data>> \o Stack!Reverse(Used)
      BY <2>2, <2>5, UsedFacts, ReverseAppend, SameOperators
    <2> QED
      BY <2>1, <2>3, <2>6 DEF Stack!AS!Push, Stack!AS!CTrue, Used
  <1> QED
    BY <1>1, <1>2, <1>3

LEMMA StackPopRefines ==
    ASSUME StackInv, NEW t \in Threads, Stack!Pop(t)
    PROVE  Stack!AS!Pop(t)
  <1> DEFINE c == Stack!Reverse(Used)
  <1>1. life' = life /\ pc[t] = "body" /\ op[t].name = "pop" /\ buffer' = buffer
    BY DEF Stack!Pop, Stack!InBody
  <1>2. CASE size = 0
    <2>1. c = <<>> /\ Used' = Used
      BY <1>1, <1>2, ContentsFacts DEF Stack!Pop, Used
    <2>2. Stack!AS!TakesEffect(t, {"pop", "pop_front"}, Null)
      BY <1>1, <1>2, StackAnswerTakesEffect DEF Stack!Pop
    <2> QED
      BY <1>1, <2>1, <2>2 DEF Stack!AS!Pop, Stack!AS!Youngest, Used
  <1>3. CASE size # 0
    <2>1. /\ c # <<>> /\ Head(c) = buffer[size]
          /\ Used = Append(SubSeq(buffer, 1, size - 1), buffer[size])
          /\ SubSeq(buffer, 1, size - 1) \in Seq(Elements)
          /\ buffer[size] \in Elements
      BY <1>3, ContentsFacts
    <2>2. Used' = SubSeq(buffer, 1, size - 1)
      BY <1>1, <1>3 DEF Stack!Pop, Used
    <2>3. c = <<buffer[size]>> \o Reverse(Used')
      BY <2>1, <2>2, ReverseAppend, SameOperators
    <2>4. Reverse(Used') \in Seq(Elements)
      BY <2>1, <2>2, ReverseFacts
    <2>5. Tail(c) = Reverse(Used')
      BY <2>1, <2>3, <2>4
    <2>6. Stack!AS!TakesEffect(t, {"pop", "pop_front"}, buffer[size])
      BY <1>1, <1>3, StackAnswerTakesEffect DEF Stack!Pop
    <2>7. Stack!Reverse(Used') = Tail(c)
      BY <2>5, SameOperators
    <2> QED
      BY <1>1, <2>1, <2>6, <2>7 DEF Stack!AS!Pop, Stack!AS!Youngest, Used
  <1> QED
    BY <1>2, <1>3

LEMMA StackLookRefines ==
    ASSUME StackInv, NEW t \in Threads, Stack!Look(t)
    PROVE  Stack!AS!Look(t)
  <1> DEFINE c == Stack!Reverse(Used)
  <1>1. PICK name \in Stack!LookNames :
          Stack!InBody(t, name) /\ Stack!Answer(t, Stack!Seen(name), "unlock")
    BY DEF Stack!Look
  <1>2. UNCHANGED <<life, buffer, size>> /\ Used' = Used
    BY DEF Stack!Look, Stack!stackVars, Used
  <1>3. \A names : name \in names => Stack!AS!TakesEffect(t, names, Stack!Seen(name))
    BY <1>1, StackAnswerTakesEffect DEF Stack!InBody
  <1>4. /\ Len(c) = size
        /\ size = 0 <=> c = <<>>
        /\ size # 0 => Head(c) = buffer[size]
    BY ContentsFacts
  <1> HIDE DEF c
  <1>5. /\ name = "top" => Stack!Seen(name) = IF c = <<>> THEN Null ELSE Head(c)
        /\ name = "size" => Stack!Seen(name) = Len(c)
        /\ name = "empty" => Stack!Seen(name) = IF c = <<>> THEN 1 ELSE 0
    BY <1>4 DEF Stack!Seen, Stack!CTrue, Stack!CFalse
  <1>6. \/ Stack!AS!TakesEffect(t, {"top", "front"}, IF c = <<>> THEN Null ELSE Head(c))
        \/ Stack!AS!TakesEffect(t, {"size"}, Len(c))
        \/ Stack!AS!TakesEffect(t, {"empty"}, IF c = <<>> THEN 1 ELSE 0)
    BY <1>1, <1>3, <1>5 DEF Stack!LookNames
  <1> QED
    BY <1>2, <1>6
    DEF Stack!AS!Look, Stack!AS!Youngest, Stack!AS!CTrue, Stack!AS!CFalse, Used, c

(* Every step of the stack is a step of the atomic stack or a stutter. *)
LEMMA StackStepRefines ==
    ASSUME StackInv, Stack!Next
    PROVE  [Stack!AS!Next]_(Stack!AS!vars)
  <1>1. ASSUME Stack!Create \/ Stack!CreateFails
        PROVE  Stack!AS!Next \/ UNCHANGED Stack!AS!vars
    BY <1>1, StackCreateRefines DEF Stack!AS!Next
  <1>2. ASSUME NEW t \in Threads, NEW k \in Stack!Calls, Stack!Call(t, k)
        PROVE  Stack!AS!Next
    BY <1>2, StackCallRefines DEF Stack!AS!Next
  <1>3. ASSUME NEW t \in Threads, Stack!PushRefused(t) \/ Stack!PushStore(t)
        PROVE  Stack!AS!Next \/ UNCHANGED Stack!AS!vars
    BY <1>3, StackPushRefines DEF Stack!AS!Next
  <1>4. ASSUME NEW t \in Threads, Stack!Pop(t) PROVE Stack!AS!Next
    BY <1>4, StackPopRefines DEF Stack!AS!Next
  <1>5. ASSUME NEW t \in Threads, Stack!Look(t) PROVE Stack!AS!Next
    BY <1>5, StackLookRefines DEF Stack!AS!Next
  <1>6. ASSUME NEW t \in Threads, Stack!Finish(t) PROVE Stack!AS!Next
    BY <1>6, StackFinishRefines DEF Stack!AS!Next
  <1> QED
    BY <1>1, <1>2, <1>3, <1>4, <1>5, <1>6, StackStutterRefines DEF Stack!Next

-----------------------------------------------------------------------------
(* The forward list: an operation takes effect in the step that reads or     *)
(* changes the nodes.                                                        *)

ListPhaseAt(p) ==
    CASE p = "idle" -> "idle"
      [] p \in {"lock", "body"} -> "called"
      [] OTHER -> "done"

LEMMA ListPhaseMoves ==
    ASSUME List!TypeOK, NEW t \in Threads, NEW p, pc' = [pc EXCEPT ![t] = p]
    PROVE  /\ List!Phase[t] = ListPhaseAt(pc[t])
           /\ List!Phase' = [List!Phase EXCEPT ![t] = ListPhaseAt(p)]
  BY DEF List!Phase, ListPhaseAt, List!TypeOK

LEMMA ListPhaseStays ==
    ASSUME List!TypeOK, NEW t \in Threads, NEW p, pc' = [pc EXCEPT ![t] = p],
           ListPhaseAt(p) = ListPhaseAt(pc[t])
    PROVE  List!Phase' = List!Phase
  BY DEF List!Phase, ListPhaseAt, List!TypeOK

LEMMA ListRefinementInit == List!Init => List!AS!Init
  BY DEF List!Init, List!ClientsInit, List!AS!Init, List!AS!NoRequest, List!NoCall,
         List!Phase

LEMMA ListCreateRefines ==
    ASSUME ListInv, List!Create
    PROVE  List!AS!Create
  BY DEF List!Create, List!AllIdle, List!AS!Create, List!Phase

LEMMA ListCallRefines ==
    ASSUME ListInv, NEW t \in Threads, NEW c \in List!Calls, List!Call(t, c)
    PROVE  List!AS!Call(t, c)
  <1> USE DEF List!Call, List!Invoke, List!listVars
  <1>1. List!Phase[t] = "idle" /\ List!Phase' = [List!Phase EXCEPT ![t] = "called"]
    BY ListPhaseMoves DEF ListInv, ListPhaseAt
  <1> QED
    BY <1>1 DEF List!AS!Call

LEMMA ListFinishRefines ==
    ASSUME ListInv, NEW t \in Threads, List!Finish(t)
    PROVE  List!AS!Return(t)
  <1> USE DEF List!Finish, List!Return, List!listVars
  <1>1. List!Phase[t] = "done" /\ List!Phase' = [List!Phase EXCEPT ![t] = "idle"]
    BY ListPhaseMoves DEF ListInv, ListPhaseAt
  <1> QED
    BY <1>1 DEF List!AS!Return, List!AS!NoRequest, List!NoCall

(* The steps that only move the mutex or the counter. *)
LEMMA ListStutterRefines ==
    ASSUME ListInv, NEW t \in Threads,
           List!Acquire(t) \/ List!PushCount(t) \/ List!PopCount(t) \/ List!Release(t)
    PROVE  UNCHANGED List!AS!vars
  <1>1. UNCHANGED <<op, ret, nodes, life>> /\ List!Phase' = List!Phase
    <2>1. CASE List!Acquire(t)
      BY <2>1, ListPhaseStays
      DEF List!Acquire, List!Lock, List!listVars, ListPhaseAt, ListInv
    <2>2. CASE List!PushCount(t) \/ List!PopCount(t)
      BY <2>2, ListPhaseStays
      DEF List!PushCount, List!PopCount, List!Proceed, ListPhaseAt, ListInv
    <2>3. CASE List!Release(t)
      BY <2>3, ListPhaseStays
      DEF List!Release, List!Unlock, List!listVars, ListPhaseAt, ListInv
    <2> QED
      BY <2>1, <2>2, <2>3
  <1> QED
    BY <1>1 DEF List!AS!vars

(* A step of a body that answers v is the abstract step that takes effect.   *)
LEMMA ListAnswerTakesEffect ==
    ASSUME ListInv, NEW t \in Threads, NEW names, NEW v, NEW p \in {"rest", "unlock"},
           pc[t] = "body", op[t].name \in names, List!Answer(t, v, p)
    PROVE  List!AS!TakesEffect(t, names, v)
  <1>1. List!Phase[t] = "called" /\ List!Phase' = [List!Phase EXCEPT ![t] = "done"]
    BY ListPhaseMoves DEF ListInv, ListPhaseAt, List!Answer
  <1> QED
    BY <1>1 DEF List!AS!TakesEffect, List!Answer

LEMMA ListPushRefines ==
    ASSUME ListInv, NEW t \in Threads, List!PushLink(t)
    PROVE  List!AS!Push(t)
  <1> USE DEF List!PushLink, List!InBody
  <1>1. List!AS!TakesEffect(t, {"push", "push_front"}, 1)
    BY ListAnswerTakesEffect DEF List!CTrue
  <1> QED
    BY <1>1 DEF List!AS!Push, List!AS!CTrue

LEMMA ListPopRefines ==
    ASSUME ListInv, NEW t \in Threads, List!PopEmpty(t) \/ List!PopUnlink(t)
    PROVE  List!AS!Pop(t)
  <1> USE DEF List!InBody, List!listVars
  <1>1. CASE List!PopEmpty(t)
    <2>1. List!AS!TakesEffect(t, {"pop", "pop_front"}, Null)
      BY <1>1, ListAnswerTakesEffect DEF List!PopEmpty
    <2> QED
      BY <1>1, <2>1 DEF List!PopEmpty, List!AS!Pop, List!AS!Youngest
  <1>2. CASE List!PopUnlink(t)
    <2>1. List!AS!TakesEffect(t, {"pop", "pop_front"}, Head(nodes))
      BY <1>2, ListAnswerTakesEffect DEF List!PopUnlink
    <2> QED
      BY <1>2, <2>1 DEF List!PopUnlink, List!AS!Pop, List!AS!Youngest
  <1> QED
    BY <1>1, <1>2

(* The loop with the predicate stops at the first of the accepted elements,  *)
(* and passes the last node when there is none.                              *)
LEMMA FirstMatchIsFirst ==
    ASSUME nodes \in Seq(Elements), NEW matches
    PROVE  LET accepted == List!AS!Accepted(matches)
               found == List!FirstMatch(matches)
           IN  /\ found = 0 <=> accepted = {}
               /\ found # 0 => found \in accepted /\ found = List!AS!Min(accepted)
  <1> DEFINE accepted == List!AS!Accepted(matches)
             found == List!FirstMatch(matches)
  <1>1. accepted = {i \in 1..Len(nodes) : nodes[i] \in matches}
    BY DEF List!AS!Accepted
  <1>2. found = IF accepted # {} THEN List!AS!Min(accepted) ELSE 0
    BY <1>1 DEF List!FirstMatch, List!SelectInSeq, List!Min, List!AS!Min
  <1>3. accepted \subseteq Nat /\ 0 \notin accepted
    BY <1>1
  <1> HIDE DEF accepted, found
  <1>4. accepted # {} => List!AS!Min(accepted) \in accepted
    <2>1. accepted # {} => \E x \in accepted : \A y \in accepted : x <= y
      BY <1>3, LeastOf
    <2> QED
      BY <2>1 DEF List!AS!Min
  <1> QED
    BY <1>2, <1>3, <1>4 DEF accepted, found

LEMMA ListLookRefines ==
    ASSUME ListInv, ~mallocFailed, NEW t \in Threads, List!Look(t)
    PROVE  List!AS!Look(t)
  <1>1. /\ pc[t] = "body" /\ op[t].name \in List!LookNames /\ life = "live"
        /\ List!Answer(t, List!Seen(op[t]), "unlock")
        /\ UNCHANGED <<life, nodes>>
    BY DEF List!Look, List!listVars
  <1>2. nodes \in Seq(Elements) /\ size = Len(nodes) /\ (size = 0 <=> nodes = <<>>)
    BY <1>1, ListNothingUncounted, EmptySeq DEF ListInv, List!TypeOK
  <1>3. \A names : op[t].name \in names
                      => List!AS!TakesEffect(t, names, List!Seen(op[t]))
    BY <1>1, ListAnswerTakesEffect
  <1>4. CASE op[t].name \in {"front", "size", "empty"}
    <2>1. /\ op[t].name = "front" => List!Seen(op[t]) = List!AS!Youngest
          /\ op[t].name = "size" => List!Seen(op[t]) = Len(nodes)
          /\ op[t].name = "empty" => List!Seen(op[t]) = IF nodes = <<>> THEN 1 ELSE 0
      BY <1>2 DEF List!Seen, List!AS!Youngest, List!CTrue, List!CFalse
    <2> QED
      BY <1>1, <1>3, <1>4, <2>1 DEF List!AS!Look, List!AS!CTrue, List!AS!CFalse
  <1>5. CASE op[t].name = "find_if"
    <2>1. List!Seen(op[t]) = List!AS!FirstAccepted(op[t].matches)
      <3>1. PICK matches : matches = op[t].matches
        OBVIOUS
      <3>2. PICK found : found = List!FirstMatch(matches)
        OBVIOUS
      <3>3. /\ found = 0 <=> List!AS!Accepted(matches) = {}
            /\ found # 0 => found = List!AS!Min(List!AS!Accepted(matches))
        BY <1>2, <3>2, FirstMatchIsFirst
      <3>4. List!Seen(op[t]) = IF found = 0 THEN Null ELSE nodes[found]
        BY <1>5, <3>1, <3>2 DEF List!Seen
      <3> QED
        BY <3>1, <3>3, <3>4 DEF List!AS!FirstAccepted
    <2> QED
      BY <1>1, <1>3, <1>5, <2>1 DEF List!AS!Look
  <1> QED
    BY <1>1, <1>4, <1>5 DEF List!LookNames

(* remove_if comes back when no element is accepted, which all stay, or when *)
(* the only one is, which goes; the rest of its outcomes end the program.    *)
LEMMA ListRemoveIfRefines ==
    ASSUME ListInv, NEW t \in Threads, List!RemoveIf(t)
    PROVE  List!AS!RemoveIf(t) \/ UNCHANGED List!AS!vars
  <1>1. PICK matches : matches = op[t].matches
    OBVIOUS
  <1>2. PICK found : found = List!FirstMatch(matches)
    OBVIOUS
  <1>3. PICK gone : gone = List!AS!Accepted(matches)
    OBVIOUS
  <1>4. /\ pc[t] = "body" /\ op[t].name = "remove_if" /\ life = "live"
        /\ \/ /\ found = 0
              /\ List!Answer(t, 0, "unlock")
              /\ UNCHANGED <<life, nodes>>
           \/ /\ found = 1
              /\ Len(nodes) = 1
              /\ nodes' = <<>>
              /\ List!Answer(t, 1, "unlock")
              /\ UNCHANGED life
           \/ /\ life' = "useAfterFree"
              /\ UNCHANGED <<callVars, nodes>>
    BY <1>1, <1>2
    DEF List!RemoveIf, List!InBody, List!CTrue, List!CFalse, callVars, List!callVars
  <1>5. nodes \in Seq(Elements) /\ Len(nodes) \in Nat
    BY DEF ListInv, List!TypeOK
  <1>6. /\ found = 0 <=> gone = {}
        /\ found # 0 => found \in gone
        /\ gone \subseteq 1..Len(nodes)
    BY <1>2, <1>3, <1>5, FirstMatchIsFirst DEF List!AS!Accepted
  <1> DEFINE stay == (1..Len(nodes)) \ gone
             Rest(s) == \E n \in 0..Len(nodes) : \E at \in [1..n -> stay] :
                          /\ \A i, j \in 1..n : i < j => at[i] < at[j]
                          /\ \A k \in stay : \E i \in 1..n : at[i] = k
                          /\ s = [i \in 1..n |-> nodes[at[i]]]
  <1>7. CASE found = 0 /\ List!Answer(t, 0, "unlock") /\ UNCHANGED <<life, nodes>>
    <2>1. List!AS!TakesEffect(t, {"remove_if"}, 0)
      BY <1>4, <1>7, ListAnswerTakesEffect
    <2>2. Rest(nodes)
      <3>1. PICK n \in 0..Len(nodes) : n = Len(nodes)
        BY <1>5
      <3>2. PICK at : at = [i \in 1..n |-> i]
        OBVIOUS
      <3>3. stay = 1..n /\ at \in [1..n -> stay] /\ \A i \in 1..n : at[i] = i
        BY <1>6, <1>7, <3>1, <3>2
      <3>4. nodes = [i \in 1..n |-> nodes[at[i]]]
        BY <1>5, <3>1, <3>3
      <3>5. \A i, j \in 1..n : i < j => at[i] < at[j]
        BY <3>3
      <3>6. \A k \in stay : \E i \in 1..n : at[i] = k
        BY <3>3
      <3> HIDE DEF stay
      <3> QED
        BY <3>1, <3>3, <3>4, <3>5, <3>6
    <2> QED
      BY <1>1, <1>3, <1>6, <1>7, <2>1, <2>2 DEF List!AS!RemoveIf, List!AS!CFalse
  <1>8. CASE /\ found = 1 /\ Len(nodes) = 1 /\ nodes' = <<>>
             /\ List!Answer(t, 1, "unlock") /\ UNCHANGED life
    <2>1. List!AS!TakesEffect(t, {"remove_if"}, 1)
      BY <1>4, <1>8, ListAnswerTakesEffect
    <2>2. Rest(<<>>)
      <3>1. stay = {}
        BY <1>6, <1>8
      <3>2. PICK at : at = [i \in 1..0 |-> i]
        OBVIOUS
      <3>3. at \in [1..0 -> stay] /\ <<>> = [i \in 1..0 |-> nodes[at[i]]]
        BY <3>2
      <3>4. \A i, j \in 1..0 : i < j => at[i] < at[j]
        OBVIOUS
      <3>5. \A k \in stay : \E i \in 1..0 : at[i] = k
        BY <3>1
      <3>6. 0 \in 0..Len(nodes)
        BY <1>8
      <3> HIDE DEF stay
      <3> QED
        BY <3>3, <3>4, <3>5, <3>6
    <2> QED
      BY <1>1, <1>3, <1>6, <1>8, <2>1, <2>2 DEF List!AS!RemoveIf, List!AS!CTrue
  <1>9. CASE life' = "useAfterFree" /\ UNCHANGED <<callVars, nodes>>
    BY <1>4, <1>9 DEF callVars, List!AS!vars, List!Phase
  <1> QED
    BY <1>4, <1>7, <1>8, <1>9

(* A deep_free of a list with nodes reads the data of one just freed, and    *)
(* the program ends before it takes effect.                                  *)
LEMMA ListFreeRefines ==
    ASSUME ListInv, NEW t \in Threads, List!FreeBody(t)
    PROVE  List!AS!Free(t) \/ UNCHANGED List!AS!vars
  <1>1. /\ life = "live" /\ pc[t] = "body" /\ op[t].name \in {"free", "deep_free"}
        /\ \/ life' = "useAfterFree" /\ UNCHANGED <<List!callVars, nodes>>
           \/ life' = "freed" /\ nodes' = <<>> /\ List!Answer(t, Null, "unlock")
    BY DEF List!FreeBody, List!InBody, List!FreeNames
  <1>2. CASE life' = "useAfterFree" /\ UNCHANGED <<List!callVars, nodes>>
    BY <1>1, <1>2 DEF List!callVars, List!AS!vars, List!Phase
  <1>3. CASE life' = "freed" /\ nodes' = <<>> /\ List!Answer(t, Null, "unlock")
    <2>1. List!AS!TakesEffect(t, {"free", "deep_free"}, Null)
      BY <1>1, <1>3, ListAnswerTakesEffect
    <2> QED
      BY <1>3, <2>1 DEF List!AS!Free
  <1> QED
    BY <1>1, <1>2, <1>3

(* Until calloc fails every step of the forward list is a step of the atomic *)
(* stack or a stutter.                                                       *)
LEMMA ListStepRefines ==
    ASSUME ListInv, List!Next, ~mallocFailed'
    PROVE  [List!AS!Next]_(List!AS!vars)
  <1>0. CASE mallocFailed
    BY <1>0
    DEF List!Next, List!Create, List!CreateFails, List!Call, List!Acquire,
        List!PushLink, List!PushRefused, List!PushCount, List!PopEmpty,
        List!PopUnlink, List!PopCount, List!RemoveIf, List!Look, List!FreeBody,
        List!Release, List!Finish, List!listVars
  <1>1. CASE ~mallocFailed
    <2>1. ASSUME List!Create PROVE List!AS!Next
      BY <2>1, ListCreateRefines DEF List!AS!Next
    <2>2. ~List!CreateFails /\ \A t \in Threads : ~List!PushRefused(t)
      BY DEF List!CreateFails, List!PushRefused
    <2>3. ASSUME NEW t \in Threads, NEW c \in List!Calls, List!Call(t, c)
          PROVE  List!AS!Next
      BY <2>3, ListCallRefines DEF List!AS!Next
    <2>4. ASSUME NEW t \in Threads, List!PushLink(t) PROVE List!AS!Next
      BY <2>4, ListPushRefines DEF List!AS!Next
    <2>5. ASSUME NEW t \in Threads, List!PopEmpty(t) \/ List!PopUnlink(t)
          PROVE  List!AS!Next
      BY <2>5, ListPopRefines DEF List!AS!Next
    <2>6. ASSUME NEW t \in Threads, List!RemoveIf(t)
          PROVE  List!AS!Next \/ UNCHANGED List!AS!vars
      BY <2>6, ListRemoveIfRefines DEF List!AS!Next
    <2>7. ASSUME NEW t \in Threads, List!Look(t) PROVE List!AS!Next
      BY <1>1, <2>7, ListLookRefines DEF List!AS!Next
    <2>8. ASSUME NEW t \in Threads, List!FreeBody(t)
          PROVE  List!AS!Next \/ UNCHANGED List!AS!vars
      BY <2>8, ListFreeRefines DEF List!AS!Next
    <2>9. ASSUME NEW t \in Threads, List!Finish(t) PROVE List!AS!Next
      BY <2>9, ListFinishRefines DEF List!AS!Next
    <2> QED
      BY <2>1, <2>2, <2>3, <2>4, <2>5, <2>6, <2>7, <2>8, <2>9, ListStutterRefines
      DEF List!Next
  <1> QED
    BY <1>0, <1>1

-----------------------------------------------------------------------------
(* Until malloc fails the dynamic queue is a FIFO queue with atomic          *)
(* operations, however its threads interleave.                               *)
THEOREM DynamicQueueIsFifo == Spec => QueueImplementsFifo
  <1>1. Init => Queue!BQ!Init
    BY QueueRefinementInit DEF Init
  <1>2. IInv /\ [Next]_allVars
          => [(kind = "queue" /\ ~mallocFailed') => [Queue!BQ!Next]_(Queue!BQ!vars)]_allVars
    BY QueueStepRefines DEF Next, IInv
  <1> QED
    BY <1>1, <1>2, InvariantHolds, PTL DEF Spec, QueueImplementsFifo

(* The stack is a last-in first-out sequence with atomic operations, however *)
(* its threads interleave and whichever realloc is refused.                  *)
THEOREM StackIsAtomicStack == Spec => StackImplementsAtomicStack
  <1>1. Init => Stack!AS!Init
    BY StackRefinementInit DEF Init
  <1>2. IInv /\ [Next]_allVars
          => [kind = "stack" => [Stack!AS!Next]_(Stack!AS!vars)]_allVars
    BY StackStepRefines DEF Next, IInv
  <1> QED
    BY <1>1, <1>2, InvariantHolds, PTL DEF Spec, StackImplementsAtomicStack

(* Until calloc fails the forward list is a last-in first-out sequence with  *)
(* atomic operations, in which find_if finds the youngest element that the   *)
(* predicate accepts, and a remove_if that comes back removes what it        *)
(* accepts and nothing else.                                                 *)
THEOREM ListIsAtomicList == Spec => ListImplementsAtomicList
  <1>1. Init => List!AS!Init
    BY ListRefinementInit DEF Init
  <1>2. IInv /\ [Next]_allVars
          => [(kind = "list" /\ ~mallocFailed') => [List!AS!Next]_(List!AS!vars)]_allVars
    BY ListStepRefines DEF Next, IInv
  <1> QED
    BY <1>1, <1>2, InvariantHolds, PTL DEF Spec, ListImplementsAtomicList
=============================================================================
