------------------------ MODULE MCConcurrentContainers ------------------------
(***************************************************************************)
(* The dynamic queue, the stack and the forward list in one run: `kind`,   *)
(* chosen at the start, says which container the clients use.  The three   *)
(* modules share the variables they have in common, so the states of the   *)
(* run are the sum of theirs.                                              *)
(***************************************************************************)
EXTENDS PthreadClients, TLC

CONSTANTS Elements,         \* the pointers clients push
          MallocMayFail,    \* malloc, calloc and realloc may return NULL
          MaxElements,      \* bound: how far clients fill a container
          InitialCapacity   \* slots of a new array: CAP_STACK_INITIAL_SIZE

ASSUME ContainerAssumption ==
    /\ Null \notin Elements                \* assert(data != NULL) in every push
    /\ MallocMayFail \in BOOLEAN
    /\ MaxElements \in Nat
    /\ InitialCapacity \in Nat \ {0}       \* assert(initial_size > 0)

VARIABLES kind, life, nodes, size, mallocFailed, buffer, capacity

listVars == <<nodes, mallocFailed>>
arrayVars == <<buffer, capacity>>
allVars == <<kind, callVars, life, size, listVars, arrayVars>>

Queue == INSTANCE ConcurrentDynamicQueue
Stack == INSTANCE ConcurrentStack
List == INSTANCE ConcurrentForwardList

Init ==
    /\ kind \in {"queue", "stack", "list"}
    /\ Queue!Init
    /\ Stack!Init
    /\ List!Init

Next ==
    /\ UNCHANGED kind
    /\ \/ kind = "queue" /\ Queue!Next /\ UNCHANGED arrayVars
       \/ kind = "stack" /\ Stack!Next /\ UNCHANGED listVars
       \/ kind = "list" /\ List!Next /\ UNCHANGED arrayVars

Spec == Init /\ [][Next]_allVars

-----------------------------------------------------------------------------
(* Every variable has the type its module gives it. *)
TypesOK ==
    CASE kind = "queue" -> Queue!TypeOK
      [] kind = "stack" -> Stack!TypeOK
      [] kind = "list" -> List!TypeOK

(* The counter of the dynamic queue never falls short of its list, and is its *)
(* length until malloc fails.                                                *)
QueueCounterCoversList == kind = "queue" => Queue!CounterCoversList

(* Until malloc fails the dynamic queue is an atomic unbounded FIFO queue. *)
QueueImplementsFifo ==
    /\ Queue!BQ!Init
    /\ [][(kind = "queue" /\ ~mallocFailed') => [Queue!BQ!Next]_(Queue!BQ!vars)]_allVars

(* The slots in use of the stack hold elements, and a push has its slot. *)
StackSlotsInUse == kind = "stack" => Stack!SlotsInUse

(* The stack is an atomic LIFO sequence, also when realloc refuses. *)
StackImplementsAtomicStack ==
    /\ Stack!AS!Init
    /\ [][kind = "stack" => [Stack!AS!Next]_(Stack!AS!vars)]_allVars

(* The counter of the forward list never falls short of its list, and is its *)
(* length until calloc fails.                                                *)
ListCounterCoversList == kind = "list" => List!CounterCoversList

(* Until calloc fails the forward list is an atomic LIFO sequence in which  *)
(* find_if finds, and remove_if removes, what matches.                      *)
ListImplementsAtomicList ==
    /\ List!AS!Init
    /\ [][(kind = "list" /\ ~mallocFailed') => [List!AS!Next]_(List!AS!vars)]_allVars

Symmetry == Permutations(Threads) \cup Permutations(Elements)
=============================================================================
