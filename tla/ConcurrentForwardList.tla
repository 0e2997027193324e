------------------------ MODULE ConcurrentForwardList ------------------------
(***************************************************************************)
(* cap_forward_list of concurrent_forward_list.h: a singly linked list, a  *)
(* size counter beside it and one mutex around every operation.  find_if   *)
(* and remove_if call a predicate of the client's while they hold the      *)
(* mutex; a predicate is the set of the elements it accepts, and it does   *)
(* not call the list back (the mutex is not recursive).                    *)
(*                                                                         *)
(* free and deep_free release the nodes but neither the container nor its  *)
(* mutex.  A thread frees the list only when no other thread is in a call, *)
(* and afterwards nobody calls it until a new one is created.              *)
(***************************************************************************)
EXTENDS PthreadClients, SequencesExt

CONSTANTS Elements,      \* the pointers clients push
          MallocMayFail, \* malloc and calloc may return NULL
          MaxElements    \* bound: how far clients fill a container

FreeNames == {"free", "deep_free"}
PredicateNames == {"find_if", "remove_if"}
LookNames == {"front", "size", "empty", "find_if"}

VARIABLES life,         \* whether there is a list, or what ended the program
          nodes,        \* the data of the nodes from head on
          size,         \* size
          mallocFailed  \* calloc has returned NULL (history)

listVars == <<life, nodes, size, mallocFailed>>
vars == <<callVars, listVars>>

(* What can end the program: a NULL or a freed pointer is followed. *)
Ended == {"nullDeref", "useAfterFree"}

Calls ==
    [name : {"push_front"}, data : Elements]
        \cup [name : PredicateNames, matches : SUBSET Elements]
        \cup [name : {"pop_front", "front", "size", "empty"} \cup FreeNames]

Init ==
    /\ ClientsInit
    /\ life = "none"
    /\ nodes = <<>>
    /\ size = 0
    /\ mallocFailed = FALSE

(* cap_forward_list_init does not test what calloc gives. *)
Create ==
    /\ life \in {"none", "freed"}
    /\ AllIdle
    /\ life' = "live"
    /\ nodes' = <<>>
    /\ size' = 0
    /\ mtx' = NoThread
    /\ UNCHANGED <<pc, op, ret, mallocFailed>>

CreateFails ==
    /\ MallocMayFail
    /\ life \in {"none", "freed"}
    /\ AllIdle
    /\ mallocFailed' = TRUE
    /\ life' = "nullDeref"
    /\ UNCHANGED <<callVars, nodes, size>>

BeingFreed == \E t \in Threads : op[t].name \in FreeNames

InFlight == {t \in Threads : op[t].name = "push_front"}

Call(t, c) ==
    /\ life = "live"
    /\ ~BeingFreed
    /\ c.name \in FreeNames => \A u \in Threads \ {t} : pc[u] = "idle"
    /\ c.name = "push_front" => size + Cardinality(InFlight) < MaxElements
    /\ Invoke(t, c)
    /\ UNCHANGED listVars

Acquire(t) ==
    /\ life = "live"
    /\ Lock(t)
    /\ UNCHANGED listVars

-----------------------------------------------------------------------------
(* cap_forward_list_push_front assigns calloc's result to head before it     *)
(* tests it: when that is NULL the whole list is lost, and stays counted.    *)
PushLink(t) ==
    /\ life = "live"
    /\ InBody(t, "push_front")
    /\ nodes' = <<op[t].data>> \o nodes
    /\ Answer(t, CTrue, "rest")
    /\ UNCHANGED <<life, size, mallocFailed>>

PushRefused(t) ==
    /\ MallocMayFail
    /\ life = "live"
    /\ InBody(t, "push_front")
    /\ mallocFailed' = TRUE
    /\ nodes' = <<>>
    /\ Answer(t, CFalse, "unlock")
    /\ UNCHANGED <<life, size>>

PushCount(t) ==
    /\ life = "live"
    /\ pc[t] = "rest"
    /\ op[t].name = "push_front"
    /\ size' = size + 1
    /\ Proceed(t, "unlock")
    /\ UNCHANGED <<life, nodes, mallocFailed>>

(* cap_forward_list_pop_front tests head, not the counter. *)
PopEmpty(t) ==
    /\ life = "live"
    /\ InBody(t, "pop_front")
    /\ nodes = <<>>
    /\ Answer(t, Null, "unlock")
    /\ UNCHANGED listVars

PopUnlink(t) ==
    /\ life = "live"
    /\ InBody(t, "pop_front")
    /\ nodes # <<>>
    /\ nodes' = Tail(nodes)
    /\ Answer(t, Head(nodes), "rest")
    /\ UNCHANGED <<life, size, mallocFailed>>

PopCount(t) ==
    /\ life = "live"
    /\ pc[t] = "rest"
    /\ op[t].name = "pop_front"
    /\ size' = size - 1
    /\ Proceed(t, "unlock")
    /\ UNCHANGED <<life, nodes, mallocFailed>>

-----------------------------------------------------------------------------
(* Variant of the loop without the predicate. *)
FirstMatchAny(matches) == IF nodes = <<>> THEN 0 ELSE 1

(* The node a loop with the predicate stops at, or 0. *)
FirstMatch(matches) == SelectInSeq(nodes, LAMBDA e : e \in matches)

(* Variant of remove_if that leaves the counter of a list of one. *)
RemoveIfForgetsSize(t) ==
    /\ life = "live"
    /\ InBody(t, "remove_if")
    /\ LET found == FirstMatch(op[t].matches)
       IN  \/ /\ found = 0
              /\ Answer(t, CFalse, "unlock")
              /\ UNCHANGED <<life, nodes, size>>
           \/ /\ found = 1
              /\ Len(nodes) = 1
              /\ nodes' = <<>>
              /\ Answer(t, CTrue, "unlock")
              /\ UNCHANGED <<life, size>>
    /\ UNCHANGED mallocFailed

(* cap_forward_list_remove_if.  Only the branch for a list of one node ends  *)
(* the loop; the two others free current_node and go round with it, so they  *)
(* read its data after the free.                                             *)
RemoveIf(t) ==
    /\ life = "live"
    /\ InBody(t, "remove_if")
    /\ LET found == FirstMatch(op[t].matches)
       IN  \/ /\ found = 0
              /\ Answer(t, CFalse, "unlock")
              /\ UNCHANGED <<life, nodes, size>>
           \/ /\ found = 1
              /\ Len(nodes) = 1
              /\ nodes' = <<>>
              /\ size' = 0
              /\ Answer(t, CTrue, "unlock")
              /\ UNCHANGED life
           \/ /\ found # 0
              /\ Len(nodes) > 1
              /\ life' = "useAfterFree"
              /\ UNCHANGED <<callVars, nodes, size>>
    /\ UNCHANGED mallocFailed

(* The operations that only read; empty goes by the counter. *)
Seen(c) ==
    CASE c.name = "front" -> IF nodes = <<>> THEN Null ELSE Head(nodes)
      [] c.name = "size" -> size
      [] c.name = "empty" -> IF size = 0 THEN CTrue ELSE CFalse
      [] c.name = "find_if" -> LET found == FirstMatch(c.matches)
                               IN  IF found = 0 THEN Null ELSE nodes[found]

Look(t) ==
    /\ life = "live"
    /\ pc[t] = "body"
    /\ op[t].name \in LookNames
    /\ Answer(t, Seen(op[t]), "unlock")
    /\ UNCHANGED listVars

(* cap_forward_list_free, and _deep_free, which reads the data of each node  *)
(* just after it has freed the node.                                         *)
FreeBody(t) ==
    /\ life = "live"
    /\ \E name \in FreeNames :
        /\ InBody(t, name)
        /\ IF name = "deep_free" /\ nodes # <<>>
             THEN life' = "useAfterFree" /\ UNCHANGED <<callVars, nodes>>
             ELSE life' = "freed" /\ nodes' = <<>> /\ Answer(t, Null, "unlock")
    /\ UNCHANGED <<size, mallocFailed>>

(* The container outlives its nodes, so its mutex can be unlocked. *)
Release(t) ==
    /\ life \in {"live", "freed"}
    /\ Unlock(t)
    /\ UNCHANGED listVars

Finish(t) ==
    /\ life \notin Ended
    /\ Return(t)
    /\ UNCHANGED listVars

Next ==
    \/ Create
    \/ CreateFails
    \/ \E t \in Threads :
        \/ \E c \in Calls : Call(t, c)
        \/ Acquire(t)
        \/ PushLink(t) \/ PushRefused(t) \/ PushCount(t)
        \/ PopEmpty(t) \/ PopUnlink(t) \/ PopCount(t)
        \/ RemoveIf(t)
        \/ Look(t)
        \/ FreeBody(t)
        \/ Release(t)
        \/ Finish(t)

Spec == Init /\ [][Next]_vars

-----------------------------------------------------------------------------
(* The type of every variable. *)
TypeOK ==
    /\ pc \in [Threads -> Places]
    /\ op \in [Threads -> Calls \cup {NoCall}]
    /\ ret \in [Threads -> Elements \cup {Null} \cup Nat]
    /\ mtx \in Threads \cup {NoThread}
    /\ life \in {"none", "live", "freed"} \cup Ended
    /\ nodes \in Seq(Elements)
    /\ size \in Nat
    /\ mallocFailed \in BOOLEAN

(* What the holder of the mutex has done to the list and not yet counted. *)
Uncounted ==
    IF mtx = NoThread THEN 0
    ELSE IF pc[mtx] # "rest" THEN 0
    ELSE IF op[mtx].name = "push_front" THEN 1 ELSE -1

(***************************************************************************)
(* The counter covers the list and, until a calloc fails, is its length:   *)
(* so empty, which reads the counter, and pop_front, which reads head,     *)
(* agree.  A failed calloc loses the nodes and not their count.            *)
(***************************************************************************)
CounterCoversList ==
    life = "live" => /\ size + Uncounted >= Len(nodes)
                     /\ ~mallocFailed => size + Uncounted = Len(nodes)

(***************************************************************************)
(* Until calloc fails the list is a last-in first-out sequence with atomic *)
(* operations; find_if gives the youngest element that matches, and a      *)
(* remove_if that comes back has removed the matching elements and no      *)
(* other.                                                                  *)
(***************************************************************************)
Phase ==
    [t \in Threads |-> CASE pc[t] = "idle" -> "idle"
                        [] pc[t] \in {"lock", "body"} -> "called"
                        [] OTHER -> "done"]

AS == INSTANCE AtomicStack WITH
        contents <- nodes,
        exists <- life \notin {"none", "freed"},
        phase <- Phase,
        request <- op,
        answer <- ret

ImplementsAtomicList ==
    /\ AS!Init
    /\ [][mallocFailed' \/ [AS!Next]_(AS!vars)]_vars
=============================================================================
