---------------------------- MODULE PthreadClients ----------------------------
(***************************************************************************)
(* Client threads calling the operations of one container whose every      *)
(* operation is bracketed by one pthread mutex kept inside the container.  *)
(* All five headers of src/cap-containers/concurrent-container are written *)
(* this way:                                                               *)
(*                                                                         *)
(*     ret = pthread_mutex_lock(&c->_mtx);   CAP_PTHREAD_MUTEX_LOCK_STATUS *)
(*     ... body ...                                                        *)
(*     ret = pthread_mutex_unlock(&c->_mtx); ..._UNLOCK_STATUS             *)
(*     return return_value;                                                *)
(*                                                                         *)
(* A call is at one of these places:                                       *)
(*   idle    no call                  lock    about to lock the mutex      *)
(*   body    first step of the body   rest    rest of the body             *)
(*   unlock  about to unlock          return  about to return              *)
(* The module holds what the operations share; a container module extends  *)
(* it and says what each body does to the container.                       *)
(***************************************************************************)
EXTENDS CapValues

CONSTANTS Threads,   \* the client threads
          NoThread   \* the holder of a free mutex

ASSUME ClientsAssumption == NoThread \notin Threads

VARIABLES pc,   \* where each thread is in its call
          op,   \* the call each thread is in: its name and its argument
          ret,  \* return_value of the call
          mtx   \* the thread that holds the mutex, or NoThread

callVars == <<pc, op, ret, mtx>>

(* Calls are records whose field `name` is the operation. *)
NoCall == [name |-> "none"]

Places == {"idle", "lock", "body", "rest", "unlock", "return"}

(* The places at which the thread holds the mutex. *)
Critical == {"body", "rest", "unlock"}

ClientsInit ==
    /\ pc = [t \in Threads |-> "idle"]
    /\ op = [t \in Threads |-> NoCall]
    /\ ret = [t \in Threads |-> Null]
    /\ mtx = NoThread

AllIdle == \A t \in Threads : pc[t] = "idle"

(* Thread t enters the function of call c. *)
Invoke(t, c) ==
    /\ pc[t] = "idle"
    /\ pc' = [pc EXCEPT ![t] = "lock"]
    /\ op' = [op EXCEPT ![t] = c]
    /\ UNCHANGED <<ret, mtx>>

(* Variant of Lock with a fault: a lock of some other mutex than the one     *)
(* the unlock releases, so it never waits for the holder.                    *)
LockElsewhere(t) ==
    /\ pc[t] = "lock"
    /\ mtx' = t
    /\ pc' = [pc EXCEPT ![t] = "body"]
    /\ UNCHANGED <<op, ret>>

(* pthread_mutex_lock returns 0 to one of the threads blocked in it; a      *)
(* default mutex gives no order among them.                                 *)
Lock(t) ==
    /\ pc[t] = "lock"
    /\ mtx = NoThread
    /\ mtx' = t
    /\ pc' = [pc EXCEPT ![t] = "body"]
    /\ UNCHANGED <<op, ret>>

(* pthread_mutex_unlock by the thread that locked it. *)
Unlock(t) ==
    /\ pc[t] = "unlock"
    /\ mtx' = NoThread
    /\ pc' = [pc EXCEPT ![t] = "return"]
    /\ UNCHANGED <<op, ret>>

(* return return_value: no shared state is read after the unlock. *)
Return(t) ==
    /\ pc[t] = "return"
    /\ pc' = [pc EXCEPT ![t] = "idle"]
    /\ op' = [op EXCEPT ![t] = NoCall]
    /\ ret' = [ret EXCEPT ![t] = Null]
    /\ UNCHANGED mtx

(* The body of call `name` is about to start in thread t. *)
InBody(t, name) == pc[t] = "body" /\ op[t].name = name

(* A step of the body that sets return_value to v and goes on at place p. *)
Answer(t, v, p) ==
    /\ pc' = [pc EXCEPT ![t] = p]
    /\ ret' = [ret EXCEPT ![t] = v]
    /\ UNCHANGED <<op, mtx>>

(* A step of the body that goes on at place p. *)
Proceed(t, p) ==
    /\ pc' = [pc EXCEPT ![t] = p]
    /\ UNCHANGED <<op, ret, mtx>>

(***************************************************************************)
(* What the mutex is for: the thread inside a body is the holder, so two   *)
(* threads are never inside the bodies of one container at once.           *)
(***************************************************************************)
HolderIsCritical == \A t \in Threads : pc[t] \in Critical <=> mtx = t
=============================================================================
