------------------------------ MODULE SpinLock ------------------------------
(***************************************************************************)
(* UFECPP::spin_lock and its scoped_lock (ufeedclient.cpp): a lock made of *)
(* one atomic_flag, taken by spinning on test_and_set and given back by    *)
(* clearing the flag in the destructor of the scope.                       *)
(***************************************************************************)
CONSTANTS Threads, NoThread

ASSUME LockThreads == NoThread \notin Threads

VARIABLES sl,   \* the atomic_flag _sl
          pc    \* where each thread is with respect to the scope

vars == <<sl, pc>>

(* The flag is a flag and every thread is somewhere. *)
TypeOK == /\ sl \in BOOLEAN
          /\ pc \in [Threads -> {"outside", "spinning", "inside"}]

Init == sl = FALSE /\ pc = [t \in Threads |-> "outside"]

(* The scoped_lock constructor calls lock(): the thread starts to spin. *)
EnterScope(t) == /\ pc[t] = "outside"
                 /\ pc' = [pc EXCEPT ![t] = "spinning"]
                 /\ UNCHANGED sl

(* The value test_and_set found; FALSE is what makes try_lock() succeed. *)
FlagWasSetIgnored == FALSE
FlagWasSet == sl

(* One round of while (!try_lock()): the flag is set in any case, and the  *)
(* thread leaves the loop when it was clear before.                        *)
TryLock(t) == /\ pc[t] = "spinning"
              /\ sl' = TRUE
              /\ pc' = [pc EXCEPT ![t] = IF FlagWasSet THEN "spinning" ELSE "inside"]

(* The scoped_lock destructor calls unlock(). *)
FlagNotCleared == TRUE
FlagCleared == FALSE
LeaveScope(t) == /\ pc[t] = "inside"
                 /\ sl' = FlagCleared
                 /\ pc' = [pc EXCEPT ![t] = "outside"]

Next == \E t \in Threads : EnterScope(t) \/ TryLock(t) \/ LeaveScope(t)

(* A thread inside a scope, or spinning, keeps running; nothing obliges a  *)
(* thread to enter a scope.                                                *)
Spec == /\ Init /\ [][Next]_vars
        /\ \A t \in Threads : WF_vars(TryLock(t) \/ LeaveScope(t))

-----------------------------------------------------------------------------
(* Two threads are never inside the scope of the same spin_lock: the       *)
(* sockets behind _req_socket_lock and _rep_socket_lock are not thread     *)
(* safe.                                                                   *)
MutualExclusion ==
  \A t, u \in Threads : pc[t] = "inside" /\ pc[u] = "inside" => t = u

(* The flag is set exactly while some thread is inside. *)
FlagMeansOwned == sl <=> \E t \in Threads : pc[t] = "inside"

(* What every step keeps, and what the mutual exclusion rests on. *)
LockInv == TypeOK /\ MutualExclusion /\ FlagMeansOwned

(* While somebody spins, somebody gets in: the flag is never left set by a *)
(* scope that has ended.  (Nothing orders the spinning threads, so a given *)
(* thread may starve: the lock is not fair.)                               *)
SomeoneEnters ==
  (\E t \in Threads : pc[t] = "spinning") ~> (\E t \in Threads : pc[t] = "inside")

(* The owner the flag stands for, and the abstract lock it implements. *)
ownerBar == IF \E t \in Threads : pc[t] = "inside"
            THEN CHOOSE t \in Threads : pc[t] = "inside"
            ELSE NoThread

Lock == INSTANCE Mutex WITH owner <- ownerBar

(* Every behaviour of the spin lock is one of the abstract lock. *)
ImplementsMutex == Lock!Spec
=============================================================================
