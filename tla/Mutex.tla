------------------------------- MODULE Mutex -------------------------------
(***************************************************************************)
(* What a lock promises to the code that uses it: at most one owner, and   *)
(* only the owner gives it up.  SpinLock shows that UFECPP::spin_lock      *)
(* keeps this promise; Requester and Responder build on it.                *)
(***************************************************************************)
CONSTANTS Threads,   \* the threads that may take the lock
          NoThread   \* the owner of a free lock

VARIABLE owner

Init == owner = NoThread

Acquire(t) == owner = NoThread /\ owner' = t

Release(t) == owner = t /\ owner' = NoThread

Next == \E t \in Threads : Acquire(t) \/ Release(t)

Spec == Init /\ [][Next]_owner
=============================================================================
