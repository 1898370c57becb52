-------------------------- MODULE SpinLock_proofs ---------------------------
(***************************************************************************)
(* For any set of threads, UFECPP::spin_lock excludes them from each other *)
(* and implements the abstract lock of module Mutex.                       *)
(***************************************************************************)
EXTENDS SpinLock, TLAPS

(* Every step of a thread keeps the flag equal to "somebody is inside",    *)
(* which is why try_lock() lets nobody in next to an owner.                *)
LEMMA LockInvStep == LockInv /\ [Next]_vars => LockInv'
<1> SUFFICES ASSUME LockInv, [Next]_vars PROVE LockInv'
  OBVIOUS
<1> USE DEF LockInv, TypeOK, MutualExclusion, FlagMeansOwned
<1>1. ASSUME NEW t \in Threads, EnterScope(t) PROVE LockInv'
  BY <1>1 DEF EnterScope
<1>2. ASSUME NEW t \in Threads, TryLock(t) PROVE LockInv'
  <2>1. CASE sl
    BY <1>2, <2>1 DEF TryLock, FlagWasSet
  <2>2. CASE ~sl
    BY <1>2, <2>2 DEF TryLock, FlagWasSet
  <2> QED
    BY <2>1, <2>2
<1>3. ASSUME NEW t \in Threads, LeaveScope(t) PROVE LockInv'
  BY <1>3 DEF LeaveScope, FlagCleared
<1>4. CASE UNCHANGED vars
  BY <1>4 DEF vars
<1> QED
  BY <1>1, <1>2, <1>3, <1>4 DEF Next

(* At most one thread is inside a scope of the lock, and the flag says     *)
(* whether one is (scoped_lock, try_lock, unlock).                         *)
THEOREM LockSafe == Spec => []LockInv
<1>1. Init => LockInv
  BY DEF Init, LockInv, TypeOK, MutualExclusion, FlagMeansOwned
<1> QED
  BY <1>1, LockInvStep, PTL DEF Spec

-----------------------------------------------------------------------------
(* The owner the flag stands for is the one thread that is inside. *)
LEMMA OwnerIs ==
  ASSUME MutualExclusion
  PROVE  /\ \A t \in Threads : pc[t] = "inside" => ownerBar = t
         /\ (\A t \in Threads : pc[t] # "inside") => ownerBar = NoThread
BY DEF MutualExclusion, ownerBar

LEMMA OwnerIsNext ==
  ASSUME MutualExclusion'
  PROVE  /\ \A t \in Threads : pc'[t] = "inside" => ownerBar' = t
         /\ (\A t \in Threads : pc'[t] # "inside") => ownerBar' = NoThread
BY DEF MutualExclusion, ownerBar

(* spin_lock implements the abstract lock: a try_lock() that succeeds is   *)
(* its Acquire, unlock() its Release, and every other step a stutter.      *)
THEOREM LockRefines == Spec => ImplementsMutex
<1>1. Init => Lock!Init
  BY DEF Init, Lock!Init, ownerBar
<1>2. LockInv /\ LockInv' /\ [Next]_vars => [Lock!Next]_ownerBar
  <2> SUFFICES ASSUME LockInv, LockInv', [Next]_vars
               PROVE  Lock!Next \/ ownerBar' = ownerBar
    OBVIOUS
  <2> USE DEF LockInv, TypeOK, FlagMeansOwned
  <2>0. /\ \A t \in Threads : pc[t] = "inside" => ownerBar = t
        /\ (\A t \in Threads : pc[t] # "inside") => ownerBar = NoThread
        /\ \A t \in Threads : pc'[t] = "inside" => ownerBar' = t
        /\ (\A t \in Threads : pc'[t] # "inside") => ownerBar' = NoThread
    BY OwnerIs, OwnerIsNext
  <2>1. ASSUME NEW t \in Threads, EnterScope(t) PROVE ownerBar' = ownerBar
    <3>1. \A u \in Threads : pc'[u] = "inside" <=> pc[u] = "inside"
      BY <2>1 DEF EnterScope
    <3> QED
      BY <2>0, <3>1
  <2>2. ASSUME NEW t \in Threads, TryLock(t)
        PROVE  Lock!Acquire(t) \/ ownerBar' = ownerBar
    <3>1. CASE sl
      <4>1. \A u \in Threads : pc'[u] = "inside" <=> pc[u] = "inside"
        BY <2>2, <3>1 DEF TryLock, FlagWasSet
      <4> QED
        BY <2>0, <4>1
    <3>2. CASE ~sl
      <4>1. pc'[t] = "inside" /\ \A u \in Threads : pc[u] # "inside"
        BY <2>2, <3>2 DEF TryLock, FlagWasSet
      <4> QED
        BY <2>0, <4>1 DEF Lock!Acquire
    <3> QED
      BY <3>1, <3>2
  <2>3. ASSUME NEW t \in Threads, LeaveScope(t) PROVE Lock!Release(t)
    <3>1. pc[t] = "inside" /\ pc'[t] # "inside"
      BY <2>3 DEF LeaveScope
    <3>2. \A u \in Threads : pc'[u] # "inside"
      BY <2>3 DEF LeaveScope, MutualExclusion
    <3> QED
      BY <2>0, <3>1, <3>2 DEF Lock!Release
  <2>4. CASE UNCHANGED vars
    BY <2>4 DEF vars, ownerBar
  <2> QED
    BY <2>1, <2>2, <2>3, <2>4 DEF Next, Lock!Next
<1> QED
  BY <1>1, <1>2, LockSafe, PTL DEF Spec, ImplementsMutex, Lock!Spec
=============================================================================
