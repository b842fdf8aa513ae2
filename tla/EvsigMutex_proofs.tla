-------------------------- MODULE EvsigMutex_proofs --------------------------
(***************************************************************************)
(* For any number of threads: evsig_lock and evsig_unlock exclude each     *)
(* other's critical sections and implement the abstract lock.              *)
(***************************************************************************)
EXTENDS EvsigMutex, TLAPS

(* LockInv is inductive: the byte tells exactly whether somebody holds the   *)
(* lock, and a thread about to compare-and-swap expects 0.                   *)
LEMMA LockInvInit == Init => LockInv
BY UseAssumption DEF Init, LockInv, TypeOK, MutualExclusion, Holds

LEMMA LockInvNext == LockInv /\ [Next]_vars => LockInv'
<1> SUFFICES ASSUME LockInv, [Next]_vars
             PROVE  LockInv'
  OBVIOUS
<1> USE UseAssumption DEF LockInv, TypeOK, MutualExclusion, Holds
<1>1. ASSUME NEW t \in Lockers, Lock(t)
      PROVE  LockInv'
  BY <1>1 DEF Lock
<1>2. ASSUME NEW t \in Lockers, CasSucceeds(t)
      PROVE  LockInv'
  (* The byte was 0, so by the invariant nobody held the lock.               *)
  BY <1>2 DEF CasSucceeds
<1>3. ASSUME NEW t \in Lockers, CasFails(t)
      PROVE  LockInv'
  BY <1>3 DEF CasFails
<1>4. ASSUME NEW t \in Lockers, ResetExpected(t)
      PROVE  LockInv'
  BY <1>4 DEF ResetExpected
<1>5. ASSUME NEW t \in Lockers, Unlock(t)
      PROVE  LockInv'
  BY <1>5 DEF Unlock
<1>6. ASSUME GateStep
      PROVE  LockInv'
  <2>1. ASSUME NEW t \in Gatekeepers, EnsureLocked(t) \/ OpenGate(t)
        PROVE  LockInv'
    BY <2>1 DEF EnsureLocked, OpenGate
  <2>2. ASSUME NEW t \in Waiters, AwaitUnlock(t) \/ SeeUnlocked(t)
        PROVE  LockInv'
    BY <2>2 DEF AwaitUnlock, SeeUnlocked
  <2> QED
    BY <1>6, <2>1, <2>2 DEF GateStep
<1>7. CASE UNCHANGED vars
  BY <1>7 DEF vars
<1> QED
  BY <1>1, <1>2, <1>3, <1>4, <1>5, <1>6, <1>7 DEF Next, LockStep

(* The lock invariant, mutual exclusion included, holds of every behaviour.  *)
THEOREM LockInvariant == Spec => []LockInv
<1>1. Init => LockInv
  BY LockInvInit
<1>2. LockInv /\ [Next]_vars => LockInv'
  BY LockInvNext
<1> QED
  BY <1>1, <1>2, PTL DEF Spec

(* No two threads are in the critical section of the same evsig_mutex.       *)
THEOREM Exclusion == Spec => []MutualExclusion
<1>1. LockInv => MutualExclusion
  BY DEF LockInv
<1> QED
  BY <1>1, LockInvariant, PTL

-----------------------------------------------------------------------------
(* The refinement: a successful compare-and-swap acquires the abstract lock, *)
(* an unlock releases it, and every other step leaves its owner alone.       *)

LEMMA OwnerOfHeld ==
  ASSUME MutualExclusion, NEW t \in Lockers, Holds(t)
  PROVE  Owner = t
BY DEF Owner, MutualExclusion

LEMMA OwnerOfFree ==
  ASSUME \A t \in Lockers : ~Holds(t)
  PROVE  Owner = NoOwner
BY DEF Owner

LEMMA OwnerUnchanged ==
  ASSUME \A t \in Lockers : Holds(t)' <=> Holds(t)
  PROVE  Owner' = Owner
BY DEF Owner

THEOREM LockRefinement == Spec => ImplementsLock
<1>1. Init => AbstractLock!Init
  BY OwnerOfFree DEF Init, AbstractLock!Init, Holds
<1>2. LockInv /\ LockInv' /\ [Next]_vars => [AbstractLock!Next]_Owner
  <2> SUFFICES ASSUME LockInv, LockInv', [Next]_vars
               PROVE  [AbstractLock!Next]_Owner
    OBVIOUS
  <2>1. ASSUME NEW t \in Lockers, CasSucceeds(t)
        PROVE  AbstractLock!Acquire(t)
    <3>1. \A s \in Lockers : ~Holds(s)
      BY <2>1 DEF CasSucceeds, LockInv, TypeOK
    <3>2. Owner = NoOwner
      BY <3>1, OwnerOfFree
    <3>3. Holds(t)' /\ MutualExclusion'
      BY <2>1 DEF CasSucceeds, Holds, LockInv, TypeOK
    <3>4. Owner' = t
      BY <3>3 DEF Owner, MutualExclusion
    <3> QED
      BY <3>2, <3>4 DEF AbstractLock!Acquire
  <2>2. ASSUME NEW t \in Lockers, Unlock(t)
        PROVE  AbstractLock!Release(t)
    <3>1. Owner = t
      BY <2>2, OwnerOfHeld DEF Unlock, Holds, LockInv
    <3>2. \A s \in Lockers : ~Holds(s)'
      BY <2>2 DEF Unlock, Holds, LockInv, TypeOK, MutualExclusion
    <3>3. Owner' = NoOwner
      BY <3>2 DEF Owner
    <3> QED
      BY <3>1, <3>3 DEF AbstractLock!Release
  <2>3. ASSUME NEW t \in Lockers, Lock(t) \/ CasFails(t) \/ ResetExpected(t)
        PROVE  Owner' = Owner
    <3>1. \A s \in Lockers : Holds(s)' <=> Holds(s)
      BY <2>3 DEF Lock, CasFails, ResetExpected, Holds, LockInv, TypeOK
    <3> QED
      BY <3>1, OwnerUnchanged
  <2>4. ASSUME GateStep
        PROVE  Owner' = Owner
    <3>1. \A s \in Lockers : pc'[s] = pc[s]
      BY <2>4, UseAssumption DEF GateStep, EnsureLocked, OpenGate, AwaitUnlock, SeeUnlocked,
         LockInv, TypeOK
    <3>2. \A s \in Lockers : Holds(s)' <=> Holds(s)
      BY <3>1 DEF Holds
    <3> QED
      BY <3>2, OwnerUnchanged
  <2>5. CASE UNCHANGED vars
    <3>1. \A s \in Lockers : Holds(s)' <=> Holds(s)
      BY <2>5 DEF vars, Holds
    <3> QED
      BY <3>1, OwnerUnchanged
  <2> QED
    BY <2>1, <2>2, <2>3, <2>4, <2>5 DEF Next, LockStep, AbstractLock!Next
<1> QED
  BY <1>1, <1>2, LockInvariant, PTL DEF Spec, ImplementsLock, AbstractLock!Spec
=============================================================================
