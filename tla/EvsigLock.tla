------------------------------ MODULE EvsigLock ------------------------------
(***************************************************************************)
(* What evsig_mutex promises to the clients that only lock and unlock it:  *)
(* a lock has at most one owner, it is taken only when it is free, and     *)
(* only its owner gives it back.  EvsigMutex is shown to implement this    *)
(* specification; ThreadShutdownSignal uses its master mutex at this level *)
(* of detail.                                                              *)
(***************************************************************************)
CONSTANTS
  Lockers,   \* the threads that lock and unlock
  NoOwner    \* the owner of a free lock

VARIABLE owner

Init == owner = NoOwner

Acquire(t) ==
  /\ owner = NoOwner
  /\ owner' = t

Release(t) ==
  /\ owner = t
  /\ owner' = NoOwner

Next == \E t \in Lockers : Acquire(t) \/ Release(t)

Spec == Init /\ [][Next]_owner
=============================================================================
