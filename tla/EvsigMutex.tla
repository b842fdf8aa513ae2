----------------------------- MODULE EvsigMutex -----------------------------
(***************************************************************************)
(* evsig_mutex (src/libevsig/evsig_mutex.c): a byte changed with a weak    *)
(* compare-and-swap and with plain atomic stores.                          *)
(*                                                                         *)
(* The library uses its mutexes in two ways and never mixes them, so there *)
(* is one of each here:                                                    *)
(*   - a lock (like master_mutex): evsig_lock ... evsig_unlock;            *)
(*   - a gate (like shutdown_mutex): evsig_ensure_locked closes it,        *)
(*     evsig_unlock opens it (from any thread, "owner" or not) and         *)
(*     evsig_await_unlock waits for it to be open.                         *)
(*                                                                         *)
(* The back-off between two attempts (spinwait, jitter, pause, nanosleep)  *)
(* only takes time and is left out: it is the unbounded delay any step may *)
(* have.                                                                   *)
(***************************************************************************)
EXTENDS Naturals

CONSTANTS
  Lockers,      \* threads that take the lock
  Gatekeepers,  \* threads that close and open the gate
  Waiters,      \* threads that wait for the gate to be open
  NoOwner       \* no thread

ASSUME UseAssumption ==
  /\ NoOwner \notin Lockers
  /\ Lockers \cap Waiters = {}

VARIABLES
  m,         \* the mutex used as a lock: 0 unlocked, 1 locked
  gate,      \* the mutex used as a gate: 0 open, 1 closed
  expected,  \* expected[t]: the local of t's evsig_lock call
  pc         \* pc[t]: where t is in evsig_lock or in evsig_await_unlock

vars == <<m, gate, expected, pc>>

TypeOK ==
  /\ m \in {0, 1} /\ gate \in {0, 1}
  /\ expected \in [Lockers -> {0, 1}]
  /\ pc \in [Lockers \cup Waiters -> {"out", "cas", "failed", "held", "await", "passed"}]

(* EVSIG_THREAD_SHUTDOWN_SIGNAL_INIT: a lock starts unlocked, a gate closed. *)
Init ==
  /\ m = 0
  /\ gate = 1
  /\ expected = [t \in Lockers |-> 0]
  /\ pc = [t \in Lockers \cup Waiters |-> "out"]

-----------------------------------------------------------------------------
(* evsig_lock *)

Lock(t) ==
  /\ pc[t] = "out"
  /\ pc' = [pc EXCEPT ![t] = "cas"]
  /\ expected' = [expected EXCEPT ![t] = 0]
  /\ UNCHANGED <<m, gate>>

CasSucceeds(t) ==
  /\ pc[t] = "cas"
  /\ m = expected[t]
  /\ m' = 1
  /\ pc' = [pc EXCEPT ![t] = "held"]
  /\ UNCHANGED <<gate, expected>>

(* A failing compare-and-swap writes the value it saw to expected; the weak  *)
(* one may also fail although that value was the expected one.               *)
CasFails(t) ==
  /\ pc[t] = "cas"
  /\ expected' = [expected EXCEPT ![t] = m]
  /\ pc' = [pc EXCEPT ![t] = "failed"]
  /\ UNCHANGED <<m, gate>>

(* A bug this loop could have: the next attempt expects what the last one    *)
(* saw.                                                                      *)
ResetExpected_Forgotten(t) ==
  /\ pc[t] = "failed"
  /\ pc' = [pc EXCEPT ![t] = "cas"]
  /\ UNCHANGED <<m, gate, expected>>

ResetExpected(t) ==
  /\ pc[t] = "failed"
  /\ expected' = [expected EXCEPT ![t] = 0]
  /\ pc' = [pc EXCEPT ![t] = "cas"]
  /\ UNCHANGED <<m, gate>>

(* A bug: one return path that does not store 0. *)
Unlock_NoStore(t) ==
  /\ pc[t] = "held"
  /\ pc' = [pc EXCEPT ![t] = "out"]
  /\ UNCHANGED <<m, gate, expected>>

(* evsig_unlock, by the thread that holds the lock *)
Unlock(t) ==
  /\ pc[t] = "held"
  /\ m' = 0
  /\ pc' = [pc EXCEPT ![t] = "out"]
  /\ UNCHANGED <<gate, expected>>

-----------------------------------------------------------------------------
(* The gate *)

EnsureLocked(t) ==
  /\ gate' = 1
  /\ UNCHANGED <<m, expected, pc>>

OpenGate(t) ==
  /\ gate' = 0
  /\ UNCHANGED <<m, expected, pc>>

AwaitUnlock(t) ==
  /\ pc[t] \in {"out", "passed"}
  /\ pc' = [pc EXCEPT ![t] = "await"]
  /\ UNCHANGED <<m, gate, expected>>

(* A bug: the loop condition inverted. *)
SeeUnlocked_Inverted(t) ==
  /\ pc[t] = "await"
  /\ gate = 1
  /\ pc' = [pc EXCEPT ![t] = "passed"]
  /\ UNCHANGED <<m, gate, expected>>

(* One iteration of the loop that reads 0; the others change nothing.       *)
SeeUnlocked(t) ==
  /\ pc[t] = "await"
  /\ gate = 0
  /\ pc' = [pc EXCEPT ![t] = "passed"]
  /\ UNCHANGED <<m, gate, expected>>

-----------------------------------------------------------------------------
LockStep(t) ==
  Lock(t) \/ CasSucceeds(t) \/ CasFails(t) \/ ResetExpected(t) \/ Unlock(t)

GateStep ==
  \/ \E t \in Gatekeepers : EnsureLocked(t) \/ OpenGate(t)
  \/ \E t \in Waiters : AwaitUnlock(t) \/ SeeUnlocked(t)

Next == (\E t \in Lockers : LockStep(t)) \/ GateStep

Spec == Init /\ [][Next]_vars

(* A running thread keeps executing its loop, a holder gives the lock back,  *)
(* and the compare-and-swap of the threads that keep trying on a free lock   *)
(* does not fail spuriously for ever (on the x86-64 the makefile targets it  *)
(* never does).  Nothing makes one particular thread win.                    *)
Fairness ==
  /\ \A t \in Lockers : WF_vars(ResetExpected(t)) /\ WF_vars(Unlock(t))
  /\ SF_vars(\E t \in Lockers : CasSucceeds(t))
  /\ \A t \in Waiters : WF_vars(SeeUnlocked(t))

FairSpec == Spec /\ Fairness

-----------------------------------------------------------------------------
(* Properties *)

Holds(t) == t \in Lockers /\ pc[t] = "held"
Tries(t) == t \in Lockers /\ pc[t] \in {"cas", "failed"}

(* Two threads are never both past evsig_lock: a failed compare-and-swap     *)
(* leaves expected = 1, and the next attempt would take a held lock if the   *)
(* loop did not reset it.                                                    *)
MutualExclusion == \A s, t \in Lockers : Holds(s) /\ Holds(t) => s = t

(* The inductive strengthening: the byte is 1 exactly while a thread is in   *)
(* its critical section, and expected is 0 whenever it is about to be used.  *)
LockInv ==
  /\ TypeOK
  /\ MutualExclusion
  /\ m = 1 <=> \E t \in Lockers : Holds(t)
  /\ \A t \in Lockers : pc[t] = "cas" => expected[t] = 0
  /\ \A t \in Lockers : pc[t] \in {"out", "cas", "failed", "held"}

(* The abstract lock, its owner read off the program counters.               *)
Owner ==
  IF \E t \in Lockers : Holds(t) THEN CHOOSE t \in Lockers : Holds(t) ELSE NoOwner

AbstractLock == INSTANCE EvsigLock WITH owner <- Owner

(* evsig_lock and evsig_unlock implement the abstract lock.                  *)
ImplementsLock == AbstractLock!Spec

(* While threads spin in evsig_lock, one of them gets in.                    *)
SomeoneEnters == (\E t \in Lockers : Tries(t)) ~> (\E t \in Lockers : Holds(t))

(* A gate that is opened for good lets every waiter through.                 *)
OpenGateReleases ==
  \A t \in Waiters : <>[](gate = 0) => ((pc[t] = "await") ~> (pc[t] = "passed"))
=============================================================================
