-------------------------- MODULE ShutdownProtocol --------------------------
(***************************************************************************)
(* What the shutdown signal of a process promises, without lists, locks    *)
(* and shutdown threads: threads join and leave, a request may be followed *)
(* by the flag, and the process ends cleanly only when every thread that   *)
(* was a member when the flag was set has left since.                      *)
(***************************************************************************)
CONSTANT Threads

VARIABLES
  members,    \* the threads a shutdown would wait for now
  requested,  \* somebody asked for the shutdown
  flag,       \* the threads have been told
  awaited,    \* members when they were told, which have not left since
  outcome     \* "running", or how it ended

vars == <<members, requested, flag, awaited, outcome>>

Init ==
  /\ members = {} /\ awaited = {}
  /\ requested = FALSE /\ flag = FALSE
  /\ outcome = "running"

Running == outcome = "running"

Join(t) ==
  /\ Running
  /\ members' = members \cup {t}
  /\ UNCHANGED <<requested, flag, awaited, outcome>>

Leave(t) ==
  /\ Running
  /\ members' = members \ {t}
  /\ awaited' = awaited \ {t}
  /\ UNCHANGED <<requested, flag, outcome>>

Request ==
  /\ Running
  /\ requested' = TRUE
  /\ UNCHANGED <<members, flag, awaited, outcome>>

(* The flag is set once, on request, and never withdrawn. *)
SetFlag ==
  /\ Running
  /\ requested /\ ~flag
  /\ flag' = TRUE
  /\ awaited' = members
  /\ UNCHANGED <<members, requested, outcome>>

(* Whoever has not left by now is not waited for any longer. *)
StopWaiting ==
  /\ Running
  /\ flag
  /\ members' = {}
  /\ UNCHANGED <<requested, flag, awaited, outcome>>

EndCleanly ==
  /\ Running
  /\ flag /\ awaited = {}
  /\ outcome' = "clean"
  /\ UNCHANGED <<members, requested, flag, awaited>>

EndByForce ==
  /\ Running
  /\ flag
  /\ outcome' \in {"forced", "undefined"}
  /\ UNCHANGED <<members, requested, flag, awaited>>

Next ==
  \/ \E t \in Threads : Join(t) \/ Leave(t)
  \/ Request \/ SetFlag \/ StopWaiting
  \/ EndCleanly \/ EndByForce

Spec == Init /\ [][Next]_vars
=============================================================================
