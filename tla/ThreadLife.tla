----------------------------- MODULE ThreadLife -----------------------------
(***************************************************************************)
(* The life of a thread that uses the signal and the unwind system, as the *)
(* rest of its process sees it.  A life is a record                        *)
(*   at     where the thread is                                            *)
(*   refs   unwind_init_ref                                                *)
(*   todo   the user's actions on its unwind stack                         *)
(* and the operators below relate the life l before a step to m after it.  *)
(* SigThread is shown to live like this; EvsigProcess puts such threads    *)
(* and the shutdown signal together.                                       *)
(***************************************************************************)
EXTENDS Naturals

(* Scopes are opened, left and unwound: by the thread's own code or by the   *)
(* actions that the last unwind_cleanup runs.                                *)
Works(l, m) ==
  /\ l.at = "running" \/ (l.at \in {"cleaning", "dying"} /\ l.refs = 0)
  /\ m = [l EXCEPT !.todo = m.todo]

(* unwind_init once more, or unwind_cleanup of such a one. *)
CountsReferences(l, m) ==
  /\ l.at = "running" /\ l.refs > 0
  /\ m.refs \in {l.refs + 1, l.refs - 1} \ {0}
  /\ m = [l EXCEPT !.refs = m.refs]

(* A signal reaches the catch-all handler, which reports it. *)
IsUnhandled(l, m) ==
  /\ l.at = "running"
  /\ m = [l EXCEPT !.at = "unhandled"]

(* The report fails, which is a signal of its own, and that one is handled. *)
IsHandledAfterAll(l, m) ==
  /\ l.at = "unhandled"
  /\ m = [l EXCEPT !.at = "running"]

(* raise(SIGINT) came back. *)
Raises(l, m) ==
  /\ l.at = "unhandled"
  /\ m = [l EXCEPT !.at = "raised"]

(* unwind_all *)
Asks(l, m) ==
  /\ l.at = "raised"
  /\ m = [l EXCEPT !.at = "asked"]

(* sig_cleanup or unwind_cleanup, by the thread with every scope closed or by *)
(* the catch-all handler in the middle of everything.                         *)
CleansUp(l, m) ==
  \/ /\ l.at = "running" /\ l.todo = 0
     /\ m = [l EXCEPT !.at = "cleaning", !.refs = l.refs - 1]
  \/ /\ l.at = "asked"
     /\ m = [l EXCEPT !.at = "dying", !.refs = l.refs - 1]

(* A bug: the shutdown is confirmed first and the actions are run then. *)
Confirms_First(l, m) ==
  /\ l.at \in {"cleaning", "dying"}
  /\ l.refs = 0
  /\ m = [l EXCEPT !.at = "leaving"]

(* The last reference is gone and every action has run: the shutdown of the  *)
(* thread is confirmed.                                                      *)
Confirms(l, m) ==
  /\ l.at \in {"cleaning", "dying"}
  /\ l.refs = 0 /\ l.todo = 0
  /\ m = [l EXCEPT !.at = "leaving"]

(* References are left: the thread goes on, *)
GoesOn(l, m) ==
  /\ l.at = "cleaning" /\ l.refs > 0
  /\ m = [l EXCEPT !.at = "running"]

(* or, if it is the catch-all handler's, is left with what there is to do.   *)
Abandons(l, m) ==
  /\ l.at = "dying" /\ l.refs > 0
  /\ m = [l EXCEPT !.at = "abandoned"]

(* exit_this_thread_func, or the end of the thread's function. *)
Ends(l, m) ==
  /\ l.at \in {"leaving", "abandoned"}
  /\ m = [l EXCEPT !.at = "gone"]

LifeStep(l, m) ==
  \/ Works(l, m) \/ CountsReferences(l, m)
  \/ IsUnhandled(l, m) \/ IsHandledAfterAll(l, m)
  \/ Raises(l, m) \/ Asks(l, m)
  \/ CleansUp(l, m) \/ Confirms(l, m) \/ GoesOn(l, m) \/ Abandons(l, m)
  \/ Ends(l, m)
=============================================================================
