----------------------- MODULE MCThreadShutdownSignal -----------------------
(***************************************************************************)
(* ThreadShutdownSignal for TLC: neither the application's threads nor the *)
(* shutdown threads are told apart by anything, so states that differ by a *)
(* permutation of them are one.  Used by the runs that check safety only.  *)
(***************************************************************************)
EXTENDS ThreadShutdownSignal, TLC

ActorSymmetry == Permutations(Threads) \cup Permutations(Workers)
=============================================================================
