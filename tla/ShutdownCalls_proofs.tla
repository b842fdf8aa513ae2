-------------------------- MODULE ShutdownCalls_proofs --------------------------
(***************************************************************************)
(* For any signals, threads, shutdown threads, calls and OS signals: what  *)
(* a step does to the calls of the library that are in progress and to the *)
(* two lists of a shutdown signal.  In a process with one shutdown signal the  *)
(* flag is set only on request; every field keeps to its type and every    *)
(* list to its memory, and until the signal is sent the lists say exactly  *)
(* who is registered and nothing is touched outside them.                  *)
(***************************************************************************)
EXTENDS ThreadShutdownSignal_proofs

-----------------------------------------------------------------------------
(* Whose call stack a step changes                                         *)

LEMMA CurrentFrame ==
  ASSUME IInv, NEW a \in Actors, calls[a] # <<>>
  PROVE  CurrentCall(a) \in Frames /\ calls[a] \in Seq(Frames) /\ Len(calls[a]) \in Nat \ {0}
<1>1. calls[a] \in Seq(Frames) /\ Len(calls[a]) \in 1 .. Len(calls[a])
  BY DEF IInv, CallsOK
<1> QED BY <1>1 DEF CurrentCall

(* A shutdown thread waiting for its gate is in that and nothing else.       *)
LEMMA WaitsForGate ==
  ASSUME IInv, NEW w \in Workers, calls[w] # <<>>, calls[w][1].at = "await"
  PROVE  CurrentCall(w).op = "worker" /\ CurrentCall(w).at = "await"
<1>1. Len(calls[w]) \in Nat \ {0} /\ Len(calls[w]) <= 2 /\ Len(calls[w]) # 2
  BY CurrentFrame DEF IInv, WorkersOK, Actors
<1>2. Len(calls[w]) = 1
  <2> DEFINE n == Len(calls[w])
  <2>1. n \in Nat \ {0} /\ n <= 2 /\ n # 2
    BY <1>1
  <2> HIDE DEF n
  <2>2. n = 1
    BY <2>1
  <2> QED BY <2>2 DEF n
<1> QED BY <1>2 DEF CurrentCall, IInv, WorkersOK

(* The end of send_block, statement by statement: what it does to each list. *)
FreesCallbacks(a) == FreeCallbacks(a) \/ ResetCallbacksAlloc(a) \/ ResetCallbacks(a)

FreesThreadlist(a) ==
  FreeThreadlist(a) \/ ForgetThreadlist(a) \/ ResetThreadlistAlloc(a) \/ ResetThreadlist(a)

FreeingPlaces ==
  {"free_cb", "reset_cb_alloc", "reset_cb", "free_tl", "forget_tl", "reset_tl_alloc", "reset_tl"}

LEMMA Freeing ==
  ASSUME NEW a, FreesCallbacks(a) \/ FreesThreadlist(a)
  PROVE  /\ calls[a] # <<>> /\ CurrentCall(a).op = "send_block"
         /\ CurrentCall(a).at \in FreeingPlaces
         /\ UNCHANGED <<last_id, flagVars, master, envVars, ghosts>>
         /\ FreesCallbacks(a) => UNCHANGED <<threadlist, tl_mem, tl_alloc>>
         /\ FreesThreadlist(a) => UNCHANGED <<callbacks, cb_mem, cb_alloc>>
<1> USE DEF FreeCallbacks, ResetCallbacksAlloc, ResetCallbacks, FreeThreadlist, ForgetThreadlist,
            ResetThreadlistAlloc, ResetThreadlist, IsAt, FreeingPlaces
<1>1. CASE FreesCallbacks(a)
  BY <1>1 DEF FreesCallbacks, FreesThreadlist
<1>2. CASE FreesThreadlist(a)
  BY <1>2 DEF FreesCallbacks, FreesThreadlist
<1> QED BY <1>1, <1>2

(* An actor that is not called changes nothing of another one's calls, but   *)
(* for the shutdown thread a registration starts.                            *)
LEMMA OwnCalls ==
  ASSUME IInv, NEW a \in Actors, LibraryStep(a), NEW b \in Actors, b # a
  PROVE  \/ calls'[b] = calls[b]
         \/ calls[b] = <<>> /\ calls'[b] # <<>> /\ calls'[b][1].at = "await"
<1> USE DEF GoOn, Return, SendBlockReturns
<1>0. calls \in [Actors -> Seq(Frames)]
  BY DEF IInv, CallsOK
<1>1. CASE Locks(a)
  BY <1>0, <1>1 DEF Locks
<1>2. CASE SendBlockStep(a)
  <2>1. CASE AlreadySent(a) \/ NotYetSent(a) \/ SetShutdown(a) \/ CallCallbacks(a)
    BY <1>0, <2>1 DEF AlreadySent, NotYetSent, SetShutdown, CallCallbacks
  <2>2. CASE Poll(a) \/ Sleep(a)
    BY <1>0, <2>2 DEF Poll, Sleep
  <2>3. CASE FreesCallbacks(a) \/ FreesThreadlist(a)
    BY <1>0, <2>3 DEF FreesCallbacks, FreesThreadlist, FreeCallbacks, ResetCallbacksAlloc,
                       ResetCallbacks, FreeThreadlist, ForgetThreadlist, ResetThreadlistAlloc,
                       ResetThreadlist
  <2> QED BY <1>2, <2>1, <2>2, <2>3 DEF SendBlockStep, FreesCallbacks, FreesThreadlist
<1>3. CASE UseAfterFree(a)
  BY <1>3 DEF UseAfterFree, UndefinedBehaviour
<1>4. CASE a \in Threads /\ ThreadStep(a)
  <2>1. CASE RegisterThread(a)
    <3>1. CASE calls' = Return(a)
      BY <1>0, <3>1
    <3>2. CASE calls' # Return(a)
      <4>1. PICK w \in Workers :
              /\ calls[w] = <<>>
              /\ calls' = [Return(a) EXCEPT ![w] = <<Frame("worker", CurrentCall(a).s, "await", w)>>]
        BY <2>1, <3>2 DEF RegisterThread, StartWorker
      <4>2. w \in Actors /\ Return(a) \in [Actors -> {Return(a)[c] : c \in Actors}]
        BY <1>0 DEF Actors
      <4>3. Return(a)[b] = calls[b]
        BY <1>0
      <4>4. CASE b = w
        BY <4>1, <4>2, <4>4 DEF Frame
      <4>5. CASE b # w
        BY <4>1, <4>2, <4>3, <4>5
      <4> QED BY <4>4, <4>5
    <3> QED BY <3>1, <3>2
  <2>2. CASE ConfirmShutdown(a) \/ RegisterCb(a) \/ UnregisterCb(a) \/ SendAsync(a)
    BY <1>0, <2>2 DEF ConfirmShutdown, RegisterCb, UnregisterCb, SendAsync
  <2> QED BY <1>4, <2>1, <2>2 DEF ThreadStep
<1>5. CASE a \in Workers /\ WorkerStep(a)
  BY <1>0, <1>5 DEF WorkerStep, SeeGateOpen, WorkerFinishes
<1> QED BY <1>1, <1>2, <1>3, <1>4, <1>5 DEF LibraryStep

-----------------------------------------------------------------------------
(* How a frame changes                                                     *)

SendBlockMoves(f, g) ==
  \/ f.at = "check"    /\ ~shutdown[f.s]  /\ g = [f EXCEPT !.at = "set"]
  \/ /\ f.at = "set"
     /\ shutdown' = [shutdown EXCEPT ![f.s] = TRUE]
     /\ g = [f EXCEPT !.at = "lock"]
  \/ f.at = "body"     /\ g = [f EXCEPT !.at = "poll"]
  \/ f.at = "poll"     /\ g = [f EXCEPT !.at = "sleep"]
  \/ f.at = "poll"     /\ threadlist[f.s] = <<>> /\ g = [f EXCEPT !.at = "free_cb"]
  \/ f.at = "sleep"    /\ g = [f EXCEPT !.at = "poll"]
  \/ f.at = "sleep"    /\ TimedOut(f) /\ g = [f EXCEPT !.at = "free_cb", !.arg = 1]
  \/ f.at = "free_cb"  /\ g = [f EXCEPT !.at = "reset_cb_alloc"]
  \/ f.at = "reset_cb_alloc" /\ g = [f EXCEPT !.at = "reset_cb"]
  \/ f.at = "reset_cb" /\ g = [f EXCEPT !.at = "free_tl"]
  \/ f.at = "free_tl"  /\ g = [f EXCEPT !.at = "forget_tl"]
  \/ f.at = "forget_tl" /\ g = [f EXCEPT !.at = "reset_tl_alloc"]
  \/ f.at = "reset_tl_alloc" /\ g = [f EXCEPT !.at = "reset_tl"]

(* The shutdown thread's send_block returns; how it ended.                  *)
SendBlockTells(how) ==
  \E w \in Workers :
    \/ AlreadySent(w) /\ how = "noop"
    \/ ResetThreadlist(w) /\ how = (IF CurrentCall(w).arg = 1 THEN "timeout" ELSE "done")

WorkerMoves(f, g) ==
  \/ f.at = "await" /\ g = [f EXCEPT !.at = "sending"]
  \/ /\ f.at = "sending"
     /\ \E how \in DOMAIN Exited :
          SendBlockTells(how) /\ g = [f EXCEPT !.at = "lock", !.arg = how]

(* The frame f becomes g.                                                  *)
Moves(f, g) ==
  \/ g = f
  \/ f.at = "lock" /\ g = [f EXCEPT !.at = "body"]
  \/ f.op = "send_block" /\ SendBlockMoves(f, g)
  \/ f.op = "worker" /\ WorkerMoves(f, g)
  \/ Tick /\ g = [f EXCEPT !.waited = @ + 1]
  \/ SetClock /\ \E jump \in {-1, 1} : g = [f EXCEPT !.drift = @ + jump]

(* f is the frame of a call by a that has just begun.                      *)
Begins(a, f) ==
  /\ f \in Frames
  /\ \/ /\ a \in Threads /\ f.at = "lock"
        /\ f.op \in {"register_thread", "confirm_shutdown", "register_cb", "unregister_cb"}
     \/ a \in Threads /\ f.op = "send_async" /\ f.at = "lock" /\ f.arg \in BOOLEAN
     \/ a \in Threads /\ f.op = "send_block" /\ f.at = "check" /\ f.arg = 0 /\ "send_block" \in Ops
     \/ a \in Workers /\ f.op = "send_block" /\ f.at = "check" /\ f.arg = 0
     \/ a \in Workers /\ f.op = "worker" /\ f.at = "await"

(* Frame k of actor a after a step.                                        *)
ComesFrom(a, k) ==
  \/ k \in 1 .. Len(calls[a]) /\ Moves(calls[a][k], calls'[a][k])
  \/ Begins(a, calls'[a][k])

Traced == \A a \in Actors : \A k \in 1 .. Len(calls'[a]) : ComesFrom(a, k)

(* The innermost call of a goes on; nothing else changes.                  *)
LEMMA TopTraced ==
  ASSUME IInv, NEW a \in Actors, calls[a] # <<>>, NEW f \in Frames, Moves(CurrentCall(a), f),
         calls' = [calls EXCEPT ![a] = [calls[a] EXCEPT ![Len(calls[a])] = f]]
  PROVE  Traced
<1> DEFINE n == Len(calls[a])
<1>1. /\ calls' \in [Actors -> Seq(Frames)]
      /\ \A b \in Actors : b # a => calls'[b] = calls[b]
      /\ Len(calls'[a]) = n /\ n \in Nat \ {0}
      /\ \A k \in 1 .. n : k # n => calls'[a][k] = calls[a][k]
      /\ calls'[a][n] = f
  BY TopOK DEF IInv
<1>2. \A f1 : Moves(f1, f1)
  BY DEF Moves
<1>3. Moves(calls[a][n], calls'[a][n])
  BY <1>1 DEF CurrentCall
<1> HIDE DEF n
<1>4. \A k \in 1 .. Len(calls'[a]) : k \in 1 .. n /\ Moves(calls[a][k], calls'[a][k])
  BY <1>1, <1>2, <1>3
<1>5. \A b \in Actors : \A k \in 1 .. Len(calls'[b]) :
        k \in 1 .. Len(calls[b]) /\ Moves(calls[b][k], calls'[b][k])
  BY <1>1, <1>2, <1>4 DEF n
<1> QED BY <1>5 DEF Traced, ComesFrom

LEMMA GoOnTraced ==
  ASSUME IInv, NEW a \in Actors, calls[a] # <<>>, NEW at \in Places, calls' = GoOn(a, at),
         Moves(CurrentCall(a), [CurrentCall(a) EXCEPT !.at = at])
  PROVE  Traced
<1> DEFINE f == [CurrentCall(a) EXCEPT !.at = at]
<1>1. f \in Frames
  BY CurrentFrame DEF Frames
<1>2. calls' = [calls EXCEPT ![a] = [calls[a] EXCEPT ![Len(calls[a])] = f]]
  BY DEF GoOn, CurrentCall, IInv, CallsOK
<1>3. Moves(CurrentCall(a), f)
  OBVIOUS
<1> HIDE DEF f
<1> QED BY <1>1, <1>2, <1>3, TopTraced

LEMMA ReturnTraced ==
  ASSUME IInv, NEW a \in Actors, calls[a] # <<>>, calls' = Return(a)
  PROVE  Traced
<1> DEFINE n == Len(calls[a])
<1>1. /\ \A b \in Actors : b # a => calls'[b] = calls[b]
      /\ Len(calls'[a]) = n - 1 /\ n \in Nat \ {0}
      /\ \A k \in 1 .. n - 1 : calls'[a][k] = calls[a][k]
  BY ReturnOK DEF IInv
<1>2. \A f : Moves(f, f)
  BY DEF Moves
<1> HIDE DEF n
<1>3. \A k \in 1 .. Len(calls'[a]) : k \in 1 .. n /\ Moves(calls[a][k], calls'[a][k])
  BY <1>1, <1>2
<1>4. \A b \in Actors : \A k \in 1 .. Len(calls'[b]) :
        k \in 1 .. Len(calls[b]) /\ Moves(calls[b][k], calls'[b][k])
  BY <1>1, <1>2, <1>3 DEF n
<1> QED BY <1>4 DEF Traced, ComesFrom

(* A call begins on top of what a is in.                                   *)
LEMMA BeginTraced ==
  ASSUME IInv, NEW a \in Actors, NEW f, Begins(a, f),
         calls' = [calls EXCEPT ![a] = Append(calls[a], f)]
  PROVE  Traced
<1> DEFINE n == Len(calls[a])
<1>1. calls[a] \in Seq(Frames) /\ n \in Nat /\ calls \in [Actors -> Seq(Frames)]
  BY DEF IInv, CallsOK
<1>2. /\ \A b \in Actors : b # a => calls'[b] = calls[b]
      /\ calls'[a] = Append(calls[a], f)
  BY <1>1
<1>3. /\ Len(Append(calls[a], f)) = n + 1
      /\ \A k \in 1 .. n + 1 : Append(calls[a], f)[k] = IF k = n + 1 THEN f ELSE calls[a][k]
  BY <1>1
<1>4. \A g : Moves(g, g)
  BY DEF Moves
<1> HIDE DEF n
<1>5. \A k \in 1 .. Len(calls'[a]) :
        (k \in 1 .. n /\ Moves(calls[a][k], calls'[a][k])) \/ Begins(a, calls'[a][k])
  BY <1>1, <1>2, <1>3, <1>4
<1> QED BY <1>2, <1>4, <1>5 DEF Traced, ComesFrom, n

(* send_block returns: to its caller, or to the shutdown thread.             *)
LEMMA SendReturnTraced ==
  ASSUME IInv, NEW a \in Actors, calls[a] # <<>>, CurrentCall(a).op = "send_block",
         NEW how \in DOMAIN Exited, SendBlockReturns(a, how),
         a \in Workers => SendBlockTells(how)
  PROVE  Traced
<1>1. CASE a \in Workers
  <2> DEFINE f == calls[a][1]
             g == [f EXCEPT !.at = "lock", !.arg = how]
  <2>1. /\ calls[a] \in Seq(Frames) /\ f \in Frames /\ f.op = "worker"
        /\ Len(calls[a]) = 2 /\ f.at = "sending"
    BY <1>1, WorkerStack
  <2>2. Moves(f, g)
    BY <1>1, <2>1 DEF Moves, WorkerMoves
  <2>3. calls' = [calls EXCEPT ![a] = <<g>>]
    BY <1>1 DEF SendBlockReturns, IInv, CallsOK
  <2>4. \A b \in Actors : b # a => calls'[b] = calls[b]
    BY <2>3 DEF IInv, CallsOK
  <2>5. calls'[a] = <<g>>
    BY <2>3 DEF IInv, CallsOK
  <2> HIDE DEF g
  <2>6. \A k \in 1 .. Len(calls'[a]) : k \in 1 .. Len(calls[a]) /\ Moves(calls[a][k], calls'[a][k])
    BY <2>1, <2>2, <2>5
  <2>7. \A h : Moves(h, h)
    BY DEF Moves
  <2> QED BY <2>4, <2>6, <2>7 DEF Traced, ComesFrom
<1>2. CASE a \notin Workers
  BY <1>2, ReturnTraced DEF SendBlockReturns
<1> QED BY <1>1, <1>2

LEMMA SendBlockTraced ==
  ASSUME IInv, NEW a \in Actors, SendBlockStep(a)
  PROVE  Traced
<1> USE DEF IsAt
<1>0. {"set", "lock", "poll", "sleep"} \cup FreeingPlaces \subseteq Places
  BY DEF Places, FreeingPlaces
<1>1. /\ calls[a] # <<>> /\ CurrentCall(a).op = "send_block"
      /\ CurrentCall(a) \in Frames /\ CurrentCall(a).s \in Signals
  <2>1. calls[a] # <<>> /\ CurrentCall(a).op = "send_block"
    BY DEF SendBlockStep
  <2> QED BY <2>1, CurrentFrame DEF Frames
<1>2. ASSUME NEW at \in Places, calls' = GoOn(a, at),
             SendBlockMoves(CurrentCall(a), [CurrentCall(a) EXCEPT !.at = at])
      PROVE  Traced
  BY <1>1, <1>2, GoOnTraced DEF Moves
<1>3. CASE AlreadySent(a)
  <2>1. "noop" \in DOMAIN Exited
    BY DEF Exited
  <2>2. a \in Workers => SendBlockTells("noop")
    BY <1>3 DEF SendBlockTells
  <2> QED BY <1>1, <1>3, <2>1, <2>2, SendReturnTraced DEF AlreadySent
<1>4. CASE ResetThreadlist(a)
  <2> DEFINE how == IF CurrentCall(a).arg = 1 THEN "timeout" ELSE "done"
  <2>1. how \in DOMAIN Exited
    BY DEF Exited
  <2>2. a \in Workers => SendBlockTells(how)
    BY <1>4 DEF SendBlockTells
  <2>3. SendBlockReturns(a, how)
    BY <1>4 DEF ResetThreadlist
  <2> HIDE DEF how
  <2> QED BY <1>1, <2>1, <2>2, <2>3, SendReturnTraced
<1>5. CASE NotYetSent(a) \/ CallCallbacks(a)
  BY <1>0, <1>2, <1>5 DEF NotYetSent, CallCallbacks, SendBlockMoves
<1>6. CASE SetShutdown(a)
  BY <1>0, <1>2, <1>6 DEF SetShutdown, SendBlockMoves
<1>7. CASE Poll(a)
  <2>1. CASE threadlist[CurrentCall(a).s] = <<>>
    BY <1>0, <1>2, <1>7, <2>1 DEF Poll, SendBlockMoves, FreeingPlaces
  <2>2. CASE threadlist[CurrentCall(a).s] # <<>>
    BY <1>0, <1>2, <1>7, <2>2 DEF Poll, SendBlockMoves
  <2> QED BY <2>1, <2>2
<1>8. CASE Sleep(a)
  <2>1. CASE TimedOut(CurrentCall(a))
    <3> DEFINE f == [CurrentCall(a) EXCEPT !.at = "free_cb", !.arg = 1]
    <3>1. f \in Frames
      BY <1>0, <1>1 DEF Frames, Args, FreeingPlaces
    <3>2. Moves(CurrentCall(a), f)
      BY <1>1, <1>8, <2>1 DEF Sleep, Moves, SendBlockMoves
    <3>3. calls' = [calls EXCEPT ![a] = [calls[a] EXCEPT ![Len(calls[a])] = f]]
      BY <1>8, <2>1 DEF Sleep, CurrentCall, IInv, CallsOK
    <3> HIDE DEF f
    <3> QED BY <1>1, <3>1, <3>2, <3>3, TopTraced
  <2>2. CASE ~TimedOut(CurrentCall(a))
    BY <1>0, <1>2, <1>8, <2>2 DEF Sleep, SendBlockMoves
  <2> QED BY <2>1, <2>2
<1>9. CASE FreeCallbacks(a) \/ ResetCallbacksAlloc(a) \/ ResetCallbacks(a)
  BY <1>0, <1>2, <1>9
     DEF FreeCallbacks, ResetCallbacksAlloc, ResetCallbacks, SendBlockMoves, FreeingPlaces
<1>10. CASE FreeThreadlist(a) \/ ForgetThreadlist(a) \/ ResetThreadlistAlloc(a)
  BY <1>0, <1>2, <1>10
     DEF FreeThreadlist, ForgetThreadlist, ResetThreadlistAlloc, SendBlockMoves, FreeingPlaces
<1> QED BY <1>3, <1>4, <1>5, <1>6, <1>7, <1>8, <1>9, <1>10 DEF SendBlockStep

(* A thread returns from a critical section; it may start a shutdown thread. *)
LEMMA ThreadStepTraced ==
  ASSUME IInv, NEW t \in Threads, ThreadStep(t)
  PROVE  Traced
<1>1. t \in Actors /\ calls[t] # <<>>
  BY DEF ThreadStep, RegisterThread, ConfirmShutdown, RegisterCb, UnregisterCb, SendAsync,
         IsAt, Actors
<1>2. CASE calls' = Return(t)
  BY <1>1, <1>2, ReturnTraced
<1>3. CASE calls' # Return(t)
  <2> DEFINE g(w) == Frame("worker", CurrentCall(t).s, "await", w)
  <2>1. PICK w \in Workers : calls[w] = <<>> /\ calls' = [Return(t) EXCEPT ![w] = <<g(w)>>]
    BY <1>3 DEF ThreadStep, RegisterThread, ConfirmShutdown, RegisterCb, UnregisterCb,
                SendAsync, StartWorker
  <2>2. /\ Return(t) \in [Actors -> Seq(Frames)]
        /\ \A b \in Actors : b # t => Return(t)[b] = calls[b]
        /\ Len(Return(t)[t]) = Len(calls[t]) - 1 /\ Len(calls[t]) \in Nat \ {0}
        /\ \A k \in 1 .. Len(calls[t]) - 1 : Return(t)[t][k] = calls[t][k]
    BY <1>1, ReturnOK DEF IInv
  <2>3. Begins(w, g(w)) /\ w \in Actors /\ w # t
    <3>1. CurrentCall(t).s \in Signals
      BY <1>1, CurrentFrame DEF Frames
    <3> QED BY <3>1, ShutdownAssumption DEF Begins, Frame, Frames, CallNames, Places, Args, Actors
  <2> HIDE DEF g
  <2>4. /\ calls'[w] = <<g(w)>>
        /\ \A b \in Actors : b # w => calls'[b] = Return(t)[b]
    BY <2>1, <2>2, <2>3
  <2>5. \A f : Moves(f, f)
    BY DEF Moves
  <2>6. \A k \in 1 .. Len(calls'[t]) : k \in 1 .. Len(calls[t]) /\ calls'[t][k] = calls[t][k]
    <3> DEFINE n == Len(calls[t])
    <3>1. n \in Nat \ {0} /\ Len(calls'[t]) = n - 1
          /\ \A k \in 1 .. n - 1 : calls'[t][k] = calls[t][k]
      BY <1>1, <2>2, <2>3, <2>4
    <3> HIDE DEF n
    <3>2. \A k \in 1 .. Len(calls'[t]) : k \in 1 .. n /\ calls'[t][k] = calls[t][k]
      BY <3>1
    <3> QED BY <3>2 DEF n
  <2>7. \A k \in 1 .. Len(calls'[w]) : Begins(w, calls'[w][k])
    BY <2>3, <2>4
  <2>8. \A b \in Actors : b # t /\ b # w => calls'[b] = calls[b]
    BY <2>2, <2>4
  <2> QED BY <2>5, <2>6, <2>7, <2>8 DEF Traced, ComesFrom
<1> QED BY <1>2, <1>3

LEMMA WorkerStepTraced ==
  ASSUME IInv, NEW w \in Workers, WorkerStep(w)
  PROVE  Traced
<1>1. w \in Actors /\ calls[w] # <<>> /\ CurrentCall(w).op = "worker"
  BY DEF WorkerStep, SeeGateOpen, WorkerFinishes, IsAt, Actors
<1>2. CASE SeeGateOpen(w)
  <2> DEFINE f == [calls[w][1] EXCEPT !.at = "sending"]
             g == Frame("send_block", Global, "check", 0)
  <2>1. /\ calls[w] \in Seq(Frames) /\ calls[w][1] \in Frames /\ calls[w][1].op = "worker"
        /\ Len(calls[w]) = 1 /\ calls[w][1].at = "await"
    BY <1>1, <1>2, WorkerStack DEF SeeGateOpen, IsAt, CurrentCall
  <2>2. Moves(calls[w][1], f)
    BY <2>1 DEF Moves, WorkerMoves
  <2>3. Begins(w, g)
    BY ShutdownAssumption DEF Begins, Frame, Frames, CallNames, Places, Args
  <2>4. calls' = [calls EXCEPT ![w] = <<f, g>>]
    BY <1>2 DEF SeeGateOpen, IInv, CallsOK
  <2> HIDE DEF f, g
  <2>5. calls'[w] = <<f, g>> /\ \A b \in Actors : b # w => calls'[b] = calls[b]
    BY <1>1, <2>4 DEF IInv, CallsOK
  <2>6. ComesFrom(w, 1) /\ ComesFrom(w, 2) /\ Len(calls'[w]) = 2
    BY <2>1, <2>2, <2>3, <2>5 DEF ComesFrom
  <2>7. \A h : Moves(h, h)
    BY DEF Moves
  <2>8. \A k \in 1 .. 2 : k = 1 \/ k = 2
    OBVIOUS
  <2> QED BY <2>5, <2>6, <2>7, <2>8 DEF Traced, ComesFrom
<1>3. CASE WorkerFinishes(w)
  <2>1. CASE calls' = Return(w)
    BY <1>1, <2>1, ReturnTraced
  <2>2. CASE calls' = calls
    BY <2>2 DEF Traced, ComesFrom, Moves
  <2> QED BY <1>3, <2>1, <2>2 DEF WorkerFinishes
<1> QED BY <1>2, <1>3 DEF WorkerStep

(* The application calls, or an OS signal handler does.                      *)
LEMMA CallTraced ==
  ASSUME IInv, NEW t \in Threads, NEW s \in Signals, ThreadCalls(t, s)
  PROVE  Traced
<1>1. ASSUME NEW op, NEW at, NEW arg, Call(t, op, s, at, arg), Begins(t, Frame(op, s, at, arg))
      PROVE  Traced
  <2> DEFINE f == Frame(op, s, at, arg)
  <2>1. calls' = [calls EXCEPT ![t] = <<f>>] /\ calls[t] = <<>>
    BY <1>1 DEF Call
  <2>2. Begins(t, f)
    BY <1>1
  <2> HIDE DEF f
  <2>3. Append(<<>>, f) = <<f>>
    OBVIOUS
  <2>4. calls' = [calls EXCEPT ![t] = Append(calls[t], f)]
    BY <2>1, <2>3
  <2> QED BY <2>2, <2>4, BeginTraced DEF Actors
<1> USE DEF Begins, Frame, Frames, CallNames, Places, Args, Actors
<1>2. CASE CallRegisterThread(t, s)
  BY <1>1, <1>2 DEF CallRegisterThread
<1>3. CASE CallConfirm(t, s)
  BY <1>1, <1>3 DEF CallConfirm
<1>4. CASE CallRegisterCb(t, s)
  BY <1>1, <1>4 DEF CallRegisterCb
<1>5. CASE CallUnregisterCb(t, s)
  <2>1. PICK id \in owned[s] : Call(t, "unregister_cb", s, "lock", id)
    BY <1>5 DEF CallUnregisterCb
  <2>2. id \in Nat
    BY <2>1 DEF IInv, CallsOK
  <2> QED BY <1>1, <2>1, <2>2
<1>6. CASE CallSendAsync(t, s)
  <2>1. PICK exit \in BOOLEAN : Call(t, "send_async", s, "lock", exit)
    BY <1>6 DEF CallSendAsync
  <2> QED BY <1>1, <2>1
<1>7. CASE CallSendBlock(t, s)
  <2>1. "send_block" \in Ops
    BY <1>7 DEF CallSendBlock, Call
  <2> QED BY <1>1, <1>7, <2>1 DEF CallSendBlock
<1> QED BY <1>2, <1>3, <1>4, <1>5, <1>6, <1>7 DEF ThreadCalls

LEMMA OsSignalTraced ==
  ASSUME IInv, NEW t \in Threads, OsSignal(t)
  PROVE  Traced
<1> DEFINE f == Frame("send_async", Global, "lock", TRUE)
<1>1. Begins(t, f) /\ t \in Actors
  BY ShutdownAssumption DEF Begins, Frame, Frames, CallNames, Places, Args, Actors
<1>2. calls' = [calls EXCEPT ![t] = Append(calls[t], f)]
  BY DEF OsSignal, IInv, CallsOK
<1> HIDE DEF f
<1> QED BY <1>1, <1>2, BeginTraced

(* Time passes, or the clock is set: for the innermost frames only.          *)
LEMMA ClockTraced ==
  ASSUME IInv, Tick \/ SetClock
  PROVE  Traced
<1> SUFFICES ASSUME NEW a \in Actors
             PROVE  \A k \in 1 .. Len(calls'[a]) : ComesFrom(a, k)
  BY DEF Traced
<1> DEFINE n == Len(calls[a])
           c == CurrentCall(a)
<1>1. calls[a] \in Seq(Frames) /\ n \in Nat
  BY DEF IInv, CallsOK
<1>2. \A f : Moves(f, f)
  BY DEF Moves
<1>3. CASE calls'[a] = calls[a]
  BY <1>2, <1>3 DEF ComesFrom
<1>4. ASSUME NEW f, Moves(c, f), calls'[a] = [calls[a] EXCEPT ![n] = f], calls[a] # <<>>
      PROVE  \A k \in 1 .. Len(calls'[a]) : ComesFrom(a, k)
  <2>1. Len(calls'[a]) = n /\ \A k \in 1 .. n : calls'[a][k] = IF k = n THEN f ELSE calls[a][k]
    BY <1>1, <1>4
  <2>2. c = calls[a][n]
    BY DEF CurrentCall
  <2> HIDE DEF n, c
  <2>3. \A k \in 1 .. n : Moves(calls[a][k], calls'[a][k])
    BY <1>2, <1>4, <2>1, <2>2
  <2> QED BY <2>1, <2>3 DEF ComesFrom, n
<1>5. Waiting(a) => calls[a] # <<>>
  BY DEF Waiting, IsAt
<1>6. CASE Tick /\ Waiting(a) /\ calls'[a] = [calls[a] EXCEPT ![n].waited = @ + 1]
  <2>1. calls'[a] = [calls[a] EXCEPT ![n] = [c EXCEPT !.waited = @ + 1]]
    BY <1>6 DEF CurrentCall
  <2>2. Moves(c, [c EXCEPT !.waited = @ + 1])
    BY <1>6 DEF Moves
  <2> QED BY <1>4, <1>5, <1>6, <2>1, <2>2
<1>7. ASSUME NEW jump \in {-1, 1}, SetClock, Waiting(a),
             calls'[a] = [calls[a] EXCEPT ![n].drift = @ + jump]
      PROVE  \A k \in 1 .. Len(calls'[a]) : ComesFrom(a, k)
  <2>1. calls'[a] = [calls[a] EXCEPT ![n] = [c EXCEPT !.drift = @ + jump]]
    BY <1>7 DEF CurrentCall
  <2>2. Moves(c, [c EXCEPT !.drift = @ + jump])
    BY <1>7 DEF Moves
  <2> QED BY <1>4, <1>5, <1>7, <2>1, <2>2
<1>8. CASE Tick
  BY <1>3, <1>6, <1>8 DEF Tick, Awaits
<1>9. CASE SetClock
  BY <1>3, <1>7, <1>9 DEF SetClock
<1> QED BY <1>8, <1>9

(* Every frame of every call stack is an old one that has gone on as its     *)
(* function does, or that of a call just begun.                              *)
LEMMA StepTraced ==
  ASSUME IInv, [Next]_vars
  PROVE  Traced
<1>1. CASE calls' = calls
  BY <1>1 DEF Traced, ComesFrom, Moves
<1>2. ASSUME NEW a \in Actors, LibraryStep(a)
      PROVE  Traced
  <2>1. CASE Locks(a)
    <3>1. /\ calls[a] # <<>> /\ "body" \in Places /\ calls' = GoOn(a, "body")
          /\ CurrentCall(a).at = "lock"
      BY <2>1 DEF Locks, Places
    <3> QED BY <3>1, GoOnTraced DEF Moves
  <2>2. CASE UseAfterFree(a)
    BY <1>1, <2>2 DEF UseAfterFree, UndefinedBehaviour
  <2> QED BY <1>2, <2>1, <2>2, SendBlockTraced, ThreadStepTraced, WorkerStepTraced DEF LibraryStep
<1>3. CASE Stutter \/ UNCHANGED vars
  BY <1>1, <1>3 DEF Stutter, vars
<1> QED BY <1>2, <1>3, CallTraced, OsSignalTraced, ClockTraced DEF Next

-----------------------------------------------------------------------------
(* Requests                                                                *)

OneSignal == Signals = {Global}

(* A shutdown thread that has seen its gate open and has not ended since     *)
HasSeenGate(c, w) == c[w] # <<>> /\ c[w][1].at # "await"

(* What is open, seen or set was asked for. *)
SentOK ==
  /\ \A s \in Signals : gate[s] = 0 => sent[s]
  /\ \A s \in Signals : shutdown[s] => sent[s]
  /\ \A w \in Workers : HasSeenGate(calls, w) => sent[Global]

SentTypes ==
  /\ gate \in [Signals -> {0, 1}]
  /\ sent \in [Signals -> BOOLEAN]
  /\ shutdown \in [Signals -> BOOLEAN]

SInv == IInv /\ SentTypes /\ SentOK

(* Of the steps of a shutdown thread that waits for its gate there is only   *)
(* the one that sees it open.                                                *)
LEMMA LeavesGate ==
  ASSUME IInv, NEW w \in Workers, calls[w] = <<>> \/ calls[w][1].at = "await", LibraryStep(w)
  PROVE  SeeGateOpen(w)
<1> USE DEF LibraryStep, Locks, SendBlockStep, UseAfterFree, ThreadStep, RegisterThread,
            ConfirmShutdown, RegisterCb, UnregisterCb, SendAsync, WorkerStep, SeeGateOpen,
            WorkerFinishes, IsAt
<1>1. calls[w] # <<>>
  OBVIOUS
<1>2. CurrentCall(w).op = "worker" /\ CurrentCall(w).at = "await"
  BY <1>1, WaitsForGate
<1> QED BY <1>2

-----------------------------------------------------------------------------
(* What a step may do: the flag, the gate and the threads past it            *)

(* Nothing opens, is set or is passed without a request.                     *)
LEMMA OnRequest ==
  ASSUME SInv, SentTypes',
         \A s \in Signals : sent[s] => sent'[s],
         \A s \in Signals : gate'[s] = 0 => gate[s] = 0 \/ sent'[s],
         \A s \in Signals : shutdown'[s] => shutdown[s] \/ sent'[s],
         \A w \in Workers : HasSeenGate(calls', w) => HasSeenGate(calls, w) \/ sent'[Global]
  PROVE  SentOK'
<1>1. \A s \in Signals : gate'[s] = 0 => sent'[s]
  BY DEF SInv, SentOK
<1>2. \A s \in Signals : shutdown'[s] => sent'[s]
  BY DEF SInv, SentOK
<1>3. \A w \in Workers : HasSeenGate(calls', w) => sent'[Global]
  BY ShutdownAssumption DEF SInv, SentOK
<1> QED BY <1>1, <1>2, <1>3 DEF SentOK, HasSeenGate

(* A step of the library: who gets past a gate has seen it open.             *)
LEMMA PassesOpenGate ==
  ASSUME OneSignal, SInv, NEW a \in Actors, LibraryStep(a),
         NEW w \in Workers, HasSeenGate(calls', w)
  PROVE  HasSeenGate(calls, w) \/ sent[Global]
<1> USE DEF HasSeenGate, SInv
<1>1. CASE a # w
  <2>1. w \in Actors
    BY DEF Actors
  <2>2. calls'[w] = calls[w]
    BY <1>1, <2>1, OwnCalls
  <2> QED BY <2>2
<1>2. CASE a = w /\ ~HasSeenGate(calls, w)
  <2>1. SeeGateOpen(w)
    BY <1>2, LeavesGate
  <2>2. calls[w] # <<>> /\ gate[CurrentCall(w).s] = 0
    BY <2>1 DEF SeeGateOpen, IsAt
  <2>3. CurrentCall(w).s = Global
    <3>1. CurrentCall(w) \in Frames
      BY <2>2, CurrentFrame DEF Actors
    <3> QED BY <3>1 DEF Frames, OneSignal
  <2> QED BY <2>2, <2>3, ShutdownAssumption DEF SentOK
<1> QED BY <1>1, <1>2

(* Steps that ask for nothing and set nothing.                               *)
LEMMA AsksNothing ==
  ASSUME OneSignal, SInv, NEW a \in Actors, LibraryStep(a), UNCHANGED <<shutdown, sent>>,
         \A s \in Signals : gate'[s] = 0 => gate[s] = 0, gate' \in [Signals -> {0, 1}]
  PROVE  SentTypes' /\ SentOK'
<1>1. SentTypes'
  BY DEF SInv, SentTypes
<1>2. \A w \in Workers : HasSeenGate(calls', w) => HasSeenGate(calls, w) \/ sent'[Global]
  BY PassesOpenGate
<1> QED BY <1>1, <1>2, OnRequest

LEMMA SetsFlagOnRequest ==
  ASSUME OneSignal, SInv, NEW a \in Actors, SetShutdown(a)
  PROVE  SentTypes' /\ SentOK'
<1> DEFINE s == CurrentCall(a).s
<1>1. LibraryStep(a)
  BY DEF LibraryStep, SendBlockStep, SetShutdown, IsAt
<1>2. s = Global /\ s \in Signals
  <2>1. calls[a] # <<>> /\ IInv
    BY DEF SetShutdown, IsAt, SInv
  <2>2. CurrentCall(a) \in Frames
    BY <2>1, CurrentFrame
  <2> QED BY <2>2 DEF Frames, OneSignal
<1>3. /\ shutdown' = [shutdown EXCEPT ![s] = TRUE]
      /\ sent' = [sent EXCEPT ![s] = @ \/ a \in Threads]
      /\ gate' = gate
  BY DEF SetShutdown
<1>4. SentTypes'
  BY <1>3, <1>2 DEF SInv, SentTypes
<1>5. sent'[Global]
  <2>1. CASE a \in Threads
    BY <1>2, <1>3, <2>1 DEF SInv, SentTypes
  <2>2. CASE a \in Workers
    <3>1. HasSeenGate(calls, a)
      <4>1. IInv /\ ~SeeGateOpen(a)
        BY DEF SInv, SetShutdown, SeeGateOpen, IsAt
      <4> QED BY <1>1, <2>2, <4>1, LeavesGate DEF HasSeenGate
    <3>2. sent[Global]
      BY <2>2, <3>1 DEF SInv, SentOK
    <3> QED BY <1>2, <1>3, <3>2 DEF SInv, SentTypes
  <2> QED BY <2>1, <2>2 DEF Actors
<1>6. \A r \in Signals : sent'[r]
  BY <1>5 DEF OneSignal
<1>7. \A r \in Signals : gate'[r] = 0 => gate[r] = 0 \/ sent'[r]
  BY <1>6
<1> QED BY <1>4, <1>5, <1>6, OnRequest

LEMMA AsksForShutdown ==
  ASSUME OneSignal, SInv, NEW t \in Threads, SendAsync(t)
  PROVE  SentTypes' /\ SentOK'
<1> DEFINE s == CurrentCall(t).s
<1>1. t \in Actors /\ LibraryStep(t)
  BY DEF LibraryStep, ThreadStep, Actors
<1>2. s = Global /\ s \in Signals
  <2>1. calls[t] # <<>> /\ IInv
    BY DEF SendAsync, IsAt, SInv
  <2>2. CurrentCall(t) \in Frames
    BY <1>1, <2>1, CurrentFrame
  <2> QED BY <2>2 DEF Frames, OneSignal
<1>3. /\ gate' = [gate EXCEPT ![s] = 0]
      /\ sent' = [sent EXCEPT ![s] = TRUE]
      /\ shutdown' = shutdown
  BY DEF SendAsync
<1>4. SentTypes'
  BY <1>2, <1>3 DEF SInv, SentTypes
<1>5. \A r \in Signals : sent'[r]
  BY <1>2, <1>3 DEF SInv, SentTypes, OneSignal
<1> QED BY <1>4, <1>5, OnRequest, ShutdownAssumption

(* A shutdown thread that starts, and one that ends, closes its gate.        *)
LEMMA StartsClosed ==
  ASSUME OneSignal, SInv, NEW t \in Threads, RegisterThread(t)
  PROVE  SentTypes' /\ SentOK'
<1>1. t \in Actors /\ LibraryStep(t)
  BY DEF LibraryStep, ThreadStep, Actors
<1>2. UNCHANGED <<shutdown, sent>>
  BY DEF RegisterThread
<1>3. gate' = gate \/ gate' = [gate EXCEPT ![CurrentCall(t).s] = 1]
  BY DEF RegisterThread, StartWorker
<1>4. /\ gate' \in [Signals -> {0, 1}]
      /\ \A s \in Signals : gate'[s] = 0 => gate[s] = 0
  BY <1>3 DEF SInv, SentTypes
<1> QED BY <1>1, <1>2, <1>4, AsksNothing

LEMMA EndsClosed ==
  ASSUME OneSignal, SInv, NEW w \in Workers, WorkerStep(w)
  PROVE  SentTypes' /\ SentOK'
<1>1. w \in Actors /\ LibraryStep(w)
  BY DEF LibraryStep, Actors
<1>2. UNCHANGED <<shutdown, sent>>
  BY DEF WorkerStep, SeeGateOpen, WorkerFinishes, flagVars, ghosts
<1>3. gate' = gate \/ gate' = [gate EXCEPT ![CurrentCall(w).s] = 1]
  BY DEF WorkerStep, SeeGateOpen, WorkerFinishes, flagVars
<1>4. /\ gate' \in [Signals -> {0, 1}]
      /\ \A s \in Signals : gate'[s] = 0 => gate[s] = 0
  BY <1>3 DEF SInv, SentTypes
<1> QED BY <1>1, <1>2, <1>4, AsksNothing

LEMMA LibraryAsks ==
  ASSUME OneSignal, SInv, NEW a \in Actors, LibraryStep(a)
  PROVE  SentTypes' /\ SentOK'
<1>1. CASE UNCHANGED <<shutdown, sent, gate>>
  BY <1>1, AsksNothing DEF SInv, SentTypes
<1>2. CASE Locks(a) \/ UseAfterFree(a)
  BY <1>1, <1>2 DEF Locks, UseAfterFree, UndefinedBehaviour, flagVars, ghosts
<1>3. CASE SendBlockStep(a)
  <2>1. CASE SetShutdown(a)
    BY <2>1, SetsFlagOnRequest
  <2>2. CASE AlreadySent(a) \/ NotYetSent(a) \/ CallCallbacks(a) \/ Poll(a) \/ Sleep(a)
    BY <1>1, <2>2
       DEF AlreadySent, NotYetSent, CallCallbacks, Poll, Sleep, flagVars, ghosts
  <2>3. CASE FreesCallbacks(a) \/ FreesThreadlist(a)
    BY <1>1, <2>3, Freeing DEF flagVars, ghosts
  <2> QED BY <1>3, <2>1, <2>2, <2>3 DEF SendBlockStep, FreesCallbacks, FreesThreadlist
<1>4. CASE a \in Threads /\ ThreadStep(a)
  <2>1. CASE ConfirmShutdown(a) \/ RegisterCb(a) \/ UnregisterCb(a)
    BY <1>1, <2>1 DEF ConfirmShutdown, RegisterCb, UnregisterCb, flagVars
  <2> QED BY <1>4, <2>1, StartsClosed, AsksForShutdown DEF ThreadStep
<1>5. CASE a \in Workers /\ WorkerStep(a)
  BY <1>5, EndsClosed
<1> QED BY <1>2, <1>3, <1>4, <1>5 DEF LibraryStep

(* Steps that are not the library's: a call, an OS signal, the clock.        *)
LEMMA OutsideAsksNothing ==
  ASSUME SInv, UNCHANGED <<shutdown, sent, gate>>,
         \A w \in Workers : HasSeenGate(calls', w) => HasSeenGate(calls, w)
  PROVE  SentTypes' /\ SentOK'
<1>1. SentTypes'
  BY DEF SInv, SentTypes
<1> QED BY <1>1, OnRequest

(* Only a frame of send_block tells the time, and that of a shutdown thread  *)
(* is not its first one.                                                     *)
LEMMA ClockPassesNoGate ==
  ASSUME SInv, Tick \/ SetClock, NEW w \in Workers, HasSeenGate(calls', w)
  PROVE  HasSeenGate(calls, w)
<1> DEFINE n == Len(calls[w])
<1>1. w \in Actors /\ calls[w] \in Seq(Frames)
  BY DEF Actors, SInv, IInv, CallsOK
<1>2. CASE calls'[w] = calls[w]
  BY <1>2 DEF HasSeenGate
<1>3. CASE Waiting(w)
  <2>1. calls[w] # <<>> /\ CurrentCall(w).op = "send_block"
    BY <1>3 DEF Waiting, IsAt
  <2>2. n \in Nat \ {0} /\ n <= 2 /\ n # 1
    BY <1>1, <2>1 DEF SInv, IInv, WorkersOK, CurrentCall
  <2>3. n = 2
    <3> HIDE DEF n
    <3> QED BY <2>2
  <2>4. calls[w][1].at = "sending"
    BY <2>3 DEF SInv, IInv, WorkersOK
  <2> QED BY <2>1, <2>4 DEF HasSeenGate
<1>4. ~Waiting(w) => calls'[w] = calls[w]
  BY <1>1 DEF Tick, SetClock, Awaits
<1> QED BY <1>2, <1>3, <1>4

LEMMA SentStep ==
  ASSUME OneSignal, SInv, [Next]_vars
  PROVE  SInv'
<1> SUFFICES SentTypes' /\ SentOK'
  BY NextStep DEF SInv
<1> USE ShutdownAssumption DEF flagVars, ghosts
<1>1. ASSUME NEW t \in Threads, UNCHANGED <<shutdown, sent, gate>>,
             \E q : calls' = [calls EXCEPT ![t] = q]
      PROVE  SentTypes' /\ SentOK'
  <2>1. \A w \in Workers : calls'[w] = calls[w]
    BY <1>1 DEF SInv, IInv, CallsOK, Actors
  <2> QED BY <1>1, <2>1, OutsideAsksNothing DEF HasSeenGate
<1>2. ASSUME NEW t \in Threads, NEW s \in Signals, ThreadCalls(t, s)
      PROVE  SentTypes' /\ SentOK'
  <2>1. UNCHANGED <<shutdown, sent, gate>> /\ \E q : calls' = [calls EXCEPT ![t] = q]
    BY <1>2 DEF ThreadCalls, CallRegisterThread, CallConfirm, CallRegisterCb, CallUnregisterCb,
                CallSendAsync, CallSendBlock, Call
  <2> QED BY <1>1, <2>1
<1>3. ASSUME NEW t \in Threads, OsSignal(t)
      PROVE  SentTypes' /\ SentOK'
  <2>1. UNCHANGED <<shutdown, sent, gate>> /\ \E q : calls' = [calls EXCEPT ![t] = q]
    BY <1>3 DEF OsSignal, SInv, IInv, CallsOK, Actors
  <2> QED BY <1>1, <2>1
<1>4. CASE Tick \/ SetClock
  <2>1. UNCHANGED <<shutdown, sent, gate>>
    BY <1>4 DEF Tick, SetClock
  <2> QED BY <1>4, <2>1, ClockPassesNoGate, OutsideAsksNothing
<1>5. CASE Stutter \/ UNCHANGED vars
  <2>1. UNCHANGED <<shutdown, sent, gate, calls>>
    BY <1>5 DEF Stutter, vars
  <2> QED BY <2>1, OutsideAsksNothing DEF HasSeenGate
<1> QED BY <1>2, <1>3, <1>4, <1>5, LibraryAsks DEF Next

LEMMA SentInit ==
  ASSUME Init
  PROVE  SInv
<1>1. SentTypes
  BY DEF Init, SentTypes
<1>2. SentOK
  BY DEF Init, SentOK, HasSeenGate, Actors
<1> QED BY <1>1, <1>2, InitOK DEF SInv

(* In a process with one shutdown signal the flag is set only after somebody *)
(* asked for it, by send_block or by send_async: a shutdown thread, also one *)
(* started anew after another has ended, sends nothing of its own accord.    *)
THEOREM FlagSetOnRequest ==
  ASSUME OneSignal
  PROVE  Spec => []ShutdownWasSent
<1>1. Init => SInv
  BY SentInit
<1>2. SInv /\ [Next]_vars => SInv'
  BY SentStep
<1>3. SInv => ShutdownWasSent
  BY DEF SInv, SentOK, ShutdownWasSent
<1> QED BY <1>1, <1>2, <1>3, PTL DEF Spec
-----------------------------------------------------------------------------
(* Lists                                                                    *)

NoRepeats(q) == \A i, j \in 1 .. Len(q) : q[i] = q[j] => i = j
Increasing(q) == \A i, j \in 1 .. Len(q) : i < j => q[i] < q[j]

(* The place of x in q is p, or x is not in q and p is 0.                    *)
PlaceOf(q, x, p) == p \in 0 .. Len(q) /\ \A j \in 1 .. Len(q) : q[j] = x <=> j = p

(* How far the k-th entry is shifted when x is taken out.                    *)
Shift(q, x, k) == Cardinality({j \in 1 .. k : q[j] = x})

LEMMA ShiftIs ==
  ASSUME NEW S, NEW q \in Seq(S), NEW x, NEW p, PlaceOf(q, x, p), NEW k \in 0 .. Len(q)
  PROVE  Shift(q, x, k) = IF p \in 1 .. k THEN 1 ELSE 0
<1>0. \A j \in 1 .. k : q[j] = x <=> j = p
  BY DEF PlaceOf
<1>1. CASE p \in 1 .. k
  <2>1. {j \in 1 .. k : q[j] = x} = {p}
    BY <1>0, <1>1
  <2> QED BY <1>1, <2>1, FS_Singleton DEF Shift
<1>2. CASE p \notin 1 .. k
  <2>1. {j \in 1 .. k : q[j] = x} = {}
    BY <1>0, <1>2
  <2> QED BY <1>2, <2>1, FS_EmptySet DEF Shift
<1> QED BY <1>1, <1>2

(* Without takes x out and moves up what comes after it.                     *)
TakenOut(q, p) ==
  IF p = 0 THEN q
  ELSE [i \in 1 .. Len(q) - 1 |-> IF i < p THEN q[i] ELSE q[i + 1]]

LEMMA WithoutIs ==
  ASSUME NEW S, NEW q \in Seq(S), NEW x, NEW p, PlaceOf(q, x, p)
  PROVE  Without(q, x) = TakenOut(q, p)
<1> DEFINE n == Len(q)
           shift(k) == Shift(q, x, k)
           moves(i) == CHOOSE k \in 1 .. n : q[k] # x /\ k - shift(k) = i
           m == n - (IF p = 0 THEN 0 ELSE 1)
           at(i) == IF p = 0 \/ i < p THEN i ELSE i + 1
<1>1. n \in Nat /\ p \in 0 .. n /\ \A j \in 1 .. n : q[j] = x <=> j = p
  BY DEF PlaceOf
<1>2. \A k \in 0 .. n : shift(k) = IF p \in 1 .. k THEN 1 ELSE 0
  BY ShiftIs
<1>3. shift(n) = IF p = 0 THEN 0 ELSE 1
  BY <1>1, <1>2
<1>4. Without(q, x) = [i \in 1 .. n - shift(n) |-> q[moves(i)]]
  BY DEF Without, Shift
<1> HIDE DEF shift
<1>5. \A i \in 1 .. m : moves(i) = at(i) /\ i \in Nat
  <2> SUFFICES ASSUME NEW i \in 1 .. m
               PROVE  moves(i) = at(i) /\ i \in Nat
    OBVIOUS
  <2>0. m \in Nat /\ i \in Nat
    BY <1>1
  <2>1. at(i) \in 1 .. n /\ at(i) # p
    BY <1>1
  <2>2. q[at(i)] # x /\ at(i) - shift(at(i)) = i
    <3>1. q[at(i)] # x
      BY <1>1, <2>1
    <3>2. shift(at(i)) = IF p \in 1 .. at(i) THEN 1 ELSE 0
      BY <1>1, <1>2, <2>1
    <3> QED BY <1>1, <2>0, <3>1, <3>2
  <2>3. \A k \in 1 .. n : q[k] # x /\ k - shift(k) = i => k = at(i)
    <3> SUFFICES ASSUME NEW k \in 1 .. n, q[k] # x, k - shift(k) = i
                 PROVE  k = at(i)
      OBVIOUS
    <3>1. k # p /\ k - (IF p \in 1 .. k THEN 1 ELSE 0) = i
      BY <1>1, <1>2
    <3> QED BY <1>1, <3>1
  <2> HIDE DEF at, n
  <2> QED BY <2>0, <2>1, <2>2, <2>3
<1> HIDE DEF moves
<1>6. Without(q, x) = [i \in 1 .. m |-> q[at(i)]]
  BY <1>3, <1>4, <1>5
<1>7. CASE p = 0
  BY <1>1, <1>6, <1>7 DEF TakenOut
<1>8. CASE p # 0
  BY <1>1, <1>6, <1>8 DEF TakenOut
<1> QED BY <1>7, <1>8

LEMMA HasPlace ==
  ASSUME NEW q, NoRepeats(q), NEW x, Len(q) \in Nat
  PROVE  \E p : PlaceOf(q, x, p)
<1>1. CASE \E j \in 1 .. Len(q) : q[j] = x
  BY <1>1 DEF PlaceOf, NoRepeats
<1>2. CASE ~ \E j \in 1 .. Len(q) : q[j] = x
  <2>1. PlaceOf(q, x, 0)
    BY <1>2 DEF PlaceOf
  <2> QED BY <2>1
<1> QED BY <1>1, <1>2

(* The loops of confirm_shutdown and unregister_cb take x out of the list    *)
(* and nothing else, and keep the order.                                     *)
LEMMA WithoutKeeps ==
  ASSUME NEW S, NEW q \in Seq(S), NoRepeats(q), NEW x
  PROVE  /\ Without(q, x) \in Seq(S) /\ Len(Without(q, x)) <= Len(q)
         /\ NoRepeats(Without(q, x))
         /\ ToSet(Without(q, x)) = ToSet(q) \ {x}
         /\ Increasing(q) => Increasing(Without(q, x))
<1> DEFINE n == Len(q)
<1>0. n \in Nat /\ \A i \in 1 .. n : q[i] \in S
  OBVIOUS
<1>1. PICK p : PlaceOf(q, x, p)
  BY <1>0, HasPlace
<1>2. p \in 0 .. n /\ \A j \in 1 .. n : q[j] = x <=> j = p
  BY <1>1 DEF PlaceOf
<1>3. Without(q, x) = TakenOut(q, p)
  BY <1>1, WithoutIs
<1>4. CASE p = 0
  <2>1. Without(q, x) = q
    BY <1>3, <1>4 DEF TakenOut
  <2>2. x \notin ToSet(q)
    BY <1>2, <1>4 DEF ToSet
  <2> QED BY <2>1, <2>2
<1>5. CASE p # 0
  <2> DEFINE r == [i \in 1 .. n - 1 |-> IF i < p THEN q[i] ELSE q[i + 1]]
  <2>1. Without(q, x) = r
    BY <1>3, <1>5 DEF TakenOut
  <2>2. n - 1 \in Nat /\ \A i \in 1 .. n - 1 : i \in 1 .. n /\ i + 1 \in 1 .. n
    BY <1>0, <1>2, <1>5
  <2>3. r \in Seq(S) /\ Len(r) = n - 1
    <3>1. r \in [1 .. n - 1 -> S]
      BY <1>0, <2>2
    <3> HIDE DEF r
    <3> QED BY <2>2, <3>1
  <2>4. \A i \in 1 .. n - 1 : r[i] = IF i < p THEN q[i] ELSE q[i + 1]
    OBVIOUS
  <2> HIDE DEF r
  <2>5. NoRepeats(r)
    BY <1>0, <1>2, <2>2, <2>3, <2>4 DEF NoRepeats
  <2>6. ToSet(r) = ToSet(q) \ {x}
    <3>1. \A i \in 1 .. n - 1 : r[i] \in ToSet(q) \ {x}
      BY <1>0, <1>2, <2>2, <2>4 DEF ToSet
    <3>2. ASSUME NEW j \in 1 .. n, q[j] # x
          PROVE  \E i \in 1 .. n - 1 : r[i] = q[j]
      <4>1. CASE j < p
        BY <1>0, <1>2, <2>4, <4>1
      <4>2. CASE j > p
        <5>1. j - 1 \in 1 .. n - 1 /\ ~(j - 1 < p) /\ (j - 1) + 1 = j
          BY <1>0, <1>2, <1>5, <4>2
        <5>2. r[j - 1] = q[(j - 1) + 1]
          BY <2>4, <5>1
        <5> QED BY <5>1, <5>2
      <4> QED BY <1>0, <1>2, <3>2, <4>1, <4>2
    <3>3. DOMAIN r = 1 .. n - 1 /\ DOMAIN q = 1 .. n
      BY <2>3
    <3> QED BY <3>1, <3>2, <3>3 DEF ToSet
  <2>7. ASSUME Increasing(q)
        PROVE  Increasing(r)
    <3> SUFFICES ASSUME NEW i \in 1 .. n - 1, NEW j \in 1 .. n - 1, i < j
                 PROVE  r[i] < r[j]
      BY <2>3 DEF Increasing
    <3>1. \A k, l \in 1 .. n : k < l => q[k] < q[l]
      BY <2>7 DEF Increasing
    <3>2. CASE i < p /\ j < p
      BY <2>2, <2>4, <3>1, <3>2
    <3>3. CASE i < p /\ ~(j < p)
      <4>1. i < j + 1
        BY <1>0
      <4> QED BY <2>2, <2>4, <3>1, <3>3, <4>1
    <3>4. CASE ~(i < p)
      <4>1. ~(j < p) /\ i + 1 < j + 1
        BY <1>0, <1>2, <3>4
      <4> QED BY <2>2, <2>4, <3>1, <3>4, <4>1
    <3> QED BY <3>2, <3>3, <3>4
  <2> QED BY <1>0, <2>1, <2>3, <2>5, <2>6, <2>7
<1> QED BY <1>2, <1>4, <1>5

LEMMA AppendKeeps ==
  ASSUME NEW S, NEW q \in Seq(S), NEW x \in S
  PROVE  /\ Append(q, x) \in Seq(S) /\ Len(Append(q, x)) = Len(q) + 1
         /\ ToSet(Append(q, x)) = ToSet(q) \cup {x}
         /\ NoRepeats(q) /\ x \notin ToSet(q) => NoRepeats(Append(q, x))
         /\ Increasing(q) /\ (\A y \in ToSet(q) : y < x) => Increasing(Append(q, x))
<1> DEFINE n == Len(q)
           r == Append(q, x)
<1>1. n \in Nat /\ \A i \in 1 .. n : q[i] \in S /\ q[i] \in ToSet(q)
  BY DEF ToSet
<1>2. r \in Seq(S) /\ Len(r) = n + 1
  OBVIOUS
<1>3. \A i \in 1 .. n + 1 : r[i] = IF i = n + 1 THEN x ELSE q[i]
  OBVIOUS
<1> HIDE DEF r
<1>4. ToSet(r) = ToSet(q) \cup {x}
  <2>1. DOMAIN r = 1 .. n + 1 /\ DOMAIN q = 1 .. n
    BY <1>2
  <2>2. \A i \in 1 .. n + 1 : r[i] \in ToSet(q) \cup {x}
    BY <1>1, <1>3
  <2>3. \A i \in 1 .. n : r[i] = q[i] /\ i \in 1 .. n + 1
    BY <1>1, <1>3
  <2>4. r[n + 1] = x /\ n + 1 \in 1 .. n + 1
    BY <1>1, <1>3
  <2> QED BY <2>1, <2>2, <2>3, <2>4 DEF ToSet
<1>5. ASSUME NoRepeats(q), x \notin ToSet(q)
      PROVE  NoRepeats(r)
  BY <1>1, <1>2, <1>3, <1>5 DEF NoRepeats
<1>6. ASSUME Increasing(q), \A y \in ToSet(q) : y < x
      PROVE  Increasing(r)
  BY <1>1, <1>2, <1>3, <1>6 DEF Increasing
<1> QED BY <1>2, <1>4, <1>5, <1>6 DEF r

LEMMA AppendNumber ==
  ASSUME NEW q \in Seq(Nat), NEW x \in Nat
  PROVE  /\ Append(q, x) \in Seq(Nat) /\ Len(Append(q, x)) = Len(q) + 1
         /\ ToSet(Append(q, x)) = ToSet(q) \cup {x}
         /\ Increasing(q) /\ (\A y \in ToSet(q) : y < x) => Increasing(Append(q, x))
<1> DEFINE S == Nat
<1>1. q \in Seq(S) /\ x \in S
  OBVIOUS
<1> HIDE DEF S
<1>2. /\ Append(q, x) \in Seq(S) /\ Len(Append(q, x)) = Len(q) + 1
      /\ ToSet(Append(q, x)) = ToSet(q) \cup {x}
      /\ Increasing(q) /\ (\A y \in ToSet(q) : y < x) => Increasing(Append(q, x))
  BY <1>1, AppendKeeps
<1> QED BY <1>2 DEF S

LEMMA LenIsCardinality ==
  ASSUME NEW S, NEW q \in Seq(S), NoRepeats(q)
  PROVE  IsFiniteSet(ToSet(q)) /\ Cardinality(ToSet(q)) = Len(q)
<1> DEFINE n == Len(q)
<1>1. n \in Nat /\ DOMAIN q = 1 .. n /\ q \in [1 .. n -> S]
  OBVIOUS
<1>2. q \in Bijection(1 .. n, ToSet(q))
  BY <1>1 DEF Bijection, Injection, Surjection, IsInjective, ToSet, NoRepeats
<1>3. ExistsBijection(1 .. n, ToSet(q))
  BY <1>2 DEF ExistsBijection
<1>4. IsFiniteSet(1 .. n) /\ Cardinality(1 .. n) = n
  BY <1>1, FS_Interval
<1> QED BY <1>3, <1>4, FS_Bijection
-----------------------------------------------------------------------------
(* What a step may do to lists, flags and the process                      *)

Shared == <<listVars, flagVars, status, ghosts>>

(* The steps of send_block that change something other than its own call.    *)
SenderStep(a) ==
  \/ SetShutdown(a) \/ CallCallbacks(a)
  \/ FreesCallbacks(a) \/ FreesThreadlist(a)

LEMMA StepKinds ==
  ASSUME [Next]_vars
  PROVE  \/ UNCHANGED Shared
         \/ \E t \in Threads : ThreadStep(t)
         \/ \E a \in Actors : SenderStep(a) \/ UseAfterFree(a)
         \/ \E w \in Workers : WorkerFinishes(w)
<1> USE DEF Shared, envVars
<1>1. CASE Tick \/ SetClock \/ Stutter \/ UNCHANGED vars
  BY <1>1 DEF Tick, SetClock, Stutter, vars
<1>2. CASE \E t \in Threads, s \in Signals : ThreadCalls(t, s)
  BY <1>2 DEF ThreadCalls, CallRegisterThread, CallConfirm, CallRegisterCb, CallUnregisterCb,
              CallSendAsync, CallSendBlock, Call
<1>3. CASE \E t \in Threads : OsSignal(t)
  BY <1>3 DEF OsSignal
<1>4. ASSUME NEW a \in Actors, LibraryStep(a), ~SenderStep(a), ~UseAfterFree(a),
             ~(a \in Threads /\ ThreadStep(a)), ~(a \in Workers /\ WorkerFinishes(a))
      PROVE  UNCHANGED Shared
  <2>1. CASE Locks(a)
    BY <2>1 DEF Locks
  <2>2. CASE SendBlockStep(a)
    BY <1>4, <2>2 DEF SendBlockStep, SenderStep, FreesCallbacks, FreesThreadlist, AlreadySent,
                      NotYetSent, Poll, Sleep
  <2>3. CASE a \in Workers /\ SeeGateOpen(a)
    BY <2>3 DEF SeeGateOpen
  <2> QED BY <1>4, <2>1, <2>2, <2>3 DEF LibraryStep, WorkerStep
<1> QED BY <1>1, <1>2, <1>3, <1>4 DEF Next

(* The signal a call is about, and the calls of the types.                   *)
LEMMA CurrentSignal ==
  ASSUME IInv, NEW a \in Actors, calls[a] # <<>>
  PROVE  CurrentCall(a).s \in Signals
BY CurrentFrame DEF Frames

-----------------------------------------------------------------------------
(* Types, and what the calls in progress know                               *)

Memories == {"null", "live", "freed"}
Statuses == {"running", "undefined"} \cup {Exited[how] : how \in DOMAIN Exited}

FlagsOK ==
  /\ shutdown \in [Signals -> BOOLEAN] /\ exit_flag \in [Signals -> BOOLEAN]
  /\ sent \in [Signals -> BOOLEAN] /\ gate \in [Signals -> {0, 1}]
  /\ alive \in [Signals -> SUBSET Threads] /\ pending \in [Signals -> SUBSET Threads]
  /\ status \in Statuses

ThreadlistsOK ==
  /\ threadlist \in [Signals -> Seq(Threads)]
  /\ tl_mem \in [Signals -> Memories] /\ tl_alloc \in [Signals -> Nat]
  /\ \A s \in Signals : NoRepeats(threadlist[s])

CallbacksOK ==
  /\ callbacks \in [Signals -> Seq(Nat)]
  /\ cb_mem \in [Signals -> Memories] /\ cb_alloc \in [Signals -> Nat]
  /\ \A s \in Signals :
       /\ Increasing(callbacks[s])
       /\ ToSet(callbacks[s]) \subseteq 1 .. last_id[s]

(* send_block passes on only what it is allowed to: beyond setting the flag, *)
(* and so while it resets the lists, the flag is set.                        *)
Knows(f, flags) ==
  /\ f.op = "send_async" => f.arg \in BOOLEAN
  /\ f.op = "worker" /\ f.at \in {"lock", "body"} => f.arg \in DOMAIN Exited
  /\ f.op = "send_block" /\ f.at \notin {"check", "set"} => flags[f.s]
  /\ f.at \in {"reset_cb", "reset_tl"} => flags[f.s]

(* No list is longer than its memory, but for one whose allocation a send    *)
(* has just set to 0.                                                        *)
ThreadsFit(s) == Len(threadlist[s]) <= tl_alloc[s]
CallbacksFit(s) == Len(callbacks[s]) <= cb_alloc[s]

RoomOK ==
  \A s \in Signals :
    /\ ThreadsFit(s) \/ HalfReset(s, "reset_tl")
    /\ CallbacksFit(s) \/ HalfReset(s, "reset_cb")

FramesOK == \A a \in Actors : \A k \in 1 .. Len(calls[a]) : Knows(calls[a][k], shutdown)

LInv == IInv /\ FlagsOK /\ ThreadlistsOK /\ CallbacksOK /\ FramesOK /\ RoomOK

LEMMA FlagStays ==
  ASSUME LInv, [Next]_vars, NEW s \in Signals, shutdown[s]
  PROVE  shutdown'[s]
<1> USE DEF LInv, FlagsOK
<1>1. CASE UNCHANGED Shared
  BY <1>1 DEF Shared, flagVars
<1>2. CASE \E t \in Threads : ThreadStep(t)
  BY <1>2 DEF ThreadStep, RegisterThread, ConfirmShutdown, RegisterCb, UnregisterCb, SendAsync,
              flagVars
<1>3. CASE \E a \in Actors : SenderStep(a) \/ UseAfterFree(a)
  BY <1>3, Freeing DEF SenderStep, SetShutdown, CallCallbacks, UseAfterFree, UndefinedBehaviour,
                       flagVars
<1>4. CASE \E w \in Workers : WorkerFinishes(w)
  BY <1>4 DEF WorkerFinishes
<1> QED BY <1>1, <1>2, <1>3, <1>4, StepKinds

LEMMA MovesKnow ==
  ASSUME NEW f \in Frames, NEW g, Moves(f, g), shutdown \in [Signals -> BOOLEAN],
         Knows(f, shutdown), \A s \in Signals : shutdown[s] => shutdown'[s]
  PROVE  Knows(g, shutdown')
<1> USE DEF Knows, Frames
<1>1. CASE g = f \/ (Tick /\ g = [f EXCEPT !.waited = @ + 1])
                \/ \E jump : g = [f EXCEPT !.drift = @ + jump]
  BY <1>1
<1>2. CASE f.at = "lock" /\ g = [f EXCEPT !.at = "body"]
  BY <1>2
<1>3. CASE f.op = "send_block" /\ SendBlockMoves(f, g)
  <2>1. g.op = "send_block" /\ g.s = f.s
    BY <1>3 DEF SendBlockMoves
  <2>2. CASE f.at = "check"
    BY <1>3, <2>1, <2>2 DEF SendBlockMoves
  <2>3. CASE f.at = "set"
    BY <1>3, <2>1, <2>3 DEF SendBlockMoves
  <2>4. CASE f.at \notin {"check", "set"}
    BY <1>3, <2>1, <2>4
  <2> QED BY <2>2, <2>3, <2>4
<1>4. CASE f.op = "worker" /\ WorkerMoves(f, g)
  BY <1>4 DEF WorkerMoves
<1> QED BY <1>1, <1>2, <1>3, <1>4 DEF Moves

LEMMA FramesStep ==
  ASSUME LInv, [Next]_vars
  PROVE  FramesOK'
<1> SUFFICES ASSUME NEW a \in Actors, NEW k \in 1 .. Len(calls'[a])
             PROVE  Knows(calls'[a][k], shutdown')
  BY DEF FramesOK
<1>1. ComesFrom(a, k)
  BY StepTraced DEF Traced, LInv
<1>2. CASE k \in 1 .. Len(calls[a]) /\ Moves(calls[a][k], calls'[a][k])
  <2>1. calls[a][k] \in Frames /\ Knows(calls[a][k], shutdown)
    BY <1>2 DEF LInv, IInv, CallsOK, FramesOK
  <2>2. shutdown \in [Signals -> BOOLEAN] /\ \A s \in Signals : shutdown[s] => shutdown'[s]
    BY FlagStays DEF LInv, FlagsOK
  <2> QED BY <1>2, <2>1, <2>2, MovesKnow
<1>3. CASE Begins(a, calls'[a][k])
  BY <1>3 DEF Begins, Knows
<1> QED BY <1>1, <1>2, <1>3 DEF ComesFrom

LEMMA FlagsStep ==
  ASSUME LInv, [Next]_vars
  PROVE  FlagsOK'
<1> USE DEF LInv, FlagsOK
<1>1. CASE UNCHANGED Shared
  BY <1>1 DEF Shared, flagVars, ghosts
<1>2. ASSUME NEW t \in Threads, ThreadStep(t)
      PROVE  FlagsOK'
  <2>1. t \in Actors /\ calls[t] # <<>> /\ UNCHANGED <<shutdown, status>>
    BY <1>2 DEF ThreadStep, RegisterThread, ConfirmShutdown, RegisterCb, UnregisterCb, SendAsync,
                IsAt, flagVars, envVars, Actors
  <2>2. CurrentCall(t).s \in Signals
    BY <2>1, CurrentSignal
  <2>3. CASE RegisterThread(t)
    BY <2>1, <2>2, <2>3 DEF RegisterThread, StartWorker
  <2>4. CASE ConfirmShutdown(t)
    BY <2>1, <2>2, <2>4 DEF ConfirmShutdown, flagVars
  <2>5. CASE RegisterCb(t) \/ UnregisterCb(t)
    BY <2>1, <2>5 DEF RegisterCb, UnregisterCb, flagVars
  <2>6. CASE SendAsync(t)
    <3>1. CurrentCall(t).arg \in BOOLEAN
      <4>1. Len(calls[t]) \in 1 .. Len(calls[t])
        BY <2>1, CurrentFrame
      <4> QED BY <2>1, <2>6, <4>1 DEF FramesOK, Knows, CurrentCall, SendAsync, IsAt
    <3> QED BY <2>1, <2>2, <2>6, <3>1 DEF SendAsync
  <2> QED BY <1>2, <2>3, <2>4, <2>5, <2>6 DEF ThreadStep
<1>3. ASSUME NEW a \in Actors, SenderStep(a)
      PROVE  FlagsOK'
  <2>1. CASE SetShutdown(a)
    <3>1. calls[a] # <<>>
      BY <2>1 DEF SetShutdown, IsAt
    <3>2. CurrentCall(a).s \in Signals
      BY <3>1, CurrentSignal
    <3> QED BY <2>1, <3>2 DEF SetShutdown, envVars
  <2>2. CASE ~SetShutdown(a)
    BY <1>3, <2>2, Freeing DEF SenderStep, CallCallbacks, flagVars, envVars, ghosts
  <2> QED BY <2>1, <2>2
<1>4. ASSUME NEW a \in Actors, UseAfterFree(a)
      PROVE  FlagsOK'
  BY <1>4 DEF UseAfterFree, UndefinedBehaviour, flagVars, ghosts, Statuses
<1>5. ASSUME NEW w \in Workers, WorkerFinishes(w)
      PROVE  FlagsOK'
  <2>1. w \in Actors /\ calls[w] # <<>>
    BY <1>5 DEF WorkerFinishes, IsAt, Actors
  <2>2. CurrentCall(w).s \in Signals /\ Len(calls[w]) \in 1 .. Len(calls[w])
    BY <2>1, CurrentFrame, CurrentSignal
  <2>3. CurrentCall(w).arg \in DOMAIN Exited
    BY <1>5, <2>1, <2>2 DEF FramesOK, Knows, CurrentCall, WorkerFinishes, IsAt
  <2>4. status' \in Statuses
    BY <1>5, <2>3 DEF WorkerFinishes, Statuses
  <2> QED BY <1>5, <2>2, <2>4 DEF WorkerFinishes, ghosts
<1> QED BY <1>1, <1>2, <1>3, <1>4, <1>5, StepKinds

(* What is written next is inside the list when there is room for it, and    *)
(* there is when the list fits its memory and an empty one has none.         *)
LEMMA Grows ==
  ASSUME NEW S, NEW q \in Seq(S), NEW alloc \in Nat, NEW mem
  PROVE  /\ GrownAlloc(Len(q), alloc) \in Nat
         /\ HasRoom(mem, q, alloc) => Len(q) + 1 <= GrownAlloc(Len(q), alloc)
         /\ Len(q) <= alloc /\ (mem = "null" => alloc = 0) => HasRoom(mem, q, alloc)
<1> DEFINE n == Len(q)
<1>1. n \in Nat
  OBVIOUS
<1> HIDE DEF n
<1>2. /\ GrownAlloc(n, alloc) \in Nat
      /\ n < GrownAlloc(n, alloc) => n + 1 <= GrownAlloc(n, alloc)
      /\ n <= alloc => n < GrownAlloc(n, alloc)
      /\ n = alloc => GrownAlloc(n, alloc) # alloc
  BY <1>1, ShutdownAssumption DEF GrownAlloc
<1>3. n <= alloc /\ alloc = 0 => n = alloc
  BY <1>1
<1> QED BY <1>2, <1>3 DEF n, HasRoom

LEMMA ThreadlistsStep ==
  ASSUME LInv, [Next]_vars
  PROVE  ThreadlistsOK'
<1> USE DEF LInv, ThreadlistsOK, Memories
<1>1. CASE UNCHANGED <<threadlist, tl_mem, tl_alloc>>
  BY <1>1
<1>2. ASSUME NEW t \in Threads, RegisterThread(t)
      PROVE  ThreadlistsOK'
  <2> DEFINE s == CurrentCall(t).s
  <2>1. s \in Signals
    <3>1. t \in Actors /\ calls[t] # <<>>
      BY <1>2 DEF RegisterThread, IsAt, Actors
    <3> QED BY <3>1, CurrentSignal
  <2> HIDE DEF s
  <2>2. CASE UNCHANGED <<threadlist, tl_mem, tl_alloc>>
    BY <1>1, <2>2
  <2>3. CASE /\ t \notin ToSet(threadlist[s])
             /\ tl_alloc' = [tl_alloc EXCEPT ![s] = GrownAlloc(Len(threadlist[s]), @)]
             /\ tl_mem' = [tl_mem EXCEPT ![s] = "live"]
             /\ threadlist' = [threadlist EXCEPT ![s] = Append(@, t)]
    <3> DEFINE q == Append(threadlist[s], t)
               n == GrownAlloc(Len(threadlist[s]), tl_alloc[s])
    <3>1. q \in Seq(Threads) /\ NoRepeats(q)
      BY <2>1, <2>3, AppendKeeps
    <3>2. n \in Nat
      BY <2>1, Grows
    <3>3. /\ threadlist' = [threadlist EXCEPT ![s] = q]
          /\ tl_alloc' = [tl_alloc EXCEPT ![s] = n]
          /\ tl_mem' = [tl_mem EXCEPT ![s] = "live"]
      BY <2>1, <2>3
    <3> HIDE DEF q, n
    <3> QED BY <2>1, <3>1, <3>2, <3>3
  <2> QED BY <1>2, <2>2, <2>3 DEF RegisterThread, s
<1>3. ASSUME NEW t \in Threads, ConfirmShutdown(t)
      PROVE  ThreadlistsOK'
  <2> DEFINE s == CurrentCall(t).s
             q == Without(threadlist[s], t)
  <2>1. s \in Signals
    <3>1. t \in Actors /\ calls[t] # <<>>
      BY <1>3 DEF ConfirmShutdown, IsAt, Actors
    <3> QED BY <3>1, CurrentSignal
  <2>2. q \in Seq(Threads) /\ NoRepeats(q)
    BY <2>1, WithoutKeeps
  <2>3. /\ threadlist' = [threadlist EXCEPT ![s] = q]
        /\ tl_mem' = [tl_mem EXCEPT ![s] = IF q = <<>> THEN "null" ELSE @]
        /\ tl_alloc' = [tl_alloc EXCEPT ![s] = IF q = <<>> THEN 0 ELSE @]
    BY <1>3 DEF ConfirmShutdown
  <2> HIDE DEF s, q
  <2>4. CASE q = <<>>
    BY <2>1, <2>2, <2>3, <2>4
  <2>5. CASE q # <<>>
    BY <2>1, <2>2, <2>3, <2>5
  <2> QED BY <2>4, <2>5
<1>4. ASSUME NEW a \in Actors, FreesThreadlist(a)
      PROVE  ThreadlistsOK'
  <2>1. CurrentCall(a).s \in Signals
    BY <1>4, Freeing, CurrentSignal
  <2>2. CASE FreeThreadlist(a)
    BY <2>1, <2>2 DEF FreeThreadlist
  <2>4. CASE ForgetThreadlist(a)
    BY <2>1, <2>4 DEF ForgetThreadlist
  <2>5. CASE ResetThreadlistAlloc(a)
    BY <2>1, <2>5 DEF ResetThreadlistAlloc
  <2>3. CASE ResetThreadlist(a)
    <3>1. NoRepeats(<<>>)
      BY DEF NoRepeats
    <3> QED BY <2>1, <2>3, <3>1 DEF ResetThreadlist
  <2> QED BY <1>4, <2>2, <2>3, <2>4, <2>5 DEF FreesThreadlist
<1>5. CASE UNCHANGED Shared
  BY <1>1, <1>5 DEF Shared, listVars
<1>6. ASSUME NEW t \in Threads, ThreadStep(t)
      PROVE  ThreadlistsOK'
  <2>1. CASE RegisterCb(t) \/ UnregisterCb(t) \/ SendAsync(t)
    BY <1>1, <2>1 DEF RegisterCb, UnregisterCb, SendAsync, listVars
  <2> QED BY <1>2, <1>3, <1>6, <2>1 DEF ThreadStep
<1>7. ASSUME NEW a \in Actors, SenderStep(a) \/ UseAfterFree(a)
      PROVE  ThreadlistsOK'
  <2>1. CASE SetShutdown(a) \/ CallCallbacks(a) \/ FreesCallbacks(a) \/ UseAfterFree(a)
    BY <1>1, <2>1, Freeing DEF SetShutdown, CallCallbacks, UseAfterFree, UndefinedBehaviour,
                               listVars
  <2> QED BY <1>4, <1>7, <2>1 DEF SenderStep
<1>8. ASSUME NEW w \in Workers, WorkerFinishes(w)
      PROVE  ThreadlistsOK'
  BY <1>1, <1>8 DEF WorkerFinishes, listVars
<1> QED BY <1>5, <1>6, <1>7, <1>8, StepKinds

LEMMA IncreasingNoRepeats ==
  ASSUME NEW q \in Seq(Nat), Increasing(q)
  PROVE  NoRepeats(q)
<1> SUFFICES ASSUME NEW i \in 1 .. Len(q), NEW j \in 1 .. Len(q), q[i] = q[j], i # j
             PROVE  FALSE
  BY DEF NoRepeats
<1>1. q[i] \in Nat /\ q[j] \in Nat
  OBVIOUS
<1>2. i < j \/ j < i
  OBVIOUS
<1> QED BY <1>1, <1>2 DEF Increasing

LEMMA CallbacksStep ==
  ASSUME LInv, [Next]_vars
  PROVE  CallbacksOK'
<1> USE DEF LInv, CallbacksOK, Memories
<1>0. last_id \in [Signals -> Nat]
  BY DEF IInv, CallsOK
<1>1. CASE UNCHANGED <<callbacks, cb_mem, cb_alloc, last_id>>
  BY <1>1
<1>2. ASSUME NEW t \in Threads, RegisterCb(t)
      PROVE  CallbacksOK'
  <2> DEFINE s == CurrentCall(t).s
             id == last_id[s] + 1
             q == Append(callbacks[s], id)
             n == GrownAlloc(Len(callbacks[s]), cb_alloc[s])
  <2>1. s \in Signals
    <3>1. t \in Actors /\ calls[t] # <<>>
      BY <1>2 DEF RegisterCb, IsAt, Actors
    <3> QED BY <3>1, CurrentSignal
  <2>2. /\ callbacks' = [callbacks EXCEPT ![s] = q]
        /\ cb_alloc' = [cb_alloc EXCEPT ![s] = n]
        /\ cb_mem' = [cb_mem EXCEPT ![s] = "live"]
        /\ last_id' = [last_id EXCEPT ![s] = id]
    BY <1>2, <2>1 DEF RegisterCb
  <2> HIDE DEF s
  <2>3. id \in Nat /\ \A y \in ToSet(callbacks[s]) : y \in 1 .. id /\ y < id
    BY <1>0, <2>1
  <2>4. q \in Seq(Nat) /\ Increasing(q) /\ ToSet(q) \subseteq 1 .. id
    <3>1. callbacks[s] \in Seq(Nat) /\ Increasing(callbacks[s]) /\ id \in Nat
      BY <2>1, <2>3
    <3>2. \A y \in ToSet(callbacks[s]) : y < id
      BY <2>3
    <3> DEFINE old == callbacks[s]
    <3> HIDE DEF id
    <3>3. /\ q \in Seq(Nat) /\ Increasing(q)
          /\ ToSet(q) = ToSet(callbacks[s]) \cup {id}
      <4>1. old \in Seq(Nat) /\ Increasing(old) /\ id \in Nat /\ \A y \in ToSet(old) : y < id
        BY <3>1, <3>2
      <4> HIDE DEF old
      <4>2. /\ Append(old, id) \in Seq(Nat) /\ Increasing(Append(old, id))
            /\ ToSet(Append(old, id)) = ToSet(old) \cup {id}
        BY <4>1, AppendNumber
      <4> QED BY <4>2 DEF old
    <3>4. id \in 1 .. id
      BY <1>0, <2>1 DEF id
    <3> QED BY <2>3, <3>3, <3>4
  <2>5. n \in Nat
    <3>1. callbacks[s] \in Seq(Nat) /\ cb_alloc[s] \in Nat
      BY <2>1
    <3> QED BY <3>1, Grows
  <2> HIDE DEF q, n, id
  <2> QED BY <1>0, <2>1, <2>2, <2>3, <2>4, <2>5
<1>3. ASSUME NEW t \in Threads, UnregisterCb(t)
      PROVE  CallbacksOK'
  <2> DEFINE s == CurrentCall(t).s
             q == Without(callbacks[s], CurrentCall(t).arg)
  <2>1. s \in Signals
    <3>1. t \in Actors /\ calls[t] # <<>>
      BY <1>3 DEF UnregisterCb, IsAt, Actors
    <3> QED BY <3>1, CurrentSignal
  <2>2. q \in Seq(Nat) /\ Increasing(q) /\ ToSet(q) \subseteq ToSet(callbacks[s])
    <3>1. callbacks[s] \in Seq(Nat) /\ Increasing(callbacks[s]) /\ NoRepeats(callbacks[s])
      BY <2>1, IncreasingNoRepeats
    <3> HIDE DEF s
    <3> QED BY <3>1, WithoutKeeps
  <2>3. /\ callbacks' = [callbacks EXCEPT ![s] = q]
        /\ cb_mem' = [cb_mem EXCEPT ![s] = IF q = <<>> THEN "null" ELSE @]
        /\ cb_alloc' = [cb_alloc EXCEPT ![s] = IF q = <<>> THEN 0 ELSE @]
        /\ last_id' = last_id
    BY <1>3 DEF UnregisterCb
  <2> HIDE DEF s, q
  <2>4. CASE q = <<>>
    BY <1>0, <2>1, <2>2, <2>3, <2>4
  <2>5. CASE q # <<>>
    BY <1>0, <2>1, <2>2, <2>3, <2>5
  <2> QED BY <2>4, <2>5
<1>4. ASSUME NEW a \in Actors, FreesCallbacks(a)
      PROVE  CallbacksOK'
  <2>1. CurrentCall(a).s \in Signals
    BY <1>4, Freeing, CurrentSignal
  <2>2. CASE FreeCallbacks(a)
    BY <2>1, <2>2 DEF FreeCallbacks
  <2>4. CASE ResetCallbacksAlloc(a)
    BY <2>1, <2>4 DEF ResetCallbacksAlloc
  <2>3. CASE ResetCallbacks(a)
    <3>1. Increasing(<<>>) /\ ToSet(<<>>) = {}
      BY DEF Increasing, ToSet
    <3> QED BY <2>1, <2>3, <3>1 DEF ResetCallbacks
  <2> QED BY <1>4, <2>2, <2>3, <2>4 DEF FreesCallbacks
<1>5. CASE UNCHANGED Shared
  BY <1>1, <1>5 DEF Shared, listVars
<1>6. ASSUME NEW t \in Threads, ThreadStep(t)
      PROVE  CallbacksOK'
  <2>1. CASE RegisterThread(t) \/ ConfirmShutdown(t) \/ SendAsync(t)
    BY <1>1, <2>1 DEF RegisterThread, ConfirmShutdown, SendAsync, listVars
  <2> QED BY <1>2, <1>3, <1>6, <2>1 DEF ThreadStep
<1>7. ASSUME NEW a \in Actors, SenderStep(a) \/ UseAfterFree(a)
      PROVE  CallbacksOK'
  <2>1. CASE SetShutdown(a) \/ CallCallbacks(a) \/ FreesThreadlist(a) \/ UseAfterFree(a)
    BY <1>1, <2>1, Freeing DEF SetShutdown, CallCallbacks, UseAfterFree, UndefinedBehaviour,
                               listVars
  <2> QED BY <1>4, <1>7, <2>1 DEF SenderStep
<1>8. ASSUME NEW w \in Workers, WorkerFinishes(w)
      PROVE  CallbacksOK'
  BY <1>1, <1>8 DEF WorkerFinishes, listVars
<1> QED BY <1>5, <1>6, <1>7, <1>8, StepKinds

-----------------------------------------------------------------------------
(* Room in the lists                                                        *)

(* A call that another one interrupts stays as it is.                        *)
LEMMA LowerStay ==
  ASSUME IInv, NEW t \in Threads, LibraryStep(t), NEW k \in 1 .. Len(calls[t]) - 1
  PROVE  k \in 1 .. Len(calls'[t]) /\ calls'[t][k] = calls[t][k]
<1> DEFINE n == Len(calls[t])
           Stays == k \in 1 .. Len(calls'[t]) /\ calls'[t][k] = calls[t][k]
<1>0. /\ t \in Actors /\ t \notin Workers /\ calls \in [Actors -> Seq(Frames)]
      /\ calls[t] \in Seq(Frames) /\ n \in Nat /\ k \in 1 .. n /\ k # n
  BY ShutdownAssumption DEF Actors, IInv, CallsOK
<1>1. ASSUME NEW at, calls' = GoOn(t, at)
      PROVE  Stays
  BY <1>0, <1>1 DEF GoOn
<1>2. CASE calls' = Return(t)
  <2>1. calls'[t] = SubSeq(calls[t], 1, n - 1)
    BY <1>0, <1>2 DEF Return
  <2> QED BY <1>0, <2>1
<1>3. CASE calls' = calls
  BY <1>0, <1>3
<1>4. CASE Locks(t) \/ UseAfterFree(t)
  BY <1>1, <1>3, <1>4 DEF Locks, UseAfterFree, UndefinedBehaviour
<1>5. CASE SendBlockStep(t)
  <2>1. CASE Sleep(t)
    <3>1. CASE TimedOut(CurrentCall(t))
      <4>1. \E f : calls'[t] = [calls[t] EXCEPT ![n] = f]
        BY <1>0, <2>1, <3>1 DEF Sleep
      <4> QED BY <1>0, <4>1
    <3>2. CASE ~TimedOut(CurrentCall(t))
      BY <1>1, <2>1, <3>2 DEF Sleep
    <3> QED BY <3>1, <3>2
  <2>2. CASE AlreadySent(t) \/ ResetThreadlist(t)
    BY <1>0, <1>2, <2>2 DEF AlreadySent, ResetThreadlist, SendBlockReturns
  <2>3. CASE NotYetSent(t) \/ SetShutdown(t) \/ CallCallbacks(t) \/ Poll(t)
    BY <1>1, <2>3 DEF NotYetSent, SetShutdown, CallCallbacks, Poll
  <2>4. CASE FreesCallbacks(t) \/ FreeThreadlist(t) \/ ForgetThreadlist(t) \/ ResetThreadlistAlloc(t)
    BY <1>1, <2>4 DEF FreesCallbacks, FreeCallbacks, ResetCallbacksAlloc, ResetCallbacks,
                      FreeThreadlist, ForgetThreadlist, ResetThreadlistAlloc
  <2> QED BY <1>5, <2>1, <2>2, <2>3, <2>4 DEF SendBlockStep, FreesCallbacks
<1>6. CASE ThreadStep(t)
  <2>1. CASE \E w \in Workers : \E q : calls' = [Return(t) EXCEPT ![w] = q]
    <3>1. calls'[t] = Return(t)[t]
      BY <1>0, <2>1 DEF Return
    <3>2. calls'[t] = SubSeq(calls[t], 1, n - 1)
      BY <1>0, <3>1 DEF Return
    <3> QED BY <1>0, <3>2
  <2>2. calls' = Return(t) \/ \E w \in Workers : \E q : calls' = [Return(t) EXCEPT ![w] = q]
    BY <1>6 DEF ThreadStep, RegisterThread, StartWorker, ConfirmShutdown, RegisterCb,
                UnregisterCb, SendAsync
  <2> QED BY <1>2, <2>1, <2>2
<1> QED BY <1>0, <1>4, <1>5, <1>6 DEF LibraryStep

Resets(a, at) ==
  \/ at = "reset_tl" /\ ResetThreadlist(a)
  \/ at = "reset_cb" /\ ResetCallbacks(a)

(* A send that has set the allocation of a list to 0 sets its fill to 0      *)
(* before it does anything else; an OS signal may come in between.           *)
LEMMA HalfStays ==
  ASSUME IInv, [Next]_vars, NEW at \in {"reset_cb", "reset_tl"}, NEW s \in Signals,
         HalfReset(s, at)
  PROVE  HalfReset(s, at)' \/ \E a \in Actors : Resets(a, at) /\ CurrentCall(a).s = s
<1>a. PICK a \in Actors : \E k \in DOMAIN calls[a] : calls[a][k].at = at /\ calls[a][k].s = s
  BY DEF HalfReset
<1>0. PICK k \in DOMAIN calls[a] : calls[a][k].at = at /\ calls[a][k].s = s
  BY <1>a
<1> DEFINE n == Len(calls[a])
<1>1. /\ calls \in [Actors -> Seq(Frames)] /\ calls[a] \in Seq(Frames) /\ n \in Nat
      /\ k \in 1 .. n /\ calls[a] # <<>>
  <2>1. calls \in [Actors -> Seq(Frames)] /\ calls[a] \in Seq(Frames)
    BY DEF IInv, CallsOK
  <2> QED BY <1>0, <2>1
<1>2. ASSUME k \in 1 .. Len(calls'[a]), calls'[a][k].at = at, calls'[a][k].s = s
      PROVE  HalfReset(s, at)'
  <2>1. calls'[a] \in Seq(Frames)
    BY NextStep DEF IInv, CallsOK
  <2>2. k \in DOMAIN calls'[a]
    BY <1>2, <2>1
  <2> QED BY <1>2, <2>2 DEF HalfReset
<1>3. ASSUME calls'[a] = calls[a]
      PROVE  HalfReset(s, at)'
  BY <1>0, <1>1, <1>2, <1>3
<1>4. CASE LibraryStep(a)
  <2>1. CASE k = n
    <3>1. CurrentCall(a).at = at /\ CurrentCall(a).s = s
      BY <1>0, <2>1 DEF CurrentCall
    <3>2. Resets(a, at) \/ calls' = calls
      BY <1>4, <3>1
         DEF LibraryStep, Locks, SendBlockStep, AlreadySent, NotYetSent, SetShutdown, CallCallbacks,
             Poll, Sleep, FreeCallbacks, ResetCallbacksAlloc, ResetCallbacks, FreeThreadlist,
             ForgetThreadlist, ResetThreadlistAlloc, ResetThreadlist, IsAt, UseAfterFree,
             UndefinedBehaviour, ThreadStep, RegisterThread, ConfirmShutdown, RegisterCb,
             UnregisterCb, SendAsync, WorkerStep, SeeGateOpen, WorkerFinishes, Resets
    <3> QED BY <1>3, <3>1, <3>2
  <2>2. CASE k # n /\ a \in Threads
    <3>1. k \in 1 .. n - 1
      BY <1>1, <2>2
    <3>2. k \in 1 .. Len(calls'[a]) /\ calls'[a][k] = calls[a][k]
      BY <1>4, <2>2, <3>1, LowerStay
    <3> QED BY <1>0, <1>2, <3>2
  <2>3. ~(k # n /\ a \in Workers)
    <3> SUFFICES ASSUME k # n, a \in Workers PROVE FALSE
      OBVIOUS
    <3>1. n <= 2 /\ (n = 2 => calls[a][1].at = "sending")
      BY DEF IInv, WorkersOK
    <3>2. n = 2 /\ k = 1
      <4> HIDE DEF n
      <4> QED BY <1>1, <3>1
    <3> QED BY <1>0, <3>1, <3>2
  <2> QED BY <2>1, <2>2, <2>3 DEF Actors
<1>5. ASSUME NEW b \in Actors, LibraryStep(b), b # a
      PROVE  HalfReset(s, at)'
  BY <1>1, <1>3, <1>5, OwnCalls
<1>6. ASSUME NEW t \in Threads, NEW r \in Signals, ThreadCalls(t, r)
      PROVE  HalfReset(s, at)'
  <2>1. calls[t] = <<>> /\ \E q : calls' = [calls EXCEPT ![t] = q]
    BY <1>6 DEF ThreadCalls, CallRegisterThread, CallConfirm, CallRegisterCb, CallUnregisterCb,
                CallSendAsync, CallSendBlock, Call
  <2>2. calls'[a] = calls[a]
    BY <1>1, <2>1
  <2> QED BY <1>3, <2>2
<1>7. ASSUME NEW t \in Threads, OsSignal(t)
      PROVE  HalfReset(s, at)'
  <2>1. PICK f : calls' = [calls EXCEPT ![t] = Append(@, f)]
    BY <1>7 DEF OsSignal
  <2>2. CASE t = a
    <3>1. calls'[a] = Append(calls[a], f)
      BY <1>1, <2>1, <2>2
    <3> QED BY <1>0, <1>1, <1>2, <3>1
  <2>3. CASE t # a
    BY <1>1, <1>3, <2>1, <2>3
  <2> QED BY <2>2, <2>3
<1>8. CASE Tick \/ SetClock
  BY <1>0, <1>1, <1>2, <1>8, ClockAlike DEF IInv
<1>9. CASE Stutter \/ UNCHANGED vars
  BY <1>3, <1>9 DEF Stutter, vars
<1> QED BY <1>4, <1>5, <1>6, <1>7, <1>8, <1>9 DEF Next

(* What a step may do to the length of a list and its allocation.            *)
LEMMA ThreadsShape ==
  ASSUME LInv, [Next]_vars, NEW s \in Signals
  PROVE  \/ ThreadsFit(s)' \/ HalfReset(s, "reset_tl")'
         \/ Len(threadlist'[s]) <= Len(threadlist[s]) /\ tl_alloc'[s] = tl_alloc[s]
<1> USE DEF LInv, ThreadlistsOK
<1> DEFINE Shape == \/ ThreadsFit(s)' \/ HalfReset(s, "reset_tl")'
                    \/ Len(threadlist'[s]) <= Len(threadlist[s]) /\ tl_alloc'[s] = tl_alloc[s]
<1>0. threadlist[s] \in Seq(Threads) /\ Len(threadlist[s]) \in Nat
  OBVIOUS
<1>1. CASE threadlist'[s] = threadlist[s] /\ tl_alloc'[s] = tl_alloc[s]
  BY <1>0, <1>1
<1>2. ASSUME NEW t \in Threads, ThreadStep(t)
      PROVE  Shape
  <2> DEFINE r == CurrentCall(t).s
  <2>0. t \in Actors /\ calls[t] # <<>>
    BY <1>2 DEF ThreadStep, RegisterThread, ConfirmShutdown, RegisterCb, UnregisterCb, SendAsync,
                IsAt, Actors
  <2>1. r \in Signals
    BY <2>0, CurrentSignal
  <2>2. CASE RegisterCb(t) \/ UnregisterCb(t) \/ SendAsync(t)
    BY <1>1, <2>2 DEF RegisterCb, UnregisterCb, SendAsync, listVars
  <2>3. CASE RegisterThread(t)
    <3>1. CASE UNCHANGED <<threadlist, tl_alloc>>
      BY <1>1, <3>1
    <3>2. CASE ~UNCHANGED <<threadlist, tl_alloc>>
      <4>1. /\ HasRoom(tl_mem[r], threadlist[r], tl_alloc[r])
            /\ tl_alloc' = [tl_alloc EXCEPT ![r] = GrownAlloc(Len(threadlist[r]), tl_alloc[r])]
            /\ threadlist' = [threadlist EXCEPT ![r] = Append(threadlist[r], t)]
        BY <2>3, <3>2 DEF RegisterThread
      <4> HIDE DEF r
      <4>2. CASE r = s
        <5>1. Len(Append(threadlist[s], t)) = Len(threadlist[s]) + 1
          BY <1>0
        <5>2. Len(threadlist[s]) + 1 <= GrownAlloc(Len(threadlist[s]), tl_alloc[s])
          BY <1>0, <4>1, <4>2, Grows
        <5>3. /\ threadlist'[s] = Append(threadlist[s], t)
              /\ tl_alloc'[s] = GrownAlloc(Len(threadlist[s]), tl_alloc[s])
          BY <4>1, <4>2
        <5>4. ThreadsFit(s)'
          BY <5>1, <5>2, <5>3 DEF ThreadsFit
        <5> QED BY <5>4
      <4>3. CASE r # s
        BY <1>1, <4>1, <4>3
      <4> QED BY <4>2, <4>3
    <3> QED BY <3>1, <3>2
  <2>4. CASE ConfirmShutdown(t)
    <3> DEFINE q == Without(threadlist[r], t)
    <3>1. /\ threadlist' = [threadlist EXCEPT ![r] = q]
          /\ tl_alloc' = [tl_alloc EXCEPT ![r] = IF q = <<>> THEN 0 ELSE @]
      BY <2>4 DEF ConfirmShutdown
    <3>2. q \in Seq(Threads) /\ Len(q) <= Len(threadlist[r])
      BY <2>1, WithoutKeeps
    <3> HIDE DEF q, r
    <3>3. CASE r = s /\ q = <<>>
      <4>1. ThreadsFit(s)'
        BY <2>1, <3>1, <3>3 DEF ThreadsFit
      <4> QED BY <4>1
    <3>4. CASE r = s /\ q # <<>>
      BY <2>1, <3>1, <3>2, <3>4
    <3>5. CASE r # s
      BY <1>1, <2>1, <3>1, <3>5
    <3> QED BY <3>3, <3>4, <3>5
  <2> QED BY <1>2, <2>2, <2>3, <2>4 DEF ThreadStep
<1>3. ASSUME NEW a \in Actors, FreesThreadlist(a)
      PROVE  Shape
  <2> DEFINE r == CurrentCall(a).s
  <2>1. r \in Signals /\ calls[a] # <<>>
    BY <1>3, Freeing, CurrentSignal
  <2>2. CASE FreeThreadlist(a) \/ ForgetThreadlist(a)
    BY <1>1, <2>2 DEF FreeThreadlist, ForgetThreadlist
  <2>3. CASE r # s
    BY <1>1, <1>3, <2>3
       DEF FreesThreadlist, FreeThreadlist, ForgetThreadlist, ResetThreadlistAlloc, ResetThreadlist
  <2>4. CASE ResetThreadlistAlloc(a) /\ r = s
    <3> DEFINE n == Len(calls[a])
    <3>1. /\ calls[a] \in Seq(Frames) /\ calls \in [Actors -> Seq(Frames)] /\ n \in 1 .. n
          /\ calls[a][n] \in Frames /\ calls[a][n].s = s
      BY <2>1, <2>4, CurrentFrame DEF CurrentCall, IInv, CallsOK
    <3>2. calls'[a] = [calls[a] EXCEPT ![n].at = "reset_tl"]
      BY <2>4, <3>1 DEF ResetThreadlistAlloc, GoOn
    <3>3. n \in DOMAIN calls'[a] /\ calls'[a][n].at = "reset_tl" /\ calls'[a][n].s = s
      BY <3>1, <3>2 DEF Frames
    <3>4. HalfReset(s, "reset_tl")'
      BY <3>3 DEF HalfReset
    <3> QED BY <3>4
  <2>5. CASE ResetThreadlist(a) /\ r = s
    <3>1. threadlist'[s] = <<>> /\ tl_alloc'[s] \in Nat
      BY <2>5 DEF ResetThreadlist
    <3>2. ThreadsFit(s)'
      BY <3>1 DEF ThreadsFit
    <3> QED BY <3>2
  <2> QED BY <1>3, <2>2, <2>3, <2>4, <2>5 DEF FreesThreadlist
<1>4. CASE UNCHANGED Shared
  BY <1>1, <1>4 DEF Shared, listVars
<1>5. ASSUME NEW a \in Actors, SenderStep(a) \/ UseAfterFree(a)
      PROVE  Shape
  <2>1. CASE SetShutdown(a) \/ CallCallbacks(a) \/ FreesCallbacks(a) \/ UseAfterFree(a)
    BY <1>1, <2>1, Freeing DEF SetShutdown, CallCallbacks, UseAfterFree, UndefinedBehaviour,
                               listVars
  <2> QED BY <1>3, <1>5, <2>1 DEF SenderStep
<1>6. ASSUME NEW w \in Workers, WorkerFinishes(w)
      PROVE  Shape
  BY <1>1, <1>6 DEF WorkerFinishes, listVars
<1> QED BY <1>2, <1>4, <1>5, <1>6, StepKinds

LEMMA CallbacksShape ==
  ASSUME LInv, [Next]_vars, NEW s \in Signals
  PROVE  \/ CallbacksFit(s)' \/ HalfReset(s, "reset_cb")'
         \/ Len(callbacks'[s]) <= Len(callbacks[s]) /\ cb_alloc'[s] = cb_alloc[s]
<1> USE DEF LInv, CallbacksOK
<1> DEFINE Shape == \/ CallbacksFit(s)' \/ HalfReset(s, "reset_cb")'
                    \/ Len(callbacks'[s]) <= Len(callbacks[s]) /\ cb_alloc'[s] = cb_alloc[s]
<1>0. callbacks[s] \in Seq(Nat) /\ Len(callbacks[s]) \in Nat /\ cb_alloc[s] \in Nat
  OBVIOUS
<1>1. CASE callbacks'[s] = callbacks[s] /\ cb_alloc'[s] = cb_alloc[s]
  BY <1>0, <1>1
<1>2. ASSUME NEW t \in Threads, ThreadStep(t)
      PROVE  Shape
  <2> DEFINE r == CurrentCall(t).s
  <2>0. t \in Actors /\ calls[t] # <<>>
    BY <1>2 DEF ThreadStep, RegisterThread, ConfirmShutdown, RegisterCb, UnregisterCb, SendAsync,
                IsAt, Actors
  <2>1. r \in Signals
    BY <2>0, CurrentSignal
  <2>2. CASE RegisterThread(t) \/ ConfirmShutdown(t) \/ SendAsync(t)
    BY <1>1, <2>2 DEF RegisterThread, ConfirmShutdown, SendAsync, listVars
  <2>3. CASE RegisterCb(t)
    <3> DEFINE id == last_id[r] + 1
               old == callbacks[s]
    <3>1. /\ HasRoom(cb_mem[r], callbacks[r], cb_alloc[r])
          /\ cb_alloc' = [cb_alloc EXCEPT ![r] = GrownAlloc(Len(callbacks[r]), cb_alloc[r])]
          /\ callbacks' = [callbacks EXCEPT ![r] = Append(callbacks[r], id)]
      BY <2>3 DEF RegisterCb
    <3> HIDE DEF r, id
    <3>2. CASE r = s
      <4>1. /\ callbacks'[s] = Append(old, id)
            /\ cb_alloc'[s] = GrownAlloc(Len(old), cb_alloc[s])
            /\ HasRoom(cb_mem[s], old, cb_alloc[s])
        BY <3>1, <3>2
      <4>2. old \in Seq(Nat)
        BY <1>0
      <4> HIDE DEF old
      <4>3. Len(Append(old, id)) = Len(old) + 1
        BY <4>2
      <4>4. Len(old) + 1 <= GrownAlloc(Len(old), cb_alloc[s])
        BY <1>0, <4>1, <4>2, Grows
      <4>5. CallbacksFit(s)'
        BY <4>1, <4>3, <4>4 DEF CallbacksFit
      <4> QED BY <4>5
    <3>3. CASE r # s
      BY <1>1, <3>1, <3>3
    <3> QED BY <3>2, <3>3
  <2>4. CASE UnregisterCb(t)
    <3> DEFINE q == Without(callbacks[r], CurrentCall(t).arg)
    <3>1. /\ callbacks' = [callbacks EXCEPT ![r] = q]
          /\ cb_alloc' = [cb_alloc EXCEPT ![r] = IF q = <<>> THEN 0 ELSE @]
      BY <2>4 DEF UnregisterCb
    <3>2. q \in Seq(Nat) /\ Len(q) <= Len(callbacks[r])
      <4>1. callbacks[r] \in Seq(Nat) /\ NoRepeats(callbacks[r])
        BY <2>1, IncreasingNoRepeats
      <4> HIDE DEF r
      <4> QED BY <4>1, WithoutKeeps
    <3> HIDE DEF q, r
    <3>3. CASE r = s /\ q = <<>>
      <4>1. CallbacksFit(s)'
        BY <2>1, <3>1, <3>3 DEF CallbacksFit
      <4> QED BY <4>1
    <3>4. CASE r = s /\ q # <<>>
      BY <2>1, <3>1, <3>2, <3>4
    <3>5. CASE r # s
      BY <1>1, <2>1, <3>1, <3>5
    <3> QED BY <3>3, <3>4, <3>5
  <2> QED BY <1>2, <2>2, <2>3, <2>4 DEF ThreadStep
<1>3. ASSUME NEW a \in Actors, FreesCallbacks(a)
      PROVE  Shape
  <2> DEFINE r == CurrentCall(a).s
  <2>1. r \in Signals /\ calls[a] # <<>>
    BY <1>3, Freeing, CurrentSignal
  <2>2. CASE FreeCallbacks(a)
    BY <1>1, <2>2 DEF FreeCallbacks
  <2>3. CASE r # s
    BY <1>1, <1>3, <2>3
       DEF FreesCallbacks, FreeCallbacks, ResetCallbacksAlloc, ResetCallbacks
  <2>4. CASE ResetCallbacksAlloc(a) /\ r = s
    <3> DEFINE n == Len(calls[a])
    <3>1. /\ calls[a] \in Seq(Frames) /\ calls \in [Actors -> Seq(Frames)] /\ n \in 1 .. n
          /\ calls[a][n] \in Frames /\ calls[a][n].s = s
      BY <2>1, <2>4, CurrentFrame DEF CurrentCall, IInv, CallsOK
    <3>2. calls'[a] = [calls[a] EXCEPT ![n].at = "reset_cb"]
      BY <2>4, <3>1 DEF ResetCallbacksAlloc, GoOn
    <3>3. n \in DOMAIN calls'[a] /\ calls'[a][n].at = "reset_cb" /\ calls'[a][n].s = s
      BY <3>1, <3>2 DEF Frames
    <3>4. HalfReset(s, "reset_cb")'
      BY <3>3 DEF HalfReset
    <3> QED BY <3>4
  <2>5. CASE ResetCallbacks(a) /\ r = s
    <3>1. callbacks'[s] = <<>> /\ cb_alloc'[s] \in Nat
      BY <2>5 DEF ResetCallbacks
    <3>2. CallbacksFit(s)'
      BY <3>1 DEF CallbacksFit
    <3> QED BY <3>2
  <2> QED BY <1>3, <2>2, <2>3, <2>4, <2>5 DEF FreesCallbacks
<1>4. CASE UNCHANGED Shared
  BY <1>1, <1>4 DEF Shared, listVars
<1>5. ASSUME NEW a \in Actors, SenderStep(a) \/ UseAfterFree(a)
      PROVE  Shape
  <2>1. CASE SetShutdown(a) \/ CallCallbacks(a) \/ FreesThreadlist(a) \/ UseAfterFree(a)
    BY <1>1, <2>1, Freeing DEF SetShutdown, CallCallbacks, UseAfterFree, UndefinedBehaviour,
                               listVars
  <2> QED BY <1>3, <1>5, <2>1 DEF SenderStep
<1>6. ASSUME NEW w \in Workers, WorkerFinishes(w)
      PROVE  Shape
  BY <1>1, <1>6 DEF WorkerFinishes, listVars
<1> QED BY <1>2, <1>4, <1>5, <1>6, StepKinds

LEMMA RoomStep ==
  ASSUME LInv, [Next]_vars
  PROVE  RoomOK'
<1> SUFFICES ASSUME NEW s \in Signals
             PROVE  /\ ThreadsFit(s)' \/ HalfReset(s, "reset_tl")'
                    /\ CallbacksFit(s)' \/ HalfReset(s, "reset_cb")'
  BY DEF RoomOK
<1>0. IInv /\ ThreadlistsOK /\ CallbacksOK /\ ThreadlistsOK' /\ CallbacksOK'
  BY ThreadlistsStep, CallbacksStep DEF LInv
<1>1. ThreadsFit(s)' \/ HalfReset(s, "reset_tl")'
  <2> SUFFICES ASSUME ~HalfReset(s, "reset_tl")', ~ThreadsFit(s)'
               PROVE  FALSE
    OBVIOUS
  <2>1. Len(threadlist'[s]) <= Len(threadlist[s]) /\ tl_alloc'[s] = tl_alloc[s]
    BY ThreadsShape
  <2>2. Len(threadlist'[s]) \in Nat /\ Len(threadlist[s]) \in Nat /\ tl_alloc[s] \in Nat
    <3>1. threadlist'[s] \in Seq(Threads) /\ threadlist[s] \in Seq(Threads)
      BY <1>0 DEF ThreadlistsOK
    <3> QED BY <1>0, <3>1 DEF ThreadlistsOK
  <2>3. CASE ThreadsFit(s)
    BY <2>1, <2>2, <2>3 DEF ThreadsFit
  <2>4. CASE HalfReset(s, "reset_tl")
    <3>1. PICK a \in Actors : ResetThreadlist(a) /\ CurrentCall(a).s = s
      BY <1>0, <2>4, HalfStays DEF Resets
    <3>2. threadlist'[s] = <<>>
      BY <1>0, <3>1 DEF ResetThreadlist, ThreadlistsOK
    <3> QED BY <2>1, <2>2, <3>2 DEF ThreadsFit
  <2> QED BY <2>3, <2>4 DEF LInv, RoomOK
<1>2. CallbacksFit(s)' \/ HalfReset(s, "reset_cb")'
  <2> SUFFICES ASSUME ~HalfReset(s, "reset_cb")', ~CallbacksFit(s)'
               PROVE  FALSE
    OBVIOUS
  <2>1. Len(callbacks'[s]) <= Len(callbacks[s]) /\ cb_alloc'[s] = cb_alloc[s]
    BY CallbacksShape
  <2>2. Len(callbacks'[s]) \in Nat /\ Len(callbacks[s]) \in Nat /\ cb_alloc[s] \in Nat
    <3>1. callbacks'[s] \in Seq(Nat) /\ callbacks[s] \in Seq(Nat)
      BY <1>0 DEF CallbacksOK
    <3> QED BY <1>0, <3>1 DEF CallbacksOK
  <2>3. CASE CallbacksFit(s)
    BY <2>1, <2>2, <2>3 DEF CallbacksFit
  <2>4. CASE HalfReset(s, "reset_cb")
    <3>1. PICK a \in Actors : ResetCallbacks(a) /\ CurrentCall(a).s = s
      BY <1>0, <2>4, HalfStays DEF Resets
    <3>2. callbacks'[s] = <<>>
      BY <1>0, <3>1 DEF ResetCallbacks, CallbacksOK
    <3> QED BY <2>1, <2>2, <3>2 DEF CallbacksFit
  <2> QED BY <2>3, <2>4 DEF LInv, RoomOK
<1> QED BY <1>1, <1>2

LEMMA ListsStep == LInv /\ [Next]_vars => LInv'
BY NextStep, FlagsStep, ThreadlistsStep, CallbacksStep, FramesStep, RoomStep DEF LInv

LEMMA ListsInit == Init => LInv
<1> SUFFICES ASSUME Init PROVE LInv
  OBVIOUS
<1>1. NoRepeats(<<>>) /\ Increasing(<<>>) /\ ToSet(<<>>) = {} /\ Len(<<>>) = 0
  BY DEF NoRepeats, Increasing, ToSet
<1>2. FlagsOK
  BY DEF Init, FlagsOK, Statuses
<1>3. ThreadlistsOK
  BY <1>1 DEF Init, ThreadlistsOK, Memories
<1>4. CallbacksOK
  BY <1>1 DEF Init, CallbacksOK, Memories
<1>5. FramesOK
  BY DEF Init, FramesOK
<1>6. RoomOK
  BY <1>1 DEF Init, RoomOK, ThreadsFit, CallbacksFit
<1> QED BY <1>2, <1>3, <1>4, <1>5, <1>6, InitOK DEF LInv

(* Whoever calls, interrupts, sends or ends, every field of every signal     *)
(* keeps to its type, no list holds an entry it has no memory for but while  *)
(* a send resets it, and no callback has an id that was not given out.       *)
THEOREM Typing == Spec => []TypeOK
<1>1. LInv => TypeOK
  <2> SUFFICES ASSUME LInv PROVE TypeOK
    OBVIOUS
  <2> USE DEF LInv
  <2>1. \A s \in Signals :
          /\ threadlist[s] \in Seq(Threads) /\ callbacks[s] \in Seq(1 .. last_id[s])
          /\ Len(threadlist[s]) <= tl_alloc[s] \/ HalfReset(s, "reset_tl")
          /\ Len(callbacks[s]) <= cb_alloc[s] \/ HalfReset(s, "reset_cb")
    <3> SUFFICES ASSUME NEW s \in Signals
                 PROVE  callbacks[s] \in Seq(1 .. last_id[s])
      BY DEF ThreadlistsOK, CallbacksOK, RoomOK, ThreadsFit, CallbacksFit
    <3>1. callbacks[s] \in Seq(Nat) /\ ToSet(callbacks[s]) \subseteq 1 .. last_id[s]
      BY DEF CallbacksOK
    <3>2. \A i \in 1 .. Len(callbacks[s]) : callbacks[s][i] \in 1 .. last_id[s]
      BY <3>1 DEF ToSet
    <3> DEFINE q == callbacks[s]
               ids == 1 .. last_id[s]
    <3>3. q \in Seq(Nat) /\ \A i \in 1 .. Len(q) : q[i] \in ids
      BY <3>1, <3>2
    <3> HIDE DEF q, ids
    <3>4. Len(q) \in Nat /\ q \in [1 .. Len(q) -> ids]
      BY <3>3
    <3>5. q \in Seq(ids)
      BY <3>4
    <3> QED BY <3>5 DEF q, ids
  <2>2. started \in [Signals -> BOOLEAN] /\ master \in [Signals -> Actors \cup {NoOne}]
    BY DEF IInv, CallsOK
  <2> QED BY <2>1, <2>2 DEF TypeOK, FlagsOK, ThreadlistsOK, CallbacksOK, Memories, Statuses
<1> QED BY <1>1, ListsInit, ListsStep, PTL DEF Spec

-----------------------------------------------------------------------------
(* The lists say who is registered                                          *)

(* Who is in the list of threads has registered and not confirmed since, and *)
(* the list has memory, and an allocation, exactly while it has entries.     *)
ThreadsExact(s) ==
  /\ ToSet(threadlist[s]) = alive[s]
  /\ tl_mem[s] = (IF alive[s] = {} THEN "null" ELSE "live")
  /\ alive[s] = {} => tl_alloc[s] = 0

CallbacksExact(s) ==
  /\ ToSet(callbacks[s]) = owned[s]
  /\ cb_mem[s] = (IF owned[s] = {} THEN "null" ELSE "live")
  /\ owned[s] = {} => cb_alloc[s] = 0

(* The list of threads of s is freed and emptied.                            *)
DropsThreads(s) ==
  \E a \in Actors : FreesThreadlist(a) /\ CurrentCall(a).s = s

DropsCallbacks(s) ==
  \E a \in Actors : FreesCallbacks(a) /\ CurrentCall(a).s = s

LEMMA EmptyList ==
  ASSUME NEW S, NEW q \in Seq(S)
  PROVE  q = <<>> <=> ToSet(q) = {}
<1>1. CASE q = <<>>
  BY <1>1 DEF ToSet
<1>2. CASE q # <<>>
  <2>1. 1 \in 1 .. Len(q)
    BY <1>2
  <2>2. q[1] \in ToSet(q)
    BY <2>1 DEF ToSet
  <2> QED BY <1>2, <2>2
<1> QED BY <1>1, <1>2

(* But for that the list stays exact, whatever a step does.                  *)
LEMMA ThreadsStayExact ==
  ASSUME LInv, [Next]_vars, NEW s \in Signals, ThreadsExact(s), ~DropsThreads(s)
  PROVE  ThreadsExact(s)'
<1> USE DEF LInv, ThreadlistsOK, ThreadsExact
<1>0. alive \in [Signals -> SUBSET Threads]
  BY DEF FlagsOK
<1>1. CASE UNCHANGED <<threadlist, tl_mem, tl_alloc, alive>>
  BY <1>1
<1>2. ASSUME NEW t \in Threads, ThreadStep(t)
      PROVE  ThreadsExact(s)'
  <2> DEFINE r == CurrentCall(t).s
  <2>1. t \in Actors /\ calls[t] # <<>>
    BY <1>2 DEF ThreadStep, RegisterThread, ConfirmShutdown, RegisterCb, UnregisterCb, SendAsync,
                IsAt, Actors
  <2>2. r \in Signals
    BY <2>1, CurrentSignal
  <2>3. CASE RegisterCb(t) \/ UnregisterCb(t) \/ SendAsync(t)
    BY <1>1, <2>3 DEF RegisterCb, UnregisterCb, SendAsync, listVars
  <2>4. CASE RegisterThread(t)
    <3>1. alive' = [alive EXCEPT ![r] = @ \cup {t}]
      BY <2>4 DEF RegisterThread
    <3>2. CASE t \in ToSet(threadlist[r])
      <4>1. UNCHANGED <<threadlist, tl_mem, tl_alloc>>
        BY <2>4, <3>2 DEF RegisterThread
      <4>2. alive'[s] = alive[s]
        BY <1>0, <2>2, <3>1, <3>2
      <4> HIDE DEF r
      <4> QED BY <4>1, <4>2
    <3>3. CASE t \notin ToSet(threadlist[r])
      <4>1. /\ tl_mem' = [tl_mem EXCEPT ![r] = "live"]
            /\ \A q \in Signals : q # r => tl_alloc'[q] = tl_alloc[q]
            /\ threadlist' = [threadlist EXCEPT ![r] = Append(threadlist[r], t)]
        BY <2>2, <2>4, <3>3 DEF RegisterThread
      <4> HIDE DEF r
      <4>2. ToSet(Append(threadlist[r], t)) = ToSet(threadlist[r]) \cup {t}
        BY <2>2, AppendKeeps
      <4>3. CASE r = s
        BY <1>0, <2>2, <3>1, <4>1, <4>2, <4>3
      <4>4. CASE r # s
        BY <1>0, <2>2, <3>1, <4>1, <4>4
      <4> QED BY <4>3, <4>4
    <3> QED BY <3>2, <3>3
  <2>5. CASE ConfirmShutdown(t)
    <3> DEFINE q == Without(threadlist[r], t)
    <3>1. /\ threadlist' = [threadlist EXCEPT ![r] = q]
          /\ tl_mem' = [tl_mem EXCEPT ![r] = IF q = <<>> THEN "null" ELSE @]
          /\ tl_alloc' = [tl_alloc EXCEPT ![r] = IF q = <<>> THEN 0 ELSE @]
          /\ alive' = [alive EXCEPT ![r] = @ \ {t}]
      BY <2>5 DEF ConfirmShutdown
    <3>2. q \in Seq(Threads) /\ ToSet(q) = ToSet(threadlist[r]) \ {t}
      BY <2>2, WithoutKeeps
    <3>3. q = <<>> <=> ToSet(q) = {}
      BY <3>2, EmptyList
    <3> HIDE DEF q, r
    <3>4. CASE r = s
      BY <1>0, <2>2, <3>1, <3>2, <3>3, <3>4
    <3>5. CASE r # s
      BY <1>0, <2>2, <3>1, <3>5
    <3> QED BY <3>4, <3>5
  <2> QED BY <1>2, <2>3, <2>4, <2>5 DEF ThreadStep
<1>3. CASE UNCHANGED Shared
  BY <1>1, <1>3 DEF Shared, listVars, ghosts
<1>4. ASSUME NEW a \in Actors, SenderStep(a) \/ UseAfterFree(a)
      PROVE  ThreadsExact(s)'
  <2>1. CASE SetShutdown(a) \/ CallCallbacks(a) \/ FreesCallbacks(a) \/ UseAfterFree(a)
    BY <1>1, <2>1, Freeing DEF SetShutdown, CallCallbacks, UseAfterFree, UndefinedBehaviour,
                               listVars, ghosts
  <2>2. CASE FreesThreadlist(a)
    <3>1. CurrentCall(a).s # s
      BY <2>2 DEF DropsThreads
    <3> QED BY <2>2, <3>1 DEF FreesThreadlist, FreeThreadlist, ForgetThreadlist,
                              ResetThreadlistAlloc, ResetThreadlist, ghosts
  <2> QED BY <1>4, <2>1, <2>2 DEF SenderStep
<1>5. ASSUME NEW w \in Workers, WorkerFinishes(w)
      PROVE  ThreadsExact(s)'
  BY <1>1, <1>5 DEF WorkerFinishes, listVars, ghosts
<1> QED BY <1>2, <1>3, <1>4, <1>5, StepKinds

LEMMA CallbacksStayExact ==
  ASSUME LInv, [Next]_vars, NEW s \in Signals, CallbacksExact(s), ~DropsCallbacks(s)
  PROVE  CallbacksExact(s)'
<1> USE DEF LInv, CallbacksOK, CallbacksExact
<1>0. owned \in [Signals -> SUBSET Nat] /\ last_id \in [Signals -> Nat]
  BY DEF IInv, CallsOK
<1>1. CASE UNCHANGED <<callbacks, cb_mem, cb_alloc, owned>>
  BY <1>1
<1>2. ASSUME NEW t \in Threads, ThreadStep(t)
      PROVE  CallbacksExact(s)'
  <2> DEFINE r == CurrentCall(t).s
  <2>1. t \in Actors /\ calls[t] # <<>>
    BY <1>2 DEF ThreadStep, RegisterThread, ConfirmShutdown, RegisterCb, UnregisterCb, SendAsync,
                IsAt, Actors
  <2>2. r \in Signals
    BY <2>1, CurrentSignal
  <2>3. CASE RegisterThread(t) \/ ConfirmShutdown(t) \/ SendAsync(t)
    BY <1>1, <2>3 DEF RegisterThread, ConfirmShutdown, SendAsync, listVars
  <2>4. CASE RegisterCb(t)
    <3> DEFINE id == last_id[r] + 1
               old == callbacks[r]
    <3>1. /\ cb_mem' = [cb_mem EXCEPT ![r] = "live"]
          /\ \A q \in Signals : q # r => cb_alloc'[q] = cb_alloc[q]
          /\ callbacks' = [callbacks EXCEPT ![r] = Append(old, id)]
          /\ owned' = [owned EXCEPT ![r] = @ \cup {id}]
      BY <2>4, <2>2 DEF RegisterCb
    <3>2. id \in Nat /\ old \in Seq(Nat)
      BY <1>0, <2>2
    <3> HIDE DEF id, r
    <3>3. ToSet(Append(old, id)) = ToSet(callbacks[r]) \cup {id}
      <4> HIDE DEF old
      <4>1. ToSet(Append(old, id)) = ToSet(old) \cup {id}
        BY <3>2, AppendNumber
      <4> QED BY <4>1 DEF old
    <3> HIDE DEF old
    <3>4. CASE r = s
      BY <1>0, <2>2, <3>1, <3>3, <3>4
    <3>5. CASE r # s
      BY <1>0, <2>2, <3>1, <3>5
    <3> QED BY <3>4, <3>5
  <2>5. CASE UnregisterCb(t)
    <3> DEFINE q == Without(callbacks[r], CurrentCall(t).arg)
               x == CurrentCall(t).arg
    <3>1. /\ callbacks' = [callbacks EXCEPT ![r] = q]
          /\ cb_mem' = [cb_mem EXCEPT ![r] = IF q = <<>> THEN "null" ELSE @]
          /\ cb_alloc' = [cb_alloc EXCEPT ![r] = IF q = <<>> THEN 0 ELSE @]
          /\ owned' = [owned EXCEPT ![r] = @ \ {x}]
      BY <2>5 DEF UnregisterCb
    <3>2. q \in Seq(Nat) /\ ToSet(q) = ToSet(callbacks[r]) \ {x}
      <4>1. callbacks[r] \in Seq(Nat) /\ NoRepeats(callbacks[r])
        BY <2>2, IncreasingNoRepeats
      <4> HIDE DEF r
      <4> QED BY <4>1, WithoutKeeps
    <3>3. q = <<>> <=> ToSet(q) = {}
      BY <3>2, EmptyList
    <3> HIDE DEF q, r, x
    <3>4. CASE r = s
      BY <1>0, <2>2, <3>1, <3>2, <3>3, <3>4
    <3>5. CASE r # s
      BY <1>0, <2>2, <3>1, <3>5
    <3> QED BY <3>4, <3>5
  <2> QED BY <1>2, <2>3, <2>4, <2>5 DEF ThreadStep
<1>3. CASE UNCHANGED Shared
  BY <1>1, <1>3 DEF Shared, listVars, ghosts
<1>4. ASSUME NEW a \in Actors, SenderStep(a) \/ UseAfterFree(a)
      PROVE  CallbacksExact(s)'
  <2>1. CASE SetShutdown(a) \/ CallCallbacks(a) \/ FreesThreadlist(a) \/ UseAfterFree(a)
    BY <1>1, <2>1, Freeing DEF SetShutdown, CallCallbacks, UseAfterFree, UndefinedBehaviour,
                               listVars, ghosts
  <2>2. CASE FreesCallbacks(a)
    <3>1. CurrentCall(a).s # s
      BY <2>2 DEF DropsCallbacks
    <3> QED BY <2>2, <3>1 DEF FreesCallbacks, FreeCallbacks, ResetCallbacksAlloc, ResetCallbacks,
                              ghosts
  <2> QED BY <1>4, <2>1, <2>2 DEF SenderStep
<1>5. ASSUME NEW w \in Workers, WorkerFinishes(w)
      PROVE  CallbacksExact(s)'
  BY <1>1, <1>5 DEF WorkerFinishes, listVars, ghosts
<1> QED BY <1>2, <1>3, <1>4, <1>5, StepKinds

LEMMA CurrentKnows ==
  ASSUME LInv, NEW a \in Actors, calls[a] # <<>>
  PROVE  Knows(CurrentCall(a), shutdown)
<1>1. Len(calls[a]) \in 1 .. Len(calls[a])
  BY CurrentFrame DEF LInv
<1> QED BY <1>1 DEF LInv, FramesOK, CurrentCall

(* Before the signal is sent nobody has anything to free: a send frees only  *)
(* past the flag.                                                            *)
LEMMA NothingDropped ==
  ASSUME LInv, NEW s \in Signals, ~shutdown[s]
  PROVE  ~DropsThreads(s) /\ ~DropsCallbacks(s)
<1> SUFFICES ASSUME NEW a \in Actors, CurrentCall(a).s = s,
                    FreesCallbacks(a) \/ FreesThreadlist(a)
             PROVE  FALSE
  BY DEF DropsThreads, DropsCallbacks
<1>1. /\ calls[a] # <<>> /\ CurrentCall(a).op = "send_block"
      /\ CurrentCall(a).at \in FreeingPlaces
  BY Freeing
<1>2. Knows(CurrentCall(a), shutdown)
  BY <1>1, CurrentKnows
<1> QED BY <1>1, <1>2 DEF Knows, FreeingPlaces

UnsentExact == \A s \in Signals : ~shutdown[s] => ThreadsExact(s) /\ CallbacksExact(s)

LEMMA ExactInit == Init => LInv /\ UnsentExact
<1> SUFFICES ASSUME Init PROVE UnsentExact
  BY ListsInit
<1>1. ToSet(<<>>) = {}
  BY DEF ToSet
<1> QED BY <1>1 DEF Init, UnsentExact, ThreadsExact, CallbacksExact

LEMMA ExactStep == LInv /\ UnsentExact /\ [Next]_vars => LInv' /\ UnsentExact'
<1> SUFFICES ASSUME LInv, UnsentExact, [Next]_vars, NEW s \in Signals, ~shutdown'[s]
             PROVE  ThreadsExact(s)' /\ CallbacksExact(s)'
  BY ListsStep DEF UnsentExact
<1>1. ~shutdown[s]
  BY FlagStays
<1> QED BY <1>1, NothingDropped, ThreadsStayExact, CallbacksStayExact DEF UnsentExact

(* register_thread, confirm_shutdown, register_cb and unregister_cb may come *)
(* in any order from any threads, be interrupted and name any signal: until  *)
(* a signal is sent its lists hold exactly who is registered, each once and  *)
(* in order, and have memory exactly while they have entries.                *)
THEOREM ListsAreExact == Spec => []ListsExact
<1>1. Init => LInv /\ UnsentExact
  BY ExactInit
<1>2. LInv /\ UnsentExact /\ [Next]_vars => LInv' /\ UnsentExact'
  BY ExactStep
<1>3. LInv /\ UnsentExact => ListsExact
  <2> SUFFICES ASSUME LInv, UnsentExact, NEW s \in Signals, ~shutdown[s]
               PROVE
                 /\ ToSet(threadlist[s]) = alive[s] /\ Len(threadlist[s]) = Cardinality(alive[s])
                 /\ ToSet(callbacks[s]) = owned[s] /\ Len(callbacks[s]) = Cardinality(owned[s])
                 /\ \A i, j \in 1 .. Len(callbacks[s]) : i < j => callbacks[s][i] < callbacks[s][j]
                 /\ tl_mem[s] = (IF alive[s] = {} THEN "null" ELSE "live")
                 /\ cb_mem[s] = (IF owned[s] = {} THEN "null" ELSE "live")
    BY DEF ListsExact
  <2>1. ThreadsExact(s) /\ CallbacksExact(s)
    BY DEF UnsentExact
  <2>2. Cardinality(ToSet(threadlist[s])) = Len(threadlist[s])
    BY LenIsCardinality DEF LInv, ThreadlistsOK
  <2>3. callbacks[s] \in Seq(Nat) /\ Increasing(callbacks[s])
    BY DEF LInv, CallbacksOK
  <2>4. Cardinality(ToSet(callbacks[s])) = Len(callbacks[s])
    BY <2>3, LenIsCardinality, IncreasingNoRepeats
  <2> QED BY <2>1, <2>2, <2>3, <2>4 DEF ThreadsExact, CallbacksExact, Increasing
<1> QED BY <1>1, <1>2, <1>3, PTL DEF Spec

-----------------------------------------------------------------------------
(* Nothing is touched outside the lists                                     *)

(* A list that is exact is there, and there is room in it for one more.      *)
LEMMA ExactHasRoom ==
  ASSUME LInv, UnsentExact, NEW s \in Signals, ~shutdown[s]
  PROVE  /\ ~Gone(tl_mem[s], threadlist[s]) /\ HasRoom(tl_mem[s], threadlist[s], tl_alloc[s])
         /\ ~Gone(cb_mem[s], callbacks[s]) /\ HasRoom(cb_mem[s], callbacks[s], cb_alloc[s])
<1>1. ThreadsExact(s) /\ CallbacksExact(s)
  BY DEF UnsentExact
<1>2. ~HalfReset(s, "reset_tl") /\ ~HalfReset(s, "reset_cb")
  <2> SUFFICES ASSUME NEW a \in Actors, NEW k \in DOMAIN calls[a],
                      calls[a][k].at \in {"reset_cb", "reset_tl"}, calls[a][k].s = s
               PROVE  FALSE
    BY DEF HalfReset
  <2>1. calls[a] \in Seq(Frames)
    BY DEF LInv, IInv, CallsOK
  <2>2. k \in 1 .. Len(calls[a])
    BY <2>1
  <2> QED BY <2>2 DEF LInv, FramesOK, Knows
<1>3. ThreadsFit(s) /\ CallbacksFit(s)
  BY <1>2 DEF LInv, RoomOK
<1>4. ~Gone(tl_mem[s], threadlist[s]) /\ HasRoom(tl_mem[s], threadlist[s], tl_alloc[s])
  <2>1. threadlist[s] \in Seq(Threads) /\ tl_alloc[s] \in Nat
    BY DEF LInv, ThreadlistsOK
  <2>2. threadlist[s] = <<>> <=> alive[s] = {}
    BY <1>1, <2>1, EmptyList DEF ThreadsExact
  <2>3. ~Gone(tl_mem[s], threadlist[s])
    BY <1>1, <2>2 DEF ThreadsExact, Gone
  <2>4. tl_mem[s] = "null" => tl_alloc[s] = 0
    BY <1>1 DEF ThreadsExact
  <2> QED BY <1>3, <2>1, <2>3, <2>4, Grows DEF ThreadsFit
<1>5. ~Gone(cb_mem[s], callbacks[s]) /\ HasRoom(cb_mem[s], callbacks[s], cb_alloc[s])
  <2> DEFINE q == callbacks[s]
  <2>1. q \in Seq(Nat) /\ cb_alloc[s] \in Nat
    BY DEF LInv, CallbacksOK
  <2>2. q = <<>> <=> owned[s] = {}
    <3> HIDE DEF q
    <3>1. q = <<>> <=> ToSet(q) = {}
      BY <2>1, EmptyList
    <3> QED BY <1>1, <3>1 DEF CallbacksExact, q
  <2>3. ~Gone(cb_mem[s], q)
    BY <1>1, <2>2 DEF CallbacksExact, Gone
  <2>4. cb_mem[s] = "null" => cb_alloc[s] = 0
    BY <1>1 DEF CallbacksExact
  <2>5. Len(q) <= cb_alloc[s]
    BY <1>3 DEF CallbacksFit
  <2> HIDE DEF q
  <2>6. HasRoom(cb_mem[s], q, cb_alloc[s])
    BY <2>1, <2>4, <2>5, Grows
  <2> QED BY <2>3, <2>6 DEF q
<1> QED BY <1>4, <1>5

LEMMA UsesAfterSend ==
  ASSUME LInv, UnsentExact, NEW a \in Actors, UseAfterFree(a)
  PROVE  \E s \in Signals : shutdown[s]
<1>1. calls[a] # <<>>
  BY DEF UseAfterFree
<1>2. CurrentCall(a).s \in Signals /\ Knows(CurrentCall(a), shutdown)
  BY <1>1, CurrentKnows, CurrentSignal DEF LInv
<1>3. shutdown[CurrentCall(a).s]
  <2> SUFFICES ASSUME ~shutdown[CurrentCall(a).s] PROVE FALSE
    OBVIOUS
  <2>1. /\ ~Gone(tl_mem[CurrentCall(a).s], threadlist[CurrentCall(a).s])
        /\ HasRoom(tl_mem[CurrentCall(a).s], threadlist[CurrentCall(a).s], tl_alloc[CurrentCall(a).s])
        /\ ~Gone(cb_mem[CurrentCall(a).s], callbacks[CurrentCall(a).s])
        /\ HasRoom(cb_mem[CurrentCall(a).s], callbacks[CurrentCall(a).s], cb_alloc[CurrentCall(a).s])
    BY <1>2, ExactHasRoom
  <2> QED BY <1>2, <2>1 DEF UseAfterFree, Knows
<1> QED BY <1>2, <1>3

(* Threads and callbacks come and go in any order, from any threads and for  *)
(* any signals, growing and emptying their lists: before a signal is sent no *)
(* list is read, written or reallocated outside the memory it has.           *)
THEOREM UndefinedOnlyAfterSend == Spec => []DefinedUntilSent
<1>1. Init => LInv /\ UnsentExact /\ DefinedUntilSent
  BY ExactInit DEF Init, DefinedUntilSent
<1>2. LInv /\ UnsentExact /\ DefinedUntilSent /\ [Next]_vars
        => LInv' /\ UnsentExact' /\ DefinedUntilSent'
  <2> SUFFICES ASSUME LInv, UnsentExact, DefinedUntilSent, [Next]_vars, status' = "undefined"
               PROVE  \E s \in Signals : shutdown'[s]
    BY ExactStep DEF DefinedUntilSent
  <2>1. \E s \in Signals : shutdown[s]
    <3>1. CASE status' = status
      BY <3>1 DEF DefinedUntilSent
    <3>2. CASE UNCHANGED Shared \/ (\E t \in Threads : ThreadStep(t))
      BY <3>1, <3>2 DEF Shared, ThreadStep, RegisterThread, ConfirmShutdown, RegisterCb,
                        UnregisterCb, SendAsync, envVars
    <3>3. ASSUME NEW a \in Actors, SenderStep(a)
          PROVE  status' = status
      BY <3>3, Freeing DEF SenderStep, SetShutdown, CallCallbacks, envVars
    <3>4. ASSUME NEW w \in Workers, WorkerFinishes(w)
          PROVE  status' = status
      <4>1. w \in Actors /\ calls[w] # <<>> /\ IsAt(w, "worker", "body")
        BY <3>4 DEF WorkerFinishes, IsAt, Actors
      <4>2. CurrentCall(w).arg \in DOMAIN Exited
        BY <4>1, CurrentKnows DEF Knows, IsAt
      <4> QED BY <3>4, <4>2 DEF WorkerFinishes, Exited
    <3> QED BY <3>1, <3>2, <3>3, <3>4, UsesAfterSend, StepKinds
  <2> QED BY <2>1, FlagStays
<1>3. LInv /\ UnsentExact /\ DefinedUntilSent => DefinedUntilSent
  OBVIOUS
<1> QED BY <1>1, <1>2, <1>3, PTL DEF Spec
=============================================================================
