------------------------ MODULE EvsigProcess_proofs ------------------------
(***************************************************************************)
(* For any threads, shutdown threads, OS signals, callbacks and references *)
(* to the unwind system: no thread that has cleaned up is waited for, the  *)
(* process ends in time only after the unwind actions of every thread that *)
(* was registered have run, and a request to shut down is kept.            *)
(***************************************************************************)
EXTENDS EvsigProcess, ShutdownCalls_proofs

-----------------------------------------------------------------------------
(* The inductive invariant                                                  *)

(* A thread is in a call of its own, at the bottom, and in those of the OS   *)
(* signal handlers that interrupted it.                                      *)
ThreadFrame(f, k, l) ==
  /\ f.s = Global
  /\ \/ f.op = "send_async" /\ f.arg = TRUE
     \/ k = 1 /\ f.op = "register_cb"
     \/ k = 1 /\ f.op = "register_thread" /\ l.at \in {"registering", "polling"}
     \/ k = 1 /\ f.op = "confirm_shutdown" /\ l.at = "leaving"

(* The shutdown thread, its send_block, and what a callback has called.      *)
WorkerStackOK(q) ==
  /\ Len(q) \in 0 .. 3
  /\ q # <<>> => q[1].op = "worker" /\ q[1].s = Global
  /\ Len(q) = 1 => q[1].at \in {"await", "lock", "body"}
  /\ Len(q) > 1 => q[1].at = "sending" /\ q[2].op = "send_block" /\ q[2].s = Global
  /\ Len(q) > 2 => q[3].op \in CallbackOps

LifeOK(l) ==
  /\ l \in Lives
  /\ l.at \in {"new", "polling", "leaving"} => l.todo = 0
  /\ l.at = "abandoned" => l.refs > 0

TypesOK ==
  /\ CallsOK
  /\ shutdown \in [Signals -> BOOLEAN] /\ exit_flag \in [Signals -> BOOLEAN]
  /\ gate \in [Signals -> {0, 1}] /\ alive \in [Signals -> SUBSET Threads]
  /\ threadlist \in [Signals -> Seq(Threads)] /\ NoRepeats(threadlist[Global])
  /\ life \in [Threads -> Lives]

ShapeOK ==
  /\ TypesOK
  /\ \A t \in Threads : LifeOK(life[t])
  /\ \A t \in Threads : \A k \in 1 .. Len(calls[t]) : ThreadFrame(calls[t][k], k, life[t])
  /\ \A w \in Workers : WorkerStackOK(calls[w])

(* t has begun a call of its own and not returned from it.                   *)
InCall(t, op) == calls[t] # <<>> /\ calls[t][1].op = op

(* There is one shutdown thread, for good: it is there from the first        *)
(* registration on, and whoever opens its gate asks for an exit.             *)
GateOK ==
  /\ \A v, w \in Workers : calls[v] # <<>> /\ calls[w] # <<>> => v = w
  /\ \A w \in Workers : calls[w] # <<>> =>
       started[Global] /\ (calls[w][1].at # "await" => gate[Global] = 0)
  /\ handled => started[Global]
  /\ threadlist[Global] # <<>> => started[Global]
  /\ \A t \in Threads :
       life[t].at = "registering" /\ ~InCall(t, "register_thread") => started[Global]
  /\ gate[Global] = 0 => exit_flag[Global] = TRUE

Listed(t) == t \in ToSet(threadlist[Global])

(* Whoever has confirmed is out of the list.                                 *)
LeftOK ==
  \A t \in Threads :
    /\ life[t].at = "leaving" /\ ~InCall(t, "confirm_shutdown") => ~Listed(t)
    /\ life[t].at = "gone" /\ life[t].refs = 0 => ~Listed(t)

(* t has nothing left to unwind.                                             *)
Through(t) == life[t].at \in {"leaving", "gone"} /\ life[t].todo = 0

AllThrough == \A t \in awaited : Through(t)

Dropping == FreeingPlaces
PastFlag == {"lock", "body", "poll", "sleep"} \cup Dropping

(* A send past the flag that does not give up has seen everybody through,    *)
(* and so has the shutdown thread that hears of it.                          *)
SenderKnows(q) ==
  /\ Len(q) = 1 /\ q[1].at # "await" =>
       /\ shutdown[Global] /\ q[1].arg \in DOMAIN Exited
       /\ q[1].arg = "done" => AllThrough
  /\ Len(q) > 1 =>
       /\ q[2].at \in PastFlag => shutdown[Global]
       /\ q[2].at \in Dropping /\ q[2].arg # 1 => AllThrough

GaveUp ==
  \E w \in Workers :
    Len(calls[w]) = 1 /\ calls[w][1].at # "await" /\ calls[w][1].arg = "timeout"

(* Until a send gives up, whoever is awaited is listed or through.           *)
ExitOK ==
  /\ awaited \subseteq Threads
  /\ \A w \in Workers : SenderKnows(calls[w])
  /\ ~shutdown[Global] => \A t \in alive[Global] : Listed(t)
  /\ GaveUp \/ \A t \in awaited : Listed(t) \/ Through(t)
  /\ ActionsRunBeforeExit

ProcessInv == ShapeOK /\ GateOK /\ LeftOK /\ ExitOK

-----------------------------------------------------------------------------
(* The innermost call of an actor                                           *)

LEMMA ThreadTop ==
  ASSUME ShapeOK, NEW t \in Threads, calls[t] # <<>>
  PROVE  /\ t \in Actors /\ t \notin Workers
         /\ calls[t] \in Seq(Frames) /\ Len(calls[t]) \in Nat \ {0}
         /\ CurrentCall(t) = calls[t][Len(calls[t])] /\ CurrentCall(t) \in Frames
         /\ ThreadFrame(CurrentCall(t), Len(calls[t]), life[t])
<1> DEFINE n == Len(calls[t])
<1>1. t \in Actors /\ t \notin Workers
  BY ShutdownAssumption DEF Actors
<1>2. calls[t] \in Seq(Frames) /\ n \in Nat \ {0} /\ n \in 1 .. n
  BY <1>1 DEF ShapeOK, TypesOK, CallsOK
<1>3. calls[t][n] \in Frames /\ ThreadFrame(calls[t][n], n, life[t])
  BY <1>2 DEF ShapeOK
<1> QED BY <1>1, <1>2, <1>3 DEF CurrentCall

LEMMA WorkerTop ==
  ASSUME ShapeOK, NEW w \in Workers, calls[w] # <<>>
  PROVE  /\ w \in Actors /\ w \notin Threads
         /\ calls[w] \in Seq(Frames) /\ Len(calls[w]) \in 1 .. 3
         /\ \A k \in 1 .. Len(calls[w]) : calls[w][k] \in Frames
         /\ CurrentCall(w) = calls[w][Len(calls[w])]
         /\ CurrentCall(w).op = "worker" => Len(calls[w]) = 1
         /\ CurrentCall(w).op = "send_block" => Len(calls[w]) = 2
<1> DEFINE n == Len(calls[w])
<1>1. w \in Actors /\ w \notin Threads
  BY ShutdownAssumption DEF Actors
<1>2. calls[w] \in Seq(Frames) /\ n \in Nat \ {0}
  BY <1>1 DEF ShapeOK, TypesOK, CallsOK
<1>3. WorkerStackOK(calls[w])
  BY DEF ShapeOK
<1>4. \A k \in 1 .. Len(calls[w]) : calls[w][k] \in Frames
  BY <1>2
<1>5. n = 1 \/ n = 2 \/ n = 3
  BY <1>2, <1>3 DEF WorkerStackOK
<1>6. CASE n = 1
  BY <1>1, <1>2, <1>3, <1>4, <1>6 DEF WorkerStackOK, CurrentCall
<1>7. CASE n = 2
  BY <1>1, <1>2, <1>3, <1>4, <1>7 DEF WorkerStackOK, CurrentCall
<1>8. CASE n = 3
  <2>1. CurrentCall(w) = calls[w][3] /\ calls[w][3].op \in CallbackOps
    BY <1>3, <1>8 DEF WorkerStackOK, CurrentCall
  <2>2. CurrentCall(w).op \notin {"worker", "send_block"}
    BY <2>1, ProcessAssumption
  <2> QED BY <1>1, <1>2, <1>4, <1>8, <2>1, <2>2
<1> QED BY <1>5, <1>6, <1>7, <1>8

-----------------------------------------------------------------------------
(* What the steps do to the call stacks                                     *)

(* Whatever actor a is in is the same calls, about the same signal.          *)
Alike(q, r) ==
  /\ Len(r) = Len(q)
  /\ \A k \in 1 .. Len(q) : r[k].op = q[k].op /\ r[k].s = q[k].s /\ r[k].arg = q[k].arg

OthersStay(a) == \A b \in Actors : b # a => calls'[b] = calls[b]

LEMMA GoesTo ==
  ASSUME TypesOK, NEW a \in Actors, calls[a] # <<>>, NEW at \in Places, calls' = GoOn(a, at)
  PROVE  /\ calls' \in [Actors -> Seq(Frames)] /\ OthersStay(a) /\ Alike(calls[a], calls'[a])
         /\ \A k \in 1 .. Len(calls[a]) :
              calls'[a][k].at = IF k = Len(calls[a]) THEN at ELSE calls[a][k].at
<1> DEFINE n == Len(calls[a])
<1>1. CallsOK
  BY DEF TypesOK
<1>2. PICK f \in Frames :
        /\ GoOn(a, at) = [calls EXCEPT ![a] = [calls[a] EXCEPT ![n] = f]]
        /\ f.at = at /\ f.s = CurrentCall(a).s /\ f.op = CurrentCall(a).op
        /\ f.arg = CurrentCall(a).arg
  BY <1>1, GoOnTop
<1>3. calls' = [calls EXCEPT ![a] = [calls[a] EXCEPT ![n] = f]]
  BY <1>2
<1>4. /\ calls' \in [Actors -> Seq(Frames)]
      /\ \A b \in Actors : b # a => calls'[b] = calls[b]
      /\ Len(calls'[a]) = n /\ n \in Nat \ {0}
      /\ \A k \in 1 .. n : k # n => calls'[a][k] = calls[a][k]
      /\ calls'[a][n] = f
  BY <1>1, <1>3, TopOK
<1>5. f.s = calls[a][n].s /\ f.op = calls[a][n].op /\ f.arg = calls[a][n].arg
  BY <1>2 DEF CurrentCall
<1> HIDE DEF n
<1>6. \A k \in 1 .. n :
        /\ calls'[a][k].op = calls[a][k].op /\ calls'[a][k].s = calls[a][k].s
        /\ calls'[a][k].arg = calls[a][k].arg
        /\ calls'[a][k].at = IF k = n THEN at ELSE calls[a][k].at
  BY <1>2, <1>4, <1>5
<1> QED BY <1>4, <1>6 DEF Alike, OthersStay, n

LEMMA LocksAlike ==
  ASSUME TypesOK, NEW a \in Actors, Locks(a)
  PROVE  /\ calls' \in [Actors -> Seq(Frames)] /\ OthersStay(a) /\ Alike(calls[a], calls'[a])
         /\ \A k \in 1 .. Len(calls[a]) :
              calls'[a][k].at = IF k = Len(calls[a]) THEN "body" ELSE calls[a][k].at
         /\ calls[a] # <<>> /\ CurrentCall(a).at = "lock"
<1>1. calls[a] # <<>> /\ CurrentCall(a).at = "lock" /\ calls' = GoOn(a, "body") /\ "body" \in Places
  BY DEF Locks, Places
<1> QED BY <1>1, GoesTo

(* A frame appended by an OS signal handler or a callback.                   *)
LEMMA Appends ==
  ASSUME TypesOK, NEW a \in Actors, NEW f \in Frames,
         calls' = [calls EXCEPT ![a] = Append(calls[a], f)]
  PROVE  /\ calls' \in [Actors -> Seq(Frames)] /\ OthersStay(a)
         /\ Len(calls'[a]) = Len(calls[a]) + 1 /\ Len(calls[a]) \in Nat
         /\ \A k \in 1 .. Len(calls'[a]) :
              calls'[a][k] = IF k = Len(calls[a]) + 1 THEN f ELSE calls[a][k]
<1> DEFINE q == calls[a]
           r == Append(q, f)
<1>1. q \in Seq(Frames) /\ calls \in [Actors -> Seq(Frames)]
  BY DEF TypesOK, CallsOK
<1>2. r \in Seq(Frames) /\ Len(r) = Len(q) + 1 /\ Len(q) \in Nat
      /\ \A k \in 1 .. Len(q) + 1 : r[k] = IF k = Len(q) + 1 THEN f ELSE q[k]
  BY <1>1
<1>3. calls' = [calls EXCEPT ![a] = r]
  OBVIOUS
<1> HIDE DEF r
<1>4. calls' \in [Actors -> Seq(Frames)] /\ OthersStay(a) /\ calls'[a] = r
  BY <1>1, <1>2, <1>3 DEF OthersStay
<1> QED BY <1>2, <1>4

(* A new call stack for a.                                                   *)
LEMMA Becomes ==
  ASSUME TypesOK, NEW a \in Actors, NEW q \in Seq(Frames), calls' = [calls EXCEPT ![a] = q]
  PROVE  calls' \in [Actors -> Seq(Frames)] /\ OthersStay(a) /\ calls'[a] = q
BY DEF TypesOK, CallsOK, OthersStay

(* An own call of a thread returns: it is in none any more.                  *)
LEMMA OwnCallReturns ==
  ASSUME ShapeOK, NEW t \in Threads, calls[t] # <<>>, CurrentCall(t).op # "send_async"
  PROVE  /\ Len(calls[t]) = 1 /\ InCall(t, CurrentCall(t).op)
         /\ Return(t) \in [Actors -> Seq(Frames)] /\ Return(t)[t] = <<>>
         /\ \A b \in Actors : b # t => Return(t)[b] = calls[b]
<1>1. /\ t \in Actors /\ calls[t] \in Seq(Frames) /\ Len(calls[t]) \in Nat \ {0}
      /\ CurrentCall(t) = calls[t][Len(calls[t])]
      /\ ThreadFrame(CurrentCall(t), Len(calls[t]), life[t])
  BY ThreadTop
<1>2. Len(calls[t]) = 1
  BY <1>1 DEF ThreadFrame
<1>3. CallsOK
  BY DEF ShapeOK, TypesOK
<1>4. /\ Return(t) \in [Actors -> Seq(Frames)]
      /\ \A b \in Actors : b # t => Return(t)[b] = calls[b]
      /\ Len(Return(t)[t]) = Len(calls[t]) - 1
  BY <1>1, <1>3, ReturnOK
<1>5. Return(t)[t] \in Seq(Frames) /\ Len(Return(t)[t]) = 0
  BY <1>1, <1>2, <1>4
<1>6. Return(t)[t] = <<>>
  BY <1>5
<1> QED BY <1>1, <1>2, <1>4, <1>6 DEF InCall

-----------------------------------------------------------------------------
(* The steps of a thread that is in a call                                  *)

(* A thread is never in send_block and unregisters no callback.              *)
LEMMA ThreadKinds ==
  ASSUME ShapeOK, NEW t \in Threads, LibraryStep(t)
  PROVE  Locks(t) \/ UseAfterFree(t) \/ RegisterThread(t) \/ ConfirmShutdown(t)
         \/ RegisterCb(t) \/ SendAsync(t)
<1>1. t \notin Workers
  BY ShutdownAssumption
<1>2. ASSUME calls[t] # <<>>, CurrentCall(t).op \in {"send_block", "unregister_cb"}
      PROVE  FALSE
  BY <1>2, ThreadTop DEF ThreadFrame
<1>3. ~FreesCallbacks(t) /\ ~FreesThreadlist(t)
  BY <1>2, Freeing
<1>4. ~SendBlockStep(t) /\ ~UnregisterCb(t)
  BY <1>2, <1>3 DEF SendBlockStep, AlreadySent, NotYetSent, SetShutdown, CallCallbacks, Poll, Sleep,
                    FreesCallbacks, FreesThreadlist, UnregisterCb, IsAt
<1> QED BY <1>1, <1>4 DEF LibraryStep, ThreadStep

LEMMA Registers ==
  ASSUME ShapeOK, NEW t \in Threads, RegisterThread(t)
  PROVE  /\ life[t].at \in {"registering", "polling"} /\ InCall(t, "register_thread")
         /\ calls' \in [Actors -> Seq(Frames)] /\ calls'[t] = <<>>
         /\ threadlist' \in [Signals -> Seq(Threads)] /\ NoRepeats(threadlist'[Global])
         /\ ToSet(threadlist'[Global]) = ToSet(threadlist[Global]) \cup {t}
         /\ alive' = [alive EXCEPT ![Global] = @ \cup {t}]
         /\ master' = [master EXCEPT ![Global] = NoOne]
         /\ UNCHANGED <<last_id, owned, shutdown, exit_flag, status>>
         /\ \/ /\ OthersStay(t) /\ UNCHANGED <<started, gate>>
               /\ started[Global] \/ threadlist[Global] # <<>>
            \/ /\ ~started[Global]
               /\ started' = [started EXCEPT ![Global] = TRUE]
               /\ gate' = [gate EXCEPT ![Global] = 1]
               /\ \E w \in Workers :
                    /\ calls[w] = <<>> /\ calls'[w] = <<Frame("worker", Global, "await", w)>>
                    /\ \A b \in Actors : b # t /\ b # w => calls'[b] = calls[b]
<1> DEFINE q == threadlist[Global]
<1>1. calls[t] # <<>> /\ CurrentCall(t).op = "register_thread"
  BY DEF RegisterThread, IsAt
<1>2. /\ t \in Actors /\ t \notin Workers
      /\ CurrentCall(t).s = Global /\ life[t].at \in {"registering", "polling"}
  BY <1>1, ThreadTop DEF ThreadFrame
<1>3. /\ InCall(t, "register_thread")
      /\ Return(t) \in [Actors -> Seq(Frames)] /\ Return(t)[t] = <<>>
      /\ \A b \in Actors : b # t => Return(t)[b] = calls[b]
  BY <1>1, OwnCallReturns
<1>4. /\ alive' = [alive EXCEPT ![Global] = @ \cup {t}]
      /\ master' = [master EXCEPT ![Global] = NoOne]
      /\ UNCHANGED <<last_id, owned, shutdown, exit_flag, status>>
  BY <1>2 DEF RegisterThread, Unlock, envVars
<1>5. q \in Seq(Threads) /\ NoRepeats(q) /\ Global \in Signals
      /\ threadlist \in [Signals -> Seq(Threads)]
  BY ShutdownAssumption DEF ShapeOK, TypesOK
<1>6. CASE t \in ToSet(q)
  <2>1. calls' = Return(t) /\ UNCHANGED <<threadlist, started, gate>>
    BY <1>2, <1>6 DEF RegisterThread
  <2>2. q # <<>>
    BY <1>6 DEF ToSet
  <2>3. OthersStay(t) /\ calls'[t] = <<>> /\ calls' \in [Actors -> Seq(Frames)]
    BY <1>3, <2>1 DEF OthersStay
  <2> QED BY <1>2, <1>3, <1>4, <1>5, <1>6, <2>1, <2>2, <2>3
<1>7. CASE t \notin ToSet(q)
  <2>1. threadlist' = [threadlist EXCEPT ![Global] = Append(@, t)] /\ StartWorker(t, Global)
    BY <1>2, <1>7 DEF RegisterThread
  <2>2. /\ Append(q, t) \in Seq(Threads) /\ NoRepeats(Append(q, t))
        /\ ToSet(Append(q, t)) = ToSet(q) \cup {t}
    BY <1>5, <1>7, AppendKeeps
  <2> DEFINE r == Append(q, t)
  <2>3. threadlist' = [threadlist EXCEPT ![Global] = r]
    BY <2>1
  <2> HIDE DEF r
  <2>4. threadlist' \in [Signals -> Seq(Threads)] /\ threadlist'[Global] = r
    BY <1>5, <2>2, <2>3 DEF r
  <2>5. NoRepeats(threadlist'[Global]) /\ ToSet(threadlist'[Global]) = ToSet(q) \cup {t}
    BY <2>2, <2>4 DEF r
  <2>6. CASE started[Global]
    <3>1. calls' = Return(t) /\ UNCHANGED <<started, gate>>
      BY <2>1, <2>6 DEF StartWorker
    <3>2. OthersStay(t) /\ calls'[t] = <<>> /\ calls' \in [Actors -> Seq(Frames)]
      BY <1>3, <3>1 DEF OthersStay
    <3> QED BY <1>2, <1>3, <1>4, <2>4, <2>5, <2>6, <3>1, <3>2
  <2>7. CASE ~started[Global]
    <3> DEFINE f(w) == Frame("worker", Global, "await", w)
    <3>1. /\ started' = [started EXCEPT ![Global] = TRUE] /\ gate' = [gate EXCEPT ![Global] = 1]
          /\ \E w \in Workers : calls[w] = <<>> /\ calls' = [Return(t) EXCEPT ![w] = <<f(w)>>]
      BY <2>1, <2>7 DEF StartWorker
    <3>2. PICK w \in Workers : calls[w] = <<>> /\ calls' = [Return(t) EXCEPT ![w] = <<f(w)>>]
      BY <3>1
    <3>3. w \in Actors /\ w # t
      BY <1>2 DEF Actors
    <3>4. f(w) \in Frames
      BY <3>3, ShutdownAssumption DEF Frame, Frames, CallNames, Places, Args
    <3> HIDE DEF f
    <3>5. <<f(w)>> \in Seq(Frames)
      BY <3>4
    <3>6. calls' \in [Actors -> Seq(Frames)] /\ calls'[w] = <<f(w)>>
          /\ \A b \in Actors : b # w => calls'[b] = Return(t)[b]
      BY <1>3, <3>2, <3>3, <3>5
    <3>7. calls'[t] = <<>> /\ \A b \in Actors : b # t /\ b # w => calls'[b] = calls[b]
      BY <1>2, <1>3, <3>3, <3>6
    <3> QED BY <1>2, <1>3, <1>4, <2>4, <2>5, <2>7, <3>1, <3>2, <3>6, <3>7 DEF f
  <2> QED BY <2>6, <2>7
<1> QED BY <1>6, <1>7

LEMMA ConfirmsShutdown ==
  ASSUME ShapeOK, NEW t \in Threads, ConfirmShutdown(t)
  PROVE  /\ life[t].at = "leaving" /\ InCall(t, "confirm_shutdown")
         /\ calls' \in [Actors -> Seq(Frames)] /\ calls'[t] = <<>> /\ OthersStay(t)
         /\ threadlist' \in [Signals -> Seq(Threads)] /\ NoRepeats(threadlist'[Global])
         /\ ToSet(threadlist'[Global]) = ToSet(threadlist[Global]) \ {t}
         /\ alive' = [alive EXCEPT ![Global] = @ \ {t}]
         /\ master' = [master EXCEPT ![Global] = NoOne]
         /\ UNCHANGED <<last_id, owned, flagVars, status>>
<1> DEFINE q == threadlist[Global]
           r == Without(q, t)
<1>1. calls[t] # <<>> /\ CurrentCall(t).op = "confirm_shutdown" /\ calls' = Return(t)
  BY DEF ConfirmShutdown, IsAt
<1>2. CurrentCall(t).s = Global /\ life[t].at = "leaving"
  BY <1>1, ThreadTop DEF ThreadFrame
<1>3. /\ InCall(t, "confirm_shutdown")
      /\ Return(t) \in [Actors -> Seq(Frames)] /\ Return(t)[t] = <<>>
      /\ \A b \in Actors : b # t => Return(t)[b] = calls[b]
  BY <1>1, OwnCallReturns
<1>4. /\ threadlist' = [threadlist EXCEPT ![Global] = r]
      /\ alive' = [alive EXCEPT ![Global] = @ \ {t}]
      /\ master' = [master EXCEPT ![Global] = NoOne]
      /\ UNCHANGED <<last_id, owned, flagVars, status>>
  BY <1>2 DEF ConfirmShutdown, Unlock, envVars
<1>5. q \in Seq(Threads) /\ NoRepeats(q) /\ Global \in Signals
      /\ threadlist \in [Signals -> Seq(Threads)]
  BY ShutdownAssumption DEF ShapeOK, TypesOK
<1>6. r \in Seq(Threads) /\ NoRepeats(r) /\ ToSet(r) = ToSet(q) \ {t}
  BY <1>5, WithoutKeeps
<1> HIDE DEF r
<1>7. threadlist' \in [Signals -> Seq(Threads)] /\ threadlist'[Global] = r
  BY <1>4, <1>5, <1>6
<1>8. calls' \in [Actors -> Seq(Frames)] /\ calls'[t] = <<>> /\ OthersStay(t)
  BY <1>1, <1>3 DEF OthersStay
<1> QED BY <1>2, <1>3, <1>4, <1>6, <1>7, <1>8

LEMMA RegistersCallback ==
  ASSUME ShapeOK, NEW t \in Threads, RegisterCb(t)
  PROVE  /\ calls' \in [Actors -> Seq(Frames)] /\ calls'[t] = <<>> /\ OthersStay(t)
         /\ InCall(t, "register_cb")
         /\ master' = [master EXCEPT ![Global] = NoOne]
         /\ last_id' = [last_id EXCEPT ![Global] = @ + 1]
         /\ owned' = [owned EXCEPT ![Global] = @ \cup {last_id[Global] + 1}]
         /\ UNCHANGED <<threadlist, flagVars, alive, status>>
<1>1. calls[t] # <<>> /\ CurrentCall(t).op = "register_cb" /\ calls' = Return(t)
  BY DEF RegisterCb, IsAt
<1>2. CurrentCall(t).s = Global
  BY <1>1, ThreadTop DEF ThreadFrame
<1>3. /\ InCall(t, "register_cb")
      /\ Return(t) \in [Actors -> Seq(Frames)] /\ Return(t)[t] = <<>>
      /\ \A b \in Actors : b # t => Return(t)[b] = calls[b]
  BY <1>1, OwnCallReturns
<1>4. /\ master' = [master EXCEPT ![Global] = NoOne]
      /\ last_id' = [last_id EXCEPT ![Global] = @ + 1]
      /\ owned' = [owned EXCEPT ![Global] = @ \cup {last_id[Global] + 1}]
      /\ UNCHANGED <<threadlist, flagVars, alive, status>>
  BY <1>2 DEF RegisterCb, Unlock, envVars
<1> QED BY <1>1, <1>3, <1>4 DEF OthersStay

(* An asynchronous send returns: to the call it interrupted, if any.         *)
LEMMA SendsAsync ==
  ASSUME ShapeOK, NEW t \in Threads, SendAsync(t)
  PROVE  /\ calls' \in [Actors -> Seq(Frames)] /\ OthersStay(t)
         /\ \A k \in 1 .. Len(calls'[t]) : k \in 1 .. Len(calls[t]) /\ calls'[t][k] = calls[t][k]
         /\ \A op \in {"register_thread", "confirm_shutdown"} :
              (calls'[t] # <<>> /\ calls'[t][1].op = op) <=> InCall(t, op)
         /\ master' = [master EXCEPT ![Global] = NoOne]
         /\ gate' = [gate EXCEPT ![Global] = 0]
         /\ exit_flag' = [exit_flag EXCEPT ![Global] = TRUE]
         /\ UNCHANGED <<last_id, owned, threadlist, shutdown, started, alive, status>>
<1> DEFINE n == Len(calls[t])
<1>1. calls[t] # <<>> /\ CurrentCall(t).op = "send_async" /\ calls' = Return(t)
  BY DEF SendAsync, IsAt
<1>2. /\ t \in Actors /\ calls[t] \in Seq(Frames) /\ n \in Nat \ {0}
      /\ CurrentCall(t) = calls[t][n]
      /\ CurrentCall(t).s = Global /\ CurrentCall(t).arg = TRUE
  BY <1>1, ThreadTop DEF ThreadFrame
<1>3. CallsOK
  BY DEF ShapeOK, TypesOK
<1>4. /\ calls' \in [Actors -> Seq(Frames)] /\ Len(calls'[t]) = n - 1
      /\ \A b \in Actors : b # t => calls'[b] = calls[b]
      /\ \A k \in 1 .. n - 1 : calls'[t][k] = calls[t][k]
  BY <1>1, <1>2, <1>3, ReturnOK
<1>5. calls'[t] \in Seq(Frames)
  BY <1>2, <1>4
<1>6. /\ master' = [master EXCEPT ![Global] = NoOne]
      /\ gate' = [gate EXCEPT ![Global] = 0]
      /\ exit_flag' = [exit_flag EXCEPT ![Global] = TRUE]
      /\ UNCHANGED <<last_id, owned, threadlist, shutdown, started, alive, status>>
  BY <1>2 DEF SendAsync, Unlock, listVars, envVars
<1>7. ASSUME NEW op \in {"register_thread", "confirm_shutdown"}
      PROVE  (calls'[t] # <<>> /\ calls'[t][1].op = op) <=> InCall(t, op)
  <2>1. CASE n = 1
    <3>1. calls'[t] = <<>>
      BY <1>4, <1>5, <2>1
    <3>2. calls[t][1].op = "send_async"
      BY <1>1, <1>2, <2>1
    <3> QED BY <1>7, <3>1, <3>2 DEF InCall
  <2>2. CASE n # 1
    <3>0. 1 \in 1 .. n - 1 /\ Len(calls'[t]) # 0
      <4> HIDE DEF n
      <4> QED BY <1>2, <1>4, <2>2
    <3>1. calls'[t] # <<>> /\ calls'[t][1] = calls[t][1]
      BY <1>4, <1>5, <3>0
    <3> QED BY <1>1, <3>1 DEF InCall
  <2> QED BY <2>1, <2>2
<1>8. \A k \in 1 .. Len(calls'[t]) : k \in 1 .. n /\ calls'[t][k] = calls[t][k]
  <2> HIDE DEF n
  <2> QED BY <1>2, <1>4
<1> QED BY <1>4, <1>6, <1>7, <1>8 DEF OthersStay

-----------------------------------------------------------------------------
(* The steps of a shutdown thread                                           *)

LEMMA InSendBlock ==
  ASSUME ShapeOK, NEW a \in Actors, NEW at, IsAt(a, "send_block", at)
  PROVE  /\ a \in Workers /\ a \notin Threads /\ calls[a] # <<>> /\ Len(calls[a]) = 2
         /\ calls[a] \in Seq(Frames) /\ calls[a][1] \in Frames /\ calls[a][2] \in Frames
         /\ CurrentCall(a) = calls[a][2] /\ calls[a][2].at = at
         /\ CurrentCall(a).s = Global /\ calls[a][1].at = "sending"
         /\ status = "running"
<1>1. calls[a] # <<>> /\ CurrentCall(a).op = "send_block" /\ CurrentCall(a).at = at
      /\ status = "running"
  BY DEF IsAt
<1>2. a \notin Threads
  BY <1>1, ThreadTop DEF ThreadFrame
<1>3. a \in Workers
  BY <1>2 DEF Actors
<1>4. /\ Len(calls[a]) = 2 /\ CurrentCall(a) = calls[a][Len(calls[a])]
      /\ calls[a] \in Seq(Frames) /\ \A k \in 1 .. Len(calls[a]) : calls[a][k] \in Frames
  BY <1>1, <1>3, WorkerTop
<1>5. CurrentCall(a) = calls[a][2] /\ calls[a][1] \in Frames /\ calls[a][2] \in Frames
  BY <1>4
<1>6. calls[a][2].s = Global /\ calls[a][1].at = "sending"
  BY <1>3, <1>4 DEF ShapeOK, WorkerStackOK
<1> QED BY <1>1, <1>2, <1>3, <1>4, <1>5, <1>6

(* The send goes on, without having given up.                                *)
LEMMA SendGoesTo ==
  ASSUME ShapeOK, NEW a \in Actors, NEW from, NEW to \in Places,
         IsAt(a, "send_block", from), calls' = GoOn(a, to)
  PROVE  /\ calls' \in [Actors -> Seq(Frames)] /\ OthersStay(a) /\ Alike(calls[a], calls'[a])
         /\ Len(calls'[a]) = 2 /\ calls'[a][1].at = "sending" /\ calls'[a][2].at = to
<1>1. a \in Workers /\ calls[a] # <<>> /\ Len(calls[a]) = 2 /\ calls[a][1].at = "sending"
  BY InSendBlock
<1>2. /\ calls' \in [Actors -> Seq(Frames)] /\ OthersStay(a) /\ Alike(calls[a], calls'[a])
      /\ \A k \in 1 .. Len(calls[a]) :
           calls'[a][k].at = IF k = Len(calls[a]) THEN to ELSE calls[a][k].at
  BY <1>1, GoesTo DEF ShapeOK
<1>3. 1 \in 1 .. 2 /\ 2 \in 1 .. 2 /\ 1 # 2
  OBVIOUS
<1>4. calls'[a][1].at = "sending" /\ calls'[a][2].at = to
  BY <1>1, <1>2, <1>3
<1> QED BY <1>1, <1>2, <1>4 DEF Alike

(* The send gives up.                                                        *)
LEMMA SendGivesUp ==
  ASSUME ShapeOK, NEW a \in Actors, Sleep(a), TimedOut(CurrentCall(a))
  PROVE  /\ calls' \in [Actors -> Seq(Frames)] /\ OthersStay(a)
         /\ Len(calls'[a]) = 2 /\ calls'[a][1] = calls[a][1]
         /\ calls'[a][2].op = "send_block" /\ calls'[a][2].s = Global
         /\ calls'[a][2].at = "free_cb" /\ calls'[a][2].arg = 1
<1> DEFINE f == [CurrentCall(a) EXCEPT !.at = "free_cb", !.arg = 1]
           q == calls[a]
<1>1. IsAt(a, "send_block", "sleep") /\ CurrentCall(a).op = "send_block"
  BY DEF Sleep, IsAt
<1>2. /\ a \in Workers /\ Len(q) = 2 /\ q \in Seq(Frames) /\ q # <<>>
      /\ CurrentCall(a) \in Frames /\ CurrentCall(a).s = Global /\ CurrentCall(a) = q[2]
  BY <1>1, InSendBlock
<1>3. f \in Frames
  BY <1>2 DEF Frames, Places, Args
<1>4. f.op = "send_block" /\ f.s = Global /\ f.at = "free_cb" /\ f.arg = 1
  BY <1>1, <1>2 DEF Frames
<1>5. calls' = [calls EXCEPT ![a] = [calls[a] EXCEPT ![Len(calls[a])] = f]]
  BY <1>1 DEF Sleep, CurrentCall, ShapeOK, TypesOK, CallsOK
<1> HIDE DEF f
<1>6. CallsOK
  BY DEF ShapeOK, TypesOK
<1>7. /\ calls' \in [Actors -> Seq(Frames)]
      /\ \A b \in Actors : b # a => calls'[b] = calls[b]
      /\ Len(calls'[a]) = Len(calls[a])
      /\ \A k \in 1 .. Len(calls[a]) : k # Len(calls[a]) => calls'[a][k] = calls[a][k]
      /\ calls'[a][Len(calls[a])] = f
  BY <1>2, <1>3, <1>5, <1>6, TopOK
<1>8. Len(calls'[a]) = 2 /\ calls'[a][1] = calls[a][1] /\ calls'[a][2] = f
  BY <1>2, <1>7
<1> QED BY <1>4, <1>7, <1>8 DEF OthersStay

(* The shutdown thread's send_block returns to it.                           *)
LEMMA SendTells ==
  ASSUME ShapeOK, NEW a \in Actors, NEW from, IsAt(a, "send_block", from),
         NEW how \in DOMAIN Exited, SendBlockReturns(a, how)
  PROVE  /\ calls' \in [Actors -> Seq(Frames)] /\ OthersStay(a)
         /\ Len(calls'[a]) = 1 /\ calls'[a][1].op = "worker" /\ calls'[a][1].s = Global
         /\ calls'[a][1].at = "lock" /\ calls'[a][1].arg = how
<1> DEFINE f == calls[a][1]
           g == [f EXCEPT !.at = "lock", !.arg = how]
           q == <<g>>
<1>1. a \in Workers /\ calls[a] # <<>> /\ f \in Frames /\ Len(calls[a]) = 2
  BY InSendBlock
<1>2. f.op = "worker" /\ f.s = Global
  BY <1>1 DEF ShapeOK, WorkerStackOK
<1>3. g \in Frames
  BY <1>1 DEF Frames, Places, Args
<1>4. g.op = "worker" /\ g.s = Global /\ g.at = "lock" /\ g.arg = how
  BY <1>1, <1>2 DEF Frames
<1>5. calls' = [calls EXCEPT ![a] = q]
  BY <1>1 DEF SendBlockReturns, ShapeOK, TypesOK, CallsOK
<1> HIDE DEF g
<1>6. q \in Seq(Frames) /\ Len(q) = 1 /\ q[1] = g
  BY <1>3
<1> HIDE DEF q
<1>7. calls' \in [Actors -> Seq(Frames)] /\ OthersStay(a) /\ calls'[a] = q
  BY <1>5, <1>6, Becomes DEF ShapeOK
<1> QED BY <1>4, <1>6, <1>7

LEMMA PassesGate ==
  ASSUME ShapeOK, NEW w \in Workers, SeeGateOpen(w)
  PROVE  /\ calls' \in [Actors -> Seq(Frames)] /\ OthersStay(w)
         /\ calls[w] # <<>> /\ Len(calls'[w]) = 2 /\ gate[Global] = 0
         /\ calls'[w][1].op = "worker" /\ calls'[w][1].s = Global /\ calls'[w][1].at = "sending"
         /\ calls'[w][2].op = "send_block" /\ calls'[w][2].s = Global
         /\ calls'[w][2].at = "check"
<1> DEFINE f == [calls[w][1] EXCEPT !.at = "sending"]
           g == Frame("send_block", Global, "check", 0)
           q == <<f, g>>
<1>1. /\ calls[w] # <<>> /\ CurrentCall(w).op = "worker" /\ gate[CurrentCall(w).s] = 0
      /\ calls' = [calls EXCEPT ![w] = q]
  BY DEF SeeGateOpen, IsAt, ShapeOK, TypesOK, CallsOK, Actors
<1>2. /\ w \in Actors /\ Len(calls[w]) = 1 /\ calls[w][1] \in Frames
      /\ CurrentCall(w) = calls[w][1]
  <2>1. Len(calls[w]) = 1 /\ 1 \in 1 .. Len(calls[w])
    BY <1>1, WorkerTop
  <2> QED BY <1>1, <2>1, WorkerTop
<1>3. calls[w][1].op = "worker" /\ calls[w][1].s = Global
  BY <1>1 DEF ShapeOK, WorkerStackOK
<1>4. f \in Frames /\ g \in Frames
  BY <1>2, ShutdownAssumption DEF Frame, Frames, CallNames, Places, Args
<1>5. f.op = "worker" /\ f.s = Global /\ f.at = "sending"
  BY <1>2, <1>3 DEF Frames
<1>6. g.op = "send_block" /\ g.s = Global /\ g.at = "check"
  BY DEF Frame
<1> HIDE DEF f, g
<1>7. q \in Seq(Frames) /\ Len(q) = 2 /\ q[1] = f /\ q[2] = g
  BY <1>4
<1> HIDE DEF q
<1>8. calls' \in [Actors -> Seq(Frames)] /\ OthersStay(w) /\ calls'[w] = q
  BY <1>1, <1>2, <1>7, Becomes DEF ShapeOK
<1> QED BY <1>1, <1>2, <1>3, <1>5, <1>6, <1>7, <1>8

(* The shutdown thread ends the process: its gate was opened for that.       *)
LEMMA Finishes ==
  ASSUME ShapeOK, GateOK, NEW w \in Workers, WorkerFinishes(w)
  PROVE  /\ Len(calls[w]) = 1 /\ calls[w][1].at = "body" /\ status' = Exited[calls[w][1].arg]
         /\ UNCHANGED <<listVars, flagVars, master, calls, ghosts>>
<1>1. calls[w] # <<>> /\ CurrentCall(w).op = "worker" /\ CurrentCall(w).at = "body"
  BY DEF WorkerFinishes, IsAt
<1>2. Len(calls[w]) = 1 /\ CurrentCall(w) = calls[w][1]
  <2>1. Len(calls[w]) = 1
    BY <1>1, WorkerTop
  <2> QED BY <1>1, <2>1, WorkerTop
<1>3. CurrentCall(w).s = Global
  BY <1>1, <1>2 DEF ShapeOK, WorkerStackOK
<1>4. exit_flag[Global] = TRUE
  BY <1>1, <1>2 DEF GateOK
<1>5. exit_flag[CurrentCall(w).s]
  BY <1>3, <1>4, Zenon
<1> QED BY <1>1, <1>2, <1>5 DEF WorkerFinishes, flagVars

-----------------------------------------------------------------------------
(* The steps of a thread's life                                             *)

(* The life l goes on as m, in the calls q.                                  *)
Continues(l, m, q) ==
  /\ LifeOK(m)
  /\ q = <<>> \/ \E f \in Frames : q = <<f>> /\ ThreadFrame(f, 1, m)
  /\ m.at = "registering" => q # <<>> /\ q[1].op = "register_thread"
  /\ m.at = "leaving" => q # <<>> /\ q[1].op = "confirm_shutdown"
  /\ l.at \in {"leaving", "gone"} /\ l.todo = 0 => m.at \in {"leaving", "gone"} /\ m.todo = 0
  /\ m.at = "gone" /\ m.refs = 0 => l.at = "leaving"

LivesOn(t) ==
  /\ calls[t] = <<>>
  /\ \E m, q : /\ Continues(life[t], m, q)
               /\ life' = [life EXCEPT ![t] = m] /\ calls' = [calls EXCEPT ![t] = q]

LEMMA Private ==
  ASSUME ShapeOK, NEW t \in Threads, calls[t] = <<>>, calls' = calls,
         NEW m, Continues(life[t], m, <<>>), life' = [life EXCEPT ![t] = m]
  PROVE  LivesOn(t)
<1>1. calls' = [calls EXCEPT ![t] = <<>>]
  BY DEF ShapeOK, TypesOK, CallsOK
<1> QED BY <1>1 DEF LivesOn

LEMMA WithCall ==
  ASSUME ShapeOK, NEW t \in Threads, calls[t] = <<>>,
         NEW op, NEW arg \in Args, LibraryCall(t, op, arg),
         op \in {"register_thread", "confirm_shutdown", "register_cb", "send_async"},
         NEW m, life' = [life EXCEPT ![t] = m], LifeOK(m),
         ThreadFrame(Frame(op, Global, "lock", arg), 1, m),
         m.at = "registering" => op = "register_thread",
         m.at = "leaving" => op = "confirm_shutdown",
         m.at # "gone", life[t].at \notin {"leaving", "gone"}
  PROVE  LivesOn(t)
<1> DEFINE f == Frame(op, Global, "lock", arg)
<1>1. f \in Frames /\ f.op = op
  BY ShutdownAssumption DEF Frame, Frames, CallNames, Places
<1>2. calls' = [calls EXCEPT ![t] = <<f>>] /\ ThreadFrame(f, 1, m)
  BY DEF LibraryCall
<1> HIDE DEF f
<1>3. <<f>> # <<>> /\ <<f>>[1] = f
  OBVIOUS
<1>4. Continues(life[t], m, <<f>>)
  BY <1>1, <1>2, <1>3 DEF Continues
<1> QED BY <1>2, <1>4 DEF LivesOn

(* A step that only moves a life to another place.                           *)
LEMMA Moved ==
  ASSUME ShapeOK, NEW t \in Threads, NEW at, GoTo(t, at)
  PROVE  life' = [life EXCEPT ![t] = [life[t] EXCEPT !.at = at]]
BY DEF GoTo

LEMMA SigInitLives ==
  ASSUME ShapeOK, NEW t \in Threads, SigInit(t) \/ StartPolling(t) \/ SeeShutdown(t)
  PROVE  LivesOn(t)
<1> DEFINE m(at) == [life[t] EXCEPT !.at = at]
<1>1. LifeOK(life[t]) /\ life[t] \in Lives /\ t \in Args
  BY DEF ShapeOK, LifeOK, Args, Actors
<1>2. ASSUME NEW at \in {"registering", "local", "polling", "leaving"},
             life[t].at \in {"new", "polling"}
      PROVE  LifeOK(m(at)) /\ m(at).at = at
  BY <1>1, <1>2 DEF LifeOK, Lives
<1>3. CASE SigInit(t)
  <2>1. calls[t] = <<>> /\ life[t].at = "new"
    BY <1>3 DEF SigInit, LifeIs, Idle
  <2>2. CASE GoTo(t, "registering") /\ Calls(t, "register_thread", t)
    <3>1. LibraryCall(t, "register_thread", t) /\ life' = [life EXCEPT ![t] = m("registering")]
      BY <2>2, Moved DEF Calls
    <3>2. LifeOK(m("registering")) /\ m("registering").at = "registering"
      BY <1>2, <2>1
    <3> HIDE DEF m
    <3>3. ThreadFrame(Frame("register_thread", Global, "lock", t), 1, m("registering"))
      BY <3>2 DEF ThreadFrame, Frame
    <3> QED BY <1>1, <2>1, <3>1, <3>2, <3>3, WithCall
  <2>3. CASE GoTo(t, "local") /\ Privately
    <3>1. calls' = calls /\ life' = [life EXCEPT ![t] = m("local")]
      BY <2>3, Moved DEF Privately
    <3>2. LifeOK(m("local")) /\ m("local").at = "local"
      BY <1>2, <2>1
    <3> HIDE DEF m
    <3>3. Continues(life[t], m("local"), <<>>)
      BY <2>1, <3>2 DEF Continues
    <3> QED BY <2>1, <3>1, <3>3, Private
  <2> QED BY <1>3, <2>2, <2>3 DEF SigInit
<1>4. CASE StartPolling(t)
  <2>1. /\ calls[t] = <<>> /\ life[t].at = "new"
        /\ LibraryCall(t, "register_thread", t) /\ life' = [life EXCEPT ![t] = m("polling")]
    BY <1>4, Moved DEF StartPolling, LifeIs, Idle, Calls
  <2>2. LifeOK(m("polling")) /\ m("polling").at = "polling"
    BY <1>2, <2>1
  <2> HIDE DEF m
  <2>3. ThreadFrame(Frame("register_thread", Global, "lock", t), 1, m("polling"))
    BY <2>2 DEF ThreadFrame, Frame
  <2> QED BY <1>1, <2>1, <2>2, <2>3, WithCall
<1>5. CASE SeeShutdown(t)
  <2>1. /\ calls[t] = <<>> /\ life[t].at = "polling"
        /\ LibraryCall(t, "confirm_shutdown", t) /\ life' = [life EXCEPT ![t] = m("leaving")]
    BY <1>5, Moved DEF SeeShutdown, LifeIs, Idle, Calls
  <2>2. LifeOK(m("leaving")) /\ m("leaving").at = "leaving"
    BY <1>2, <2>1
  <2> HIDE DEF m
  <2>3. ThreadFrame(Frame("confirm_shutdown", Global, "lock", t), 1, m("leaving"))
    BY <2>2 DEF ThreadFrame, Frame
  <2> QED BY <1>1, <2>1, <2>2, <2>3, WithCall
<1> QED BY <1>3, <1>4, <1>5

LEMMA InitUnwindLives ==
  ASSUME ShapeOK, NEW t \in Threads, InitUnwind(t)
  PROVE  LivesOn(t)
<1> DEFINE m == [at |-> "running", refs |-> 1, todo |-> 0]
<1>1. /\ calls[t] = <<>> /\ life[t].at \in {"registering", "local"}
      /\ life' = [life EXCEPT ![t] = m] /\ calls' = calls
  BY DEF InitUnwind, LifeIs, Idle
<1>2. m \in Lives
  BY ProcessAssumption DEF Lives
<1>3. LifeOK(m) /\ m.at = "running"
  BY <1>2 DEF LifeOK
<1> HIDE DEF m
<1>4. Continues(life[t], m, <<>>)
  BY <1>1, <1>3 DEF Continues
<1> QED BY <1>1, <1>4, Private

(* The steps of ThreadLife that go without a call, and those that ask.       *)
LEMMA PrivateContinues ==
  ASSUME NEW l, LifeOK(l), NEW m \in Lives,
         \/ Works(l, m) \/ CountsReferences(l, m) \/ IsUnhandled(l, m) \/ IsHandledAfterAll(l, m)
         \/ CleansUp(l, m) \/ GoesOn(l, m) \/ Abandons(l, m) \/ Ends(l, m)
  PROVE  Continues(l, m, <<>>)
<1> USE DEF Continues, LifeOK, Lives
<1>1. CASE Works(l, m)
  BY <1>1 DEF Works
<1>2. CASE CountsReferences(l, m)
  BY <1>2 DEF CountsReferences
<1>3. CASE IsUnhandled(l, m) \/ IsHandledAfterAll(l, m)
  BY <1>3 DEF IsUnhandled, IsHandledAfterAll
<1>4. CASE CleansUp(l, m)
  BY <1>4 DEF CleansUp
<1>5. CASE GoesOn(l, m) \/ Abandons(l, m)
  BY <1>5 DEF GoesOn, Abandons
<1>6. CASE Ends(l, m)
  BY <1>6 DEF Ends
<1> QED BY <1>1, <1>2, <1>3, <1>4, <1>5, <1>6

LEMMA PlacesAreLives ==
  \A at \in {"running", "unhandled", "raised", "asked", "cleaning", "dying", "leaving",
            "abandoned", "gone"} : LivesAt(at) \subseteq Lives
BY DEF LivesAt, Lives

LEMMA PrivateStepLives ==
  ASSUME ShapeOK, NEW t \in Threads,
         \/ Work(t) \/ CountReference(t) \/ ReachCatchAll(t) \/ HandleAfterAll(t)
         \/ CatchallCleansUp(t) \/ ThreadCleansUp(t) \/ RunAction(t) \/ KeepReferences(t)
         \/ End(t)
  PROVE  LivesOn(t)
<1>1. /\ calls[t] = <<>> /\ calls' = calls
      /\ \E m \in Lives :
           /\ life' = [life EXCEPT ![t] = m]
           /\ \/ Works(life[t], m) \/ CountsReferences(life[t], m)
              \/ IsUnhandled(life[t], m) \/ IsHandledAfterAll(life[t], m)
              \/ CleansUp(life[t], m) \/ GoesOn(life[t], m)
              \/ Abandons(life[t], m) \/ Ends(life[t], m)
  <2> USE PlacesAreLives DEF Steps, LifeIs, Idle, Privately
  <2>1. CASE Work(t) \/ RunAction(t)
    BY <2>1 DEF Work, RunAction, Endings
  <2>2. CASE CountReference(t)
    BY <2>2 DEF CountReference
  <2>3. CASE ReachCatchAll(t) \/ HandleAfterAll(t)
    BY <2>3 DEF ReachCatchAll, HandleAfterAll
  <2>4. CASE CatchallCleansUp(t) \/ ThreadCleansUp(t)
    BY <2>4 DEF CatchallCleansUp, ThreadCleansUp
  <2>5. CASE KeepReferences(t)
    BY <2>5 DEF KeepReferences
  <2>6. CASE End(t)
    BY <2>6 DEF End
  <2> QED BY <2>1, <2>2, <2>3, <2>4, <2>5, <2>6
<1>2. PICK m \in Lives :
        /\ life' = [life EXCEPT ![t] = m]
        /\ \/ Works(life[t], m) \/ CountsReferences(life[t], m)
           \/ IsUnhandled(life[t], m) \/ IsHandledAfterAll(life[t], m)
           \/ CleansUp(life[t], m) \/ GoesOn(life[t], m)
           \/ Abandons(life[t], m) \/ Ends(life[t], m)
  BY <1>1
<1>3. LifeOK(life[t])
  BY DEF ShapeOK
<1>4. Continues(life[t], m, <<>>)
  BY <1>2, <1>3, PrivateContinues
<1> QED BY <1>1, <1>2, <1>4, Private

LEMMA AsksLives ==
  ASSUME ShapeOK, NEW t \in Threads,
         \/ RegisterCallback(t) \/ RestartFails(t) \/ ReportsOverflow(t)
         \/ RaiseSigint(t) \/ UnwindAll(t) \/ Confirm(t)
  PROVE  LivesOn(t)
<1>1. LifeOK(life[t]) /\ life[t] \in Lives /\ life = [life EXCEPT ![t] = life[t]]
  BY DEF ShapeOK, TypesOK, LifeOK
<1>2. 0 \in Args /\ TRUE \in Args /\ t \in Args
  BY DEF Args, Actors
<1>3. CASE life' = life /\ calls' = calls /\ calls[t] = <<>> /\ life[t].at \in {"running", "unhandled"}
  <2>1. Continues(life[t], life[t], <<>>)
    BY <1>1, <1>3 DEF Continues
  <2> QED BY <1>1, <1>3, <2>1, Private
<1>4. CASE RegisterCallback(t)
  <2>1. /\ calls[t] = <<>> /\ life[t].at = "running" /\ life' = life
        /\ LibraryCall(t, "register_cb", 0)
    BY <1>4 DEF RegisterCallback, LifeIs, Idle, Calls
  <2>2. ThreadFrame(Frame("register_cb", Global, "lock", 0), 1, life[t])
    BY DEF ThreadFrame, Frame
  <2>3. life' = [life EXCEPT ![t] = life[t]]
    BY <1>1, <2>1
  <2> QED BY <1>1, <1>2, <2>1, <2>2, <2>3, WithCall
<1>5. CASE RestartFails(t) \/ ReportsOverflow(t)
  BY <1>3, <1>5 DEF RestartFails, ReportsOverflow, LifeIs, Idle
<1>6. ASSUME NEW m \in Lives, life' = [life EXCEPT ![t] = m], calls[t] = <<>>,
             LibraryCall(t, "send_async", TRUE), Raises(life[t], m) \/ Asks(life[t], m)
      PROVE  LivesOn(t)
  <2>1. LifeOK(m) /\ m.at \in {"raised", "asked"} /\ life[t].at \notin {"leaving", "gone"}
    BY <1>1, <1>6 DEF Raises, Asks, LifeOK, Lives
  <2>2. ThreadFrame(Frame("send_async", Global, "lock", TRUE), 1, m)
    BY DEF ThreadFrame, Frame
  <2> QED BY <1>2, <1>6, <2>1, <2>2, WithCall
<1>7. CASE RaiseSigint(t)
  <2>1. CASE handled /\ Steps(t, "unhandled", "raised", Raises) /\ Calls(t, "send_async", TRUE)
    BY <1>6, <2>1, PlacesAreLives DEF Steps, LifeIs, Idle, Calls
  <2>2. CASE ~handled /\ LifeIs(t, "unhandled") /\ UNCHANGED <<calls, life, handled>>
    BY <1>3, <2>2 DEF LifeIs, Idle
  <2> QED BY <1>7, <2>1, <2>2 DEF RaiseSigint
<1>8. CASE UnwindAll(t)
  BY <1>6, <1>8, PlacesAreLives DEF UnwindAll, Steps, LifeIs, Idle, Calls
<1>9. CASE Confirm(t)
  <2>1. PICK m \in Lives : /\ Confirms(life[t], m) /\ life' = [life EXCEPT ![t] = m]
                           /\ calls[t] = <<>> /\ LibraryCall(t, "confirm_shutdown", t)
    BY <1>9, PlacesAreLives DEF Confirm, Endings, Steps, LifeIs, Idle, Calls
  <2>2. LifeOK(m) /\ m.at = "leaving" /\ life[t].at \notin {"leaving", "gone"}
    BY <1>1, <2>1 DEF Confirms, LifeOK, Lives
  <2>3. ThreadFrame(Frame("confirm_shutdown", Global, "lock", t), 1, m)
    BY <2>2 DEF ThreadFrame, Frame
  <2> QED BY <1>2, <2>1, <2>2, <2>3, WithCall
<1> QED BY <1>4, <1>5, <1>7, <1>8, <1>9

(* What a step of a thread's life leaves alone.                              *)
LEMMA LifeSteps ==
  ASSUME ShapeOK, NEW t \in Threads, LibraryRuns(t) \/ ThreadDoes(t)
  PROVE  /\ LivesOn(t)
         /\ UNCHANGED <<listVars, flagVars, master, ghosts, awaited>>
         /\ status' \in {status, "failed", "killed"}
         /\ handled' => handled \/ life[t].at = "registering"
         /\ status = "running"
<1>1. LivesOn(t)
  BY SigInitLives, InitUnwindLives, PrivateStepLives, AsksLives DEF LibraryRuns, ThreadDoes
<1>2. /\ UNCHANGED <<listVars, flagVars, master, ghosts, awaited>>
      /\ status' \in {status, "failed", "killed"}
      /\ handled' => handled \/ life[t].at = "registering"
      /\ status = "running"
  <2> USE DEF Elsewhere, Privately, Calls, Steps, Idle, LifeIs
  <2>1. CASE SigInit(t) \/ StartPolling(t) \/ SeeShutdown(t)
    BY <2>1 DEF SigInit, StartPolling, SeeShutdown
  <2>2. CASE InitUnwind(t)
    BY <2>2 DEF InitUnwind
  <2>3. CASE Work(t) \/ CountReference(t) \/ RunAction(t) \/ KeepReferences(t) \/ End(t)
    BY <2>3 DEF Work, CountReference, RunAction, KeepReferences, End
  <2>4. CASE ReachCatchAll(t) \/ HandleAfterAll(t) \/ CatchallCleansUp(t) \/ ThreadCleansUp(t)
    BY <2>4 DEF ReachCatchAll, HandleAfterAll, CatchallCleansUp, ThreadCleansUp
  <2>5. CASE RegisterCallback(t) \/ UnwindAll(t) \/ Confirm(t)
    <3>1. Elsewhere /\ UNCHANGED <<status, handled>> /\ status = "running"
      BY <2>5 DEF RegisterCallback, UnwindAll, Confirm
    <3> QED BY <3>1
  <2>6. CASE RestartFails(t) \/ ReportsOverflow(t)
    BY <2>6 DEF RestartFails, ReportsOverflow
  <2>7. CASE RaiseSigint(t)
    <3>1. /\ Elsewhere /\ status = "running"
          /\ status' \in {status, "killed"} /\ UNCHANGED handled
      BY <2>7 DEF RaiseSigint
    <3> QED BY <3>1
  <2> QED BY <2>1, <2>2, <2>3, <2>4, <2>5, <2>6, <2>7 DEF LibraryRuns, ThreadDoes
<1> QED BY <1>1, <1>2

-----------------------------------------------------------------------------
(* The steps that nobody's call makes                                       *)

(* a is in the calls q it was in, and perhaps an OS signal handler or a       *)
(* callback has begun one on top.                                            *)
StepsFrom(a, q, r) ==
  /\ Len(q) \in Nat /\ Len(r) \in {Len(q), Len(q) + 1}
  /\ \A k \in 1 .. Len(q) :
       /\ r[k].op = q[k].op /\ r[k].s = q[k].s
       /\ r[k].at = q[k].at /\ r[k].arg = q[k].arg
  /\ Len(r) # Len(q) =>
       \/ a \in Threads /\ ThreadFrame(r[Len(r)], 0, life[a])
       \/ a \in Workers /\ Len(q) = 2 /\ r[Len(r)].op \in CallbackOps

Undisturbed ==
  /\ calls' \in [Actors -> Seq(Frames)]
  /\ \A a \in Actors : StepsFrom(a, calls[a], calls'[a])
  /\ UNCHANGED <<listVars, flagVars, master, ghosts, life, awaited>>
  /\ handled' = handled
  /\ status' \in {status, "killed", "undefined"}

LEMMA GrowsNot ==
  ASSUME ShapeOK, NEW a \in Actors, calls'[a] = calls[a]
  PROVE  StepsFrom(a, calls[a], calls'[a])
<1>1. calls[a] \in Seq(Frames) /\ Len(calls[a]) \in Nat
  BY DEF ShapeOK, TypesOK, CallsOK
<1> QED BY <1>1 DEF StepsFrom

LEMMA NobodyCalls ==
  ASSUME ShapeOK, calls' = calls
  PROVE  calls' \in [Actors -> Seq(Frames)] /\ \A a \in Actors : StepsFrom(a, calls[a], calls'[a])
BY GrowsNot DEF ShapeOK, TypesOK, CallsOK

LEMMA GrowsBy ==
  ASSUME ShapeOK, NEW a \in Actors, NEW f \in Frames,
         calls' = [calls EXCEPT ![a] = Append(calls[a], f)],
         \/ a \in Threads /\ ThreadFrame(f, 0, life[a])
         \/ a \in Workers /\ Len(calls[a]) = 2 /\ f.op \in CallbackOps
  PROVE  calls' \in [Actors -> Seq(Frames)] /\ \A b \in Actors : StepsFrom(b, calls[b], calls'[b])
<1> DEFINE n == Len(calls[a])
<1>1. /\ calls' \in [Actors -> Seq(Frames)] /\ OthersStay(a)
      /\ Len(calls'[a]) = n + 1 /\ n \in Nat
      /\ \A k \in 1 .. Len(calls'[a]) : calls'[a][k] = IF k = n + 1 THEN f ELSE calls[a][k]
  BY Appends DEF ShapeOK
<1> HIDE DEF n
<1>2. \A k \in 1 .. n : calls'[a][k] = calls[a][k]
  BY <1>1
<1>3. calls'[a][Len(calls'[a])] = f
  BY <1>1
<1>4. StepsFrom(a, calls[a], calls'[a])
  BY <1>1, <1>2, <1>3 DEF StepsFrom, n
<1>5. ASSUME NEW b \in Actors, b # a PROVE StepsFrom(b, calls[b], calls'[b])
  BY <1>1, <1>5, GrowsNot DEF OthersStay
<1> QED BY <1>1, <1>4, <1>5

LEMMA DeliverQuiet ==
  ASSUME ShapeOK, NEW t \in Threads, Deliver(t)
  PROVE  Undisturbed
<1> DEFINE f == Frame("send_async", Global, "lock", TRUE)
<1>1. UNCHANGED <<life, awaited>> /\ handled' = handled
  BY DEF Deliver, lifeVars
<1>2. CASE OsSignal(t)
  <2>1. f \in Frames /\ t \in Actors
    BY ShutdownAssumption DEF Frame, Frames, CallNames, Places, Args, Actors
  <2>2. ThreadFrame(f, 0, life[t])
    BY DEF ThreadFrame, Frame
  <2>3. calls' = [calls EXCEPT ![t] = Append(calls[t], f)]
    BY <1>2, <2>1 DEF OsSignal, ShapeOK, TypesOK, CallsOK
  <2> HIDE DEF f
  <2>4. calls' \in [Actors -> Seq(Frames)] /\ \A b \in Actors : StepsFrom(b, calls[b], calls'[b])
    BY <2>1, <2>2, <2>3, GrowsBy
  <2>5. UNCHANGED <<listVars, flagVars, master, ghosts>> /\ status' = status
    BY <1>2 DEF OsSignal
  <2> QED BY <1>1, <2>4, <2>5 DEF Undisturbed
<1>3. CASE /\ status' = "killed"
           /\ UNCHANGED <<listVars, flagVars, master, calls, left, jumps_left, ghosts>>
  <2>1. calls' \in [Actors -> Seq(Frames)] /\ \A b \in Actors : StepsFrom(b, calls[b], calls'[b])
    BY <1>3, NobodyCalls
  <2> QED BY <1>1, <1>3, <2>1 DEF Undisturbed
<1> QED BY <1>2, <1>3 DEF Deliver

LEMMA CallbackQuiet ==
  ASSUME ShapeOK, NEW a \in Actors, CallbackCalls(a)
  PROVE  Undisturbed
<1>1. /\ IsAt(a, "send_block", "body")
      /\ UNCHANGED <<listVars, flagVars, master, ghosts, life, awaited, status>>
      /\ handled' = handled
  BY DEF CallbackCalls, lifeVars, envVars
<1>2. a \in Workers /\ Len(calls[a]) = 2 /\ CurrentCall(a).s = Global
  BY <1>1, InSendBlock
<1>3. PICK op \in CallbackOps :
        calls' = [calls EXCEPT ![a] = Append(@, Frame(op, Global, "lock", a))]
  BY <1>2 DEF CallbackCalls
<1> DEFINE f == Frame(op, Global, "lock", a)
<1>4. f \in Frames /\ f.op \in CallbackOps
  BY ShutdownAssumption, ProcessAssumption DEF Frame, Frames, CallNames, Places, Args
<1>5. calls' = [calls EXCEPT ![a] = Append(calls[a], f)]
  BY <1>3 DEF ShapeOK, TypesOK, CallsOK
<1> HIDE DEF f
<1>6. calls' \in [Actors -> Seq(Frames)] /\ \A b \in Actors : StepsFrom(b, calls[b], calls'[b])
  BY <1>2, <1>4, <1>5, GrowsBy
<1> QED BY <1>1, <1>6 DEF Undisturbed

LEMMA TimeQuiet ==
  ASSUME ShapeOK, TimePasses
  PROVE  Undisturbed
<1>1. /\ Tick \/ SetClock
      /\ UNCHANGED <<listVars, flagVars, master, ghosts, life, awaited, status>>
      /\ handled' = handled
  BY DEF TimePasses, Tick, SetClock, lifeVars, envVars
<1>2. CallsOK
  BY DEF ShapeOK, TypesOK
<1>3. /\ calls' \in [Actors -> Seq(Frames)]
      /\ \A a \in Actors :
           /\ Len(calls'[a]) = Len(calls[a])
           /\ \A k \in 1 .. Len(calls[a]) :
                /\ calls'[a][k].at = calls[a][k].at /\ calls'[a][k].s = calls[a][k].s
                /\ calls'[a][k].op = calls[a][k].op /\ calls'[a][k].arg = calls[a][k].arg
  BY <1>1, <1>2, ClockAlike
<1>4. ASSUME NEW a \in Actors PROVE StepsFrom(a, calls[a], calls'[a])
  <2>1. Len(calls[a]) \in Nat
    BY <1>2 DEF CallsOK
  <2> QED BY <1>3, <2>1 DEF StepsFrom
<1> QED BY <1>1, <1>3, <1>4 DEF Undisturbed

LEMMA FreedQuiet ==
  ASSUME ShapeOK, NEW a \in Actors, SignalStep(a), UseAfterFree(a)
  PROVE  Undisturbed
<1>1. /\ UNCHANGED <<listVars, flagVars, master, ghosts, calls, life>>
      /\ handled' = handled /\ status' = "undefined"
  BY DEF UseAfterFree, UndefinedBehaviour, SignalStep
<1>2. awaited' = awaited
  BY <1>1 DEF SignalStep, flagVars
<1>3. calls' \in [Actors -> Seq(Frames)] /\ \A b \in Actors : StepsFrom(b, calls[b], calls'[b])
  BY <1>1, NobodyCalls
<1> QED BY <1>1, <1>2, <1>3 DEF Undisturbed

LEMMA StutterQuiet ==
  ASSUME ShapeOK, UNCHANGED procVars
  PROVE  Undisturbed
<1>1. /\ UNCHANGED <<listVars, flagVars, master, ghosts, calls, life, awaited, status>>
      /\ handled' = handled
  BY DEF procVars, vars, lifeVars, envVars
<1>2. calls' \in [Actors -> Seq(Frames)] /\ \A b \in Actors : StepsFrom(b, calls[b], calls'[b])
  BY <1>1, NobodyCalls
<1> QED BY <1>1, <1>2 DEF Undisturbed

(* Every step of the process is of one of these kinds.                       *)
LEMMA ProcessKinds ==
  ASSUME ShapeOK, [ProcessNext]_procVars
  PROVE  \/ \E t \in Threads : LibraryRuns(t) \/ ThreadDoes(t)
         \/ Undisturbed
         \/ \E a \in Actors : SignalStep(a) /\ Locks(a)
         \/ \E t \in Threads : /\ SignalStep(t)
                              /\ \/ RegisterThread(t) \/ ConfirmShutdown(t)
                                 \/ RegisterCb(t) \/ SendAsync(t)
         \/ \E w \in Workers : SignalStep(w) /\ (SendBlockStep(w) \/ WorkerStep(w))
<1>1. ASSUME NEW t \in Threads, SignalStep(t), ~Locks(t), ~UseAfterFree(t)
      PROVE  RegisterThread(t) \/ ConfirmShutdown(t) \/ RegisterCb(t) \/ SendAsync(t)
  BY <1>1, ThreadKinds DEF SignalStep
<1>2. ASSUME NEW w \in Workers, SignalStep(w), ~Locks(w), ~UseAfterFree(w)
      PROVE  SendBlockStep(w) \/ WorkerStep(w)
  BY <1>2, ShutdownAssumption DEF SignalStep, LibraryStep
<1>3. ASSUME NEW a \in Actors, SignalStep(a)
      PROVE  \/ Undisturbed
             \/ SignalStep(a) /\ Locks(a)
             \/ /\ a \in Threads
                /\ RegisterThread(a) \/ ConfirmShutdown(a) \/ RegisterCb(a) \/ SendAsync(a)
             \/ a \in Workers /\ (SendBlockStep(a) \/ WorkerStep(a))
  BY <1>1, <1>2, <1>3, FreedQuiet DEF Actors
<1> QED BY <1>3, DeliverQuiet, CallbackQuiet, TimeQuiet, StutterQuiet DEF ProcessNext

-----------------------------------------------------------------------------
(* Types and call stacks, step by step                                      *)

LEMMA ShapeOfLife ==
  ASSUME ShapeOK, NEW t \in Threads, LibraryRuns(t) \/ ThreadDoes(t)
  PROVE  ShapeOK'
<1>1. /\ LivesOn(t) /\ UNCHANGED <<listVars, flagVars, master, ghosts, awaited>>
  BY LifeSteps
<1>2. PICK m, q : /\ Continues(life[t], m, q)
                  /\ life' = [life EXCEPT ![t] = m] /\ calls' = [calls EXCEPT ![t] = q]
  BY <1>1 DEF LivesOn
<1>3. /\ LifeOK(m) /\ m \in Lives
      /\ q = <<>> \/ \E f \in Frames : q = <<f>> /\ ThreadFrame(f, 1, m)
  BY <1>2 DEF Continues, LifeOK
<1>4. q \in Seq(Frames) /\ \A k \in 1 .. Len(q) : ThreadFrame(q[k], k, m)
  <2>1. CASE q = <<>>
    BY <2>1
  <2>2. ASSUME NEW f \in Frames, q = <<f>>, ThreadFrame(f, 1, m)
        PROVE  q \in Seq(Frames) /\ \A k \in 1 .. Len(q) : ThreadFrame(q[k], k, m)
    BY <2>2
  <2> QED BY <1>3, <2>1, <2>2
<1>5. t \in Actors /\ t \notin Workers
  BY ShutdownAssumption DEF Actors
<1>6. calls' \in [Actors -> Seq(Frames)] /\ OthersStay(t) /\ calls'[t] = q
  BY <1>2, <1>4, <1>5, Becomes DEF ShapeOK
<1>7. life' \in [Threads -> Lives] /\ life'[t] = m /\ \A u \in Threads : u # t => life'[u] = life[u]
  BY <1>2, <1>3 DEF ShapeOK, TypesOK
<1>8. TypesOK'
  BY <1>1, <1>6, <1>7 DEF ShapeOK, TypesOK, CallsOK, listVars, flagVars, ghosts
<1>9. \A u \in Threads : LifeOK(life'[u])
  BY <1>3, <1>7 DEF ShapeOK
<1>10. \A u \in Threads : \A k \in 1 .. Len(calls'[u]) : ThreadFrame(calls'[u][k], k, life'[u])
  <2> SUFFICES ASSUME NEW u \in Threads, NEW k \in 1 .. Len(calls'[u])
               PROVE  ThreadFrame(calls'[u][k], k, life'[u])
    OBVIOUS
  <2>1. CASE u = t
    BY <1>4, <1>6, <1>7, <2>1
  <2>2. CASE u # t
    BY <1>6, <1>7, <2>2 DEF ShapeOK, OthersStay, Actors
  <2> QED BY <2>1, <2>2
<1>11. \A w \in Workers : WorkerStackOK(calls'[w])
  BY <1>5, <1>6 DEF ShapeOK, OthersStay, Actors
<1> QED BY <1>8, <1>9, <1>10, <1>11 DEF ShapeOK

(* The call stack of one thread loses frames at most, or none changes but in *)
(* its place; that of a shutdown thread changes to q.                        *)
LEMMA ShapeOfThread ==
  ASSUME ShapeOK, TypesOK', NEW t \in Threads, life' = life,
         \A u \in Threads : u # t => calls'[u] = calls[u],
         \A k \in 1 .. Len(calls'[t]) :
           /\ k \in 1 .. Len(calls[t])
           /\ calls'[t][k].op = calls[t][k].op /\ calls'[t][k].s = calls[t][k].s
           /\ calls'[t][k].arg = calls[t][k].arg,
         \A w \in Workers : WorkerStackOK(calls'[w])
  PROVE  ShapeOK'
<1>1. \A u \in Threads : \A k \in 1 .. Len(calls'[u]) : ThreadFrame(calls'[u][k], k, life'[u])
  <2> SUFFICES ASSUME NEW u \in Threads, NEW k \in 1 .. Len(calls'[u])
               PROVE  ThreadFrame(calls'[u][k], k, life[u])
    OBVIOUS
  <2>1. CASE u = t
    <3>1. ThreadFrame(calls[t][k], k, life[t])
      BY <2>1 DEF ShapeOK
    <3> QED BY <2>1, <3>1 DEF ThreadFrame
  <2>2. CASE u # t
    BY <2>2 DEF ShapeOK
  <2> QED BY <2>1, <2>2
<1> QED BY <1>1 DEF ShapeOK

LEMMA ShapeOfWorker ==
  ASSUME ShapeOK, TypesOK', NEW w \in Workers, life' = life,
         OthersStay(w), WorkerStackOK(calls'[w])
  PROVE  ShapeOK'
<1>1. \A u \in Threads : u \in Actors /\ u # w
  BY ShutdownAssumption DEF Actors
<1>2. \A v \in Workers : WorkerStackOK(calls'[v])
  BY DEF ShapeOK, OthersStay, Actors
<1> QED BY <1>1, <1>2 DEF ShapeOK, OthersStay

(* What the other threads see of a shutdown thread is as it was.             *)
SameWork(q, r) ==
  /\ (q = <<>>) <=> (r = <<>>)
  /\ (Len(q) = 1) <=> (Len(r) = 1)
  /\ (Len(q) > 1) <=> (Len(r) > 1)
  /\ q # <<>> => r[1].arg = q[1].arg /\ (r[1].at = "await" <=> q[1].at = "await")
  /\ Len(q) > 1 => /\ r[2].arg = q[2].arg
                   /\ r[2].at \in PastFlag => q[2].at \in PastFlag
                   /\ r[2].at \in Dropping => q[2].at \in Dropping

Stacks == Seq(Frames)

LEMMA StackGrows ==
  ASSUME NEW q \in Stacks, NEW r \in Stacks,
         NEW w \in Workers, w \notin Threads, WorkerStackOK(q), StepsFrom(w, q, r)
  PROVE  WorkerStackOK(r) /\ SameWork(q, r)
<1>1. Len(q) = 0 \/ Len(q) = 1 \/ Len(q) = 2 \/ Len(q) = 3
  BY DEF WorkerStackOK
<1>2. (q = <<>> <=> Len(q) = 0) /\ (r = <<>> <=> Len(r) = 0)
  BY DEF Stacks
<1>3. CASE Len(q) = 0
  <2>1. Len(r) = 0
    BY <1>3 DEF StepsFrom
  <2> QED BY <1>2, <1>3, <2>1 DEF WorkerStackOK, SameWork
<1>4. CASE Len(q) = 1
  <2>1. Len(r) = 1 /\ r[1].op = q[1].op /\ r[1].s = q[1].s /\ r[1].at = q[1].at
        /\ r[1].arg = q[1].arg
    <3>1. 1 \in 1 .. Len(q)
      BY <1>4
    <3> QED BY <1>4, <3>1 DEF StepsFrom
  <2> QED BY <1>2, <1>4, <2>1 DEF WorkerStackOK, SameWork
<1>5. ASSUME Len(q) = 2 \/ Len(q) = 3,
             Len(r) = 2 \/ (Len(r) = 3 /\ r[3].op \in CallbackOps)
      PROVE  WorkerStackOK(r) /\ SameWork(q, r)
  <2>1. 1 \in 1 .. Len(q) /\ 2 \in 1 .. Len(q)
    BY <1>1, <1>5
  <2>2. /\ r[1].op = q[1].op /\ r[1].s = q[1].s /\ r[1].at = q[1].at /\ r[1].arg = q[1].arg
        /\ r[2].op = q[2].op /\ r[2].s = q[2].s /\ r[2].at = q[2].at /\ r[2].arg = q[2].arg
    BY <2>1 DEF StepsFrom
  <2>3. Len(q) # 0 /\ Len(q) # 1 /\ Len(q) > 1 /\ Len(r) > 1
    BY <1>5
  <2>4. (Len(r) = 2 \/ Len(r) = 3) /\ Len(r) # 0 /\ Len(r) # 1
    BY <1>5
  <2>9. q # <<>> /\ r # <<>>
    BY <1>2, <2>3, <2>4
  <2>5. SameWork(q, r)
    BY <1>5, <2>2, <2>3, <2>4, <2>9 DEF SameWork
  <2>6. r[1].op = "worker" /\ r[1].s = Global
        /\ r[1].at = "sending" /\ r[2].op = "send_block" /\ r[2].s = Global
    BY <2>2, <2>3, <2>9 DEF WorkerStackOK
  <2>7. CASE Len(r) = 2
    BY <2>5, <2>6, <2>7 DEF WorkerStackOK
  <2>8. CASE Len(r) = 3
    BY <1>5, <2>5, <2>6, <2>8 DEF WorkerStackOK
  <2> QED BY <2>4, <2>7, <2>8
<1>6. CASE Len(q) = 2
  <2>1. CASE Len(r) = Len(q)
    BY <1>5, <1>6, <2>1
  <2>2. CASE Len(r) # Len(q)
    <3>1. Len(r) = 3 /\ r[Len(r)].op \in CallbackOps
      BY <1>6, <2>2 DEF StepsFrom
    <3> QED BY <1>5, <1>6, <3>1
  <2> QED BY <2>1, <2>2
<1>7. CASE Len(q) = 3
  <2>1. Len(r) = 3
    BY <1>7 DEF StepsFrom
  <2>2. r[3].op = q[3].op /\ q[3].op \in CallbackOps
    <3>1. 3 \in 1 .. Len(q)
      BY <1>7
    <3> QED BY <1>7, <3>1 DEF StepsFrom, WorkerStackOK
  <2> QED BY <1>5, <1>7, <2>1, <2>2
<1> QED BY <1>1, <1>3, <1>4, <1>6, <1>7

LEMMA ShapeOfQuiet ==
  ASSUME ShapeOK, Undisturbed
  PROVE  ShapeOK'
<1>1. TypesOK'
  BY DEF ShapeOK, TypesOK, CallsOK, Undisturbed, listVars, flagVars, ghosts
<1>2. \A u \in Threads : \A k \in 1 .. Len(calls'[u]) : ThreadFrame(calls'[u][k], k, life'[u])
  <2> SUFFICES ASSUME NEW u \in Threads, NEW k \in 1 .. Len(calls'[u])
               PROVE  ThreadFrame(calls'[u][k], k, life[u])
    BY DEF Undisturbed
  <2>1. StepsFrom(u, calls[u], calls'[u]) /\ u \notin Workers
    BY ShutdownAssumption DEF Undisturbed, Actors
  <2>2. CASE k \in 1 .. Len(calls[u])
    <3>1. ThreadFrame(calls[u][k], k, life[u])
      BY <2>2 DEF ShapeOK
    <3> QED BY <2>1, <2>2, <3>1 DEF StepsFrom, ThreadFrame
  <2>3. CASE k \notin 1 .. Len(calls[u])
    <3>1. Len(calls'[u]) # Len(calls[u])
      BY <2>3
    <3>2. Len(calls'[u]) = Len(calls[u]) + 1 /\ Len(calls[u]) \in Nat
      BY <2>1, <3>1 DEF StepsFrom
    <3>3. k = Len(calls'[u])
      BY <2>3, <3>2
    <3>4. ThreadFrame(calls'[u][k], 0, life[u])
      BY <2>1, <3>1, <3>3 DEF StepsFrom
    <3> QED BY <3>4 DEF ThreadFrame
  <2> QED BY <2>2, <2>3
<1>3. ASSUME NEW w \in Workers PROVE WorkerStackOK(calls'[w])
  <2>1. /\ w \in Actors /\ w \notin Threads /\ StepsFrom(w, calls[w], calls'[w])
        /\ WorkerStackOK(calls[w]) /\ calls[w] \in Seq(Frames) /\ calls'[w] \in Seq(Frames)
    BY ShutdownAssumption DEF Undisturbed, ShapeOK, TypesOK, CallsOK, Actors
  <2> QED BY <2>1, StackGrows DEF Stacks
<1>4. \A u \in Threads : LifeOK(life'[u])
  BY DEF ShapeOK, Undisturbed
<1> QED BY <1>1, <1>2, <1>3, <1>4 DEF ShapeOK

(* What a step of the signal makes of a life: nothing.                       *)
LEMMA SignalStays ==
  ASSUME NEW a, SignalStep(a)
  PROVE  life' = life /\ handled' = handled
BY DEF SignalStep

LEMMA ShapeOfLocks ==
  ASSUME ShapeOK, NEW a \in Actors, SignalStep(a), Locks(a)
  PROVE  ShapeOK'
<1>1. /\ calls' \in [Actors -> Seq(Frames)] /\ OthersStay(a) /\ Alike(calls[a], calls'[a])
      /\ \A k \in 1 .. Len(calls[a]) :
           calls'[a][k].at = IF k = Len(calls[a]) THEN "body" ELSE calls[a][k].at
  BY LocksAlike DEF ShapeOK
<1>2. UNCHANGED <<listVars, flagVars, ghosts, life>>
      /\ \E s : master' = [master EXCEPT ![s] = a]
  BY SignalStays DEF Locks
<1>3. TypesOK'
  BY <1>1, <1>2 DEF ShapeOK, TypesOK, CallsOK, listVars, flagVars, ghosts
<1>4. CASE a \in Threads
  <2>1. \A w \in Workers : w \in Actors /\ w # a
    BY <1>4, ShutdownAssumption DEF Actors
  <2>2. \A w \in Workers : WorkerStackOK(calls'[w])
    BY <1>1, <2>1 DEF OthersStay, ShapeOK
  <2>3. \A k \in 1 .. Len(calls'[a]) :
          /\ k \in 1 .. Len(calls[a])
          /\ calls'[a][k].op = calls[a][k].op /\ calls'[a][k].s = calls[a][k].s
          /\ calls'[a][k].arg = calls[a][k].arg
    BY <1>1 DEF Alike
  <2>4. \A u \in Threads : u # a => calls'[u] = calls[u]
    BY <1>1 DEF OthersStay, Actors
  <2>5. life' = life
    BY <1>2
  <2> QED BY <1>3, <1>4, <2>2, <2>3, <2>4, <2>5, ShapeOfThread
<1>5. CASE a \in Workers
  <2> DEFINE q == calls[a]
             r == calls'[a]
  <2>1. WorkerStackOK(q) /\ q \in Seq(Frames) /\ r \in Seq(Frames)
    BY <1>1, <1>5 DEF ShapeOK, TypesOK, CallsOK
  <2>2. Len(q) = 0 \/ Len(q) = 1 \/ Len(q) = 2 \/ Len(q) = 3
    BY <2>1 DEF WorkerStackOK
  <2>3. WorkerStackOK(r)
    <3>1. /\ Alike(q, r)
          /\ \A k \in 1 .. Len(q) : r[k].at = IF k = Len(q) THEN "body" ELSE q[k].at
      BY <1>1
    <3> HIDE DEF q, r
    <3> QED BY <2>1, <2>2, <3>1 DEF Alike, WorkerStackOK
  <2>4. life' = life
    BY <1>2
  <2> QED BY <1>1, <1>3, <1>5, <2>3, <2>4, ShapeOfWorker
<1> QED BY <1>4, <1>5 DEF Actors

(* A call of a thread returns.                                               *)
LEMMA ShapeOfCall ==
  ASSUME ShapeOK, NEW t \in Threads, SignalStep(t),
         RegisterThread(t) \/ ConfirmShutdown(t) \/ RegisterCb(t) \/ SendAsync(t)
  PROVE  ShapeOK'
<1>1. life' = life
  BY SignalStays
<1>2. t \in Actors /\ \A w \in Workers : w \in Actors /\ w # t
  BY ShutdownAssumption DEF Actors
<1>3. ASSUME calls' \in [Actors -> Seq(Frames)], OthersStay(t), TypesOK',
             \A k \in 1 .. Len(calls'[t]) : k \in 1 .. Len(calls[t]) /\ calls'[t][k] = calls[t][k]
      PROVE  ShapeOK'
  <2>1. \A w \in Workers : WorkerStackOK(calls'[w])
    BY <1>2, <1>3 DEF OthersStay, ShapeOK
  <2>2. \A u \in Threads : u # t => calls'[u] = calls[u]
    BY <1>3 DEF OthersStay, Actors
  <2> QED BY <1>1, <1>3, <2>1, <2>2, ShapeOfThread
<1>4. ASSUME calls'[t] = <<>> PROVE 1 .. Len(calls'[t]) = {}
  BY <1>4
<1>9. ASSUME calls' \in [Actors -> Seq(Frames)], OthersStay(t), TypesOK', calls'[t] = <<>>
      PROVE  ShapeOK'
  <2>1. \A k \in 1 .. Len(calls'[t]) : k \in 1 .. Len(calls[t]) /\ calls'[t][k] = calls[t][k]
    BY <1>4, <1>9
  <2> QED BY <1>3, <1>9, <2>1
<1>5. CASE SendAsync(t)
  <2>1. TypesOK'
    BY <1>1, <1>5, SendsAsync DEF ShapeOK, TypesOK, CallsOK
  <2> QED BY <1>3, <1>5, <2>1, SendsAsync
<1>10. ASSUME master' = [master EXCEPT ![Global] = NoOne], calls' \in [Actors -> Seq(Frames)],
              started' \in [Signals -> BOOLEAN], last_id' \in [Signals -> Nat],
              owned' \in [Signals -> SUBSET Nat]
       PROVE  CallsOK'
  <2>1. master' \in [Signals -> Actors \cup {NoOne}]
    BY <1>10 DEF ShapeOK, TypesOK, CallsOK
  <2> QED BY <1>10, <2>1 DEF CallsOK
<1>11. ASSUME CallsOK', alive' \in [Signals -> SUBSET Threads],
              threadlist' \in [Signals -> Seq(Threads)], NoRepeats(threadlist'[Global]),
              UNCHANGED <<shutdown, exit_flag>>, gate' \in [Signals -> {0, 1}]
       PROVE  TypesOK'
  BY <1>1, <1>11 DEF ShapeOK, TypesOK
<1>6. CASE RegisterCb(t)
  <2>1. last_id' \in [Signals -> Nat] /\ owned' \in [Signals -> SUBSET Nat]
    <3>1. /\ last_id' = [last_id EXCEPT ![Global] = @ + 1]
          /\ owned' = [owned EXCEPT ![Global] = @ \cup {last_id[Global] + 1}]
      BY <1>6, RegistersCallback
    <3>2. last_id[Global] \in Nat /\ owned[Global] \in SUBSET Nat
      BY ShutdownAssumption DEF ShapeOK, TypesOK, CallsOK
    <3>3. last_id[Global] + 1 \in Nat /\ owned[Global] \cup {last_id[Global] + 1} \in SUBSET Nat
      BY <3>2
    <3> QED BY <3>1, <3>3 DEF ShapeOK, TypesOK, CallsOK
  <2>4. started' \in [Signals -> BOOLEAN]
    BY <1>6, RegistersCallback DEF ShapeOK, TypesOK, CallsOK, flagVars
  <2>2. CallsOK'
    BY <1>6, <1>10, <2>1, <2>4, RegistersCallback
  <2>3. TypesOK'
    <3>1. UNCHANGED <<threadlist, alive, shutdown, exit_flag, gate>>
      BY <1>6, RegistersCallback DEF flagVars
    <3>2. /\ alive' \in [Signals -> SUBSET Threads] /\ threadlist' \in [Signals -> Seq(Threads)]
          /\ NoRepeats(threadlist'[Global]) /\ gate' \in [Signals -> {0, 1}]
      BY <3>1 DEF ShapeOK, TypesOK
    <3> QED BY <1>11, <2>2, <3>1, <3>2
  <2> QED BY <1>6, <1>9, <2>3, RegistersCallback
<1>7. CASE ConfirmShutdown(t)
  <2>1. alive' \in [Signals -> SUBSET Threads]
    <3>1. alive' = [alive EXCEPT ![Global] = @ \ {t}] /\ alive \in [Signals -> SUBSET Threads]
      BY <1>7, ConfirmsShutdown DEF ShapeOK, TypesOK
    <3>2. alive[Global] \ {t} \in SUBSET Threads
      BY <3>1, ShutdownAssumption
    <3> QED BY <3>1, <3>2
  <2>4. /\ started' \in [Signals -> BOOLEAN] /\ last_id' \in [Signals -> Nat]
        /\ owned' \in [Signals -> SUBSET Nat]
    BY <1>7, ConfirmsShutdown DEF ShapeOK, TypesOK, CallsOK, flagVars
  <2>2. CallsOK'
    BY <1>7, <1>10, <2>4, ConfirmsShutdown
  <2>3. TypesOK'
    BY <1>7, <1>11, <2>1, <2>2, ConfirmsShutdown DEF ShapeOK, TypesOK, flagVars
  <2> QED BY <1>7, <1>9, <2>3, ConfirmsShutdown
<1>8. CASE RegisterThread(t)
  <2>4. alive' \in [Signals -> SUBSET Threads]
    <3>1. alive' = [alive EXCEPT ![Global] = @ \cup {t}] /\ alive \in [Signals -> SUBSET Threads]
      BY <1>8, Registers DEF ShapeOK, TypesOK
    <3>2. alive[Global] \cup {t} \in SUBSET Threads
      BY <3>1, ShutdownAssumption
    <3> QED BY <3>1, <3>2
  <2>5. started' \in [Signals -> BOOLEAN] /\ gate' \in [Signals -> {0, 1}]
    BY <1>8, Registers DEF ShapeOK, TypesOK, CallsOK
  <2>7. last_id' \in [Signals -> Nat] /\ owned' \in [Signals -> SUBSET Nat]
    BY <1>8, Registers DEF ShapeOK, TypesOK, CallsOK
  <2>6. CallsOK'
    BY <1>8, <1>10, <2>5, <2>7, Registers
  <2>1. TypesOK'
    BY <1>8, <1>11, <2>4, <2>5, <2>6, Registers
  <2>2. CASE OthersStay(t)
    BY <1>8, <1>9, <2>1, <2>2, Registers
  <2>3. ASSUME NEW w \in Workers, calls'[w] = <<Frame("worker", Global, "await", w)>>,
               \A b \in Actors : b # t /\ b # w => calls'[b] = calls[b]
        PROVE  ShapeOK'
    <3>1. WorkerStackOK(calls'[w])
      BY <2>3 DEF WorkerStackOK, Frame
    <3>2. \A v \in Workers : WorkerStackOK(calls'[v])
      BY <1>2, <2>3, <3>1 DEF ShapeOK
    <3>3. \A u \in Threads : u # t => calls'[u] = calls[u]
      <4>1. \A u \in Threads : u \in Actors /\ u # w
        BY ShutdownAssumption DEF Actors
      <4> QED BY <2>3, <4>1
    <3>4. calls'[t] = <<>>
      BY <1>8, Registers
    <3>5. \A k \in 1 .. Len(calls'[t]) :
            /\ k \in 1 .. Len(calls[t])
            /\ calls'[t][k].op = calls[t][k].op /\ calls'[t][k].s = calls[t][k].s
            /\ calls'[t][k].arg = calls[t][k].arg
      BY <1>4, <3>4
    <3> QED BY <1>1, <2>1, <3>2, <3>3, <3>5, ShapeOfThread
  <2> QED BY <1>8, <2>2, <2>3, Registers
<1> QED BY <1>5, <1>6, <1>7, <1>8

-----------------------------------------------------------------------------
(* What a step of the shutdown thread w does                                *)

(* send_block goes on: *)
SendMoves(w) ==
  /\ Len(calls[w]) = 2 /\ Len(calls'[w]) = 2 /\ Alike(calls[w], calls'[w])
  /\ calls'[w][1].at = "sending" /\ threadlist' = threadlist
  /\ \/ calls'[w][2].at = "set" /\ shutdown' = shutdown
     \/ calls'[w][2].at = "lock" /\ shutdown' = [shutdown EXCEPT ![Global] = TRUE]
     \/ /\ calls[w][2].at \in PastFlag /\ calls'[w][2].at \in {"poll", "sleep"}
        /\ shutdown' = shutdown
     \/ /\ calls[w][2].at \in PastFlag /\ calls'[w][2].at = "free_cb"
        /\ threadlist[Global] = <<>> /\ shutdown' = shutdown
     \/ calls[w][2].at \in Dropping /\ calls'[w][2].at \in Dropping /\ shutdown' = shutdown

(* gives up; *)
SendStops(w) ==
  /\ Len(calls[w]) = 2 /\ Len(calls'[w]) = 2 /\ calls'[w][1] = calls[w][1]
  /\ calls'[w][2].op = "send_block" /\ calls'[w][2].s = Global
  /\ calls[w][2].at \in PastFlag /\ calls'[w][2].at = "free_cb" /\ calls'[w][2].arg = 1
  /\ UNCHANGED <<threadlist, shutdown>>

(* returns;  *)
SendReports(w) ==
  /\ Len(calls[w]) = 2 /\ Len(calls'[w]) = 1
  /\ calls'[w][1].op = "worker" /\ calls'[w][1].s = Global /\ calls'[w][1].at = "lock"
  /\ shutdown' = shutdown
  /\ \/ shutdown[Global] /\ calls'[w][1].arg = "noop" /\ threadlist' = threadlist
     \/ /\ calls[w][2].at \in Dropping
        /\ calls'[w][1].arg = IF calls[w][2].arg = 1 THEN "timeout" ELSE "done"
        /\ threadlist' = [threadlist EXCEPT ![Global] = <<>>]

(* the shutdown thread finds its gate open. *)
WorkerWakes(w) ==
  /\ Len(calls[w]) = 1 /\ calls[w][1].at = "await" /\ gate[Global] = 0
  /\ Len(calls'[w]) = 2
  /\ calls'[w][1].op = "worker" /\ calls'[w][1].s = Global /\ calls'[w][1].at = "sending"
  /\ calls'[w][2].op = "send_block" /\ calls'[w][2].s = Global /\ calls'[w][2].at = "check"
  /\ UNCHANGED <<threadlist, shutdown>>

SenderWorks(w) ==
  /\ calls' \in [Actors -> Seq(Frames)] /\ OthersStay(w)
  /\ status = "running" /\ status' = status
  /\ UNCHANGED <<last_id, owned, started, gate, exit_flag, alive>>
  /\ master' \in {master, [master EXCEPT ![Global] = NoOne]}
  /\ SendMoves(w) \/ SendStops(w) \/ SendReports(w) \/ WorkerWakes(w)

LEMMA MovesInSend ==
  ASSUME ShapeOK, NEW w \in Workers,
         \/ NotYetSent(w) \/ SetShutdown(w) \/ CallCallbacks(w) \/ Poll(w)
         \/ Sleep(w) /\ ~TimedOut(CurrentCall(w))
         \/ FreesCallbacks(w) \/ (FreesThreadlist(w) /\ ~ResetThreadlist(w))
  PROVE  SenderWorks(w)
<1> DEFINE Common == /\ status = "running" /\ status' = status
                     /\ UNCHANGED <<last_id, owned, started, gate, exit_flag, alive>>
                     /\ master' \in {master, [master EXCEPT ![Global] = NoOne]}
                     /\ threadlist' = threadlist
<1>0. w \in Actors
  BY DEF Actors
<1>1. ASSUME NEW from, NEW to \in Places, IsAt(w, "send_block", from), calls' = GoOn(w, to)
      PROVE  /\ calls' \in [Actors -> Seq(Frames)] /\ OthersStay(w) /\ Alike(calls[w], calls'[w])
             /\ Len(calls[w]) = 2 /\ Len(calls'[w]) = 2
             /\ calls'[w][1].at = "sending"
             /\ calls[w][2].at = from /\ calls'[w][2].at = to
             /\ CurrentCall(w).s = Global
  BY <1>0, <1>1, InSendBlock, SendGoesTo
<1> USE DEF SendMoves, SenderWorks, PastFlag, Dropping, FreeingPlaces
<1>2. CASE NotYetSent(w)
  <2>1. IsAt(w, "send_block", "check") /\ calls' = GoOn(w, "set") /\ "set" \in Places
        /\ Common /\ shutdown' = shutdown
    BY <1>2 DEF NotYetSent, IsAt, Places, listVars, flagVars, envVars, ghosts
  <2> QED BY <1>1, <2>1
<1>3. CASE SetShutdown(w)
  <2>1. IsAt(w, "send_block", "set") /\ calls' = GoOn(w, "lock") /\ "lock" \in Places
    BY <1>3 DEF SetShutdown, Places
  <2>2. CurrentCall(w).s = Global
    BY <1>1, <2>1
  <2>3. Common /\ shutdown' = [shutdown EXCEPT ![Global] = TRUE]
    BY <1>3, <2>2 DEF SetShutdown, IsAt, listVars, envVars
  <2> QED BY <1>1, <2>1, <2>3
<1>4. CASE CallCallbacks(w)
  <2>1. IsAt(w, "send_block", "body") /\ calls' = GoOn(w, "poll") /\ "poll" \in Places
    BY <1>4 DEF CallCallbacks, Places
  <2>2. CurrentCall(w).s = Global
    BY <1>1, <2>1
  <2>3. Common /\ shutdown' = shutdown
    BY <1>4, <2>2 DEF CallCallbacks, Unlock, IsAt, listVars, flagVars, envVars
  <2> QED BY <1>1, <2>1, <2>3
<1>5. CASE Poll(w)
  <2>1. IsAt(w, "send_block", "poll") /\ Common /\ shutdown' = shutdown
    BY <1>5 DEF Poll, IsAt, listVars, flagVars, envVars, ghosts
  <2>2. CurrentCall(w).s = Global
    BY <1>0, <2>1, InSendBlock
  <2>3. CASE threadlist[Global] = <<>>
    <3>1. calls' = GoOn(w, "free_cb") /\ "free_cb" \in Places
      BY <1>5, <2>2, <2>3 DEF Poll, Places
    <3> QED BY <1>1, <2>1, <2>3, <3>1
  <2>4. CASE threadlist[Global] # <<>>
    <3>1. calls' = GoOn(w, "sleep") /\ "sleep" \in Places
      BY <1>5, <2>2, <2>4 DEF Poll, Places
    <3> QED BY <1>1, <2>1, <3>1
  <2> QED BY <2>3, <2>4
<1>6. CASE Sleep(w) /\ ~TimedOut(CurrentCall(w))
  <2>1. IsAt(w, "send_block", "sleep") /\ calls' = GoOn(w, "poll") /\ "poll" \in Places
        /\ Common /\ shutdown' = shutdown
    BY <1>6 DEF Sleep, IsAt, Places, listVars, flagVars, envVars, ghosts
  <2> QED BY <1>1, <2>1
<1>7. CASE FreesCallbacks(w) \/ (FreesThreadlist(w) /\ ~ResetThreadlist(w))
  <2>1. Common /\ shutdown' = shutdown
    <3>1. CASE FreesCallbacks(w)
      BY <3>1, Freeing DEF FreesCallbacks, FreeCallbacks, ResetCallbacksAlloc, ResetCallbacks,
                           IsAt, flagVars, envVars, ghosts
    <3>2. CASE FreesThreadlist(w) /\ ~ResetThreadlist(w)
      BY <3>2, Freeing DEF FreesThreadlist, FreeThreadlist, ForgetThreadlist,
                           ResetThreadlistAlloc, IsAt, flagVars, envVars, ghosts
    <3> QED BY <1>7, <3>1, <3>2
  <2>2. \E from, to \in FreeingPlaces : IsAt(w, "send_block", from) /\ calls' = GoOn(w, to)
    <3>1. CASE FreesCallbacks(w)
      BY <3>1 DEF FreesCallbacks, FreeCallbacks, ResetCallbacksAlloc, ResetCallbacks,
                  FreeingPlaces
    <3>2. CASE FreesThreadlist(w) /\ ~ResetThreadlist(w)
      BY <3>2 DEF FreesThreadlist, FreeThreadlist, ForgetThreadlist, ResetThreadlistAlloc,
                  FreeingPlaces
    <3> QED BY <1>7, <3>1, <3>2
  <2>3. FreeingPlaces \subseteq Places
    BY DEF FreeingPlaces, Places
  <2> QED BY <1>1, <2>1, <2>2, <2>3
<1> QED BY <1>2, <1>3, <1>4, <1>5, <1>6, <1>7

LEMMA SenderKinds ==
  ASSUME ShapeOK, GateOK, NEW w \in Workers, SendBlockStep(w) \/ WorkerStep(w)
  PROVE  SenderWorks(w) \/ WorkerFinishes(w)
<1>0. w \in Actors
  BY DEF Actors
<1>1. CASE \/ NotYetSent(w) \/ SetShutdown(w) \/ CallCallbacks(w) \/ Poll(w)
           \/ Sleep(w) /\ ~TimedOut(CurrentCall(w))
           \/ FreesCallbacks(w) \/ (FreesThreadlist(w) /\ ~ResetThreadlist(w))
  BY <1>1, MovesInSend
<1>2. CASE Sleep(w) /\ TimedOut(CurrentCall(w))
  <2>1. /\ IsAt(w, "send_block", "sleep") /\ status = "running" /\ status' = status
        /\ UNCHANGED <<last_id, owned, started, gate, exit_flag, alive, master,
                       threadlist, shutdown>>
    BY <1>2 DEF Sleep, IsAt, listVars, flagVars, envVars, ghosts
  <2>2. Len(calls[w]) = 2 /\ calls[w][2].at \in PastFlag
    BY <1>0, <2>1, InSendBlock DEF PastFlag, Dropping, FreeingPlaces
  <2>3. SendStops(w) /\ calls' \in [Actors -> Seq(Frames)] /\ OthersStay(w)
    BY <1>0, <1>2, <2>1, <2>2, SendGivesUp DEF SendStops
  <2> QED BY <2>1, <2>3 DEF SenderWorks
<1>3. CASE AlreadySent(w)
  <2>1. /\ IsAt(w, "send_block", "check") /\ status = "running" /\ status' = status
        /\ UNCHANGED <<last_id, owned, started, gate, exit_flag, alive, master,
                       threadlist, shutdown>>
        /\ SendBlockReturns(w, "noop") /\ shutdown[CurrentCall(w).s] /\ "noop" \in DOMAIN Exited
    BY <1>3 DEF AlreadySent, IsAt, listVars, flagVars, envVars, ghosts, Exited
  <2>2. Len(calls[w]) = 2 /\ CurrentCall(w).s = Global
    BY <1>0, <2>1, InSendBlock
  <2>3. /\ calls' \in [Actors -> Seq(Frames)] /\ OthersStay(w)
        /\ Len(calls'[w]) = 1 /\ calls'[w][1].op = "worker" /\ calls'[w][1].s = Global
        /\ calls'[w][1].at = "lock" /\ calls'[w][1].arg = "noop"
    BY <1>0, <2>1, SendTells
  <2>4. shutdown[Global]
    BY <2>1, <2>2, Zenon
  <2>5. SendReports(w)
    BY <2>1, <2>2, <2>3, <2>4 DEF SendReports
  <2> QED BY <2>1, <2>3, <2>5 DEF SenderWorks
<1>4. CASE ResetThreadlist(w)
  <2> DEFINE how == IF CurrentCall(w).arg = 1 THEN "timeout" ELSE "done"
  <2>1. IsAt(w, "send_block", "reset_tl") /\ SendBlockReturns(w, how) /\ how \in DOMAIN Exited
    BY <1>4 DEF ResetThreadlist, Exited
  <2>2. Len(calls[w]) = 2 /\ CurrentCall(w).s = Global /\ CurrentCall(w) = calls[w][2]
        /\ calls[w][2].at = "reset_tl"
    BY <1>0, <2>1, InSendBlock
  <2>3. /\ status = "running" /\ status' = status
        /\ UNCHANGED <<last_id, owned, started, gate, exit_flag, alive, master, shutdown>>
        /\ threadlist' = [threadlist EXCEPT ![Global] = <<>>]
    BY <1>4, <2>2 DEF ResetThreadlist, IsAt, flagVars, envVars, ghosts
  <2> HIDE DEF how
  <2>4. /\ calls' \in [Actors -> Seq(Frames)] /\ OthersStay(w)
        /\ Len(calls'[w]) = 1 /\ calls'[w][1].op = "worker" /\ calls'[w][1].s = Global
        /\ calls'[w][1].at = "lock" /\ calls'[w][1].arg = how
    BY <1>0, <2>1, SendTells
  <2>5. calls'[w][1].arg = IF calls[w][2].arg = 1 THEN "timeout" ELSE "done"
    BY <2>2, <2>4 DEF how
  <2>6. SendReports(w)
    BY <2>2, <2>3, <2>4, <2>5 DEF SendReports, Dropping, FreeingPlaces
  <2> QED BY <2>3, <2>4, <2>6 DEF SenderWorks
<1>5. CASE SeeGateOpen(w)
  <2>1. /\ IsAt(w, "worker", "await") /\ status = "running" /\ status' = status
        /\ UNCHANGED <<last_id, owned, started, gate, exit_flag, alive, master,
                       threadlist, shutdown>>
    BY <1>5 DEF SeeGateOpen, IsAt, listVars, flagVars, envVars, ghosts
  <2>2. Len(calls[w]) = 1 /\ calls[w][1].at = "await"
    <3>1. calls[w] # <<>> /\ CurrentCall(w).op = "worker" /\ CurrentCall(w).at = "await"
      BY <2>1 DEF IsAt
    <3>2. Len(calls[w]) = 1 /\ CurrentCall(w) = calls[w][Len(calls[w])]
      BY <3>1, WorkerTop
    <3> QED BY <3>1, <3>2
  <2>3. WorkerWakes(w) /\ calls' \in [Actors -> Seq(Frames)] /\ OthersStay(w)
    BY <1>5, <2>1, <2>2, PassesGate DEF WorkerWakes
  <2> QED BY <2>1, <2>3 DEF SenderWorks
<1> QED BY <1>1, <1>2, <1>3, <1>4, <1>5
        DEF SendBlockStep, WorkerStep, FreesCallbacks, FreesThreadlist

LEMMA ShapeOfWork ==
  ASSUME ShapeOK, GateOK, NEW w \in Workers, SignalStep(w), SenderWorks(w) \/ WorkerFinishes(w)
  PROVE  ShapeOK'
<1>1. life' = life
  BY SignalStays
<1>2. CASE WorkerFinishes(w)
  <2>1. UNCHANGED <<listVars, flagVars, master, calls, ghosts>>
    BY <1>2, Finishes
  <2>2. TypesOK'
    BY <1>1, <2>1 DEF ShapeOK, TypesOK, CallsOK, listVars, flagVars, ghosts
  <2> QED BY <1>1, <2>1, <2>2 DEF ShapeOK
<1>3. CASE SenderWorks(w)
  <2>1. /\ calls' \in [Actors -> Seq(Frames)] /\ OthersStay(w)
        /\ UNCHANGED <<last_id, owned, started, gate, exit_flag, alive>>
        /\ master' \in {master, [master EXCEPT ![Global] = NoOne]}
        /\ SendMoves(w) \/ SendStops(w) \/ SendReports(w) \/ WorkerWakes(w)
    BY <1>3 DEF SenderWorks
  <2>2. /\ threadlist' \in {threadlist, [threadlist EXCEPT ![Global] = <<>>]}
        /\ shutdown' \in {shutdown, [shutdown EXCEPT ![Global] = TRUE]}
    BY <2>1 DEF SendMoves, SendStops, SendReports, WorkerWakes
  <2>3. master' \in [Signals -> Actors \cup {NoOne}]
    BY <2>1 DEF ShapeOK, TypesOK, CallsOK
  <2>4. CallsOK'
    BY <2>1, <2>3 DEF ShapeOK, TypesOK, CallsOK
  <2>5. threadlist' \in [Signals -> Seq(Threads)] /\ NoRepeats(threadlist'[Global])
    <3>1. CASE threadlist' = threadlist
      BY <3>1 DEF ShapeOK, TypesOK
    <3>2. CASE threadlist' = [threadlist EXCEPT ![Global] = <<>>]
      <4>1. <<>> \in Seq(Threads) /\ NoRepeats(<<>>)
        BY DEF NoRepeats
      <4>2. threadlist' \in [Signals -> Seq(Threads)] /\ threadlist'[Global] = <<>>
        BY <3>2, <4>1, ShutdownAssumption DEF ShapeOK, TypesOK
      <4> QED BY <4>1, <4>2
    <3> QED BY <2>2, <3>1, <3>2
  <2>6. shutdown' \in [Signals -> BOOLEAN]
    BY <2>2 DEF ShapeOK, TypesOK
  <2>7. TypesOK'
    BY <1>1, <2>1, <2>4, <2>5, <2>6 DEF ShapeOK, TypesOK
  <2>8. WorkerStackOK(calls'[w])
    <3> DEFINE q == calls[w]
               r == calls'[w]
    <3>1. WorkerStackOK(q) /\ (q = <<>> <=> Len(q) = 0) /\ (r = <<>> <=> Len(r) = 0)
      <4>1. q \in Seq(Frames) /\ r \in Seq(Frames)
        BY <2>1 DEF ShapeOK, TypesOK, CallsOK, Actors
      <4> QED BY <4>1 DEF ShapeOK
    <3>2. CASE SendMoves(w)
      <4>1. /\ Len(q) = 2 /\ Len(r) = 2 /\ r[1].at = "sending"
            /\ r[1].op = q[1].op /\ r[1].s = q[1].s /\ r[2].op = q[2].op /\ r[2].s = q[2].s
        <5>1. Len(q) = 2 /\ Len(r) = 2 /\ r[1].at = "sending" /\ Alike(q, r)
          BY <3>2 DEF SendMoves
        <5>2. 1 \in 1 .. Len(q) /\ 2 \in 1 .. Len(q)
          BY <5>1
        <5> QED BY <5>1, <5>2 DEF Alike
      <4> HIDE DEF q, r
      <4> QED BY <3>1, <4>1 DEF WorkerStackOK, r
    <3>3. CASE SendStops(w)
      <4>1. /\ Len(q) = 2 /\ Len(r) = 2 /\ r[1] = q[1]
            /\ r[2].op = "send_block" /\ r[2].s = Global
        BY <3>3 DEF SendStops
      <4> HIDE DEF q, r
      <4> QED BY <3>1, <4>1 DEF WorkerStackOK, r
    <3>4. CASE SendReports(w)
      <4>1. Len(r) = 1 /\ r[1].op = "worker" /\ r[1].s = Global /\ r[1].at = "lock"
        BY <3>4 DEF SendReports
      <4> HIDE DEF q, r
      <4> QED BY <4>1 DEF WorkerStackOK, r
    <3>5. CASE WorkerWakes(w)
      <4>1. /\ Len(r) = 2 /\ r[1].op = "worker" /\ r[1].s = Global /\ r[1].at = "sending"
            /\ r[2].op = "send_block" /\ r[2].s = Global
        BY <3>5 DEF WorkerWakes
      <4> HIDE DEF q, r
      <4> QED BY <4>1 DEF WorkerStackOK, r
    <3> QED BY <2>1, <3>2, <3>3, <3>4, <3>5
  <2> QED BY <1>1, <2>1, <2>7, <2>8, ShapeOfWorker
<1> QED BY <1>2, <1>3

LEMMA ShapeStep ==
  ASSUME ShapeOK, GateOK, [ProcessNext]_procVars
  PROVE  ShapeOK'
<1>1. ASSUME NEW w \in Workers, SignalStep(w), SendBlockStep(w) \/ WorkerStep(w)
      PROVE  ShapeOK'
  BY <1>1, SenderKinds, ShapeOfWork
<1>2. ASSUME NEW t \in Threads, SignalStep(t),
             RegisterThread(t) \/ ConfirmShutdown(t) \/ RegisterCb(t) \/ SendAsync(t)
      PROVE  ShapeOK'
  BY <1>2, ShapeOfCall
<1>3. ASSUME NEW a \in Actors, SignalStep(a), Locks(a)
      PROVE  ShapeOK'
  BY <1>3, ShapeOfLocks
<1> QED BY <1>1, <1>2, <1>3, ProcessKinds, ShapeOfLife, ShapeOfQuiet

-----------------------------------------------------------------------------
(* The steps that tell nobody of a shutdown thread anything new             *)

CallsOfItsOwn == {"register_thread", "confirm_shutdown"}

Calm ==
  /\ UNCHANGED <<threadlist, shutdown, started, alive, life, awaited>>
  /\ handled' = handled
  /\ status' = "exited" => status = "exited"
  /\ \/ UNCHANGED <<gate, exit_flag>>
     \/ gate'[Global] = 0 /\ exit_flag'[Global] = TRUE
  /\ \A t \in Threads : \A op \in CallsOfItsOwn : InCall(t, op)' <=> InCall(t, op)
  /\ \A w \in Workers : SameWork(calls[w], calls'[w])

LEMMA SameWorkAtAll ==
  ASSUME NEW q, NEW r, q = r
  PROVE  SameWork(q, r)
BY DEF SameWork

LEMMA QuietIsCalm ==
  ASSUME ShapeOK, Undisturbed
  PROVE  Calm
<1>1. /\ UNCHANGED <<threadlist, shutdown, started, alive, life, awaited, gate, exit_flag>>
      /\ status' = "exited" => status = "exited"
  BY DEF Undisturbed, listVars, flagVars, ghosts
<1>2. handled' = handled
  BY DEF Undisturbed
<1>3. ASSUME NEW t \in Threads, NEW op \in CallsOfItsOwn PROVE InCall(t, op)' <=> InCall(t, op)
  <2>1. /\ t \in Actors /\ t \notin Workers /\ StepsFrom(t, calls[t], calls'[t])
        /\ calls[t] \in Seq(Frames) /\ calls'[t] \in Seq(Frames)
    BY ShutdownAssumption DEF Actors, Undisturbed, ShapeOK, TypesOK, CallsOK
  <2>2. CASE calls[t] = <<>>
    <3>1. ~InCall(t, op)
      BY <2>2 DEF InCall
    <3>2. CASE calls'[t] = <<>>
      BY <3>1, <3>2 DEF InCall
    <3>3. CASE calls'[t] # <<>>
      <4>1. Len(calls[t]) = 0 /\ Len(calls'[t]) # 0
        BY <2>1, <2>2, <3>3
      <4>2. Len(calls'[t]) = 1 /\ ThreadFrame(calls'[t][1], 0, life[t])
        BY <2>1, <4>1 DEF StepsFrom
      <4>3. calls'[t][1].op = "send_async"
        BY <4>2 DEF ThreadFrame
      <4> QED BY <3>1, <4>3 DEF InCall, CallsOfItsOwn
    <3> QED BY <3>2, <3>3
  <2>3. CASE calls[t] # <<>>
    <3>1. Len(calls[t]) \in Nat \ {0}
      BY <2>1, <2>3
    <3>2. 1 \in 1 .. Len(calls[t]) /\ Len(calls'[t]) # 0
      BY <2>1, <3>1 DEF StepsFrom
    <3>3. calls'[t][1].op = calls[t][1].op /\ calls'[t] # <<>>
      BY <2>1, <3>2 DEF StepsFrom
    <3> QED BY <2>3, <3>3 DEF InCall
  <2> QED BY <2>2, <2>3
<1>4. ASSUME NEW w \in Workers PROVE SameWork(calls[w], calls'[w])
  <2>1. /\ w \in Actors /\ w \notin Threads /\ StepsFrom(w, calls[w], calls'[w])
        /\ WorkerStackOK(calls[w]) /\ calls[w] \in Seq(Frames) /\ calls'[w] \in Seq(Frames)
    BY ShutdownAssumption DEF Undisturbed, ShapeOK, TypesOK, CallsOK, Actors
  <2> QED BY <2>1, StackGrows DEF Stacks
<1> QED BY <1>1, <1>2, <1>3, <1>4 DEF Calm

LEMMA LocksIsCalm ==
  ASSUME ShapeOK, NEW a \in Actors, SignalStep(a), Locks(a)
  PROVE  Calm
<1> DEFINE q == calls[a]
           r == calls'[a]
<1>1. /\ calls' \in [Actors -> Seq(Frames)] /\ OthersStay(a) /\ Alike(q, r)
      /\ \A k \in 1 .. Len(q) : r[k].at = IF k = Len(q) THEN "body" ELSE q[k].at
      /\ q # <<>> /\ CurrentCall(a).at = "lock"
  BY LocksAlike DEF ShapeOK
<1>2. /\ UNCHANGED <<threadlist, shutdown, started, alive, life, gate, exit_flag>>
      /\ status' = status
  BY SignalStays DEF Locks, listVars, flagVars, ghosts, envVars
<1>3. awaited' = awaited
  BY <1>2 DEF SignalStep
<1>4. handled' = handled
  BY SignalStays
<1>5. /\ q \in Seq(Frames) /\ r \in Seq(Frames) /\ Len(q) \in Nat \ {0} /\ Len(r) = Len(q)
      /\ r # <<>> /\ 1 \in 1 .. Len(q)
  <2>1. q \in Seq(Frames) /\ r \in Seq(Frames) /\ Len(r) = Len(q)
    BY <1>1 DEF ShapeOK, TypesOK, CallsOK, Alike
  <2>2. Len(q) \in Nat \ {0}
    BY <1>1, <2>1
  <2>3. r # <<>>
    BY <2>1, <2>2
  <2> QED BY <2>1, <2>2, <2>3
<1>6. ASSUME NEW t \in Threads, NEW op \in CallsOfItsOwn PROVE InCall(t, op)' <=> InCall(t, op)
  <2>1. CASE t = a
    <3>1. r[1].op = q[1].op
      BY <1>1, <1>5 DEF Alike
    <3> QED BY <1>1, <1>5, <2>1, <3>1 DEF InCall
  <2>2. CASE t # a
    <3>1. calls'[t] = calls[t]
      BY <1>1, <2>2 DEF OthersStay, Actors
    <3> QED BY <3>1 DEF InCall
  <2> QED BY <2>1, <2>2
<1>7. ASSUME NEW w \in Workers PROVE SameWork(calls[w], calls'[w])
  <2>1. CASE w # a
    BY <1>1, <2>1, SameWorkAtAll DEF OthersStay, Actors
  <2>2. CASE w = a
    <3>1. q[Len(q)].at = "lock"
      BY <1>1 DEF CurrentCall
    <3>2. Len(q) = 1 \/ Len(q) = 2 \/ Len(q) = 3
      BY <1>5, <2>2 DEF ShapeOK, WorkerStackOK
    <3>3. r[1].arg = q[1].arg /\ (r[1].at = "await" <=> q[1].at = "await")
      <4>1. r[1].arg = q[1].arg /\ r[1].at = IF 1 = Len(q) THEN "body" ELSE q[1].at
        BY <1>1, <1>5 DEF Alike
      <4> QED BY <3>1, <4>1
    <3>4. ASSUME Len(q) > 1
          PROVE  /\ r[2].arg = q[2].arg
                 /\ r[2].at \in PastFlag => q[2].at \in PastFlag
                 /\ r[2].at \in Dropping => q[2].at \in Dropping
      <4>1. 2 \in 1 .. Len(q)
        BY <1>5, <3>4
      <4>2. r[2].arg = q[2].arg /\ r[2].at = IF 2 = Len(q) THEN "body" ELSE q[2].at
        BY <1>1, <4>1 DEF Alike
      <4> QED BY <3>1, <4>2 DEF PastFlag, Dropping, FreeingPlaces
    <3> HIDE DEF q, r
    <3>5. SameWork(q, r)
      BY <1>1, <1>5, <3>3, <3>4 DEF SameWork
    <3> QED BY <2>2, <3>5 DEF q, r
  <2> QED BY <2>1, <2>2
<1> QED BY <1>2, <1>3, <1>4, <1>6, <1>7 DEF Calm

LEMMA CallIsCalm ==
  ASSUME ShapeOK, NEW t \in Threads, SignalStep(t), RegisterCb(t) \/ SendAsync(t)
  PROVE  Calm
<1>1. \A u \in Threads : u \in Actors
  BY DEF Actors
<1>2. \A w \in Workers : w \in Actors /\ w # t
  BY ShutdownAssumption DEF Actors
<1>3. /\ OthersStay(t)
      /\ UNCHANGED <<threadlist, shutdown, started, alive, status>>
      /\ \/ UNCHANGED <<gate, exit_flag>>
         \/ gate'[Global] = 0 /\ exit_flag'[Global] = TRUE
      /\ \A op \in CallsOfItsOwn : InCall(t, op)' <=> InCall(t, op)
  <2>1. CASE RegisterCb(t)
    <3>1. OthersStay(t) /\ UNCHANGED <<threadlist, flagVars, alive, status>>
          /\ calls'[t] = <<>> /\ InCall(t, "register_cb")
      BY <2>1, RegistersCallback
    <3>2. \A op \in CallsOfItsOwn : InCall(t, op)' <=> InCall(t, op)
      BY <3>1 DEF InCall, CallsOfItsOwn
    <3> QED BY <3>1, <3>2 DEF flagVars
  <2>2. CASE SendAsync(t)
    <3>1. /\ OthersStay(t)
          /\ UNCHANGED <<threadlist, shutdown, started, alive, status>>
          /\ gate' = [gate EXCEPT ![Global] = 0]
          /\ exit_flag' = [exit_flag EXCEPT ![Global] = TRUE]
          /\ \A op \in {"register_thread", "confirm_shutdown"} :
               (calls'[t] # <<>> /\ calls'[t][1].op = op) <=> InCall(t, op)
      BY <2>2, SendsAsync
    <3>2. gate'[Global] = 0 /\ exit_flag'[Global] = TRUE
      BY <3>1, ShutdownAssumption DEF ShapeOK, TypesOK
    <3>3. \A op \in CallsOfItsOwn : InCall(t, op)' <=> InCall(t, op)
      BY <3>1 DEF InCall, CallsOfItsOwn
    <3> QED BY <3>1, <3>2, <3>3
  <2> QED BY <2>1, <2>2
<1>4. ASSUME NEW u \in Threads, NEW op \in CallsOfItsOwn PROVE InCall(u, op)' <=> InCall(u, op)
  <2>1. CASE u = t
    BY <1>3, <2>1
  <2>2. CASE u # t
    <3>1. calls'[u] = calls[u]
      BY <1>1, <1>3, <2>2 DEF OthersStay
    <3> QED BY <3>1 DEF InCall
  <2> QED BY <2>1, <2>2
<1>5. \A w \in Workers : SameWork(calls[w], calls'[w])
  BY <1>2, <1>3, SameWorkAtAll DEF OthersStay
<1>6. life' = life /\ awaited' = awaited
  BY <1>3, SignalStays DEF SignalStep
<1>7. handled' = handled
  BY SignalStays
<1> QED BY <1>3, <1>4, <1>5, <1>6, <1>7 DEF Calm

-----------------------------------------------------------------------------
(* What the parts of the invariant ask of a step                            *)

LEMMA GateKept ==
  ASSUME GateOK, \A w \in Workers : SameWork(calls[w], calls'[w]),
         started'[Global] = started[Global],
         \/ gate'[Global] = gate[Global] /\ exit_flag'[Global] = exit_flag[Global]
         \/ gate'[Global] = 0 /\ exit_flag'[Global] = TRUE,
         handled' => started[Global],
         threadlist'[Global] # <<>> => started[Global],
         \A t \in Threads :
           life'[t].at = "registering" /\ ~InCall(t, "register_thread")' => started[Global]
  PROVE  GateOK'
<1>1. \A v, w \in Workers : calls'[v] # <<>> /\ calls'[w] # <<>> => v = w
  BY DEF GateOK, SameWork
<1>2. ASSUME NEW w \in Workers, calls'[w] # <<>>
      PROVE  started'[Global] /\ (calls'[w][1].at # "await" => gate'[Global] = 0)
  <2>1. SameWork(calls[w], calls'[w]) /\ calls[w] # <<>>
    BY <1>2 DEF SameWork
  <2>2. started[Global] /\ (calls[w][1].at # "await" => gate[Global] = 0)
    BY <2>1 DEF GateOK
  <2>3. started'[Global]
    BY <2>2
  <2>4. calls'[w][1].at # "await" => gate'[Global] = 0
    BY <2>1, <2>2 DEF SameWork
  <2> QED BY <2>3, <2>4
<1>3. gate'[Global] = 0 => exit_flag'[Global] = TRUE
  BY DEF GateOK
<1> QED BY <1>1, <1>2, <1>3 DEF GateOK

(* As a shutdown thread is, or has just been started.                        *)
Steady(q, r) == SameWork(q, r) \/ (q = <<>> /\ Len(r) = 1 /\ r[1].at = "await")

LEMMA ExitKept ==
  ASSUME ExitOK, \A w \in Workers : Steady(calls[w], calls'[w]),
         shutdown' = shutdown, awaited' = awaited,
         \A t \in Threads : Through(t) => Through(t)',
         ~shutdown[Global] => \A t \in alive'[Global] : Listed(t)',
         \A t \in awaited : Listed(t) => Listed(t)' \/ Through(t)',
         status' = "exited" => status = "exited"
  PROVE  ExitOK'
<1>1. AllThrough => AllThrough'
  BY DEF AllThrough, ExitOK
<1>2. ASSUME NEW w \in Workers PROVE SenderKnows(calls[w])'
  <2>1. SenderKnows(calls[w]) /\ Steady(calls[w], calls'[w])
    BY DEF ExitOK
  <2> DEFINE q == calls[w]
             r == calls'[w]
  <2> HIDE DEF q, r
  <2>2. CASE SameWork(q, r)
    <3>1. ASSUME Len(r) = 1, r[1].at # "await"
          PROVE  /\ shutdown'[Global] /\ r[1].arg \in DOMAIN Exited
                 /\ r[1].arg = "done" => AllThrough'
      <4>1. Len(q) = 1 /\ q # <<>> /\ r[1].arg = q[1].arg /\ q[1].at # "await"
        <5>1. Len(q) = 1
          BY <2>2, <3>1 DEF SameWork
        <5>2. q # <<>>
          BY <5>1
        <5> QED BY <2>2, <3>1, <5>1, <5>2 DEF SameWork
      <4>2. shutdown[Global] /\ q[1].arg \in DOMAIN Exited /\ (q[1].arg = "done" => AllThrough)
        BY <2>1, <4>1 DEF SenderKnows, q, r
      <4> QED BY <1>1, <4>1, <4>2
    <3>2. ASSUME Len(r) > 1
          PROVE  /\ r[2].at \in PastFlag => shutdown'[Global]
                 /\ r[2].at \in Dropping /\ r[2].arg # 1 => AllThrough'
      <4>1. /\ Len(q) > 1 /\ r[2].arg = q[2].arg
            /\ r[2].at \in PastFlag => q[2].at \in PastFlag
            /\ r[2].at \in Dropping => q[2].at \in Dropping
        BY <2>2, <3>2 DEF SameWork
      <4>2. /\ q[2].at \in PastFlag => shutdown[Global]
            /\ q[2].at \in Dropping /\ q[2].arg # 1 => AllThrough
        BY <2>1, <4>1 DEF SenderKnows, q, r
      <4> QED BY <1>1, <4>1, <4>2
    <3> QED BY <3>1, <3>2 DEF SenderKnows, r
  <2>3. CASE q = <<>> /\ Len(r) = 1 /\ r[1].at = "await"
    <3>1. ~(Len(r) > 1)
      BY <2>3
    <3> QED BY <2>3, <3>1 DEF SenderKnows, r
  <2> QED BY <2>1, <2>2, <2>3 DEF Steady, q, r
<1>3. GaveUp => GaveUp'
  <2>1. ASSUME NEW w \in Workers, Len(calls[w]) = 1, calls[w][1].at # "await",
               calls[w][1].arg = "timeout"
        PROVE  GaveUp'
    <3> DEFINE q == calls[w]
               r == calls'[w]
    <3>1. q # <<>>
      BY <2>1
    <3>2. SameWork(q, r)
      BY <3>1 DEF Steady
    <3>3. Len(r) = 1 /\ r[1].arg = "timeout" /\ r[1].at # "await"
      BY <2>1, <3>1, <3>2 DEF SameWork
    <3> QED BY <3>3 DEF GaveUp
  <2> QED BY <2>1 DEF GaveUp
<1>4. GaveUp' \/ \A t \in awaited' : Listed(t)' \/ Through(t)'
  BY <1>3 DEF ExitOK
<1>5. ActionsRunBeforeExit'
  <2>1. ASSUME status' = "exited", NEW t \in awaited' PROVE Through(t)'
    <3>1. t \in awaited /\ t \in Threads /\ Through(t)
      BY <2>1 DEF ExitOK, ActionsRunBeforeExit, Through
    <3> QED BY <3>1
  <2> QED BY <2>1 DEF ActionsRunBeforeExit, Through
<1>6. awaited' \subseteq Threads /\ (~shutdown'[Global] => \A t \in alive'[Global] : Listed(t)')
  BY DEF ExitOK
<1> QED BY <1>2, <1>4, <1>5, <1>6 DEF ExitOK

-----------------------------------------------------------------------------
(* The invariant, step by step                                              *)

LEMMA CalmStep ==
  ASSUME ShapeOK, GateOK, LeftOK, ExitOK, Calm
  PROVE  GateOK' /\ LeftOK' /\ ExitOK'
<1>1. \A t \in Threads : Listed(t)' = Listed(t) /\ (Through(t) => Through(t)')
  BY DEF Calm, Listed, Through
<1>2. GateOK'
  <2>1. handled => started[Global]
    BY DEF GateOK
  <2>2. handled' => started[Global]
    BY <2>1 DEF Calm
  <2>3. ASSUME NEW t \in Threads, life'[t].at = "registering", ~InCall(t, "register_thread")'
        PROVE  started[Global]
    <3>1. ~InCall(t, "register_thread") /\ life[t].at = "registering"
      BY <2>3 DEF Calm, CallsOfItsOwn
    <3> QED BY <3>1 DEF GateOK
  <2>4. threadlist'[Global] # <<>> => started[Global]
    BY DEF GateOK, Calm
  <2>5. /\ started'[Global] = started[Global]
        /\ \/ gate'[Global] = gate[Global] /\ exit_flag'[Global] = exit_flag[Global]
           \/ gate'[Global] = 0 /\ exit_flag'[Global] = TRUE
        /\ \A w \in Workers : SameWork(calls[w], calls'[w])
    BY DEF Calm
  <2> QED BY <2>2, <2>3, <2>4, <2>5, GateKept
<1>3. LeftOK'
  <2> SUFFICES ASSUME NEW t \in Threads
               PROVE  /\ life'[t].at = "leaving" /\ ~InCall(t, "confirm_shutdown")' => ~Listed(t)'
                      /\ life'[t].at = "gone" /\ life'[t].refs = 0 => ~Listed(t)'
    BY DEF LeftOK
  <2>1. life'[t] = life[t] /\ (InCall(t, "confirm_shutdown")' <=> InCall(t, "confirm_shutdown"))
    BY DEF Calm, CallsOfItsOwn
  <2>2. Listed(t) <=> Listed(t)'
    BY DEF Calm, Listed
  <2> QED BY <2>1, <2>2 DEF LeftOK
<1>4. ExitOK'
  <2>1. \A w \in Workers : Steady(calls[w], calls'[w])
    BY DEF Calm, Steady
  <2>2. \A t : Listed(t) => Listed(t)'
    BY DEF Calm, Listed
  <2>3. ~shutdown[Global] => \A t \in alive'[Global] : Listed(t)'
    BY <2>2 DEF Calm, ExitOK
  <2>4. \A t \in Threads : Through(t) => Through(t)'
    BY DEF Calm, Through
  <2>5. shutdown' = shutdown /\ awaited' = awaited /\ (status' = "exited" => status = "exited")
    BY DEF Calm
  <2> QED BY <2>1, <2>2, <2>3, <2>4, <2>5, ExitKept
<1> QED BY <1>2, <1>3, <1>4

LEMMA LifeStepKeeps ==
  ASSUME ShapeOK, GateOK, LeftOK, ExitOK, NEW t \in Threads, LibraryRuns(t) \/ ThreadDoes(t)
  PROVE  GateOK' /\ LeftOK' /\ ExitOK'
<1>1. /\ LivesOn(t)
      /\ UNCHANGED <<listVars, flagVars, master, ghosts, awaited>>
      /\ status' \in {status, "failed", "killed"}
      /\ handled' => handled \/ life[t].at = "registering"
  BY LifeSteps
<1>2. /\ UNCHANGED <<threadlist, shutdown, started, gate, exit_flag, alive, awaited>>
      /\ status' = "exited" => status = "exited"
  BY <1>1 DEF listVars, flagVars, ghosts
<1>3. PICK m, q : /\ Continues(life[t], m, q)
                  /\ life' = [life EXCEPT ![t] = m] /\ calls' = [calls EXCEPT ![t] = q]
  BY <1>1 DEF LivesOn
<1>4. calls[t] = <<>> /\ t \in Actors /\ \A w \in Workers : w \in Actors /\ w # t
  BY <1>1, ShutdownAssumption DEF LivesOn, Actors
<1>5. /\ life'[t] = m /\ \A u \in Threads : u # t => life'[u] = life[u]
      /\ calls'[t] = q /\ \A b \in Actors : b # t => calls'[b] = calls[b]
  BY <1>3, <1>4 DEF ShapeOK, TypesOK, CallsOK
<1>6. \A w \in Workers : SameWork(calls[w], calls'[w])
  BY <1>4, <1>5, SameWorkAtAll
<1>7. \A u \in Threads : u # t => \A op : InCall(u, op)' <=> InCall(u, op)
  BY <1>5 DEF InCall, Actors
<1>8. \A op : ~InCall(t, op)
  BY <1>4 DEF InCall
<1>9. \A u : Listed(u)' <=> Listed(u)
  BY <1>2 DEF Listed
<1>10. GateOK'
  <2>1. handled => started[Global]
    BY DEF GateOK
  <2>2. life[t].at = "registering" => started[Global]
    BY <1>8 DEF GateOK
  <2>3. handled' => started[Global]
    BY <1>1, <2>1, <2>2
  <2>4. ASSUME NEW u \in Threads, life'[u].at = "registering", ~InCall(u, "register_thread")'
        PROVE  started[Global]
    <3>1. CASE u = t
      <4>1. m.at = "registering" /\ ~(q # <<>> /\ q[1].op = "register_thread")
        BY <1>5, <2>4, <3>1 DEF InCall
      <4> QED BY <1>3, <4>1 DEF Continues
    <3>2. CASE u # t
      BY <1>5, <1>7, <2>4, <3>2 DEF GateOK
    <3> QED BY <3>1, <3>2
  <2>5. threadlist'[Global] # <<>> => started[Global]
    BY <1>2 DEF GateOK
  <2>6. /\ started'[Global] = started[Global]
        /\ gate'[Global] = gate[Global] /\ exit_flag'[Global] = exit_flag[Global]
    BY <1>2
  <2> QED BY <1>6, <2>3, <2>4, <2>5, <2>6, GateKept
<1>11. LeftOK'
  <2> SUFFICES ASSUME NEW u \in Threads
               PROVE  /\ life'[u].at = "leaving" /\ ~InCall(u, "confirm_shutdown")' => ~Listed(u)'
                      /\ life'[u].at = "gone" /\ life'[u].refs = 0 => ~Listed(u)'
    BY DEF LeftOK
  <2>1. CASE u # t
    BY <1>5, <1>7, <1>9, <2>1 DEF LeftOK
  <2>2. CASE u = t
    <3>1. m.at = "leaving" => InCall(t, "confirm_shutdown")'
      BY <1>3, <1>5 DEF Continues, InCall
    <3>2. m.at = "gone" /\ m.refs = 0 => ~Listed(t)
      BY <1>3, <1>8 DEF Continues, LeftOK
    <3> QED BY <1>5, <1>9, <2>2, <3>1, <3>2
  <2> QED BY <2>1, <2>2
<1>12. ExitOK'
  <2>1. \A w \in Workers : Steady(calls[w], calls'[w])
    BY <1>6 DEF Steady
  <2>2. ~shutdown[Global] => \A u \in alive'[Global] : Listed(u)'
    BY <1>2, <1>9 DEF ExitOK
  <2>3. ASSUME NEW u \in Threads, Through(u) PROVE Through(u)'
    <3>1. CASE u = t
      BY <1>3, <1>5, <2>3, <3>1 DEF Continues, Through
    <3>2. CASE u # t
      BY <1>5, <2>3, <3>2 DEF Through
    <3> QED BY <3>1, <3>2
  <2>4. \A u \in awaited : Listed(u) => Listed(u)' \/ Through(u)'
    BY <1>9
  <2>5. shutdown' = shutdown /\ awaited' = awaited /\ (status' = "exited" => status = "exited")
    BY <1>2
  <2> QED BY <2>1, <2>2, <2>3, <2>4, <2>5, ExitKept
<1> QED BY <1>10, <1>11, <1>12

(* Whoever registers is listed, and starts the shutdown thread if none runs. *)
LEMMA RegisterKeeps ==
  ASSUME ShapeOK, GateOK, LeftOK, ExitOK, NEW t \in Threads, SignalStep(t), RegisterThread(t)
  PROVE  GateOK' /\ LeftOK' /\ ExitOK'
<1>1. /\ life[t].at \in {"registering", "polling"} /\ calls'[t] = <<>>
      /\ ToSet(threadlist'[Global]) = ToSet(threadlist[Global]) \cup {t}
      /\ alive' = [alive EXCEPT ![Global] = @ \cup {t}]
      /\ UNCHANGED <<shutdown, exit_flag, status>>
  BY Registers
<1>2. life' = life /\ awaited' = awaited
  BY <1>1, SignalStays DEF SignalStep
<1>3. handled' = handled
  BY SignalStays
<1>4. t \in Actors /\ \A w \in Workers : w \in Actors /\ w # t
  BY ShutdownAssumption DEF Actors
<1>5. \A u : Listed(u)' <=> Listed(u) \/ u = t
  BY <1>1 DEF Listed
<1>6. alive'[Global] = alive[Global] \cup {t}
  BY <1>1, ShutdownAssumption DEF ShapeOK, TypesOK
<1>7. started[Global] \in BOOLEAN /\ started \in [Signals -> BOOLEAN] /\ Global \in Signals
      /\ gate \in [Signals -> {0, 1}]
  BY ShutdownAssumption DEF ShapeOK, TypesOK, CallsOK
<1>8. \/ OthersStay(t) /\ UNCHANGED <<started, gate>> /\ started[Global]
      \/ /\ ~started[Global] /\ started'[Global] /\ gate'[Global] = 1
         /\ \E w \in Workers :
              /\ calls[w] = <<>> /\ calls'[w] = <<Frame("worker", Global, "await", w)>>
              /\ \A b \in Actors : b # t /\ b # w => calls'[b] = calls[b]
  <2>1. threadlist[Global] # <<>> => started[Global]
    BY DEF GateOK
  <2>2. CASE OthersStay(t) /\ UNCHANGED <<started, gate>>
             /\ (started[Global] \/ threadlist[Global] # <<>>)
    BY <2>1, <2>2
  <2>3. CASE /\ ~started[Global]
             /\ started' = [started EXCEPT ![Global] = TRUE]
             /\ gate' = [gate EXCEPT ![Global] = 1]
             /\ \E w \in Workers :
                  /\ calls[w] = <<>> /\ calls'[w] = <<Frame("worker", Global, "await", w)>>
                  /\ \A b \in Actors : b # t /\ b # w => calls'[b] = calls[b]
    <3>1. started'[Global] /\ gate'[Global] = 1
      BY <1>7, <2>3
    <3> QED BY <2>3, <3>1
  <2> QED BY <2>2, <2>3, Registers
<1>9. \A u \in Threads : u # t => calls'[u] = calls[u]
  <2>1. \A u \in Threads : u \in Actors /\ u \notin Workers
    BY ShutdownAssumption DEF Actors
  <2>2. CASE OthersStay(t)
    BY <2>1, <2>2 DEF OthersStay
  <2>3. ASSUME NEW w \in Workers, \A b \in Actors : b # t /\ b # w => calls'[b] = calls[b]
        PROVE  \A u \in Threads : u # t => calls'[u] = calls[u]
    BY <2>1, <2>3
  <2> QED BY <1>8, <2>2, <2>3
<1>10. started'[Global]
  BY <1>8
<1>11. GateOK'
  <2>1. CASE OthersStay(t) /\ UNCHANGED <<started, gate>> /\ started[Global]
    <3>1. \A w \in Workers : SameWork(calls[w], calls'[w])
      BY <1>4, <2>1, SameWorkAtAll DEF OthersStay
    <3> QED BY <1>1, <2>1, <3>1, GateKept
  <2>2. ASSUME ~started[Global], gate'[Global] = 1, NEW w \in Workers,
               calls'[w] = <<Frame("worker", Global, "await", w)>>,
               \A b \in Actors : b # t /\ b # w => calls'[b] = calls[b]
        PROVE  GateOK'
    <3>1. \A v \in Workers : v # w => calls'[v] = <<>>
      BY <1>4, <2>2 DEF GateOK
    <3>2. calls'[w][1].at = "await"
      BY <2>2 DEF Frame
    <3>3. \A v \in Workers : calls'[v] # <<>> => v = w
      BY <3>1
    <3>4. gate'[Global] # 0
      BY <2>2
    <3> QED BY <1>10, <3>2, <3>3, <3>4 DEF GateOK
  <2> QED BY <1>8, <2>1, <2>2
<1>12. LeftOK'
  <2> SUFFICES ASSUME NEW u \in Threads
               PROVE  /\ life'[u].at = "leaving" /\ ~InCall(u, "confirm_shutdown")' => ~Listed(u)'
                      /\ life'[u].at = "gone" /\ life'[u].refs = 0 => ~Listed(u)'
    BY DEF LeftOK
  <2>1. CASE u = t
    BY <1>1, <1>2, <2>1
  <2>2. CASE u # t
    <3>1. InCall(u, "confirm_shutdown")' <=> InCall(u, "confirm_shutdown")
      BY <1>9, <2>2 DEF InCall
    <3> QED BY <1>2, <1>5, <2>2, <3>1 DEF LeftOK
  <2> QED BY <2>1, <2>2
<1>13. ExitOK'
  <2>1. \A w \in Workers : Steady(calls[w], calls'[w])
    <3>1. CASE OthersStay(t)
      BY <1>4, <3>1, SameWorkAtAll DEF OthersStay, Steady
    <3>2. ASSUME NEW w \in Workers, calls[w] = <<>>,
                 calls'[w] = <<Frame("worker", Global, "await", w)>>,
                 \A b \in Actors : b # t /\ b # w => calls'[b] = calls[b]
          PROVE  \A v \in Workers : Steady(calls[v], calls'[v])
      <4>1. Len(calls'[w]) = 1 /\ calls'[w][1].at = "await"
        BY <3>2 DEF Frame
      <4>2. \A v \in Workers : v # w => calls'[v] = calls[v]
        BY <1>4, <3>2
      <4> QED BY <3>2, <4>1, <4>2, SameWorkAtAll DEF Steady
    <3> QED BY <1>8, <3>1, <3>2
  <2>2. ~shutdown[Global] => \A u \in alive'[Global] : Listed(u)'
    BY <1>5, <1>6 DEF ExitOK
  <2>3. \A u \in Threads : Through(u) => Through(u)'
    BY <1>2 DEF Through
  <2>4. \A u \in awaited : Listed(u) => Listed(u)' \/ Through(u)'
    BY <1>5
  <2> QED BY <1>1, <1>2, <2>1, <2>2, <2>3, <2>4, ExitKept
<1> QED BY <1>11, <1>12, <1>13

(* Whoever confirms has nothing left to unwind.                              *)
LEMMA ConfirmKeeps ==
  ASSUME ShapeOK, GateOK, LeftOK, ExitOK, NEW t \in Threads, SignalStep(t), ConfirmShutdown(t)
  PROVE  GateOK' /\ LeftOK' /\ ExitOK'
<1>1. /\ life[t].at = "leaving" /\ InCall(t, "confirm_shutdown")
      /\ calls'[t] = <<>> /\ OthersStay(t)
      /\ ToSet(threadlist'[Global]) = ToSet(threadlist[Global]) \ {t}
      /\ alive' = [alive EXCEPT ![Global] = @ \ {t}]
      /\ UNCHANGED <<flagVars, status>>
  BY ConfirmsShutdown
<1>2. life' = life /\ awaited' = awaited
  BY <1>1, SignalStays DEF SignalStep, flagVars
<1>3. handled' = handled
  BY SignalStays
<1>4. \A w \in Workers : w \in Actors /\ w # t
  BY ShutdownAssumption DEF Actors
<1>5. \A u : Listed(u)' <=> Listed(u) /\ u # t
  BY <1>1 DEF Listed
<1>6. alive'[Global] = alive[Global] \ {t}
  BY <1>1, ShutdownAssumption DEF ShapeOK, TypesOK
<1>7. \A w \in Workers : SameWork(calls[w], calls'[w])
  BY <1>1, <1>4, SameWorkAtAll DEF OthersStay
<1>8. \A u \in Threads : u # t => calls'[u] = calls[u]
  BY <1>1 DEF OthersStay, Actors
<1>9. Through(t)
  BY <1>1 DEF Through, ShapeOK, LifeOK
<1>10. GateOK'
  <2>1. handled => started[Global]
    BY DEF GateOK
  <2>2. handled' => started[Global]
    BY <1>3, <2>1
  <2>3. threadlist'[Global] # <<>> => started[Global]
    <3>1. ASSUME threadlist'[Global] # <<>> PROVE threadlist[Global] # <<>>
      <4>1. threadlist'[Global] \in Seq(Threads)
        BY ConfirmsShutdown, ShutdownAssumption
      <4>2. threadlist'[Global][1] \in ToSet(threadlist'[Global])
        <5> DEFINE q == threadlist'[Global]
        <5>1. q \in Seq(Threads) /\ q # <<>>
          BY <3>1, <4>1
        <5> HIDE DEF q
        <5>2. 1 \in DOMAIN q
          BY <5>1
        <5>3. q[1] \in ToSet(q)
          BY <5>1, <5>2 DEF ToSet
        <5> QED BY <5>3 DEF q
      <4>3. ToSet(threadlist[Global]) # {}
        BY <1>1, <4>2
      <4> QED BY <4>3 DEF ToSet
    <3> QED BY <3>1 DEF GateOK
  <2>4. ASSUME NEW u \in Threads, life'[u].at = "registering", ~InCall(u, "register_thread")'
        PROVE  started[Global]
    <3>1. u # t
      BY <1>1, <1>2, <2>4
    <3>2. ~InCall(u, "register_thread")
      BY <1>8, <2>4, <3>1 DEF InCall
    <3> QED BY <1>2, <2>4, <3>2 DEF GateOK
  <2>5. /\ started'[Global] = started[Global]
        /\ gate'[Global] = gate[Global] /\ exit_flag'[Global] = exit_flag[Global]
    BY <1>1 DEF flagVars
  <2> QED BY <1>7, <2>2, <2>3, <2>4, <2>5, GateKept
<1>11. LeftOK'
  <2> SUFFICES ASSUME NEW u \in Threads
               PROVE  /\ life'[u].at = "leaving" /\ ~InCall(u, "confirm_shutdown")' => ~Listed(u)'
                      /\ life'[u].at = "gone" /\ life'[u].refs = 0 => ~Listed(u)'
    BY DEF LeftOK
  <2>1. CASE u = t
    BY <1>5, <2>1
  <2>2. CASE u # t
    <3>1. InCall(u, "confirm_shutdown")' <=> InCall(u, "confirm_shutdown")
      BY <1>8, <2>2 DEF InCall
    <3> QED BY <1>2, <1>5, <2>2, <3>1 DEF LeftOK
  <2> QED BY <2>1, <2>2
<1>12. ExitOK'
  <2>1. \A w \in Workers : Steady(calls[w], calls'[w])
    BY <1>7 DEF Steady
  <2>2. ~shutdown[Global] => \A u \in alive'[Global] : Listed(u)'
    BY <1>5, <1>6 DEF ExitOK
  <2>3. \A u \in Threads : Through(u) => Through(u)'
    BY <1>2 DEF Through
  <2>4. \A u \in awaited : Listed(u) => Listed(u)' \/ Through(u)'
    BY <1>5, <1>9, <2>3
  <2>5. shutdown' = shutdown /\ (status' = "exited" => status = "exited")
    BY <1>1 DEF flagVars
  <2> QED BY <1>2, <2>1, <2>2, <2>3, <2>4, <2>5, ExitKept
<1> QED BY <1>10, <1>11, <1>12

(* The shutdown thread's own steps leave the gate open and list nobody.      *)
LEMMA SenderKeepsGate ==
  ASSUME ShapeOK, GateOK, LeftOK, NEW w \in Workers, SignalStep(w), SenderWorks(w)
  PROVE  GateOK' /\ LeftOK'
<1>1. /\ OthersStay(w) /\ UNCHANGED <<started, gate, exit_flag>>
      /\ SendMoves(w) \/ SendStops(w) \/ SendReports(w) \/ WorkerWakes(w)
  BY DEF SenderWorks
<1>2. life' = life
  BY SignalStays
<1>3. handled' = handled
  BY SignalStays
<1>4. w \in Actors /\ (\A t \in Threads : t \in Actors /\ t # w)
      /\ \A v \in Workers : v \in Actors
  BY ShutdownAssumption DEF Actors
<1>5. \A t \in Threads : calls'[t] = calls[t]
  BY <1>1, <1>4 DEF OthersStay
<1>6. threadlist' = threadlist \/ threadlist'[Global] = <<>>
  BY <1>1, ShutdownAssumption
     DEF SendMoves, SendStops, SendReports, WorkerWakes, ShapeOK, TypesOK
<1>7. \A t : Listed(t)' => Listed(t)
  <2>1. ToSet(<<>>) = {}
    BY DEF ToSet
  <2> QED BY <1>6, <2>1 DEF Listed
<1>8. calls[w] # <<>> /\ (calls'[w][1].at # "await" => gate[Global] = 0)
  <2>1. calls[w] # <<>> /\ (calls[w][1].at = "await" \/ gate[Global] = 0)
    <3>1. Len(calls[w]) = 1 \/ Len(calls[w]) = 2
      BY <1>1 DEF SendMoves, SendStops, SendReports, WorkerWakes
    <3>2. calls[w] # <<>>
      BY <3>1
    <3> QED BY <3>2 DEF GateOK
  <2>2. CASE WorkerWakes(w)
    BY <2>1, <2>2 DEF WorkerWakes
  <2>3. CASE SendMoves(w) \/ SendStops(w) \/ SendReports(w)
    <3>1. Len(calls[w]) = 2
      BY <2>3 DEF SendMoves, SendStops, SendReports
    <3>2. calls[w][1].at = "sending"
      <4>1. Len(calls[w]) > 1
        BY <3>1
      <4> QED BY <4>1 DEF ShapeOK, WorkerStackOK
    <3> QED BY <2>1, <3>2
  <2> QED BY <1>1, <2>2, <2>3
<1>9. GateOK'
  <2>1. \A v \in Workers : calls'[v] # <<>> => v = w
    BY <1>1, <1>4, <1>8 DEF GateOK, OthersStay
  <2>2. started'[Global] /\ (calls'[w][1].at # "await" => gate'[Global] = 0)
    BY <1>1, <1>8 DEF GateOK
  <2>3. \A t \in Threads :
          life'[t].at = "registering" /\ ~InCall(t, "register_thread")' => started'[Global]
    BY <2>2
  <2>4. gate'[Global] = 0 => exit_flag'[Global] = TRUE
    BY <1>1 DEF GateOK
  <2> QED BY <2>1, <2>2, <2>3, <2>4 DEF GateOK
<1>10. LeftOK'
  <2> SUFFICES ASSUME NEW u \in Threads
               PROVE  /\ life'[u].at = "leaving" /\ ~InCall(u, "confirm_shutdown")' => ~Listed(u)'
                      /\ life'[u].at = "gone" /\ life'[u].refs = 0 => ~Listed(u)'
    BY DEF LeftOK
  <2>1. InCall(u, "confirm_shutdown")' <=> InCall(u, "confirm_shutdown")
    BY <1>5 DEF InCall
  <2> QED BY <1>2, <1>7, <2>1 DEF LeftOK
<1> QED BY <1>9, <1>10

(* While it is in send_block nobody has given up.                            *)
LEMMA NotGivenUp ==
  ASSUME GateOK, ExitOK, NEW w \in Workers, calls[w] # <<>>,
         Len(calls[w]) # 1 \/ calls[w][1].at = "await"
  PROVE  \A t \in awaited : Listed(t) \/ Through(t)
<1>1. ASSUME NEW v \in Workers, Len(calls[v]) = 1, calls[v][1].at # "await" PROVE FALSE
  <2>1. calls[v] # <<>>
    BY <1>1
  <2>2. v = w
    BY <2>1 DEF GateOK
  <2> QED BY <1>1, <2>2
<1>2. ~GaveUp
  BY <1>1 DEF GaveUp
<1> QED BY <1>2 DEF ExitOK

LEMMA SenderKeepsExit ==
  ASSUME ShapeOK, GateOK, ExitOK, NEW w \in Workers, SignalStep(w), SenderWorks(w)
  PROVE  ExitOK'
<1> DEFINE q == calls[w]
           r == calls'[w]
<1>1. /\ OthersStay(w) /\ status' # "exited"
      /\ alive' = alive
      /\ SendMoves(w) \/ SendStops(w) \/ SendReports(w) \/ WorkerWakes(w)
  BY DEF SenderWorks
<1>2. life' = life
  BY SignalStays
<1>3. /\ Len(q) = 1 \/ Len(q) = 2
      /\ Len(q) = 1 => q[1].at = "await"
  BY <1>1 DEF SendMoves, SendStops, SendReports, WorkerWakes
<1>4. q # <<>>
  BY <1>3
<1>5. \A t \in awaited : Listed(t) \/ Through(t)
  <2>1. Len(q) # 1 \/ q[1].at = "await"
    BY <1>3
  <2> QED BY <1>4, <2>1, NotGivenUp
<1>6. SenderKnows(q)
  BY DEF ExitOK
<1>7. \A t : Through(t)' <=> Through(t)
  BY <1>2 DEF Through
<1>8. \A v \in Workers : v # w => calls'[v] = <<>>
  BY <1>1, <1>4 DEF GateOK, OthersStay, Actors
<1>9. ActionsRunBeforeExit'
  BY <1>1 DEF ActionsRunBeforeExit
<1>10. SenderKnows(<<>>)'
  <2>1. Len(<<>>) # 1 /\ ~(Len(<<>>) > 1)
    OBVIOUS
  <2> QED BY <2>1 DEF SenderKnows
<1>11. ASSUME SenderKnows(calls[w])',
              awaited' \subseteq Threads,
              ~shutdown'[Global] => \A t \in alive[Global] : Listed(t)',
              GaveUp' \/ \A t \in awaited' : Listed(t)' \/ Through(t)'
       PROVE  ExitOK'
  <2>1. \A v \in Workers : SenderKnows(calls[v])'
    BY <1>8, <1>10, <1>11
  <2> QED BY <1>1, <1>9, <1>11, <2>1 DEF ExitOK
<1>12. shutdown[Global] => awaited' = awaited
  BY DEF SignalStep
<1>13. shutdown' = shutdown => awaited' = awaited
  BY DEF SignalStep
<1>14. ASSUME shutdown' = shutdown, threadlist' = threadlist, SenderKnows(calls[w])'
       PROVE  ExitOK'
  <2>1. \A t : Listed(t)' <=> Listed(t)
    BY <1>14 DEF Listed
  <2>2. awaited' = awaited
    BY <1>13, <1>14
  <2>3. awaited' \subseteq Threads /\ (~shutdown'[Global] => \A t \in alive[Global] : Listed(t)')
    BY <1>14, <2>1, <2>2 DEF ExitOK
  <2>4. \A t \in awaited' : Listed(t)' \/ Through(t)'
    BY <1>5, <1>7, <2>1, <2>2
  <2> QED BY <1>11, <1>14, <2>3, <2>4
<1>15. CASE SendMoves(w)
  <2>1. /\ Len(q) = 2 /\ Len(r) = 2 /\ Len(r) # 1 /\ threadlist' = threadlist
        /\ r[2].arg = q[2].arg
    <3>1. Len(q) = 2 /\ Len(r) = 2 /\ Alike(q, r) /\ threadlist' = threadlist
      BY <1>15 DEF SendMoves
    <3>2. 2 \in 1 .. Len(q) /\ Len(r) # 1
      BY <3>1
    <3> QED BY <3>1, <3>2 DEF Alike
  <2>2. /\ q[2].at \in PastFlag => shutdown[Global]
        /\ q[2].at \in Dropping /\ q[2].arg # 1 => AllThrough
    <3>1. Len(q) > 1
      BY <2>1
    <3> QED BY <1>6, <3>1 DEF SenderKnows
  <2>3. ASSUME r[2].at \in PastFlag => shutdown'[Global],
               r[2].at \in Dropping /\ r[2].arg # 1 => AllThrough'
        PROVE  SenderKnows(calls[w])'
    BY <2>1, <2>3 DEF SenderKnows
  <2>4. CASE r[2].at = "set" /\ shutdown' = shutdown
    <3>1. r[2].at \notin PastFlag /\ r[2].at \notin Dropping
      BY <2>4 DEF PastFlag, Dropping, FreeingPlaces
    <3> QED BY <1>14, <2>1, <2>3, <2>4, <3>1
  <2>5. CASE r[2].at = "lock" /\ shutdown' = [shutdown EXCEPT ![Global] = TRUE]
    <3>1. shutdown'[Global] = TRUE /\ shutdown[Global] \in BOOLEAN
      BY <2>5, ShutdownAssumption DEF ShapeOK, TypesOK
    <3>2. SenderKnows(calls[w])'
      BY <2>3, <2>5, <3>1 DEF Dropping, FreeingPlaces
    <3>3. \A t : Listed(t)' <=> Listed(t)
      BY <2>1 DEF Listed
    <3>4. CASE shutdown[Global]
      <4>1. awaited' = awaited
        BY <1>12, <3>4
      <4> QED BY <1>5, <1>7, <1>11, <3>1, <3>2, <3>3, <4>1 DEF ExitOK
    <3>5. CASE ~shutdown[Global]
      <4>1. awaited' = alive[Global]
        BY <3>1, <3>5 DEF SignalStep
      <4>2. alive[Global] \subseteq Threads
        BY ShutdownAssumption DEF ShapeOK, TypesOK
      <4>3. \A t \in awaited' : Listed(t)'
        BY <3>3, <3>5, <4>1 DEF ExitOK
      <4> QED BY <1>11, <3>1, <3>2, <4>1, <4>2, <4>3
    <3> QED BY <3>4, <3>5
  <2>6. CASE /\ q[2].at \in PastFlag /\ r[2].at \in {"poll", "sleep"}
             /\ shutdown' = shutdown
    <3>1. SenderKnows(calls[w])'
      BY <2>2, <2>3, <2>6 DEF Dropping, FreeingPlaces
    <3> QED BY <1>14, <2>1, <2>6, <3>1
  <2>7. CASE /\ q[2].at \in PastFlag /\ r[2].at = "free_cb"
             /\ threadlist[Global] = <<>> /\ shutdown' = shutdown
    <3>1. \A t : ~Listed(t)
      BY <2>7 DEF Listed, ToSet
    <3>2. AllThrough'
      BY <1>5, <1>7, <1>13, <2>7, <3>1 DEF AllThrough
    <3>3. SenderKnows(calls[w])'
      BY <2>2, <2>3, <2>7, <3>2
    <3> QED BY <1>14, <2>1, <2>7, <3>3
  <2>8. CASE q[2].at \in Dropping /\ r[2].at \in Dropping /\ shutdown' = shutdown
    <3>1. q[2].at \in PastFlag
      BY <2>8 DEF PastFlag, Dropping, FreeingPlaces
    <3>2. AllThrough => AllThrough'
      BY <1>7, <1>13, <2>8 DEF AllThrough
    <3>3. SenderKnows(calls[w])'
      BY <2>1, <2>2, <2>3, <2>8, <3>1, <3>2
    <3> QED BY <1>14, <2>1, <2>8, <3>3
  <2> QED BY <1>15, <2>4, <2>5, <2>6, <2>7, <2>8 DEF SendMoves
<1>16. CASE SendStops(w)
  <2>1. /\ Len(r) = 2 /\ Len(r) # 1 /\ Len(q) > 1
        /\ q[2].at \in PastFlag /\ r[2].arg = 1
        /\ threadlist' = threadlist /\ shutdown' = shutdown
    BY <1>16 DEF SendStops
  <2>2. shutdown[Global]
    BY <1>6, <2>1 DEF SenderKnows
  <2>3. SenderKnows(calls[w])'
    BY <2>1, <2>2 DEF SenderKnows
  <2> QED BY <1>14, <2>1, <2>3
<1>17. CASE SendReports(w)
  <2>1. /\ Len(q) > 1 /\ Len(r) = 1 /\ ~(Len(r) > 1)
        /\ r[1].at = "lock" /\ shutdown' = shutdown
    BY <1>17 DEF SendReports
  <2>2. AllThrough => AllThrough'
    BY <1>7, <1>13, <2>1 DEF AllThrough
  <2>3. CASE shutdown[Global] /\ r[1].arg = "noop" /\ threadlist' = threadlist
    <3>1. SenderKnows(calls[w])'
      BY <2>1, <2>3 DEF SenderKnows, Exited
    <3> QED BY <1>14, <2>1, <2>3, <3>1
  <2>4. CASE /\ q[2].at \in Dropping
             /\ r[1].arg = IF q[2].arg = 1 THEN "timeout" ELSE "done"
             /\ threadlist' = [threadlist EXCEPT ![Global] = <<>>]
    <3>1. q[2].at \in PastFlag
      BY <2>4 DEF PastFlag, Dropping, FreeingPlaces
    <3>2. shutdown[Global] /\ (q[2].arg # 1 => AllThrough)
      BY <1>6, <2>1, <2>4, <3>1 DEF SenderKnows
    <3>3. r[1].arg \in DOMAIN Exited /\ (r[1].arg = "done" => q[2].arg # 1)
          /\ (q[2].arg = 1 => r[1].arg = "timeout")
      BY <2>4 DEF Exited
    <3>4. SenderKnows(calls[w])'
      BY <2>1, <2>2, <3>2, <3>3 DEF SenderKnows
    <3>5. GaveUp' \/ \A t \in awaited' : Listed(t)' \/ Through(t)'
      <4>1. CASE q[2].arg = 1
        BY <2>1, <3>3, <4>1 DEF GaveUp
      <4>2. CASE q[2].arg # 1
        BY <2>2, <3>2, <4>2 DEF AllThrough
      <4> QED BY <4>1, <4>2
    <3>6. shutdown'[Global] /\ awaited' = awaited
      BY <1>13, <2>1, <3>2
    <3> QED BY <1>11, <3>4, <3>5, <3>6 DEF ExitOK
  <2> QED BY <1>17, <2>3, <2>4 DEF SendReports
<1>18. CASE WorkerWakes(w)
  <2>1. /\ Len(r) = 2 /\ Len(r) # 1 /\ r[2].at = "check"
        /\ threadlist' = threadlist /\ shutdown' = shutdown
    BY <1>18 DEF WorkerWakes
  <2>2. r[2].at \notin PastFlag /\ r[2].at \notin Dropping
    BY <2>1 DEF PastFlag, Dropping, FreeingPlaces
  <2>3. SenderKnows(calls[w])'
    BY <2>1, <2>2 DEF SenderKnows
  <2> QED BY <1>14, <2>1, <2>3
<1> QED BY <1>1, <1>15, <1>16, <1>17, <1>18

(* It ends the process in time only if its send saw everybody through.       *)
LEMMA FinishKeeps ==
  ASSUME ShapeOK, GateOK, LeftOK, ExitOK, NEW w \in Workers, SignalStep(w), WorkerFinishes(w)
  PROVE  GateOK' /\ LeftOK' /\ ExitOK'
<1>1. /\ Len(calls[w]) = 1 /\ calls[w][1].at = "body" /\ status' = Exited[calls[w][1].arg]
      /\ UNCHANGED <<listVars, flagVars, master, calls, ghosts>>
  BY Finishes
<1>2. UNCHANGED <<threadlist, shutdown, started, gate, exit_flag, alive, calls>>
  BY <1>1 DEF listVars, flagVars, ghosts
<1>3. life' = life /\ awaited' = awaited
  BY <1>2, SignalStays DEF SignalStep
<1>4. handled' = handled
  BY SignalStays
<1>5. GateOK' /\ LeftOK'
  <2>1. \A t \in Threads, op \in CallsOfItsOwn : InCall(t, op)' <=> InCall(t, op)
    BY <1>2 DEF InCall
  <2>2. GateOK'
    <3>1. handled => started[Global]
      BY DEF GateOK
    <3>2. handled' => started[Global]
      BY <1>4, <3>1
    <3>3. ASSUME NEW t \in Threads, life'[t].at = "registering",
                 ~InCall(t, "register_thread")'
          PROVE  started[Global]
      BY <1>3, <2>1, <3>3 DEF GateOK, CallsOfItsOwn
    <3>4. \A v \in Workers : SameWork(calls[v], calls'[v])
      BY <1>2, SameWorkAtAll
    <3>5. /\ threadlist'[Global] # <<>> => started[Global]
          /\ started'[Global] = started[Global]
          /\ gate'[Global] = gate[Global] /\ exit_flag'[Global] = exit_flag[Global]
      BY <1>2 DEF GateOK
    <3> QED BY <3>2, <3>3, <3>4, <3>5, GateKept
  <2>3. LeftOK'
    <3>1. \A t : Listed(t)' <=> Listed(t)
      BY <1>2 DEF Listed
    <3> QED BY <1>3, <2>1, <3>1 DEF LeftOK, CallsOfItsOwn
  <2> QED BY <2>2, <2>3
<1>6. AllThrough' <=> AllThrough
  BY <1>3 DEF AllThrough, Through
<1>7. \A v \in Workers : SenderKnows(calls[v])'
  <2> SUFFICES ASSUME NEW v \in Workers PROVE SenderKnows(calls[v])'
    OBVIOUS
  <2>1. SenderKnows(calls[v])
    BY DEF ExitOK
  <2> QED BY <1>2, <1>6, <2>1 DEF SenderKnows
<1>8. ActionsRunBeforeExit'
  <2>1. SenderKnows(calls[w])
    BY DEF ExitOK
  <2>2. /\ calls[w][1].arg \in DOMAIN Exited
        /\ calls[w][1].arg = "done" => AllThrough
    BY <1>1, <2>1 DEF SenderKnows
  <2>3. status' = "exited" => calls[w][1].arg = "done"
    BY <1>1, <2>2 DEF Exited
  <2>4. status' = "exited" => AllThrough'
    BY <1>6, <2>2, <2>3
  <2> QED BY <2>4 DEF ActionsRunBeforeExit, AllThrough, Through
<1>9. /\ awaited' \subseteq Threads
      /\ ~shutdown'[Global] => \A t \in alive'[Global] : Listed(t)'
      /\ GaveUp' \/ \A t \in awaited' : Listed(t)' \/ Through(t)'
  <2>1. \A t : (Listed(t)' <=> Listed(t)) /\ (Through(t)' <=> Through(t))
    BY <1>2, <1>3 DEF Listed, Through
  <2>2. GaveUp' <=> GaveUp
    BY <1>2 DEF GaveUp
  <2> QED BY <1>2, <1>3, <2>1, <2>2 DEF ExitOK
<1> QED BY <1>5, <1>7, <1>8, <1>9 DEF ExitOK

LEMMA ProcessStep ==
  ASSUME ProcessInv, [ProcessNext]_procVars
  PROVE  ProcessInv'
<1>1. ShapeOK /\ GateOK /\ LeftOK /\ ExitOK
  BY DEF ProcessInv
<1>2. ShapeOK'
  BY <1>1, ShapeStep
<1>3. ASSUME Calm PROVE GateOK' /\ LeftOK' /\ ExitOK'
  BY <1>1, <1>3, CalmStep
<1>4. ASSUME NEW t \in Threads, LibraryRuns(t) \/ ThreadDoes(t)
      PROVE  GateOK' /\ LeftOK' /\ ExitOK'
  BY <1>1, <1>4, LifeStepKeeps
<1>5. ASSUME Undisturbed PROVE GateOK' /\ LeftOK' /\ ExitOK'
  BY <1>1, <1>3, <1>5, QuietIsCalm
<1>6. ASSUME NEW a \in Actors, SignalStep(a), Locks(a)
      PROVE  GateOK' /\ LeftOK' /\ ExitOK'
  BY <1>1, <1>3, <1>6, LocksIsCalm
<1>7. ASSUME NEW t \in Threads, SignalStep(t),
             RegisterThread(t) \/ ConfirmShutdown(t) \/ RegisterCb(t) \/ SendAsync(t)
      PROVE  GateOK' /\ LeftOK' /\ ExitOK'
  <2>1. CASE RegisterThread(t)
    BY <1>1, <1>7, <2>1, RegisterKeeps
  <2>2. CASE ConfirmShutdown(t)
    BY <1>1, <1>7, <2>2, ConfirmKeeps
  <2>3. CASE RegisterCb(t) \/ SendAsync(t)
    BY <1>1, <1>3, <1>7, <2>3, CallIsCalm
  <2> QED BY <1>7, <2>1, <2>2, <2>3
<1>8. ASSUME NEW w \in Workers, SignalStep(w), SendBlockStep(w) \/ WorkerStep(w)
      PROVE  GateOK' /\ LeftOK' /\ ExitOK'
  <2>1. CASE SenderWorks(w)
    BY <1>1, <1>8, <2>1, SenderKeepsGate, SenderKeepsExit
  <2>2. CASE WorkerFinishes(w)
    BY <1>1, <1>8, <2>2, FinishKeeps
  <2> QED BY <1>1, <1>8, <2>1, <2>2, SenderKinds
<1>9. GateOK' /\ LeftOK' /\ ExitOK'
  BY <1>1, <1>4, <1>5, <1>6, <1>7, <1>8, ProcessKinds
<1> QED BY <1>2, <1>9 DEF ProcessInv

LEMMA ProcessStart ==
  ASSUME ProcessInit
  PROVE  ProcessInv
<1>1. /\ calls = [a \in Actors |-> <<>>] /\ started = [s \in Signals |-> FALSE]
      /\ shutdown = [s \in Signals |-> FALSE] /\ exit_flag = [s \in Signals |-> FALSE]
      /\ gate = [s \in Signals |-> 1] /\ alive = [s \in Signals |-> {}]
      /\ threadlist = [s \in Signals |-> <<>>] /\ master = [s \in Signals |-> NoOne]
      /\ last_id = [s \in Signals |-> 0] /\ owned = [s \in Signals |-> {}]
      /\ status = "running" /\ awaited = {}
      /\ life = [t \in Threads |-> [at |-> "new", refs |-> 0, todo |-> 0]]
  BY DEF ProcessInit, Init
<1>2. handled = FALSE
  BY DEF ProcessInit
<1>3. Global \in Signals /\ \A t \in Threads : t \in Actors
  BY ShutdownAssumption DEF Actors
<1>4. \A a \in Actors : calls[a] = <<>>
  BY <1>1
<1>5. \A t \in Threads : calls[t] = <<>> /\ life[t] = [at |-> "new", refs |-> 0, todo |-> 0]
  BY <1>1, <1>3, <1>4
<1>6. \A w \in Workers : calls[w] = <<>>
  BY <1>4 DEF Actors
<1>7. threadlist[Global] = <<>> /\ ~shutdown[Global] /\ gate[Global] = 1 /\ alive[Global] = {}
  BY <1>1, <1>3
<1>8. ShapeOK
  <2>1. LifeOK([at |-> "new", refs |-> 0, todo |-> 0])
    BY ProcessAssumption DEF LifeOK, Lives
  <2>2. CallsOK
    <3>1. calls \in [Actors -> Seq(Frames)]
      BY <1>1
    <3>2. /\ master \in [Signals -> Actors \cup {NoOne}] /\ started \in [Signals -> BOOLEAN]
          /\ last_id \in [Signals -> Nat] /\ owned \in [Signals -> SUBSET Nat]
      BY <1>1
    <3> QED BY <3>1, <3>2 DEF CallsOK
  <2>3. TypesOK
    <3>1. life \in [Threads -> Lives]
      BY <1>1, <2>1 DEF LifeOK
    <3>2. NoRepeats(threadlist[Global]) /\ threadlist \in [Signals -> Seq(Threads)]
      BY <1>1, <1>7 DEF NoRepeats
    <3> QED BY <1>1, <2>2, <3>1, <3>2 DEF TypesOK
  <2>4. WorkerStackOK(<<>>) /\ 1 .. Len(<<>>) = {}
    BY DEF WorkerStackOK
  <2> QED BY <1>5, <1>6, <2>1, <2>3, <2>4 DEF ShapeOK
<1>9. GateOK
  BY <1>2, <1>5, <1>6, <1>7 DEF GateOK
<1>10. LeftOK
  BY <1>5 DEF LeftOK
<1>11. ExitOK
  <2>1. SenderKnows(<<>>)
    BY DEF SenderKnows
  <2> QED BY <1>1, <1>6, <1>7, <2>1 DEF ExitOK, ActionsRunBeforeExit
<1> QED BY <1>8, <1>9, <1>10, <1>11 DEF ProcessInv

(* The inductive invariant holds in every state of the process.              *)
THEOREM ProcessInvariant == ProcessSpec => []ProcessInv
<1>1. ProcessInit => ProcessInv
  BY ProcessStart
<1>2. ProcessInv /\ [ProcessNext]_procVars => ProcessInv'
  BY ProcessStep
<1> QED BY <1>1, <1>2, PTL DEF ProcessSpec

(* However a thread that was registered when the shutdown began came to its  *)
(* end - confirming, or unwound by its catch-all handler, with OS signals and *)
(* callbacks calling the library meanwhile - the shutdown thread ends the    *)
(* process in time only when that thread has run all its unwind actions.     *)
THEOREM ActionsRun == ProcessSpec => []ActionsRunBeforeExit
<1>1. ProcessInv => ActionsRunBeforeExit
  BY DEF ProcessInv, ExitOK
<1> QED BY <1>1, ProcessInvariant, PTL

(* send_block never polls for a thread that has ended after the last of its  *)
(* unwind_cleanup calls: it has confirmed, and nothing lists it again.       *)
THEOREM NoneGoneIsAwaited == ProcessSpec => []GoneIsNotAwaited
<1>1. ProcessInv => GoneIsNotAwaited
  BY DEF ProcessInv, LeftOK, Listed, GoneIsNotAwaited
<1> QED BY <1>1, ProcessInvariant, PTL

(* Once sig_init has installed the OS signal handlers a shutdown thread is   *)
(* there, and no registration closes a gate that is open: a request stays.   *)
THEOREM KeepsRequests == ProcessSpec => RequestsAreKept
<1>1. ASSUME ProcessInv, ProcessInv', [ProcessNext]_procVars, handled, gate[Global] = 0
      PROVE  started[Global] /\ gate'[Global] = 0
  <2>1. ShapeOK /\ GateOK /\ started[Global]
    BY <1>1 DEF ProcessInv, GateOK
  <2>2. CASE \E t \in Threads : LibraryRuns(t) \/ ThreadDoes(t)
    BY <1>1, <2>1, <2>2, LifeSteps DEF flagVars
  <2>3. CASE Calm
    BY <1>1, <2>1, <2>3 DEF Calm
  <2>4. CASE Undisturbed
    BY <2>1, <2>3, <2>4, QuietIsCalm
  <2>5. ASSUME NEW a \in Actors, SignalStep(a), Locks(a) PROVE Calm
    BY <2>1, <2>5, LocksIsCalm
  <2>6. ASSUME NEW t \in Threads, SignalStep(t),
               RegisterThread(t) \/ ConfirmShutdown(t) \/ RegisterCb(t) \/ SendAsync(t)
        PROVE  gate'[Global] = 0
    <3>1. CASE RegisterThread(t)
      BY <1>1, <2>1, <3>1, Registers
    <3>2. CASE ConfirmShutdown(t)
      BY <1>1, <2>1, <3>2, ConfirmsShutdown DEF flagVars
    <3>3. CASE RegisterCb(t) \/ SendAsync(t)
      BY <2>1, <2>3, <2>6, <3>3, CallIsCalm
    <3> QED BY <2>6, <3>1, <3>2, <3>3
  <2>7. ASSUME NEW w \in Workers, SignalStep(w), SendBlockStep(w) \/ WorkerStep(w)
        PROVE  gate'[Global] = 0
    <3>1. CASE SenderWorks(w)
      BY <1>1, <3>1 DEF SenderWorks
    <3>2. CASE WorkerFinishes(w)
      BY <1>1, <2>1, <3>2, Finishes DEF flagVars
    <3> QED BY <2>1, <2>7, <3>1, <3>2, SenderKinds
  <2> QED BY <1>1, <2>1, <2>2, <2>3, <2>4, <2>5, <2>6, <2>7, ProcessKinds
<1>2. ProcessInv /\ ProcessInv' /\ [ProcessNext]_procVars
        => [handled /\ gate[Global] = 0 => started[Global] /\ gate'[Global] = 0]_procVars
  BY <1>1
<1> QED BY <1>2, ProcessInvariant, PTL DEF ProcessSpec, RequestsAreKept
=============================================================================
