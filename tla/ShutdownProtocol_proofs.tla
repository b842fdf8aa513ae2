------------------------- MODULE ShutdownProtocol_proofs -------------------------
(***************************************************************************)
(* What the shutdown signal of a process promises, for any threads, shutdown *)
(* threads, calls and OS signals: the promise holds where the check of the *)
(* flag in send_block cannot be passed twice, in a process with one signal *)
(* that the application sends with send_async only.                        *)
(***************************************************************************)
EXTENDS ShutdownCalls_proofs

(* Only the one shutdown thread ever is in send_block.                       *)
OneSender == Signals = {Global} /\ "send_block" \notin Ops

-----------------------------------------------------------------------------
(* The inductive invariant *)

(* w is in send_block, at one of the places P.                               *)
Sends(w, P) == Len(calls[w]) = 2 /\ calls[w][2].at \in P

Dropping == FreeingPlaces
BeforeDropping == {"lock", "body", "poll", "sleep", "free_cb"}

(* The signal has not been sent, or the send has not freed anything yet.     *)
Fresh == ~shutdown[Global] \/ \E w \in Workers : Sends(w, BeforeDropping)

NoThreadSends ==
  \A t \in Threads : \A k \in 1 .. Len(calls[t]) : calls[t][k].op # "send_block"

(* Who has passed the check is alone: the flag is still clear.               *)
ChecksHold == \A w \in Workers : Sends(w, {"set"}) => ~shutdown[Global]

FreshExact == Fresh => ThreadsExact(Global) /\ CallbacksExact(Global)

(* A send that goes on to free the lists without having timed out, and a     *)
(* shutdown thread that has heard of such a send, leave nobody behind.       *)
NobodyLeftBehind ==
  \A w \in Workers :
    /\ Sends(w, Dropping) /\ calls[w][2].arg # 1 => pending[Global] = {}
    /\ Len(calls[w]) = 1 /\ calls[w][1].at \in {"lock", "body"} =>
         shutdown[Global] /\ (calls[w][1].arg = "done" => pending[Global] = {})

PendingOK ==
  /\ pending[Global] \subseteq alive[Global]
  /\ status = "exited" => pending[Global] = {}

PInv ==
  /\ LInv /\ SInv
  /\ NoThreadSends /\ ChecksHold /\ FreshExact /\ NobodyLeftBehind /\ PendingOK
  /\ called \in [Signals -> Seq(Nat)]

-----------------------------------------------------------------------------
(* There is one sender at most *)

LEMMA OneAtATime ==
  ASSUME OneSender, PInv, NEW v \in Workers, NEW w \in Workers, calls[v] # <<>>, calls[w] # <<>>
  PROVE  v = w
<1>1. calls[v][1].s = Global /\ calls[w][1].s = Global
  <2>1. v \in Actors /\ w \in Actors
    BY DEF Actors
  <2>2. calls[v] \in Seq(Frames) /\ calls[w] \in Seq(Frames)
    BY <2>1 DEF PInv, LInv, IInv, CallsOK
  <2>3. 1 \in 1 .. Len(calls[v]) /\ 1 \in 1 .. Len(calls[w])
    BY <2>2
  <2>4. calls[v][1] \in Frames /\ calls[w][1] \in Frames
    BY <2>2, <2>3
  <2> QED BY <2>4 DEF Frames, OneSender
<1>2. Serves(calls, v, Global) /\ Serves(calls, w, Global)
  BY <1>1 DEF Serves
<1>3. StartedOK
  BY DEF PInv, LInv, IInv
<1> QED BY <1>2, <1>3, ShutdownAssumption DEF StartedOK

LEMMA TheSender ==
  ASSUME OneSender, PInv, NEW a \in Actors, calls[a] # <<>>, CurrentCall(a).op = "send_block"
  PROVE  /\ a \in Workers /\ Len(calls[a]) = 2
         /\ CurrentCall(a) = calls[a][2] /\ CurrentCall(a).s = Global
         /\ \A w \in Workers : calls[w] # <<>> => w = a
<1>1. calls[a] \in Seq(Frames) /\ Len(calls[a]) \in 1 .. Len(calls[a]) /\ CurrentCall(a) \in Frames
  BY CurrentFrame DEF PInv, LInv
<1>2. a \in Workers
  <2>1. a \notin Threads
    BY <1>1 DEF PInv, NoThreadSends, CurrentCall
  <2> QED BY <2>1 DEF Actors
<1>3. Len(calls[a]) = 2
  BY <1>2, WorkerStack DEF PInv, LInv
<1>4. CurrentCall(a).s = Global
  BY <1>1 DEF Frames, OneSender
<1> QED BY <1>2, <1>3, <1>4, OneAtATime DEF CurrentCall

(* A step with the actor's send_block is a step of the one sender.           *)
LEMMA SenderSteps ==
  ASSUME OneSender, PInv, NEW a \in Actors, NEW at,
         IsAt(a, "send_block", at)
  PROVE  /\ a \in Workers /\ Sends(a, {at})
         /\ CurrentCall(a) = calls[a][2] /\ CurrentCall(a).s = Global
         /\ \A w \in Workers : calls[w] # <<>> => w = a
BY TheSender DEF IsAt, Sends

(* What a sender does to its own call.                                       *)
LEMMA SenderGoesOn ==
  ASSUME OneSender, PInv, NEW a \in Actors, NEW from, NEW to \in Places,
         IsAt(a, "send_block", from), calls' = GoOn(a, to)
  PROVE  Len(calls'[a]) = 2 /\ calls'[a][2].at = to
<1>1. a \in Workers /\ Len(calls[a]) = 2 /\ calls[a] # <<>>
  BY SenderSteps DEF Sends, IsAt
<1>2. IInv /\ CallsOK
  BY DEF PInv, LInv, IInv
<1>3. PICK f \in Frames :
        /\ GoOn(a, to) = [calls EXCEPT ![a] = [calls[a] EXCEPT ![Len(calls[a])] = f]]
        /\ f.at = to
  BY <1>1, <1>2, GoOnTop
<1>4. calls' = [calls EXCEPT ![a] = [calls[a] EXCEPT ![Len(calls[a])] = f]]
  BY <1>3
<1>5. Len(calls'[a]) = Len(calls[a]) /\ calls'[a][Len(calls[a])] = f
  BY <1>1, <1>2, <1>4, TopOK
<1> QED BY <1>1, <1>3, <1>5

(* Where the frame of the sender's call comes from.                          *)
LEMMA SenderTraced ==
  ASSUME OneSender, PInv, [Next]_vars, NEW w \in Workers, Len(calls'[w]) = 2
  PROVE  \/ Len(calls[w]) = 2 /\ calls[w][2].op = "send_block" /\ calls[w][2] \in Frames
            /\ Moves(calls[w][2], calls'[w][2])
         \/ calls'[w][2].at = "check"
<1>1. w \in Actors /\ 2 \in 1 .. Len(calls'[w]) /\ IInv /\ IInv'
  BY NextStep DEF Actors, PInv, LInv
<1>2. ComesFrom(w, 2)
  BY <1>1, StepTraced DEF Traced
<1>3. CASE 2 \in 1 .. Len(calls[w]) /\ Moves(calls[w][2], calls'[w][2])
  <2>1. Len(calls[w]) \in Nat /\ Len(calls[w]) <= 2 /\ calls[w] \in Seq(Frames)
    BY <1>1 DEF IInv, WorkersOK, CallsOK
  <2>2. Len(calls[w]) = 2
    <3> DEFINE n == Len(calls[w])
    <3>1. n \in Nat /\ n <= 2 /\ 2 \in 1 .. n
      BY <1>3, <2>1
    <3> HIDE DEF n
    <3>2. n = 2
      BY <3>1
    <3> QED BY <3>2 DEF n
  <2> QED BY <1>1, <1>3, <2>1, <2>2 DEF IInv, WorkersOK
<1>4. CASE Begins(w, calls'[w][2])
  <2>1. calls'[w][2].op = "send_block"
    BY <1>1 DEF IInv, WorkersOK
  <2> QED BY <1>4, <2>1 DEF Begins
<1> QED BY <1>2, <1>3, <1>4 DEF ComesFrom

-----------------------------------------------------------------------------
(* Each part of the invariant, step by step *)

LEMMA SetsFlag ==
  ASSUME OneSender, PInv, NEW a \in Actors, SetShutdown(a)
  PROVE  /\ a \in Workers /\ Sends(a, {"set"}) /\ ~shutdown[Global] /\ status = "running"
         /\ CurrentCall(a).s = Global
         /\ Len(calls'[a]) = 2 /\ calls'[a][2].at = "lock"
         /\ \A w \in Workers : calls[w] # <<>> => w = a
<1>1. IsAt(a, "send_block", "set") /\ calls' = GoOn(a, "lock") /\ "lock" \in Places
  BY DEF SetShutdown, Places
<1>2. /\ a \in Workers /\ Sends(a, {"set"}) /\ CurrentCall(a).s = Global
      /\ \A w \in Workers : calls[w] # <<>> => w = a
  BY <1>1, SenderSteps
<1>3. Len(calls'[a]) = 2 /\ calls'[a][2].at = "lock"
  BY <1>1, SenderGoesOn
<1> QED BY <1>1, <1>2, <1>3 DEF PInv, ChecksHold, IsAt

(* But for that step the flag stays and nobody is waited for anew.           *)
LEMMA SetsOrNot ==
  ASSUME PInv, [Next]_vars
  PROVE  \/ \E a \in Actors : SetShutdown(a)
         \/ shutdown' = shutdown /\ pending'[Global] \subseteq pending[Global]
<1> USE DEF PInv, LInv, FlagsOK
<1>1. CASE UNCHANGED Shared
  BY <1>1 DEF Shared, flagVars, ghosts
<1>2. ASSUME NEW t \in Threads, ThreadStep(t)
      PROVE  shutdown' = shutdown /\ pending'[Global] \subseteq pending[Global]
  <2>1. CASE ConfirmShutdown(t)
    <3>1. shutdown' = shutdown /\ pending' = [pending EXCEPT ![CurrentCall(t).s] = @ \ {t}]
      BY <2>1 DEF ConfirmShutdown, flagVars
    <3> QED BY <3>1, ShutdownAssumption
  <2>2. CASE ~ConfirmShutdown(t)
    BY <1>2, <2>2 DEF ThreadStep, RegisterThread, RegisterCb, UnregisterCb, SendAsync, flagVars
  <2> QED BY <2>1, <2>2
<1>3. ASSUME NEW a \in Actors, SenderStep(a) \/ UseAfterFree(a), ~SetShutdown(a)
      PROVE  shutdown' = shutdown /\ pending'[Global] \subseteq pending[Global]
  BY <1>3, Freeing DEF SenderStep, CallCallbacks, UseAfterFree, UndefinedBehaviour, flagVars, ghosts
<1>4. ASSUME NEW w \in Workers, WorkerFinishes(w)
      PROVE  shutdown' = shutdown /\ pending'[Global] \subseteq pending[Global]
  BY <1>4 DEF WorkerFinishes, ghosts
<1> QED BY <1>1, <1>2, <1>3, <1>4, StepKinds

LEMMA ThreadSendsStep ==
  ASSUME OneSender, PInv, [Next]_vars
  PROVE  NoThreadSends'
<1> SUFFICES ASSUME NEW t \in Threads, NEW k \in 1 .. Len(calls'[t])
             PROVE  calls'[t][k].op # "send_block"
  BY DEF NoThreadSends
<1>1. t \in Actors /\ t \notin Workers
  BY ShutdownAssumption DEF Actors
<1>2. ComesFrom(t, k)
  BY <1>1, StepTraced DEF Traced, PInv, LInv
<1>3. CASE k \in 1 .. Len(calls[t]) /\ Moves(calls[t][k], calls'[t][k])
  <2>1. calls[t][k] \in Frames /\ calls[t][k].op # "send_block"
    BY <1>1, <1>3 DEF PInv, LInv, IInv, CallsOK, NoThreadSends
  <2>2. calls'[t][k].op = calls[t][k].op
    BY <1>3, <2>1 DEF Moves, WorkerMoves, Frames
  <2> QED BY <2>1, <2>2
<1>4. CASE Begins(t, calls'[t][k])
  BY <1>1, <1>4 DEF Begins, OneSender
<1> QED BY <1>2, <1>3, <1>4 DEF ComesFrom

LEMMA ChecksStep ==
  ASSUME OneSender, PInv, [Next]_vars
  PROVE  ChecksHold'
<1> SUFFICES ASSUME NEW w \in Workers, Len(calls'[w]) = 2, calls'[w][2].at = "set"
             PROVE  ~shutdown'[Global]
  BY DEF ChecksHold, Sends
<1>1. /\ Len(calls[w]) = 2 /\ calls[w][2].op = "send_block" /\ calls[w][2] \in Frames
      /\ Moves(calls[w][2], calls'[w][2])
  BY SenderTraced
<1>2. w \in Actors /\ calls[w] # <<>> /\ calls[w] \in Seq(Frames) /\ CurrentCall(w) = calls[w][2]
  BY <1>1 DEF Actors, PInv, LInv, IInv, CallsOK, CurrentCall
<1>3. calls[w][2].s = Global
  BY <1>1 DEF Frames, OneSender
<1>4. ~shutdown[Global]
  <2>1. calls[w][2].at = "set" \/ (calls[w][2].at = "check" /\ ~shutdown[calls[w][2].s])
    BY <1>1 DEF Moves, SendBlockMoves, Frames
  <2> QED BY <1>1, <1>3, <2>1 DEF PInv, ChecksHold, Sends
<1>5. ~ \E a \in Actors : SetShutdown(a)
  BY <1>1, <1>2, SetsFlag
<1> QED BY <1>4, <1>5, SetsOrNot

(* What a send that is not done with the lists yet has been before.          *)
LEMMA WasFresh ==
  ASSUME OneSender, PInv, [Next]_vars, Fresh'
  PROVE  Fresh
<1> USE DEF Fresh
<1>1. CASE ~shutdown'[Global]
  BY <1>1, FlagStays, ShutdownAssumption DEF PInv
<1>2. ASSUME NEW w \in Workers, Len(calls'[w]) = 2, calls'[w][2].at \in BeforeDropping
      PROVE  Fresh
  <2>1. /\ Len(calls[w]) = 2 /\ calls[w][2] \in Frames /\ calls[w][2].op = "send_block"
        /\ Moves(calls[w][2], calls'[w][2])
    BY <1>2, SenderTraced DEF BeforeDropping
  <2>2. calls[w][2].at \in BeforeDropping \/ calls[w][2].at = "set"
    BY <1>2, <2>1 DEF Moves, SendBlockMoves, BeforeDropping, Frames
  <2> QED BY <2>1, <2>2 DEF Sends, PInv, ChecksHold
<1> QED BY <1>1, <1>2 DEF Sends

LEMMA DropsAreLate ==
  ASSUME OneSender, PInv, [Next]_vars, Fresh'
  PROVE  ~DropsThreads(Global) /\ ~DropsCallbacks(Global)
<1>1. CASE ~shutdown[Global]
  BY <1>1, NothingDropped, ShutdownAssumption DEF PInv
<1>2. CASE shutdown[Global]
  <2> SUFFICES ASSUME NEW a \in Actors, FreesCallbacks(a) \/ FreesThreadlist(a)
               PROVE  FALSE
    BY DEF DropsThreads, DropsCallbacks
  <2>0. shutdown'[Global]
    BY <1>2, FlagStays, ShutdownAssumption DEF PInv
  <2>1. PICK w \in Workers : Len(calls'[w]) = 2 /\ calls'[w][2].at \in BeforeDropping
    BY <2>0 DEF Fresh, Sends
  <2>2. Len(calls[w]) = 2 /\ calls[w] # <<>>
    <3>1. Len(calls[w]) = 2 /\ calls[w] \in Seq(Frames)
      BY <2>1, SenderTraced DEF BeforeDropping, PInv, LInv, IInv, CallsOK, Actors
    <3> QED BY <3>1
  <2>3. \E at : IsAt(a, "send_block", at)
    BY DEF FreesCallbacks, FreeCallbacks, ResetCallbacksAlloc, ResetCallbacks, FreesThreadlist,
           FreeThreadlist, ForgetThreadlist, ResetThreadlistAlloc, ResetThreadlist
  <2>4. a = w /\ a \in Workers /\ calls \in [Actors -> Seq(Frames)]
    BY <2>2, <2>3, SenderSteps DEF PInv, LInv, IInv, CallsOK
  <2>5. CASE FreesCallbacks(a) \/ FreeThreadlist(a) \/ ForgetThreadlist(a) \/ ResetThreadlistAlloc(a)
    <3>1. PICK from \in Places, to \in FreeingPlaces \ {"free_cb"} :
            IsAt(a, "send_block", from) /\ calls' = GoOn(a, to)
      BY <2>5 DEF FreesCallbacks, FreeCallbacks, ResetCallbacksAlloc, ResetCallbacks,
                  FreeThreadlist, ForgetThreadlist, ResetThreadlistAlloc, Places, FreeingPlaces
    <3>2. to \in Places
      BY DEF Places, FreeingPlaces
    <3>3. calls'[a][2].at = to
      BY <3>1, <3>2, SenderGoesOn
    <3> QED BY <2>1, <2>4, <3>3 DEF BeforeDropping, FreeingPlaces
  <2>6. CASE ResetThreadlist(a)
    <3>1. PICK f : calls' = [calls EXCEPT ![a] = <<f>>]
      BY <2>4, <2>6 DEF ResetThreadlist, SendBlockReturns
    <3>2. calls'[a] = <<f>>
      BY <2>4, <3>1
    <3> QED BY <2>1, <2>4, <3>2
  <2> QED BY <2>5, <2>6 DEF FreesThreadlist
<1> QED BY <1>1, <1>2

LEMMA FreshStep ==
  ASSUME OneSender, PInv, [Next]_vars
  PROVE  FreshExact'
<1> SUFFICES ASSUME Fresh'
             PROVE  ThreadsExact(Global)' /\ CallbacksExact(Global)'
  BY DEF FreshExact
<1>1. ThreadsExact(Global) /\ CallbacksExact(Global)
  BY WasFresh DEF PInv, FreshExact
<1>2. ~DropsThreads(Global) /\ ~DropsCallbacks(Global)
  BY DropsAreLate
<1> QED BY <1>1, <1>2, ThreadsStayExact, CallbacksStayExact, ShutdownAssumption DEF PInv

LEMMA DroppingStep ==
  ASSUME OneSender, PInv, [Next]_vars, NEW w \in Workers,
         Len(calls'[w]) = 2, calls'[w][2].at \in Dropping, calls'[w][2].arg # 1
  PROVE  pending'[Global] = {}
<1> DEFINE f == calls[w][2]
<1>1. Len(calls[w]) = 2 /\ f.op = "send_block" /\ f \in Frames /\ Moves(f, calls'[w][2])
  BY SenderTraced DEF Dropping, FreeingPlaces
<1>2. w \in Actors /\ calls[w] # <<>> /\ CurrentCall(w) = f /\ f.s = Global
  <2>1. calls[w] \in Seq(Frames)
    BY DEF Actors, PInv, LInv, IInv, CallsOK
  <2> QED BY <1>1, <2>1 DEF Actors, CurrentCall, Frames, OneSender
<1> HIDE DEF f
<1>3. \/ f.at \in Dropping /\ f.arg # 1
      \/ f.at = "poll" /\ threadlist[f.s] = <<>>
  BY <1>1 DEF Moves, SendBlockMoves, Dropping, FreeingPlaces, Frames
<1>4. pending[Global] = {}
  <2>1. CASE f.at \in Dropping /\ f.arg # 1
    BY <1>1, <2>1 DEF f, PInv, NobodyLeftBehind, Sends
  <2>2. CASE f.at = "poll" /\ threadlist[f.s] = <<>>
    <3>1. Fresh
      BY <1>1, <2>2 DEF f, Fresh, Sends, BeforeDropping
    <3>2. ToSet(threadlist[Global]) = alive[Global]
      BY <3>1 DEF PInv, FreshExact, ThreadsExact
    <3>3. alive[Global] = {}
      BY <1>2, <2>2, <3>2 DEF ToSet
    <3> QED BY <3>3 DEF PInv, PendingOK
  <2> QED BY <1>3, <2>1, <2>2
<1>5. ASSUME NEW a \in Actors, SetShutdown(a)
      PROVE  FALSE
  <2>1. a = w /\ f.at = "set"
    BY <1>2, <1>5, SetsFlag DEF f, Sends
  <2> QED BY <1>3, <2>1 DEF Dropping, FreeingPlaces
<1> QED BY <1>4, <1>5, SetsOrNot

(* send_block tells the shutdown thread that it is done only when it has not *)
(* given up on anybody.                                                      *)
LEMMA TellsTheTruth ==
  ASSUME OneSender, PInv, NEW how, SendBlockTells(how)
  PROVE  shutdown[Global] /\ (how = "done" => pending[Global] = {})
<1>1. PICK w \in Workers :
        \/ AlreadySent(w) /\ how = "noop"
        \/ ResetThreadlist(w) /\ how = (IF CurrentCall(w).arg = 1 THEN "timeout" ELSE "done")
  BY DEF SendBlockTells
<1>2. CASE AlreadySent(w) /\ how = "noop"
  <2>1. IsAt(w, "send_block", "check") /\ w \in Actors
    BY <1>2 DEF AlreadySent, Actors
  <2> QED BY <1>2, <2>1, SenderSteps DEF AlreadySent
<1>3. CASE ResetThreadlist(w) /\ how = (IF CurrentCall(w).arg = 1 THEN "timeout" ELSE "done")
  <2>1. IsAt(w, "send_block", "reset_tl") /\ w \in Actors
    BY <1>3 DEF ResetThreadlist, Actors
  <2>2. /\ Sends(w, {"reset_tl"}) /\ CurrentCall(w) = calls[w][2] /\ CurrentCall(w).s = Global
        /\ CurrentCall(w).op = "send_block"
    BY <2>1, SenderSteps DEF IsAt
  <2>3. shutdown[Global]
    <3>1. 2 \in 1 .. Len(calls[w])
      BY <2>2 DEF Sends
    <3>2. Knows(calls[w][2], shutdown)
      BY <2>1, <3>1 DEF PInv, LInv, FramesOK
    <3> QED BY <2>2, <3>2 DEF Knows, Sends
  <2>4. how = "done" => pending[Global] = {}
    BY <1>3, <2>2 DEF PInv, NobodyLeftBehind, Sends, Dropping, FreeingPlaces
  <2> QED BY <2>3, <2>4
<1> QED BY <1>1, <1>2, <1>3

LEMMA HeardStep ==
  ASSUME OneSender, PInv, [Next]_vars, NEW w \in Workers,
         Len(calls'[w]) = 1, calls'[w][1].at \in {"lock", "body"}
  PROVE  shutdown'[Global] /\ (calls'[w][1].arg = "done" => pending'[Global] = {})
<1> DEFINE f == calls[w][1]
           g == calls'[w][1]
<1>1. w \in Actors /\ 1 \in 1 .. Len(calls'[w]) /\ IInv /\ IInv'
  BY NextStep DEF Actors, PInv, LInv
<1>2. calls'[w] # <<>> /\ g.op = "worker"
  BY <1>1 DEF IInv, WorkersOK
<1>3. ComesFrom(w, 1)
  BY <1>1, StepTraced DEF Traced
<1>4. 1 \in 1 .. Len(calls[w]) /\ Moves(f, g)
  BY <1>2, <1>3 DEF ComesFrom, Begins
<1>5. calls[w] # <<>> /\ f \in Frames /\ f.op = "worker"
  <2>1. calls[w] \in Seq(Frames) /\ calls[w] # <<>>
    BY <1>1, <1>4 DEF IInv, CallsOK
  <2> QED BY <1>4, <2>1, WorkerStack, <1>1
<1>6. \/ f.at \in {"lock", "body"} /\ g.arg = f.arg
      \/ SendBlockTells(g.arg)
  <2> HIDE DEF f, g
  <2> QED BY <1>4, <1>5 DEF Moves, WorkerMoves, Frames, f, g
<1>7. shutdown[Global] /\ (g.arg = "done" => pending[Global] = {})
  <2>1. CASE f.at \in {"lock", "body"} /\ g.arg = f.arg
    <3>1. Len(calls[w]) = 1
      <4>1. Len(calls[w]) \in Nat /\ Len(calls[w]) <= 2 /\ Len(calls[w]) # 2
        BY <1>1, <1>4, <2>1 DEF IInv, WorkersOK, CallsOK
      <4> DEFINE n == Len(calls[w])
      <4>2. n \in Nat /\ n <= 2 /\ n # 2 /\ 1 \in 1 .. n
        BY <1>4, <4>1
      <4> HIDE DEF n
      <4>3. n = 1
        BY <4>2
      <4> QED BY <4>3 DEF n
    <3> QED BY <2>1, <3>1 DEF PInv, NobodyLeftBehind
  <2>2. CASE SendBlockTells(g.arg)
    BY <2>2, TellsTheTruth
  <2> QED BY <1>6, <2>1, <2>2
<1>8. ASSUME NEW a \in Actors, SetShutdown(a)
      PROVE  FALSE
  <2>1. a = w /\ Len(calls'[a]) = 2
    BY <1>5, <1>8, SetsFlag
  <2> QED BY <2>1
<1> QED BY <1>7, <1>8, SetsOrNot

LEMMA LeftBehindStep ==
  ASSUME OneSender, PInv, [Next]_vars
  PROVE  NobodyLeftBehind'
BY DroppingStep, HeardStep DEF NobodyLeftBehind, Sends

LEMMA PendingStep ==
  ASSUME OneSender, PInv, [Next]_vars
  PROVE  PendingOK'
<1> USE DEF PInv, LInv, FlagsOK, PendingOK
<1> USE ShutdownAssumption
<1>1. CASE UNCHANGED <<pending, alive, status>>
  BY <1>1
<1>2. ASSUME NEW t \in Threads, ThreadStep(t)
      PROVE  PendingOK'
  <2> DEFINE s == CurrentCall(t).s
  <2>1. t \in Actors /\ calls[t] # <<>> /\ status' = status
    BY <1>2 DEF ThreadStep, RegisterThread, ConfirmShutdown, RegisterCb, UnregisterCb, SendAsync,
                IsAt, envVars, Actors
  <2>2. CASE RegisterThread(t)
    <3>1. alive' = [alive EXCEPT ![s] = @ \cup {t}] /\ pending' = pending
      BY <2>2 DEF RegisterThread
    <3> QED BY <2>1, <3>1
  <2>3. CASE ConfirmShutdown(t)
    <3>1. alive' = [alive EXCEPT ![s] = @ \ {t}] /\ pending' = [pending EXCEPT ![s] = @ \ {t}]
      BY <2>3 DEF ConfirmShutdown
    <3> QED BY <2>1, <3>1
  <2>4. CASE RegisterCb(t) \/ UnregisterCb(t) \/ SendAsync(t)
    BY <1>1, <2>4 DEF RegisterCb, UnregisterCb, SendAsync, envVars
  <2> QED BY <1>2, <2>2, <2>3, <2>4 DEF ThreadStep
<1>3. ASSUME NEW a \in Actors, SetShutdown(a)
      PROVE  PendingOK'
  <2>1. pending' = [pending EXCEPT ![Global] = alive[Global]] /\ alive' = alive
        /\ status' = "running"
    BY <1>3, SetsFlag DEF SetShutdown, envVars
  <2> QED BY <2>1
<1>4. ASSUME NEW a \in Actors, SenderStep(a), ~SetShutdown(a)
      PROVE  PendingOK'
  BY <1>1, <1>4, Freeing DEF SenderStep, CallCallbacks, envVars, ghosts
<1>5. ASSUME NEW a \in Actors, UseAfterFree(a)
      PROVE  PendingOK'
  BY <1>5 DEF UseAfterFree, UndefinedBehaviour, ghosts
<1>6. ASSUME NEW w \in Workers, WorkerFinishes(w)
      PROVE  PendingOK'
  <2>1. pending' = pending /\ alive' = alive
    BY <1>6 DEF WorkerFinishes, ghosts
  <2>2. CASE status' = status
    BY <1>1, <2>1, <2>2
  <2>3. CASE status' = Exited[CurrentCall(w).arg]
    <3>1. w \in Actors /\ calls[w] # <<>> /\ CurrentCall(w).op = "worker" /\ CurrentCall(w).at = "body"
      BY <1>6 DEF WorkerFinishes, IsAt, Actors
    <3>2. Len(calls[w]) = 1 /\ CurrentCall(w) = calls[w][1] /\ Knows(CurrentCall(w), shutdown)
      <4>1. Len(calls[w]) = 1
        BY <3>1, WorkerStack
      <4> QED BY <3>1, <4>1 DEF CurrentCall, FramesOK
    <3>3. CurrentCall(w).arg \in DOMAIN Exited
      BY <3>1, <3>2 DEF Knows
    <3>4. status' = "exited" => CurrentCall(w).arg = "done"
      BY <2>3, <3>3 DEF Exited
    <3> QED BY <2>1, <3>1, <3>2, <3>4 DEF NobodyLeftBehind
  <2> QED BY <1>6, <2>2, <2>3 DEF WorkerFinishes
<1>7. CASE UNCHANGED Shared
  BY <1>1, <1>7 DEF Shared, ghosts
<1> QED BY <1>2, <1>3, <1>4, <1>5, <1>6, <1>7, StepKinds

(* The callbacks are called with the lists still exact.                      *)
LEMMA CalledStep ==
  ASSUME OneSender, PInv, [Next]_vars
  PROVE  \/ called' = called
         \/ /\ called' = [called EXCEPT ![Global] = @ \o callbacks[Global]]
            /\ ToSet(callbacks[Global]) = owned[Global] /\ UNCHANGED owned
<1>1. CASE \E a \in Actors : CallCallbacks(a)
  <2>1. PICK a \in Actors : CallCallbacks(a)
    BY <1>1
  <2>2. IsAt(a, "send_block", "body")
    BY <2>1 DEF CallCallbacks
  <2>3. CurrentCall(a).s = Global /\ a \in Workers /\ Sends(a, {"body"})
    BY <2>2, SenderSteps
  <2>4. Fresh
    BY <2>3 DEF Fresh, Sends, BeforeDropping
  <2>5. ToSet(callbacks[Global]) = owned[Global]
    BY <2>4 DEF PInv, FreshExact, CallbacksExact
  <2> QED BY <2>1, <2>3, <2>5 DEF CallCallbacks
<1>2. CASE ~ \E a \in Actors : CallCallbacks(a)
  <2>1. CASE UNCHANGED Shared
    BY <2>1 DEF Shared, ghosts
  <2>2. ASSUME NEW t \in Threads, ThreadStep(t)
        PROVE  called' = called
    BY <2>2 DEF ThreadStep, RegisterThread, ConfirmShutdown, RegisterCb, UnregisterCb, SendAsync
  <2>3. ASSUME NEW a \in Actors, SenderStep(a) \/ UseAfterFree(a)
        PROVE  called' = called
    BY <1>2, <2>3, Freeing DEF SenderStep, SetShutdown, UseAfterFree, UndefinedBehaviour, ghosts
  <2>4. ASSUME NEW w \in Workers, WorkerFinishes(w)
        PROVE  called' = called
    BY <2>4 DEF WorkerFinishes, ghosts
  <2> QED BY <2>1, <2>2, <2>3, <2>4, StepKinds
<1> QED BY <1>1, <1>2

LEMMA ProtocolStep ==
  ASSUME OneSender, PInv, [Next]_vars
  PROVE  PInv'
<1>1. LInv' /\ SInv'
  BY ListsStep, SentStep DEF PInv, OneSender, OneSignal
<1>2. called' \in [Signals -> Seq(Nat)]
  <2>1. callbacks[Global] \in Seq(Nat) /\ called \in [Signals -> Seq(Nat)]
    BY ShutdownAssumption DEF PInv, LInv, CallbacksOK
  <2> DEFINE r == callbacks[Global]
             q == called[Global] \o r
  <2>2. q \in Seq(Nat)
    BY <2>1, ShutdownAssumption
  <2>3. called' = called \/ called' = [called EXCEPT ![Global] = q]
    BY CalledStep
  <2> HIDE DEF q
  <2> QED BY <2>1, <2>2, <2>3
<1> QED
  BY <1>1, <1>2, ThreadSendsStep, ChecksStep, FreshStep, LeftBehindStep, PendingStep DEF PInv

LEMMA ProtocolInit == Init => PInv
<1> SUFFICES ASSUME Init PROVE PInv
  OBVIOUS
<1>1. LInv /\ SInv
  BY ListsInit, SentInit
<1>2. \A a \in Actors : calls[a] = <<>> /\ Len(calls[a]) = 0
  BY DEF Init
<1>3. NoThreadSends /\ ChecksHold /\ NobodyLeftBehind
  BY <1>2 DEF NoThreadSends, ChecksHold, NobodyLeftBehind, Sends, Actors
<1>4. ThreadsExact(Global) /\ CallbacksExact(Global)
  <2>1. ToSet(<<>>) = {}
    BY DEF ToSet
  <2> QED BY <2>1, ShutdownAssumption DEF Init, ThreadsExact, CallbacksExact
<1>5. PendingOK /\ called \in [Signals -> Seq(Nat)]
  BY ShutdownAssumption DEF Init, PendingOK
<1> QED BY <1>1, <1>3, <1>4, <1>5 DEF PInv, FreshExact

-----------------------------------------------------------------------------
(* The theorems *)

(* No shutdown thread passes the check of the flag after another one has,    *)
(* frees a list that is still in use, or leaves a thread behind unless it    *)
(* gives up on it: the invariant from which the others follow.               *)
THEOREM ProtocolInvariant ==
  ASSUME OneSender
  PROVE  Spec => []PInv
<1>1. PInv /\ [Next]_vars => PInv'
  BY ProtocolStep
<1> QED BY <1>1, ProtocolInit, PTL DEF Spec

(* Where one sender at a time is all there can be, the process is ended as   *)
(* after an orderly shutdown only when every thread that was registered when *)
(* the flag was set has confirmed - whoever registers, confirms, asks again  *)
(* or is interrupted meanwhile, and also if the shutdown thread has ended    *)
(* and another one was started.                                              *)
THEOREM ExitIsClean ==
  ASSUME OneSender
  PROVE  Spec => []CleanExit
<1>1. PInv => CleanExit
  BY DEF PInv, PendingOK, CleanExit
<1> QED BY <1>1, ProtocolInvariant, PTL

LEMMA Appended ==
  ASSUME NEW q \in Seq(Nat), NEW r \in Seq(Nat)
  PROVE  ToSet(SubSeq(q \o r, Len(q) + 1, Len(q \o r))) = ToSet(r)
<1> DEFINE m == Len(q)
           n == Len(r)
           c == q \o r
<1>1. m \in Nat /\ n \in Nat /\ c \in Seq(Nat) /\ Len(c) = m + n
  OBVIOUS
<1>2. \A i \in 1 .. n : c[m + i] = r[i]
  OBVIOUS
<1> HIDE DEF c
<1> DEFINE d == SubSeq(c, m + 1, m + n)
<1>3. Len(d) = n /\ \A i \in 1 .. n : d[i] = c[m + i]
  BY <1>1
<1>4. DOMAIN d = 1 .. n /\ DOMAIN r = 1 .. n
  BY <1>1, <1>3
<1> HIDE DEF d
<1>5. ToSet(d) = ToSet(r)
  BY <1>2, <1>3, <1>4 DEF ToSet
<1> QED BY <1>1, <1>5 DEF c, d

(* Where one sender at a time is all there can be, it calls every callback   *)
(* that is registered when it holds the lock and none that has been          *)
(* unregistered, whatever registrations, confirmations and OS signals are    *)
(* under way.                                                                *)
THEOREM RegisteredAreCalled ==
  ASSUME OneSender
  PROVE  Spec => CallsTheRegistered
<1>1. PInv /\ [Next]_vars =>
        [ \A s \in Signals : called'[s] # called[s] =>
            ToSet(SubSeq(called'[s], Len(called[s]) + 1, Len(called'[s]))) = owned[s] ]_vars
  <2> SUFFICES ASSUME PInv, [Next]_vars, NEW s \in Signals, called'[s] # called[s]
               PROVE  ToSet(SubSeq(called'[s], Len(called[s]) + 1, Len(called'[s]))) = owned[s]
    OBVIOUS
  <2>1. s = Global
    BY DEF OneSender
  <2>2. /\ called' = [called EXCEPT ![Global] = @ \o callbacks[Global]]
        /\ ToSet(callbacks[Global]) = owned[Global]
    BY CalledStep
  <2>3. called[s] \in Seq(Nat) /\ callbacks[s] \in Seq(Nat)
    BY DEF PInv, LInv, CallbacksOK
  <2>4. called'[s] = called[s] \o callbacks[s]
    BY <2>1, <2>2 DEF PInv
  <2> DEFINE q == called[s]
             r == callbacks[s]
             c == called'[s]
  <2>5. q \in Seq(Nat) /\ r \in Seq(Nat) /\ c = q \o r
    BY <2>3, <2>4
  <2>6. ToSet(SubSeq(c, Len(q) + 1, Len(c))) = ToSet(r)
    <3> HIDE DEF q, r, c
    <3>1. ToSet(SubSeq(q \o r, Len(q) + 1, Len(q \o r))) = ToSet(r)
      BY <2>5, Appended
    <3> QED BY <2>5, <3>1
  <2> QED BY <2>1, <2>2, <2>6
<1> QED BY <1>1, ProtocolInvariant, PTL DEF Spec, CallsTheRegistered

-----------------------------------------------------------------------------
(* The refinement *)

(* What the protocol sees of the signal.                                     *)
LEMMA SeenUnchanged ==
  ASSUME UNCHANGED <<threadlist, sent, shutdown, pending, status>>
  PROVE  UNCHANGED Protocol!vars
BY DEF Protocol!vars

LEMMA ThreadsProtocol ==
  ASSUME OneSender, PInv, NEW t \in Threads, ThreadStep(t)
  PROVE  [Protocol!Next]_(Protocol!vars)
<1> USE ShutdownAssumption DEF PInv, LInv, FlagsOK, ThreadlistsOK
<1> DEFINE q == threadlist[Global]
<1>1. /\ CurrentCall(t).s = Global /\ status = "running" /\ status' = "running"
      /\ shutdown' = shutdown
  <2>1. /\ t \in Actors /\ calls[t] # <<>> /\ status = "running" /\ status' = status
        /\ shutdown' = shutdown
    BY DEF ThreadStep, RegisterThread, ConfirmShutdown, RegisterCb, UnregisterCb, SendAsync,
           IsAt, envVars, flagVars, Actors
  <2>2. CurrentCall(t).s \in Signals
    BY <2>1, CurrentSignal
  <2> QED BY <2>1, <2>2 DEF OneSender
<1>2. CASE RegisterThread(t)
  <2>1. ToSet(q') = ToSet(q) \cup {t}
    <3>1. CASE t \in ToSet(q)
      BY <1>1, <1>2, <3>1 DEF RegisterThread
    <3>2. CASE t \notin ToSet(q)
      <4>1. q' = Append(q, t)
        BY <1>1, <1>2, <3>2 DEF RegisterThread
      <4>2. ToSet(Append(q, t)) = ToSet(q) \cup {t}
        BY AppendKeeps
      <4> QED BY <4>1, <4>2
    <3> QED BY <3>1, <3>2
  <2>2. UNCHANGED <<sent, pending>>
    BY <1>2 DEF RegisterThread
  <2>3. Protocol!Join(t)
    BY <1>1, <2>1, <2>2 DEF Protocol!Join, Protocol!Running
  <2> QED BY <2>3 DEF Protocol!Next
<1>3. CASE ConfirmShutdown(t)
  <2>1. q' = Without(q, t) /\ pending'[Global] = pending[Global] \ {t} /\ sent' = sent
    BY <1>1, <1>3 DEF ConfirmShutdown
  <2>2. ToSet(Without(q, t)) = ToSet(q) \ {t}
    BY WithoutKeeps
  <2>3. Protocol!Leave(t)
    BY <1>1, <2>1, <2>2 DEF Protocol!Leave, Protocol!Running
  <2> QED BY <2>3 DEF Protocol!Next
<1>4. CASE RegisterCb(t) \/ UnregisterCb(t)
  BY <1>1, <1>4, SeenUnchanged DEF RegisterCb, UnregisterCb
<1>5. CASE SendAsync(t)
  <2>1. sent'[Global] = TRUE /\ UNCHANGED <<threadlist, pending>>
    BY <1>1, <1>5 DEF SendAsync, listVars
  <2>2. Protocol!Request
    BY <1>1, <2>1 DEF Protocol!Request, Protocol!Running
  <2> QED BY <2>2 DEF Protocol!Next
<1> QED BY <1>2, <1>3, <1>4, <1>5 DEF ThreadStep

LEMMA SenderProtocol ==
  ASSUME OneSender, PInv, NEW a \in Actors, SenderStep(a)
  PROVE  [Protocol!Next]_(Protocol!vars)
<1> USE ShutdownAssumption DEF PInv, LInv, FlagsOK, ThreadlistsOK
<1>1. CASE SetShutdown(a)
  <2>1. /\ a \in Workers /\ Sends(a, {"set"}) /\ ~shutdown[Global] /\ CurrentCall(a).s = Global
    BY <1>1, SetsFlag
  <2>2. /\ shutdown'[Global] = TRUE /\ pending'[Global] = alive[Global]
        /\ UNCHANGED <<threadlist, status>> /\ sent'[Global] = sent[Global] /\ status = "running"
    BY <1>1, <2>1 DEF SetShutdown, IsAt, listVars, envVars
  <2>3. alive[Global] = ToSet(threadlist[Global])
    BY <2>1 DEF FreshExact, Fresh, ThreadsExact
  <2>4. sent[Global]
    <3>1. HasSeenGate(calls, a)
      <4>1. calls[a] # <<>> /\ calls[a][1].at = "sending"
        BY <1>1, <2>1 DEF IInv, WorkersOK, Sends, SetShutdown, IsAt
      <4> QED BY <4>1 DEF HasSeenGate
    <3> QED BY <2>1, <3>1 DEF SInv, SentOK
  <2>5. Protocol!SetFlag
    BY <2>1, <2>2, <2>3, <2>4 DEF Protocol!SetFlag, Protocol!Running
  <2> QED BY <2>5 DEF Protocol!Next
<1>2. CASE CallCallbacks(a) \/ FreesCallbacks(a)
  BY <1>2, SeenUnchanged, Freeing DEF CallCallbacks, listVars, flagVars, envVars, ghosts
<1>4. CASE FreeThreadlist(a) \/ ForgetThreadlist(a) \/ ResetThreadlistAlloc(a)
  BY <1>4, SeenUnchanged
     DEF FreeThreadlist, ForgetThreadlist, ResetThreadlistAlloc, flagVars, envVars, ghosts
<1>3. CASE ResetThreadlist(a)
  <2>1. IsAt(a, "send_block", "reset_tl")
    BY <1>3 DEF ResetThreadlist
  <2>2. Sends(a, {"reset_tl"}) /\ CurrentCall(a) = calls[a][2] /\ CurrentCall(a).s = Global
    BY <2>1, SenderSteps
  <2>3. shutdown[Global]
    <3>1. 2 \in 1 .. Len(calls[a])
      BY <2>2 DEF Sends
    <3>2. Knows(calls[a][2], shutdown)
      BY <3>1 DEF FramesOK
    <3> QED BY <2>1, <2>2, <3>2 DEF Knows, IsAt
  <2>4. threadlist'[Global] = <<>> /\ UNCHANGED <<sent, shutdown, pending, status>>
        /\ status = "running"
    BY <1>3, <2>1, <2>2 DEF ResetThreadlist, IsAt, flagVars, envVars, ghosts
  <2>5. ToSet(threadlist'[Global]) = {}
    BY <2>4 DEF ToSet
  <2>6. Protocol!StopWaiting
    BY <2>3, <2>4, <2>5 DEF Protocol!StopWaiting, Protocol!Running
  <2> QED BY <2>6 DEF Protocol!Next
<1> QED BY <1>1, <1>2, <1>3, <1>4 DEF SenderStep, FreesThreadlist

(* Nothing is touched outside the lists but past the flag.                   *)
LEMMA FreedLate ==
  ASSUME OneSender, PInv, NEW a \in Actors, UseAfterFree(a)
  PROVE  shutdown[Global]
<1>1. LInv /\ UnsentExact
  BY DEF PInv, FreshExact, Fresh, UnsentExact, OneSender
<1> QED BY <1>1, UsesAfterSend DEF OneSender

LEMMA EndProtocol ==
  ASSUME OneSender, PInv,
         (\E a \in Actors : UseAfterFree(a)) \/ (\E w \in Workers : WorkerFinishes(w))
  PROVE  [Protocol!Next]_(Protocol!vars)
<1>1. CASE \E a \in Actors : UseAfterFree(a)
  <2>1. /\ status = "running" /\ status' = "undefined"
        /\ UNCHANGED <<threadlist, sent, shutdown, pending>>
    BY <1>1 DEF UseAfterFree, UndefinedBehaviour, listVars, flagVars, ghosts
  <2>2. shutdown[Global]
    BY <1>1, FreedLate
  <2>3. Protocol!EndByForce
    BY <2>1, <2>2 DEF Protocol!EndByForce, Protocol!Running
  <2> QED BY <2>3 DEF Protocol!Next
<1>2. ASSUME NEW w \in Workers, WorkerFinishes(w)
      PROVE  [Protocol!Next]_(Protocol!vars)
  <2>1. UNCHANGED <<threadlist, sent, shutdown, pending>> /\ status = "running"
    BY <1>2 DEF WorkerFinishes, IsAt, listVars, ghosts
  <2>2. CASE status' = status
    BY <2>1, <2>2, SeenUnchanged
  <2>3. CASE status' = Exited[CurrentCall(w).arg]
    <3>1. w \in Actors /\ calls[w] # <<>> /\ CurrentCall(w).op = "worker" /\ CurrentCall(w).at = "body"
      BY <1>2 DEF WorkerFinishes, IsAt, Actors
    <3>2. Len(calls[w]) = 1 /\ CurrentCall(w) = calls[w][1] /\ Knows(CurrentCall(w), shutdown)
      <4>1. Len(calls[w]) = 1
        BY <3>1, WorkerStack DEF PInv, LInv
      <4> QED BY <3>1, <4>1 DEF CurrentCall, FramesOK, PInv, LInv
    <3>3. shutdown[Global] /\ (CurrentCall(w).arg = "done" => pending[Global] = {})
      BY <3>1, <3>2 DEF PInv, NobodyLeftBehind
    <3>4. CurrentCall(w).arg \in DOMAIN Exited
      BY <3>1, <3>2 DEF Knows
    <3>5. CASE CurrentCall(w).arg = "done"
      <4>1. status' = "exited"
        BY <2>3, <3>5 DEF Exited
      <4>2. Protocol!EndCleanly
        BY <2>1, <3>3, <3>5, <4>1 DEF Protocol!EndCleanly, Protocol!Running
      <4> QED BY <4>2 DEF Protocol!Next
    <3>6. CASE CurrentCall(w).arg # "done"
      <4>1. status' \in {"exited_late", "exited_unsent"}
        BY <2>3, <3>4, <3>6 DEF Exited
      <4>2. Protocol!EndByForce
        BY <2>1, <3>3, <4>1 DEF Protocol!EndByForce, Protocol!Running
      <4> QED BY <4>2 DEF Protocol!Next
    <3> QED BY <3>5, <3>6
  <2> QED BY <1>2, <2>2, <2>3 DEF WorkerFinishes
<1> QED BY <1>1, <1>2

(* The signal with its lists, locks and shutdown threads implements the      *)
(* protocol of ShutdownProtocol where one sender at a time is all there can  *)
(* be: threads join and leave by their own calls, the flag is set once and   *)
(* on request, and who is in the list at that moment is who is waited for.   *)
THEOREM SignalImplementsProtocol ==
  ASSUME OneSender
  PROVE  Spec => ImplementsProtocol
<1>1. Init => Protocol!Init
  <2>1. ToSet(<<>>) = {}
    BY DEF ToSet
  <2> QED BY <2>1, ShutdownAssumption DEF Init, Protocol!Init
<1>2. PInv /\ [Next]_vars => [Protocol!Next]_(Protocol!vars)
  <2> SUFFICES ASSUME PInv, [Next]_vars
               PROVE  [Protocol!Next]_(Protocol!vars)
    OBVIOUS
  <2>1. CASE UNCHANGED Shared
    BY <2>1, SeenUnchanged DEF Shared, listVars, flagVars, ghosts
  <2> QED BY <2>1, ThreadsProtocol, SenderProtocol, EndProtocol, StepKinds
<1> QED BY <1>1, <1>2, ProtocolInvariant, PTL DEF Spec, ImplementsProtocol, Protocol!Spec
=============================================================================
