--------------------- MODULE ThreadShutdownSignal_proofs ---------------------
(***************************************************************************)
(* For any signals, threads, shutdown threads and numbers of calls and OS  *)
(* signals: master_mutex is held exactly by the one actor inside a         *)
(* critical section of the signal, and a signal has one shutdown thread    *)
(* exactly while shutdown_thread_started says so.                          *)
(***************************************************************************)
EXTENDS ThreadShutdownSignal, FiniteSetTheorems, TLAPS

CallNames == {"worker", "register_thread", "confirm_shutdown", "register_cb",
              "unregister_cb", "send_async", "send_block"}

Places == {"await", "sending", "lock", "body", "check", "set", "poll", "sleep",
           "free_cb", "reset_cb_alloc", "reset_cb",
           "free_tl", "forget_tl", "reset_tl_alloc", "reset_tl"}

Args == Actors \cup Nat \cup BOOLEAN \cup DOMAIN Exited

Frames == [op : CallNames, s : Signals, at : Places, arg : Args, waited : Nat, drift : Int]

CallsOK ==
  /\ calls \in [Actors -> Seq(Frames)]
  /\ master \in [Signals -> Actors \cup {NoOne}]
  /\ started \in [Signals -> BOOLEAN]
  /\ last_id \in [Signals -> Nat]
  /\ owned \in [Signals -> SUBSET Nat]

(* Frame k of actor a, in the call stacks c, is in a critical section of s.  *)
Inside(c, a, k, s) == k \in 1 .. Len(c[a]) /\ c[a][k].at = "body" /\ c[a][k].s = s

(* One frame of one actor at most, and master_mutex names the actor.         *)
SectionsOK ==
  /\ \A s \in Signals, a \in Actors : master[s] = a <=> \E k \in Nat : Inside(calls, a, k, s)
  /\ \A s \in Signals, a \in Actors : \A k, l \in Nat :
       Inside(calls, a, k, s) /\ Inside(calls, a, l, s) => k = l

(* A shutdown thread is in _shutdown_thread and nothing else, or there in    *)
(* the one call it makes.                                                    *)
WorkersOK ==
  \A w \in Workers :
    /\ Len(calls[w]) <= 2
    /\ calls[w] # <<>> => calls[w][1].op = "worker"
    /\ Len(calls[w]) = 2 => calls[w][1].at = "sending" /\ calls[w][2].op = "send_block"

Serves(c, w, s) == c[w] # <<>> /\ c[w][1].s = s

StartedOK ==
  \A s \in Signals :
    /\ started[s] => \E w \in Workers : \A v \in Workers : Serves(calls, v, s) <=> v = w
    /\ ~started[s] => \A v \in Workers : ~Serves(calls, v, s)

IInv == CallsOK /\ SectionsOK /\ WorkersOK /\ StartedOK

-----------------------------------------------------------------------------
(* What the ways to change a call stack do to it *)

LEMMA TopOK ==
  ASSUME CallsOK, NEW a \in Actors, calls[a] # <<>>, NEW f \in Frames,
         calls' = [calls EXCEPT ![a] = [calls[a] EXCEPT ![Len(calls[a])] = f]]
  PROVE  /\ calls' \in [Actors -> Seq(Frames)]
         /\ \A b \in Actors : b # a => calls'[b] = calls[b]
         /\ Len(calls'[a]) = Len(calls[a]) /\ Len(calls[a]) \in Nat \ {0}
         /\ \A k \in 1 .. Len(calls[a]) : k # Len(calls[a]) => calls'[a][k] = calls[a][k]
         /\ calls'[a][Len(calls[a])] = f
<1> DEFINE n == Len(calls[a])
<1>1. calls[a] \in Seq(Frames) /\ n \in Nat \ {0} /\ n \in 1 .. n
  BY DEF CallsOK
<1>2. /\ [calls[a] EXCEPT ![n] = f] \in Seq(Frames)
      /\ Len([calls[a] EXCEPT ![n] = f]) = n
  BY <1>1
<1>3. calls' \in [Actors -> Seq(Frames)] /\ \A b \in Actors : b # a => calls'[b] = calls[b]
  BY <1>2 DEF CallsOK
<1>4. calls'[a] = [calls[a] EXCEPT ![n] = f]
  BY DEF CallsOK
<1>5. calls'[a][n] = f /\ \A k \in 1 .. n : k # n => calls'[a][k] = calls[a][k]
  BY <1>1, <1>4
<1> QED BY <1>1, <1>2, <1>3, <1>4, <1>5

(* The frame of the innermost call, at another place.                        *)
LEMMA GoOnTop ==
  ASSUME CallsOK, NEW a \in Actors, calls[a] # <<>>, NEW at \in Places
  PROVE  \E f \in Frames :
           /\ GoOn(a, at) = [calls EXCEPT ![a] = [calls[a] EXCEPT ![Len(calls[a])] = f]]
           /\ f.at = at /\ f.s = CurrentCall(a).s /\ f.op = CurrentCall(a).op
           /\ f.arg = CurrentCall(a).arg
<1> DEFINE n == Len(calls[a])
           f == [CurrentCall(a) EXCEPT !.at = at]
<1>1. calls[a] \in Seq(Frames) /\ n \in Nat \ {0} /\ n \in 1 .. n
  BY DEF CallsOK
<1>2. CurrentCall(a) \in Frames
  BY <1>1 DEF CurrentCall
<1>3. /\ f \in Frames /\ f.at = at /\ f.s = CurrentCall(a).s /\ f.op = CurrentCall(a).op
      /\ f.arg = CurrentCall(a).arg
  BY <1>2 DEF Frames
<1>4. GoOn(a, at) = [calls EXCEPT ![a] = [calls[a] EXCEPT ![n] = f]]
  BY <1>1 DEF GoOn, CurrentCall, CallsOK
<1> QED BY <1>3, <1>4

LEMMA ReturnOK ==
  ASSUME CallsOK, NEW a \in Actors, calls[a] # <<>>
  PROVE  /\ Return(a) \in [Actors -> Seq(Frames)]
         /\ \A b \in Actors : b # a => Return(a)[b] = calls[b]
         /\ Len(Return(a)[a]) = Len(calls[a]) - 1 /\ Len(calls[a]) \in Nat \ {0}
         /\ \A k \in 1 .. Len(calls[a]) - 1 : Return(a)[a][k] = calls[a][k]
<1> DEFINE n == Len(calls[a])
           q == SubSeq(calls[a], 1, n - 1)
<1>1. calls[a] \in Seq(Frames) /\ n \in Nat \ {0}
  BY DEF CallsOK
<1>2. q \in Seq(Frames) /\ Len(q) = n - 1 /\ \A k \in 1 .. n - 1 : q[k] = calls[a][k]
  BY <1>1
<1>3. Return(a) = [calls EXCEPT ![a] = q]
  BY DEF Return, CallsOK
<1> HIDE DEF q
<1> QED BY <1>1, <1>2, <1>3 DEF CallsOK

(* Nobody enters or leaves a critical section.                               *)
LEMMA NobodyMoves ==
  ASSUME SectionsOK, UNCHANGED master,
         \A s \in Signals, a \in Actors, k \in Nat :
           Inside(calls', a, k, s) <=> Inside(calls, a, k, s)
  PROVE  SectionsOK'
BY DEF SectionsOK, Inside

(* Actor a enters one with its frame i.                                      *)
LEMMA Enters ==
  ASSUME CallsOK, SectionsOK, NEW r \in Signals, NEW a \in Actors, NEW i \in Nat,
         master[r] = NoOne, \A s \in Signals : master'[s] = IF s = r THEN a ELSE master[s],
         \A s \in Signals, b \in Actors, k \in Nat :
           Inside(calls', b, k, s) <=> Inside(calls, b, k, s) \/ (b = a /\ k = i /\ s = r)
  PROVE  SectionsOK'
<1> USE ShutdownAssumption DEF Actors
<1>1. \A b \in Actors, k \in Nat : ~Inside(calls, b, k, r)
  BY DEF SectionsOK
<1>2. \A s \in Signals, b \in Actors : master'[s] = b <=> \E k \in Nat : Inside(calls', b, k, s)
  <2>1. \A b \in Actors : master'[r] = b <=> \E k \in Nat : Inside(calls', b, k, r)
    BY <1>1 DEF CallsOK
  <2>2. \A s \in Signals, b \in Actors :
          s # r => (master'[s] = b <=> \E k \in Nat : Inside(calls', b, k, s))
    BY DEF SectionsOK, CallsOK
  <2> QED BY <2>1, <2>2
<1>3. \A s \in Signals, b \in Actors : \A k, l \in Nat :
        Inside(calls', b, k, s) /\ Inside(calls', b, l, s) => k = l
  BY <1>1 DEF SectionsOK
<1> QED BY <1>2, <1>3 DEF SectionsOK, Inside

(* Actor a leaves the one its frame i is in.                                 *)
LEMMA Leaves ==
  ASSUME CallsOK, SectionsOK, NEW r \in Signals, NEW a \in Actors, NEW i \in Nat,
         Inside(calls, a, i, r), \A s \in Signals : master'[s] = IF s = r THEN NoOne ELSE master[s],
         \A s \in Signals, b \in Actors, k \in Nat :
           Inside(calls', b, k, s) <=> Inside(calls, b, k, s) /\ ~(b = a /\ k = i /\ s = r)
  PROVE  SectionsOK'
<1> USE ShutdownAssumption DEF Actors
<1>1. master[r] = a
  BY DEF SectionsOK
<1>2. \A b \in Actors, k \in Nat : Inside(calls, b, k, r) => b = a /\ k = i
  BY <1>1 DEF SectionsOK
<1>3. \A s \in Signals, b \in Actors : master'[s] = b <=> \E k \in Nat : Inside(calls', b, k, s)
  BY <1>2 DEF SectionsOK, CallsOK
<1>4. \A s \in Signals, b \in Actors : \A k, l \in Nat :
        Inside(calls', b, k, s) /\ Inside(calls', b, l, s) => k = l
  BY DEF SectionsOK
<1> QED BY <1>3, <1>4 DEF SectionsOK, Inside

(* No shutdown thread starts or ends.                                        *)
LEMMA NobodyStarts ==
  ASSUME StartedOK, UNCHANGED started,
         \A w \in Workers, s \in Signals : Serves(calls', w, s) <=> Serves(calls, w, s)
  PROVE  StartedOK'
BY DEF StartedOK, Serves

-----------------------------------------------------------------------------
(* The steps, by what they do to the call stacks *)

Others == UNCHANGED <<last_id, owned>>

(* A call goes on outside of critical sections.                              *)
LEMMA CallGoesOn ==
  ASSUME IInv, NEW a \in Actors, calls[a] # <<>>, NEW f \in Frames,
         calls' = [calls EXCEPT ![a] = [calls[a] EXCEPT ![Len(calls[a])] = f]],
         f.at # "body", CurrentCall(a).at # "body",
         f.s = CurrentCall(a).s, f.op = CurrentCall(a).op,
         UNCHANGED <<master, started>>, Others
  PROVE  IInv'
<1> USE DEF IInv
<1> DEFINE n == Len(calls[a])
<1>1. /\ calls' \in [Actors -> Seq(Frames)]
      /\ \A b \in Actors : b # a => calls'[b] = calls[b]
      /\ Len(calls'[a]) = n /\ n \in Nat \ {0}
      /\ \A k \in 1 .. n : k # n => calls'[a][k] = calls[a][k]
      /\ calls'[a][n] = f
  BY TopOK
<1>2. calls[a][n].at # "body" /\ f.s = calls[a][n].s /\ f.op = calls[a][n].op
  BY DEF CurrentCall
<1>3. CallsOK'
  BY <1>1 DEF CallsOK, Others
<1>4. SectionsOK'
  <2>1. \A s \in Signals, b \in Actors, k \in Nat : Inside(calls', b, k, s) <=> Inside(calls, b, k, s)
    BY <1>1, <1>2 DEF Inside
  <2> QED BY <2>1, NobodyMoves
<1>5. WorkersOK'
  BY <1>1, <1>2 DEF WorkersOK, Actors, CallsOK
<1>6. StartedOK'
  <2>1. \A w \in Workers, s \in Signals : Serves(calls', w, s) <=> Serves(calls, w, s)
    BY <1>1, <1>2 DEF Serves, Actors, CallsOK
  <2> QED BY <2>1, NobodyStarts
<1> QED BY <1>3, <1>4, <1>5, <1>6

(* A call goes on from a critical section to outside.                        *)
LEMMA GoesOut ==
  ASSUME IInv, NEW a \in Actors, calls[a] # <<>>, NEW f \in Frames,
         calls' = [calls EXCEPT ![a] = [calls[a] EXCEPT ![Len(calls[a])] = f]],
         f.at # "body", CurrentCall(a).at = "body",
         f.s = CurrentCall(a).s, f.op = CurrentCall(a).op,
         Unlock(CurrentCall(a).s), UNCHANGED started, Others
  PROVE  IInv'
<1> USE DEF IInv
<1> DEFINE n == Len(calls[a])
<1>1. /\ calls' \in [Actors -> Seq(Frames)]
      /\ \A b \in Actors : b # a => calls'[b] = calls[b]
      /\ Len(calls'[a]) = n /\ n \in Nat \ {0}
      /\ \A k \in 1 .. n : k # n => calls'[a][k] = calls[a][k]
      /\ calls'[a][n] = f
  BY TopOK
<1>2. calls[a][n].at = "body" /\ f.s = calls[a][n].s /\ f.op = calls[a][n].op
  BY DEF CurrentCall
<1>3. f.s \in Signals /\ master' = [master EXCEPT ![f.s] = NoOne]
  BY DEF Frames, Unlock
<1>4. CallsOK'
  BY <1>1, <1>3 DEF CallsOK, Others
<1>5. SectionsOK'
  <2>1. Inside(calls, a, n, f.s)
    BY <1>1, <1>2 DEF Inside
  <2>2. \A s \in Signals, b \in Actors, k \in Nat :
          Inside(calls', b, k, s) <=> Inside(calls, b, k, s) /\ ~(b = a /\ k = n /\ s = f.s)
    BY <1>1, <1>2 DEF Inside
  <2>3. \A s \in Signals : master'[s] = IF s = f.s THEN NoOne ELSE master[s]
    BY <1>3 DEF CallsOK
  <2>4. n \in Nat /\ f.s \in Signals
    BY <1>1, <1>3
  <2> HIDE DEF n
  <2> QED BY <2>1, <2>2, <2>3, <2>4, Leaves
<1>6. WorkersOK'
  BY <1>1, <1>2 DEF WorkersOK, Actors, CallsOK
<1>7. StartedOK'
  <2>1. \A w \in Workers, s \in Signals : Serves(calls', w, s) <=> Serves(calls, w, s)
    BY <1>1, <1>2 DEF Serves, Actors, CallsOK
  <2> QED BY <2>1, NobodyStarts
<1> QED BY <1>4, <1>5, <1>6, <1>7

(* A call goes on into a critical section.                                   *)
LEMMA GoesIn ==
  ASSUME IInv, NEW a \in Actors, Locks(a)
  PROVE  IInv'
<1> USE DEF IInv
<1> DEFINE n == Len(calls[a])
<1>1. calls[a] # <<>> /\ CallsOK /\ UNCHANGED started /\ Others
  BY DEF Locks, listVars, flagVars, ghosts, Others
<1>2. PICK f \in Frames :
        /\ GoOn(a, "body") = [calls EXCEPT ![a] = [calls[a] EXCEPT ![Len(calls[a])] = f]]
        /\ f.at = "body" /\ f.s = CurrentCall(a).s /\ f.op = CurrentCall(a).op
  <2>1. "body" \in Places
    BY DEF Places
  <2> QED BY <1>1, <2>1, GoOnTop
<1>3. calls' = [calls EXCEPT ![a] = [calls[a] EXCEPT ![Len(calls[a])] = f]]
  BY <1>2 DEF Locks
<1>4. /\ calls' \in [Actors -> Seq(Frames)]
      /\ \A b \in Actors : b # a => calls'[b] = calls[b]
      /\ Len(calls'[a]) = n /\ n \in Nat \ {0}
      /\ \A k \in 1 .. n : k # n => calls'[a][k] = calls[a][k]
      /\ calls'[a][n] = f
  BY <1>1, <1>3, TopOK
<1>5. calls[a][n].at = "lock" /\ f.s = calls[a][n].s /\ f.op = calls[a][n].op
  BY <1>2 DEF CurrentCall, Locks
<1>6. f.s \in Signals /\ master[f.s] = NoOne /\ master' = [master EXCEPT ![f.s] = a]
  BY <1>2 DEF Frames, Locks
<1>7. CallsOK'
  BY <1>1, <1>4, <1>6 DEF CallsOK, Others
<1>8. SectionsOK'
  <2>1. \A s \in Signals, b \in Actors, k \in Nat :
          Inside(calls', b, k, s) <=> Inside(calls, b, k, s) \/ (b = a /\ k = n /\ s = f.s)
    BY <1>2, <1>4, <1>5 DEF Inside
  <2>2. \A s \in Signals : master'[s] = IF s = f.s THEN a ELSE master[s]
    BY <1>6 DEF CallsOK
  <2>3. n \in Nat /\ f.s \in Signals /\ master[f.s] = NoOne
    BY <1>4, <1>6
  <2> HIDE DEF n
  <2> QED BY <2>1, <2>2, <2>3, Enters
<1>9. WorkersOK'
  <2> SUFFICES ASSUME NEW w \in Workers
               PROVE  /\ Len(calls'[w]) <= 2
                      /\ calls'[w] # <<>> => calls'[w][1].op = "worker"
                      /\ Len(calls'[w]) = 2 =>
                           calls'[w][1].at = "sending" /\ calls'[w][2].op = "send_block"
    BY DEF WorkersOK
  <2>1. CASE w # a
    BY <1>4, <2>1 DEF WorkersOK, Actors
  <2>2. CASE w = a
    BY <1>4, <1>5, <2>2 DEF WorkersOK
  <2> QED BY <2>1, <2>2
<1>10. StartedOK'
  <2>1. \A w \in Workers, s \in Signals : Serves(calls', w, s) <=> Serves(calls, w, s)
    BY <1>4, <1>5 DEF Serves, Actors, CallsOK
  <2> QED BY <1>1, <2>1, NobodyStarts
<1> QED BY <1>7, <1>8, <1>9, <1>10

(* A thread returns from a call that is one critical section, and starts the *)
(* shutdown thread or does not.                                              *)
LEMMA SectionReturns ==
  ASSUME IInv, NEW t \in Threads, calls[t] # <<>>, CurrentCall(t).at = "body",
         calls' = Return(t), Unlock(CurrentCall(t).s), UNCHANGED started,
         last_id' \in [Signals -> Nat], owned' \in [Signals -> SUBSET Nat]
  PROVE  IInv'
<1> USE ShutdownAssumption DEF IInv, Actors
<1> DEFINE n == Len(calls[t])
           r == calls[t][n].s
<1>1. /\ calls' \in [Actors -> Seq(Frames)]
      /\ \A b \in Actors : b # t => calls'[b] = calls[b]
      /\ Len(calls'[t]) = n - 1 /\ n \in Nat \ {0}
      /\ \A k \in 1 .. n - 1 : calls'[t][k] = calls[t][k]
  BY ReturnOK
<1>2. calls[t][n] \in Frames /\ calls[t][n].at = "body" /\ calls[t][n].s \in Signals
  <2>1. calls[t] \in Seq(Frames) /\ n \in 1 .. n
    BY <1>1 DEF CallsOK
  <2>2. calls[t][n] \in Frames
    BY <2>1
  <2> QED BY <2>2 DEF Frames, CurrentCall
<1>3. master' = [master EXCEPT ![r] = NoOne]
  BY DEF CurrentCall, Unlock
<1>4. CallsOK'
  BY <1>1, <1>2, <1>3 DEF CallsOK
<1>5. SectionsOK'
  <2>1. Inside(calls, t, n, r)
    BY <1>1, <1>2 DEF Inside
  <2>2. \A s \in Signals, b \in Actors, k \in Nat :
          Inside(calls', b, k, s) <=> Inside(calls, b, k, s) /\ ~(b = t /\ k = n /\ s = r)
    <3> SUFFICES ASSUME NEW s \in Signals, NEW b \in Actors, NEW k \in Nat
                 PROVE  Inside(calls', b, k, s)
                          <=> Inside(calls, b, k, s) /\ ~(b = t /\ k = n /\ s = r)
      OBVIOUS
    <3>1. CASE b # t
      BY <1>1, <3>1 DEF Inside
    <3>2. CASE b = t /\ k \in 1 .. n - 1
      BY <1>1, <3>2 DEF Inside
    <3>3. CASE b = t /\ k \notin 1 .. n - 1
      BY <1>1, <1>2, <3>3 DEF Inside
    <3> QED BY <3>1, <3>2, <3>3
  <2>3. \A s \in Signals : master'[s] = IF s = r THEN NoOne ELSE master[s]
    BY <1>3 DEF CallsOK
  <2>4. n \in Nat /\ r \in Signals /\ t \in Actors
    BY <1>1, <1>2
  <2> HIDE DEF n, r
  <2> QED BY <2>1, <2>2, <2>3, <2>4, Leaves
<1>6. \A w \in Workers : calls'[w] = calls[w]
  BY <1>1
<1>7. WorkersOK'
  BY <1>6 DEF WorkersOK
<1>8. StartedOK'
  BY <1>6, NobodyStarts DEF Serves
<1> QED BY <1>4, <1>5, <1>7, <1>8

(* Frames keep their places: only clocks go on. *)
LEMMA NobodyGoesOn ==
  ASSUME IInv, calls' \in [Actors -> Seq(Frames)],
         \A a \in Actors :
           /\ Len(calls'[a]) = Len(calls[a])
           /\ \A k \in 1 .. Len(calls[a]) :
                /\ calls'[a][k].at = calls[a][k].at
                /\ calls'[a][k].s = calls[a][k].s
                /\ calls'[a][k].op = calls[a][k].op,
         UNCHANGED <<master, started>>, Others
  PROVE  IInv'
<1> USE DEF IInv
<1>1. CallsOK'
  BY DEF CallsOK, Others
<1>2. SectionsOK'
  <2>1. \A s \in Signals, b \in Actors, k \in Nat : Inside(calls', b, k, s) <=> Inside(calls, b, k, s)
    BY DEF Inside
  <2> QED BY <2>1, NobodyMoves
<1>3. \A w \in Workers : w \in Actors /\ Len(calls'[w]) = Len(calls[w]) /\ Len(calls[w]) \in Nat
                          /\ calls[w] \in Seq(Frames) /\ calls'[w] \in Seq(Frames)
  BY DEF Actors, CallsOK
<1>4. WorkersOK'
  BY <1>3 DEF WorkersOK
<1>5. StartedOK'
  <2>1. \A w \in Workers, s \in Signals : Serves(calls', w, s) <=> Serves(calls, w, s)
    BY <1>3 DEF Serves
  <2> QED BY <2>1, NobodyStarts
<1> QED BY <1>1, <1>2, <1>4, <1>5

(* A thread, or an OS signal that interrupts it, calls the library.          *)
LEMMA Pushes ==
  ASSUME IInv, NEW t \in Threads, NEW f \in Frames, f.at # "body",
         calls' = [calls EXCEPT ![t] = Append(calls[t], f)],
         UNCHANGED <<master, started>>, Others
  PROVE  IInv'
<1> USE ShutdownAssumption DEF IInv, Actors
<1> DEFINE n == Len(calls[t])
<1>1. calls[t] \in Seq(Frames) /\ n \in Nat
  BY DEF CallsOK
<1>2. /\ Append(calls[t], f) \in Seq(Frames)
      /\ Len(Append(calls[t], f)) = n + 1
      /\ Append(calls[t], f)[n + 1] = f
      /\ \A k \in 1 .. n : Append(calls[t], f)[k] = calls[t][k]
  BY <1>1
<1>3. /\ calls' \in [Actors -> Seq(Frames)]
      /\ \A b \in Actors : b # t => calls'[b] = calls[b]
      /\ calls'[t] = Append(calls[t], f)
  BY <1>2 DEF CallsOK
<1>4. CallsOK'
  BY <1>3 DEF CallsOK, Others
<1>5. SectionsOK'
  <2>1. ASSUME NEW s \in Signals, NEW b \in Actors, NEW k \in Nat
        PROVE  Inside(calls', b, k, s) <=> Inside(calls, b, k, s)
    <3>1. CASE b # t
      BY <1>3, <3>1 DEF Inside
    <3>2. CASE b = t /\ k \in 1 .. n
      BY <1>1, <1>2, <1>3, <3>2 DEF Inside
    <3>3. CASE b = t /\ k \notin 1 .. n
      BY <1>1, <1>2, <1>3, <3>3 DEF Inside
    <3> QED BY <3>1, <3>2, <3>3
  <2> QED BY <2>1, NobodyMoves
<1>6. \A w \in Workers : calls'[w] = calls[w]
  BY <1>3
<1>7. WorkersOK'
  BY <1>6 DEF WorkersOK
<1>8. StartedOK'
  BY <1>6, NobodyStarts DEF Serves
<1> QED BY <1>4, <1>5, <1>7, <1>8

(* A thread returns from a call outside of critical sections.                *)
LEMMA Returns ==
  ASSUME IInv, NEW t \in Threads, calls[t] # <<>>, CurrentCall(t).at # "body",
         calls' = Return(t), UNCHANGED <<master, started>>, Others
  PROVE  IInv'
<1> USE ShutdownAssumption DEF IInv, Actors
<1> DEFINE n == Len(calls[t])
<1>1. /\ calls' \in [Actors -> Seq(Frames)]
      /\ \A b \in Actors : b # t => calls'[b] = calls[b]
      /\ Len(calls'[t]) = n - 1 /\ n \in Nat \ {0}
      /\ \A k \in 1 .. n - 1 : calls'[t][k] = calls[t][k]
  BY ReturnOK
<1>2. CallsOK'
  BY <1>1 DEF CallsOK, Others
<1>3. SectionsOK'
  <2>1. ASSUME NEW s \in Signals, NEW b \in Actors, NEW k \in Nat
        PROVE  Inside(calls', b, k, s) <=> Inside(calls, b, k, s)
    <3>1. CASE b # t
      BY <1>1, <3>1 DEF Inside
    <3>2. CASE b = t /\ k \in 1 .. n - 1
      BY <1>1, <3>2 DEF Inside
    <3>3. CASE b = t /\ k \notin 1 .. n - 1
      BY <1>1, <3>3 DEF Inside, CurrentCall
    <3> QED BY <3>1, <3>2, <3>3
  <2> QED BY <2>1, NobodyMoves
<1>4. \A w \in Workers : calls'[w] = calls[w]
  BY <1>1
<1>5. WorkersOK'
  BY <1>4 DEF WorkersOK
<1>6. StartedOK'
  BY <1>4, NobodyStarts DEF Serves
<1> QED BY <1>2, <1>3, <1>5, <1>6

-----------------------------------------------------------------------------
(* The shutdown threads *)

(* A shutdown thread outside of critical sections goes from one call stack   *)
(* that WorkersOK allows to another.                                         *)
LEMMA WorkerGoesOn ==
  ASSUME IInv, NEW w \in Workers, calls' \in [Actors -> Seq(Frames)],
         calls[w] # <<>>, calls'[w] # <<>>, Len(calls'[w]) \in {1, 2},
         calls'[w][1].op = "worker", calls'[w][1].s = calls[w][1].s,
         Len(calls'[w]) = 2 => calls'[w][1].at = "sending" /\ calls'[w][2].op = "send_block",
         \A k \in 1 .. Len(calls[w]) : calls[w][k].at # "body",
         \A k \in 1 .. Len(calls'[w]) : calls'[w][k].at # "body",
         \A b \in Actors : b # w => calls'[b] = calls[b],
         UNCHANGED <<master, started>>, Others
  PROVE  IInv'
<1> USE ShutdownAssumption DEF IInv, Actors
<1>1. \A b \in Actors : b # w => calls'[b] = calls[b]
  OBVIOUS
<1>2. CallsOK'
  BY DEF CallsOK, Others
<1>3. SectionsOK'
  <2>1. ASSUME NEW s \in Signals, NEW b \in Actors, NEW k \in Nat
        PROVE  Inside(calls', b, k, s) <=> Inside(calls, b, k, s)
    BY <1>1 DEF Inside
  <2> QED BY <2>1, NobodyMoves
<1>4. WorkersOK'
  BY <1>1 DEF WorkersOK
<1>5. StartedOK'
  BY <1>1, NobodyStarts DEF Serves
<1> QED BY <1>2, <1>3, <1>4, <1>5

(* The call stack of a shutdown thread, by the call it is in.                *)
LEMMA WorkerStack ==
  ASSUME IInv, NEW w \in Workers, calls[w] # <<>>
  PROVE  /\ calls[w] \in Seq(Frames) /\ calls[w][1] \in Frames /\ calls[w][1].op = "worker"
         /\ CurrentCall(w).op = "worker" => Len(calls[w]) = 1
         /\ CurrentCall(w).op = "send_block" =>
              Len(calls[w]) = 2 /\ calls[w][1].at = "sending"
<1> DEFINE n == Len(calls[w])
<1>1. calls[w] \in Seq(Frames) /\ n \in Nat \ {0} /\ 1 \in 1 .. n
  BY DEF IInv, CallsOK, Actors
<1>2. calls[w][1] \in Frames
  BY <1>1
<1>3. n = 1 \/ n = 2
  <2>1. n <= 2
    BY DEF IInv, WorkersOK
  <2> HIDE DEF n
  <2> QED BY <1>1, <2>1
<1>4. CASE n = 1
  BY <1>1, <1>2, <1>4 DEF IInv, WorkersOK, CurrentCall
<1>5. CASE n = 2
  BY <1>1, <1>2, <1>5 DEF IInv, WorkersOK, CurrentCall
<1> QED BY <1>3, <1>4, <1>5

LEMMA GateStep ==
  ASSUME IInv, NEW w \in Workers, SeeGateOpen(w)
  PROVE  IInv'
<1> USE ShutdownAssumption
<1> DEFINE f == calls[w][1]
           g == Frame("send_block", Global, "check", 0)
           q == <<[f EXCEPT !.at = "sending"], g>>
<1>1. /\ calls[w] # <<>> /\ CurrentCall(w).op = "worker" /\ CurrentCall(w).at = "await"
      /\ UNCHANGED <<master, started>> /\ Others
  BY DEF SeeGateOpen, IsAt, listVars, flagVars, ghosts, Others
<1>2. calls[w] \in Seq(Frames) /\ f \in Frames /\ f.op = "worker" /\ Len(calls[w]) = 1
  BY <1>1, WorkerStack
<1>3. calls' = [calls EXCEPT ![w] = q]
  BY DEF SeeGateOpen, IInv, CallsOK, Actors
<1>4. [f EXCEPT !.at = "sending"] \in Frames
  BY <1>2 DEF Frames, Places
<1>5. g \in Frames /\ g.op = "send_block" /\ g.at = "check"
  BY DEF Frame, Frames, Places, CallNames, Args
<1> HIDE DEF g
<1>6. /\ q \in Seq(Frames) /\ q # <<>> /\ Len(q) = 2
      /\ q[1].op = "worker" /\ q[1].s = f.s /\ q[1].at = "sending" /\ q[2] = g
  BY <1>2, <1>4, <1>5 DEF Frames
<1>7. f.at # "body"
  BY <1>1, <1>2 DEF CurrentCall
<1> HIDE DEF q
<1>8. \A k \in 1 .. Len(calls[w]) : calls[w][k].at # "body"
  BY <1>2, <1>7
<1>9. \A k \in 1 .. Len(q) : q[k].at # "body"
  <2> SUFFICES ASSUME NEW k \in 1 .. 2 PROVE q[k].at # "body"
    BY <1>6
  <2> QED BY <1>5, <1>6
<1>10. /\ calls' \in [Actors -> Seq(Frames)] /\ calls'[w] = q
       /\ \A b \in Actors : b # w => calls'[b] = calls[b]
  BY <1>3, <1>6 DEF IInv, CallsOK, Actors
<1>11. /\ calls'[w] # <<>> /\ Len(calls'[w]) = 2
       /\ calls'[w][1].op = "worker" /\ calls'[w][1].s = calls[w][1].s
       /\ calls'[w][1].at = "sending" /\ calls'[w][2].op = "send_block"
       /\ \A k \in 1 .. Len(calls'[w]) : calls'[w][k].at # "body"
  BY <1>5, <1>6, <1>9, <1>10
<1> QED BY <1>1, <1>8, <1>10, <1>11, WorkerGoesOn

(* send_block returns: to the application, or to the shutdown thread.        *)
LEMMA SendReturns ==
  ASSUME IInv, NEW a \in Actors, calls[a] # <<>>,
         CurrentCall(a).op = "send_block", CurrentCall(a).at # "body",
         NEW how \in DOMAIN Exited, SendBlockReturns(a, how),
         UNCHANGED <<master, started>>, Others
  PROVE  IInv'
<1> USE ShutdownAssumption
<1>1. CASE a \in Threads
  BY <1>1, Returns DEF SendBlockReturns
<1>2. CASE a \in Workers
  <2> DEFINE f == calls[a][1]
             g == [f EXCEPT !.at = "lock", !.arg = how]
             q == <<g>>
  <2>1. /\ calls[a] \in Seq(Frames) /\ f \in Frames /\ f.op = "worker"
        /\ Len(calls[a]) = 2 /\ f.at = "sending"
    BY <1>2, WorkerStack
  <2>2. g \in Frames /\ g.op = "worker" /\ g.s = f.s /\ g.at = "lock"
    BY <2>1 DEF Frames, Places, Args
  <2>4. calls' = [calls EXCEPT ![a] = q]
    BY <1>2 DEF SendBlockReturns, IInv, CallsOK
  <2> HIDE DEF g
  <2>5. q \in Seq(Frames) /\ q # <<>> /\ Len(q) \in {1, 2} /\ Len(q) # 2 /\ q[1] = g
    BY <2>2
  <2> HIDE DEF q
  <2>6. \A k \in 1 .. Len(calls[a]) : calls[a][k].at # "body"
    BY <2>1 DEF CurrentCall
  <2>7. \A k \in 1 .. Len(q) : q[k].at # "body"
    BY <2>2, <2>5
  <2>8. /\ calls' \in [Actors -> Seq(Frames)] /\ calls'[a] = q
        /\ \A b \in Actors : b # a => calls'[b] = calls[b]
    BY <2>4, <2>5 DEF IInv, CallsOK
  <2>9. /\ calls'[a] # <<>> /\ Len(calls'[a]) \in {1, 2} /\ Len(calls'[a]) # 2
        /\ calls'[a][1].op = "worker" /\ calls'[a][1].s = calls[a][1].s
        /\ \A k \in 1 .. Len(calls'[a]) : calls'[a][k].at # "body"
    BY <2>2, <2>5, <2>7, <2>8
  <2> QED BY <1>2, <2>6, <2>8, <2>9, WorkerGoesOn
<1> QED BY <1>1, <1>2 DEF Actors

LEMMA WorkerEnds ==
  ASSUME IInv, NEW w \in Workers, WorkerFinishes(w)
  PROVE  IInv'
<1> USE ShutdownAssumption DEF IInv
<1> DEFINE r == calls[w][1].s
<1>1. /\ calls[w] # <<>> /\ CurrentCall(w).op = "worker" /\ CurrentCall(w).at = "body"
      /\ Others
  BY DEF WorkerFinishes, IsAt, listVars, ghosts, Others
<1>2. calls[w] \in Seq(Frames) /\ calls[w][1] \in Frames /\ Len(calls[w]) = 1
  BY <1>1, WorkerStack
<1>3. CurrentCall(w) = calls[w][1] /\ r \in Signals /\ calls[w][1].at = "body"
  BY <1>1, <1>2 DEF CurrentCall, Frames
<1>4. CASE UNCHANGED <<started, master, calls>>
  <2>1. calls' \in [Actors -> Seq(Frames)]
    BY <1>4 DEF CallsOK
  <2>2. calls' = calls
    BY <1>4
  <2> QED BY <1>1, <1>4, <2>1, <2>2, NobodyGoesOn
<1>5. CASE /\ started' = [started EXCEPT ![CurrentCall(w).s] = FALSE]
           /\ Unlock(CurrentCall(w).s) /\ calls' = Return(w)
  <2>1. /\ calls' \in [Actors -> Seq(Frames)]
        /\ \A b \in Actors : b # w => calls'[b] = calls[b]
        /\ calls'[w] = <<>>
    <3>1. w \in Actors
      BY DEF Actors
    <3>2. /\ calls' \in [Actors -> Seq(Frames)]
          /\ \A b \in Actors : b # w => calls'[b] = calls[b]
          /\ Len(calls'[w]) = 0
      BY <1>1, <1>2, <1>5, <3>1, ReturnOK
    <3> QED BY <3>1, <3>2
  <2>2. /\ \A s \in Signals : master'[s] = IF s = r THEN NoOne ELSE master[s]
        /\ \A s \in Signals : started'[s] = IF s = r THEN FALSE ELSE started[s]
        /\ master' \in [Signals -> Actors \cup {NoOne}]
        /\ started' \in [Signals -> BOOLEAN]
    BY <1>3, <1>5 DEF Unlock, CallsOK
  <2>3. CallsOK'
    BY <1>1, <2>1, <2>2 DEF CallsOK, Others
  <2>4. SectionsOK'
    <3>1. Inside(calls, w, 1, r) /\ w \in Actors /\ 1 \in Nat
      BY <1>2, <1>3 DEF Inside, Actors
    <3>2. \A s \in Signals, b \in Actors, k \in Nat :
            Inside(calls', b, k, s) <=> Inside(calls, b, k, s) /\ ~(b = w /\ k = 1 /\ s = r)
      <4> SUFFICES ASSUME NEW s \in Signals, NEW b \in Actors, NEW k \in Nat
                   PROVE  Inside(calls', b, k, s)
                            <=> Inside(calls, b, k, s) /\ ~(b = w /\ k = 1 /\ s = r)
        OBVIOUS
      <4>1. CASE b # w
        BY <2>1, <4>1 DEF Inside
      <4>2. CASE b = w
        BY <1>2, <2>1, <4>2 DEF Inside
      <4> QED BY <4>1, <4>2
    <3> HIDE DEF r
    <3> QED BY <1>3, <2>2, <3>1, <3>2, Leaves
  <2>5. WorkersOK'
    <3> SUFFICES ASSUME NEW v \in Workers
                 PROVE  /\ Len(calls'[v]) <= 2
                        /\ calls'[v] # <<>> => calls'[v][1].op = "worker"
                        /\ Len(calls'[v]) = 2 =>
                             calls'[v][1].at = "sending" /\ calls'[v][2].op = "send_block"
      BY DEF WorkersOK
    <3>1. CASE v # w
      BY <2>1, <3>1 DEF WorkersOK, Actors
    <3>2. CASE v = w
      BY <2>1, <3>2
    <3> QED BY <3>1, <3>2
  <2>6. StartedOK'
    <3>1. \A v \in Workers, s \in Signals :
            Serves(calls', v, s) <=> Serves(calls, v, s) /\ v # w
      BY <2>1 DEF Serves, Actors
    <3>2. Serves(calls, w, r) /\ \A s \in Signals : Serves(calls, w, s) => s = r
      BY <1>1 DEF Serves
    <3>3. \A v \in Workers : Serves(calls, v, r) => v = w
      BY <1>3, <3>2 DEF StartedOK
    <3> HIDE DEF r
    <3>4. ASSUME NEW s \in Signals, s # r
          PROVE  \A v \in Workers : Serves(calls', v, s) <=> Serves(calls, v, s)
      BY <3>1, <3>2, <3>4
    <3>5. \A s \in Signals : started'[s] => s # r /\ started[s]
      BY <2>2
    <3>6. ASSUME NEW s \in Signals, started'[s]
          PROVE  \E v \in Workers : \A u \in Workers : Serves(calls', u, s) <=> u = v
      BY <3>4, <3>5, <3>6 DEF StartedOK
    <3>7. ASSUME NEW s \in Signals, ~started'[s]
          PROVE  \A u \in Workers : ~Serves(calls', u, s)
      <4>1. CASE s = r
        BY <3>1, <3>3, <4>1
      <4>2. CASE s # r
        BY <2>2, <3>1, <3>7, <4>2 DEF StartedOK
      <4> QED BY <4>1, <4>2
    <3> QED BY <3>6, <3>7 DEF StartedOK, Serves
  <2> QED BY <2>3, <2>4, <2>5, <2>6
<1> QED BY <1>4, <1>5 DEF WorkerFinishes

(* A thread returns from register_thread and starts the shutdown thread w.   *)
LEMMA StartsWorker ==
  ASSUME IInv, NEW t \in Threads, calls[t] # <<>>, CurrentCall(t).at = "body",
         NEW w \in Workers, calls[w] = <<>>, ~started[CurrentCall(t).s],
         calls' = [Return(t) EXCEPT ![w] = <<Frame("worker", CurrentCall(t).s, "await", w)>>],
         started' = [started EXCEPT ![CurrentCall(t).s] = TRUE],
         Unlock(CurrentCall(t).s), Others
  PROVE  IInv'
<1> USE ShutdownAssumption DEF IInv
<1> DEFINE n == Len(calls[t])
           r == calls[t][n].s
           g == Frame("worker", r, "await", w)
<1>1. t \in Actors /\ w \in Actors /\ t # w /\ t \notin Workers
  BY DEF Actors
<1>2. calls[t] \in Seq(Frames) /\ n \in Nat \ {0} /\ n \in 1 .. n
  BY <1>1 DEF CallsOK
<1>3. calls[t][n].at = "body" /\ CurrentCall(t).s = r /\ r \in Signals
  <2>1. calls[t][n] \in Frames
    BY <1>2
  <2> QED BY <2>1 DEF Frames, CurrentCall
<1>4. g \in Frames /\ g.op = "worker" /\ g.s = r /\ g.at = "await"
  BY <1>1, <1>3 DEF Frame, Frames, CallNames, Places, Args
<1>5. /\ calls' \in [Actors -> Seq(Frames)]
      /\ \A b \in Actors : b # t /\ b # w => calls'[b] = calls[b]
      /\ calls'[w] = <<g>>
      /\ Len(calls'[t]) = n - 1
      /\ \A k \in 1 .. n - 1 : calls'[t][k] = calls[t][k]
  <2>1. /\ Return(t) \in [Actors -> Seq(Frames)]
        /\ \A b \in Actors : b # t => Return(t)[b] = calls[b]
        /\ Len(Return(t)[t]) = n - 1
        /\ \A k \in 1 .. n - 1 : Return(t)[t][k] = calls[t][k]
    BY <1>1, ReturnOK
  <2>2. calls' = [Return(t) EXCEPT ![w] = <<g>>]
    BY <1>3
  <2> HIDE DEF g
  <2> QED BY <1>1, <1>4, <2>1, <2>2
<1>6. /\ \A s \in Signals : master'[s] = IF s = r THEN NoOne ELSE master[s]
      /\ \A s \in Signals : started'[s] = IF s = r THEN TRUE ELSE started[s]
      /\ master' \in [Signals -> Actors \cup {NoOne}]
      /\ started' \in [Signals -> BOOLEAN]
  BY <1>3 DEF Unlock, CallsOK
<1>7. CallsOK'
  BY <1>5, <1>6 DEF CallsOK, Others
<1> HIDE DEF g
<1>8. SectionsOK'
  <2>1. Inside(calls, t, n, r)
    BY <1>2, <1>3 DEF Inside
  <2>2. \A s \in Signals, b \in Actors, k \in Nat :
          Inside(calls', b, k, s) <=> Inside(calls, b, k, s) /\ ~(b = t /\ k = n /\ s = r)
    <3> SUFFICES ASSUME NEW s \in Signals, NEW b \in Actors, NEW k \in Nat
                 PROVE  Inside(calls', b, k, s)
                          <=> Inside(calls, b, k, s) /\ ~(b = t /\ k = n /\ s = r)
      OBVIOUS
    <3>1. CASE b # t /\ b # w
      BY <1>5, <3>1 DEF Inside
    <3>2. CASE b = w
      BY <1>1, <1>4, <1>5, <3>2 DEF Inside
    <3>3. CASE b = t /\ k \in 1 .. n - 1
      BY <1>2, <1>5, <3>3 DEF Inside
    <3>4. CASE b = t /\ k \notin 1 .. n - 1
      BY <1>2, <1>3, <1>5, <3>4 DEF Inside
    <3> QED BY <3>1, <3>2, <3>3, <3>4
  <2>3. \A s \in Signals : master'[s] = IF s = r THEN NoOne ELSE master[s]
    BY <1>6
  <2>4. n \in Nat /\ r \in Signals /\ t \in Actors
    BY <1>1, <1>2, <1>3
  <2> HIDE DEF n, r
  <2> QED BY <2>1, <2>2, <2>3, <2>4, Leaves
<1>9. WorkersOK'
  <2> SUFFICES ASSUME NEW v \in Workers
               PROVE  /\ Len(calls'[v]) <= 2
                      /\ calls'[v] # <<>> => calls'[v][1].op = "worker"
                      /\ Len(calls'[v]) = 2 =>
                           calls'[v][1].at = "sending" /\ calls'[v][2].op = "send_block"
    BY DEF WorkersOK
  <2>1. CASE v # w
    BY <1>1, <1>5, <2>1 DEF WorkersOK, Actors
  <2>2. CASE v = w
    BY <1>4, <1>5, <2>2
  <2> QED BY <2>1, <2>2
<1>10. StartedOK'
  <2>1. \A v \in Workers, s \in Signals :
          Serves(calls', v, s) <=> Serves(calls, v, s) \/ (v = w /\ s = r)
    BY <1>1, <1>4, <1>5 DEF Serves, Actors
  <2>2. \A v \in Workers : ~Serves(calls, v, r)
    BY <1>3 DEF StartedOK
  <2> HIDE DEF r
  <2>3. \A s \in Signals : s # r =>
          /\ started'[s] = started[s]
          /\ \A v \in Workers : Serves(calls', v, s) <=> Serves(calls, v, s)
    BY <1>6, <2>1
  <2>4. ASSUME NEW s \in Signals, started'[s]
        PROVE  \E v \in Workers : \A u \in Workers : Serves(calls', u, s) <=> u = v
    <3>1. CASE s = r
      BY <2>1, <2>2, <3>1
    <3>2. CASE s # r
      <4>1. PICK v \in Workers : \A u \in Workers : Serves(calls, u, s) <=> u = v
        BY <2>3, <2>4, <3>2 DEF StartedOK
      <4>2. \A u \in Workers : Serves(calls', u, s) <=> u = v
        BY <2>3, <3>2, <4>1
      <4> QED BY <4>2
    <3> QED BY <3>1, <3>2
  <2>5. ASSUME NEW s \in Signals, ~started'[s]
        PROVE  \A u \in Workers : ~Serves(calls', u, s)
    <3>1. s # r
      BY <1>6, <2>5
    <3> QED BY <2>3, <2>5, <3>1 DEF StartedOK
  <2> QED BY <2>4, <2>5 DEF StartedOK, Serves
<1> QED BY <1>7, <1>8, <1>9, <1>10

-----------------------------------------------------------------------------
(* Every step of the specification is one of these *)

(* send_block goes from one place to another.                                *)
LEMMA SendGoesOn ==
  ASSUME IInv, NEW a \in Actors, NEW from, NEW to \in Places,
         IsAt(a, "send_block", from), from # "body", to # "body",
         calls' = GoOn(a, to), UNCHANGED <<master, started>>, Others
  PROVE  IInv'
<1>1. calls[a] # <<>> /\ CurrentCall(a).at # "body" /\ CallsOK
  BY DEF IsAt, IInv
<1>2. PICK f \in Frames :
        /\ GoOn(a, to) = [calls EXCEPT ![a] = [calls[a] EXCEPT ![Len(calls[a])] = f]]
        /\ f.at = to /\ f.s = CurrentCall(a).s /\ f.op = CurrentCall(a).op
  BY <1>1, GoOnTop
<1>3. calls' = [calls EXCEPT ![a] = [calls[a] EXCEPT ![Len(calls[a])] = f]]
  BY <1>2
<1> QED BY <1>1, <1>2, <1>3, CallGoesOn

(* An application thread calls.                                              *)
LEMMA CallStep ==
  ASSUME IInv, NEW t \in Threads, NEW s \in Signals, ThreadCalls(t, s)
  PROVE  IInv'
<1>1. ASSUME NEW op \in CallNames, NEW at \in Places, at # "body", NEW arg \in Args,
             Call(t, op, s, at, arg)
      PROVE  IInv'
  <2> DEFINE f == Frame(op, s, at, arg)
  <2>1. f \in Frames /\ f.at # "body"
    BY <1>1 DEF Frame, Frames
  <2>2. calls' = [calls EXCEPT ![t] = <<f>>] /\ calls[t] = <<>>
    BY <1>1 DEF Call
  <2> HIDE DEF f
  <2>3. Append(<<>>, f) = <<f>>
    OBVIOUS
  <2>4. calls' = [calls EXCEPT ![t] = Append(calls[t], f)]
    BY <2>2, <2>3
  <2>5. UNCHANGED <<master, started>> /\ Others
    BY <1>1 DEF Call, listVars, flagVars, ghosts, Others
  <2> QED BY <2>1, <2>4, <2>5, Pushes
<1>2. t \in Args /\ 0 \in Args /\ BOOLEAN \subseteq Args /\ owned[s] \subseteq Args
  BY DEF Args, Actors, IInv, CallsOK
<1>3. /\ {"register_thread", "confirm_shutdown", "register_cb", "unregister_cb",
          "send_async", "send_block"} \subseteq CallNames
      /\ "lock" \in Places /\ "check" \in Places
  BY DEF CallNames, Places
<1>4. CASE CallRegisterThread(t, s)
  BY <1>1, <1>2, <1>3, <1>4 DEF CallRegisterThread
<1>5. CASE CallConfirm(t, s)
  BY <1>1, <1>2, <1>3, <1>5 DEF CallConfirm
<1>6. CASE CallRegisterCb(t, s)
  BY <1>1, <1>2, <1>3, <1>6 DEF CallRegisterCb
<1>7. CASE CallUnregisterCb(t, s)
  BY <1>1, <1>2, <1>3, <1>7 DEF CallUnregisterCb
<1>8. CASE CallSendAsync(t, s)
  BY <1>1, <1>2, <1>3, <1>8 DEF CallSendAsync
<1>9. CASE CallSendBlock(t, s)
  BY <1>1, <1>2, <1>3, <1>9 DEF CallSendBlock
<1> QED BY <1>4, <1>5, <1>6, <1>7, <1>8, <1>9 DEF ThreadCalls

LEMMA OsSignalStep ==
  ASSUME IInv, NEW t \in Threads, OsSignal(t)
  PROVE  IInv'
<1> DEFINE f == Frame("send_async", Global, "lock", TRUE)
<1>1. f \in Frames /\ f.at # "body"
  BY ShutdownAssumption DEF Frame, Frames, CallNames, Places, Args
<1>2. calls' = [calls EXCEPT ![t] = Append(calls[t], f)]
  BY DEF OsSignal, IInv, CallsOK
<1>3. UNCHANGED <<master, started>> /\ Others
  BY DEF OsSignal, listVars, flagVars, ghosts, Others
<1> HIDE DEF f
<1> QED BY <1>1, <1>2, <1>3, Pushes

LEMMA SendBlockSteps ==
  ASSUME IInv, NEW a \in Actors, SendBlockStep(a)
  PROVE  IInv'
<1> USE DEF IsAt, listVars, flagVars, ghosts, Others
<1>0. {"check", "set", "lock", "poll", "sleep", "free_cb", "reset_cb_alloc", "reset_cb",
       "free_tl", "forget_tl", "reset_tl_alloc", "reset_tl"} \subseteq Places
  BY DEF Places
<1>1. CASE AlreadySent(a)
  <2>1. "noop" \in DOMAIN Exited
    BY DEF Exited
  <2> QED BY <1>1, <2>1, SendReturns DEF AlreadySent
<1>2. CASE NotYetSent(a)
  BY <1>0, <1>2, SendGoesOn DEF NotYetSent
<1>3. CASE SetShutdown(a)
  BY <1>0, <1>3, SendGoesOn DEF SetShutdown
<1>4. CASE CallCallbacks(a)
  <2>1. calls[a] # <<>> /\ CurrentCall(a).at = "body" /\ CallsOK /\ "poll" \in Places
    BY <1>0, <1>4 DEF CallCallbacks, IInv
  <2>2. PICK f \in Frames :
          /\ GoOn(a, "poll") = [calls EXCEPT ![a] = [calls[a] EXCEPT ![Len(calls[a])] = f]]
          /\ f.at = "poll" /\ f.s = CurrentCall(a).s /\ f.op = CurrentCall(a).op
    BY <2>1, GoOnTop
  <2>3. calls' = [calls EXCEPT ![a] = [calls[a] EXCEPT ![Len(calls[a])] = f]]
    BY <1>4, <2>2 DEF CallCallbacks
  <2>4. Unlock(CurrentCall(a).s) /\ UNCHANGED started /\ Others
    BY <1>4 DEF CallCallbacks
  <2>5. f.at # "body"
    BY <2>2
  <2> QED BY <2>1, <2>2, <2>3, <2>4, <2>5, GoesOut
<1>5. CASE Poll(a)
  <2>1. CASE calls' = GoOn(a, "free_cb")
    BY <1>0, <1>5, <2>1, SendGoesOn DEF Poll
  <2>2. CASE calls' = GoOn(a, "sleep")
    BY <1>0, <1>5, <2>2, SendGoesOn DEF Poll
  <2> QED BY <1>5, <2>1, <2>2 DEF Poll
<1>6. CASE Sleep(a)
  <2>1. CASE calls' = GoOn(a, "poll")
    BY <1>0, <1>6, <2>1, SendGoesOn DEF Sleep
  <2>2. CASE calls' # GoOn(a, "poll")
    <3> DEFINE f == [CurrentCall(a) EXCEPT !.at = "free_cb", !.arg = 1]
    <3>1. calls[a] # <<>> /\ CurrentCall(a).at = "sleep" /\ UNCHANGED <<master, started>> /\ Others
      BY <1>6 DEF Sleep
    <3>2. calls[a] \in Seq(Frames) /\ CurrentCall(a) \in Frames
      <4>1. calls[a] \in Seq(Frames) /\ Len(calls[a]) \in 1 .. Len(calls[a])
        BY <3>1 DEF IInv, CallsOK
      <4> QED BY <4>1 DEF CurrentCall
    <3>3. f \in Frames /\ f.at = "free_cb" /\ f.s = CurrentCall(a).s /\ f.op = CurrentCall(a).op
      BY <1>0, <3>2 DEF Frames, Args
    <3>4. calls' = [calls EXCEPT ![a] = [calls[a] EXCEPT ![Len(calls[a])] = f]]
      BY <1>6, <2>2 DEF Sleep, CurrentCall, IInv, CallsOK
    <3> HIDE DEF f
    <3>5. f.at # "body" /\ CurrentCall(a).at # "body"
      BY <3>1, <3>3
    <3> QED BY <3>1, <3>3, <3>4, <3>5, CallGoesOn
  <2> QED BY <2>1, <2>2
<1>7. CASE FreeCallbacks(a)
  BY <1>0, <1>7, SendGoesOn DEF FreeCallbacks
<1>8. CASE ResetCallbacksAlloc(a) \/ ResetCallbacks(a)
  BY <1>0, <1>8, SendGoesOn DEF ResetCallbacksAlloc, ResetCallbacks
<1>9. CASE FreeThreadlist(a) \/ ForgetThreadlist(a) \/ ResetThreadlistAlloc(a)
  BY <1>0, <1>9, SendGoesOn DEF FreeThreadlist, ForgetThreadlist, ResetThreadlistAlloc
<1>10. CASE ResetThreadlist(a)
  <2>1. PICK how \in DOMAIN Exited : SendBlockReturns(a, how)
    <3>1. "timeout" \in DOMAIN Exited /\ "done" \in DOMAIN Exited
      BY DEF Exited
    <3> QED BY <1>10, <3>1 DEF ResetThreadlist
  <2> QED BY <1>10, <2>1, SendReturns DEF ResetThreadlist
<1> QED BY <1>1, <1>2, <1>3, <1>4, <1>5, <1>6, <1>7, <1>8, <1>9, <1>10 DEF SendBlockStep

LEMMA ThreadSteps ==
  ASSUME IInv, NEW t \in Threads, ThreadStep(t)
  PROVE  IInv'
<1> USE DEF IsAt, listVars, flagVars, ghosts, Others
<1>0. /\ last_id \in [Signals -> Nat] /\ owned \in [Signals -> SUBSET Nat]
      /\ calls[t] # <<>> => CurrentCall(t).s \in Signals
  <2>1. calls[t] # <<>> => CurrentCall(t) \in Frames
    <3> SUFFICES ASSUME calls[t] # <<>> PROVE CurrentCall(t) \in Frames
      OBVIOUS
    <3>1. calls[t] \in Seq(Frames) /\ Len(calls[t]) \in 1 .. Len(calls[t])
      BY DEF IInv, CallsOK, Actors
    <3> QED BY <3>1 DEF CurrentCall
  <2> QED BY <2>1 DEF IInv, CallsOK, Frames
<1>1. CASE RegisterThread(t)
  <2>1. calls[t] # <<>> /\ CurrentCall(t).at = "body" /\ Unlock(CurrentCall(t).s) /\ Others
    BY <1>1 DEF RegisterThread
  <2>2. CASE calls' = Return(t) /\ UNCHANGED started
    BY <1>0, <2>1, <2>2, SectionReturns
  <2>3. CASE StartWorker(t, CurrentCall(t).s)
    <3>1. CASE started[CurrentCall(t).s]
      BY <2>2, <2>3, <3>1 DEF StartWorker
    <3>2. CASE ~started[CurrentCall(t).s]
      <4>1. PICK w \in Workers :
              /\ calls[w] = <<>>
              /\ calls' = [Return(t) EXCEPT
                             ![w] = <<Frame("worker", CurrentCall(t).s, "await", w)>>]
        BY <2>3, <3>2 DEF StartWorker
      <4>2. started' = [started EXCEPT ![CurrentCall(t).s] = TRUE]
        BY <2>3, <3>2 DEF StartWorker
      <4> QED BY <2>1, <3>2, <4>1, <4>2, StartsWorker
    <3> QED BY <3>1, <3>2
  <2> QED BY <1>1, <2>2, <2>3 DEF RegisterThread
<1>2. CASE ConfirmShutdown(t)
  BY <1>0, <1>2, SectionReturns DEF ConfirmShutdown
<1>3. CASE RegisterCb(t)
  <2>1. last_id' \in [Signals -> Nat] /\ owned' \in [Signals -> SUBSET Nat]
    BY <1>0, <1>3 DEF RegisterCb
  <2> QED BY <1>3, <2>1, SectionReturns DEF RegisterCb
<1>4. CASE UnregisterCb(t)
  <2>1. last_id' \in [Signals -> Nat] /\ owned' \in [Signals -> SUBSET Nat]
    BY <1>0, <1>4 DEF UnregisterCb
  <2> QED BY <1>4, <2>1, SectionReturns DEF UnregisterCb
<1>5. CASE SendAsync(t)
  BY <1>0, <1>5, SectionReturns DEF SendAsync
<1> QED BY <1>1, <1>2, <1>3, <1>4, <1>5 DEF ThreadStep

LEMMA ClockFrames ==
  ASSUME NEW c \in Frames, NEW jump \in {-1, 1}
  PROVE  /\ [c EXCEPT !.waited = @ + 1] \in Frames
         /\ [c EXCEPT !.drift = @ + jump] \in Frames
<1>1. c.waited + 1 \in Nat /\ c.drift + jump \in Int
  BY DEF Frames
<1> QED BY <1>1 DEF Frames

(* Time passes, or the clock is set back or forward.                         *)
LEMMA ClockAlike ==
  ASSUME CallsOK, Tick \/ SetClock
  PROVE  /\ calls' \in [Actors -> Seq(Frames)]
         /\ \A a \in Actors :
              /\ Len(calls'[a]) = Len(calls[a])
              /\ \A k \in 1 .. Len(calls[a]) :
                   /\ calls'[a][k].at = calls[a][k].at /\ calls'[a][k].s = calls[a][k].s
                   /\ calls'[a][k].op = calls[a][k].op /\ calls'[a][k].arg = calls[a][k].arg
<1>1. ASSUME NEW a \in Actors, calls[a] # <<>>
      PROVE  /\ CurrentCall(a) \in Frames /\ calls[a] \in Seq(Frames)
             /\ Len(calls[a]) \in 1 .. Len(calls[a])
  <2>1. calls[a] \in Seq(Frames) /\ Len(calls[a]) \in 1 .. Len(calls[a])
    BY <1>1 DEF CallsOK
  <2> QED BY <2>1 DEF CurrentCall
<1>2. \A a \in Actors : calls[a] \in Seq(Frames)
  BY DEF CallsOK
<1>3. \A a \in Actors :
        /\ calls'[a] \in Seq(Frames) /\ Len(calls'[a]) = Len(calls[a])
        /\ \A k \in 1 .. Len(calls[a]) :
             /\ calls'[a][k].at = calls[a][k].at
             /\ calls'[a][k].s = calls[a][k].s
             /\ calls'[a][k].op = calls[a][k].op
             /\ calls'[a][k].arg = calls[a][k].arg
  <2> SUFFICES ASSUME NEW a \in Actors
               PROVE  /\ calls'[a] \in Seq(Frames) /\ Len(calls'[a]) = Len(calls[a])
                      /\ \A k \in 1 .. Len(calls[a]) :
                           /\ calls'[a][k].at = calls[a][k].at
                           /\ calls'[a][k].s = calls[a][k].s
                           /\ calls'[a][k].op = calls[a][k].op
                           /\ calls'[a][k].arg = calls[a][k].arg
    OBVIOUS
  <2>1. CASE calls'[a] = calls[a]
    BY <1>2, <2>1
  <2>2. CASE calls[a] # <<>> /\ calls'[a] = [calls[a] EXCEPT ![Len(calls[a])].waited = @ + 1]
    <3> DEFINE c == CurrentCall(a)
               f == [c EXCEPT !.waited = @ + 1]
    <3>1. f \in Frames /\ f.at = c.at /\ f.s = c.s /\ f.op = c.op /\ f.arg = c.arg
      <4>1. c \in Frames
        BY <1>1, <2>2
      <4> HIDE DEF c
      <4>2. f \in Frames
        BY <4>1, ClockFrames
      <4> QED BY <4>1, <4>2 DEF Frames
    <3>2. calls'[a] = [calls[a] EXCEPT ![Len(calls[a])] = f]
      BY <2>2 DEF CurrentCall
    <3> HIDE DEF f
    <3> QED BY <1>1, <2>2, <3>1, <3>2 DEF CurrentCall
  <2>3. ASSUME NEW jump \in {-1, 1}, calls[a] # <<>>,
               calls'[a] = [calls[a] EXCEPT ![Len(calls[a])].drift = @ + jump]
        PROVE  /\ calls'[a] \in Seq(Frames) /\ Len(calls'[a]) = Len(calls[a])
               /\ \A k \in 1 .. Len(calls[a]) :
                    /\ calls'[a][k].at = calls[a][k].at
                    /\ calls'[a][k].s = calls[a][k].s
                    /\ calls'[a][k].op = calls[a][k].op
                    /\ calls'[a][k].arg = calls[a][k].arg
    <3> DEFINE c == CurrentCall(a)
               f == [c EXCEPT !.drift = @ + jump]
    <3>1. f \in Frames /\ f.at = c.at /\ f.s = c.s /\ f.op = c.op /\ f.arg = c.arg
      <4>1. c \in Frames
        BY <1>1, <2>3
      <4> HIDE DEF c
      <4>2. f \in Frames
        BY <4>1, ClockFrames
      <4> QED BY <4>1, <4>2 DEF Frames
    <3>2. calls'[a] = [calls[a] EXCEPT ![Len(calls[a])] = f]
      BY <2>3 DEF CurrentCall
    <3> HIDE DEF f
    <3> QED BY <1>1, <2>3, <3>1, <3>2 DEF CurrentCall
  <2>4. Waiting(a) => calls[a] # <<>>
    BY DEF Waiting, IsAt
  <2>5. \/ calls'[a] = calls[a]
        \/ calls[a] # <<>> /\ calls'[a] = [calls[a] EXCEPT ![Len(calls[a])].waited = @ + 1]
        \/ /\ calls[a] # <<>>
           /\ \E jump \in {-1, 1} :
                calls'[a] = [calls[a] EXCEPT ![Len(calls[a])].drift = @ + jump]
    BY <2>4 DEF Tick, SetClock, Awaits
  <2> QED BY <2>1, <2>2, <2>3, <2>5
<1>4. calls' \in [Actors -> Seq(Frames)]
  <2>1. \E g : calls' = [a \in Actors |-> g[a]]
    BY DEF Tick, SetClock
  <2> QED BY <1>3, <2>1
<1> QED BY <1>3, <1>4

LEMMA ClockSteps ==
  ASSUME IInv, Tick \/ SetClock
  PROVE  IInv'
<1>1. UNCHANGED <<master, started>> /\ Others
  BY DEF Tick, SetClock, listVars, flagVars, ghosts, Others
<1>2. /\ calls' \in [Actors -> Seq(Frames)]
      /\ \A a \in Actors :
           /\ Len(calls'[a]) = Len(calls[a])
           /\ \A k \in 1 .. Len(calls[a]) :
                /\ calls'[a][k].at = calls[a][k].at /\ calls'[a][k].s = calls[a][k].s
                /\ calls'[a][k].op = calls[a][k].op
  BY ClockAlike DEF IInv
<1> QED BY <1>1, <1>2, NobodyGoesOn

LEMMA NextStep ==
  ASSUME IInv, [Next]_vars
  PROVE  IInv'
<1>1. ASSUME NEW a \in Actors, LibraryStep(a)
      PROVE  IInv'
  <2>1. CASE Locks(a)
    BY <2>1, GoesIn
  <2>2. CASE SendBlockStep(a)
    BY <2>2, SendBlockSteps
  <2>3. CASE UseAfterFree(a)
    BY <2>3 DEF UseAfterFree, UndefinedBehaviour, listVars, flagVars, ghosts,
                IInv, CallsOK, SectionsOK, WorkersOK, StartedOK, Inside, Serves
  <2>4. CASE a \in Threads /\ ThreadStep(a)
    BY <2>4, ThreadSteps
  <2>5. CASE a \in Workers /\ WorkerStep(a)
    BY <2>5, GateStep, WorkerEnds DEF WorkerStep
  <2> QED BY <1>1, <2>1, <2>2, <2>3, <2>4, <2>5 DEF LibraryStep
<1>2. CASE Stutter \/ UNCHANGED vars
  <2>1. calls' = calls /\ UNCHANGED <<master, started>> /\ Others
    BY <1>2 DEF Stutter, vars, listVars, ghosts, flagVars, Others
  <2>2. calls' \in [Actors -> Seq(Frames)]
    BY <2>1 DEF IInv, CallsOK
  <2> QED BY <2>1, <2>2, NobodyGoesOn
<1> QED BY <1>1, <1>2, CallStep, OsSignalStep, ClockSteps DEF Next

LEMMA InitOK ==
  ASSUME Init
  PROVE  IInv
<1> USE ShutdownAssumption DEF Init, Actors
<1>1. calls \in [Actors -> Seq(Frames)]
  OBVIOUS
<1>2. CallsOK
  BY <1>1 DEF CallsOK
<1>3. \A a \in Actors : calls[a] = <<>> /\ Len(calls[a]) = 0
  OBVIOUS
<1>4. SectionsOK
  BY <1>3 DEF SectionsOK, Inside
<1>5. WorkersOK
  BY <1>3 DEF WorkersOK
<1>6. StartedOK
  BY <1>3 DEF StartedOK, Serves
<1> QED BY <1>2, <1>4, <1>5, <1>6 DEF IInv

-----------------------------------------------------------------------------
(* master_mutex excludes: it names exactly the actor that is inside a        *)
(* critical section of the signal, so that no two ever are - whoever calls,  *)
(* is interrupted by OS signals, or starts and ends shutdown threads.        *)
THEOREM LockExcludes == Spec => []LockHeldInside
<1>1. Init => IInv
  BY InitOK
<1>2. IInv /\ [Next]_vars => IInv'
  BY NextStep
<1>3. IInv => LockHeldInside
  <2> SUFFICES ASSUME IInv, NEW s \in Signals, NEW a \in Actors
               PROVE  master[s] = a <=> InCriticalSection(a, s)
    BY DEF LockHeldInside
  <2>1. calls[a] \in Seq(Frames)
    BY DEF IInv, CallsOK
  <2>2. InCriticalSection(a, s) <=> \E k \in Nat : Inside(calls, a, k, s)
    BY <2>1 DEF InCriticalSection, Inside
  <2> QED BY <2>2 DEF IInv, SectionsOK
<1> QED BY <1>1, <1>2, <1>3, PTL DEF Spec

(* register_thread never starts a second shutdown thread for a signal, and   *)
(* one that ends is never still counted as running: with the check of        *)
(* shutdown_thread_started under the lock there is one exactly while it is   *)
(* set.                                                                      *)
THEOREM OneShutdownThread == Spec => []OneWorker
<1>1. Init => IInv
  BY InitOK
<1>2. IInv /\ [Next]_vars => IInv'
  BY NextStep
<1>3. IInv => OneWorker
  <2> SUFFICES ASSUME IInv, NEW s \in Signals
               PROVE  Cardinality({w \in Workers : calls[w] # <<>> /\ calls[w][1].s = s})
                        = IF started[s] THEN 1 ELSE 0
    BY DEF OneWorker
  <2> DEFINE W == {w \in Workers : calls[w] # <<>> /\ calls[w][1].s = s}
  <2>1. CASE started[s]
    <3>1. PICK w \in Workers : \A v \in Workers : Serves(calls, v, s) <=> v = w
      BY <2>1 DEF IInv, StartedOK
    <3>2. W = {w}
      BY <3>1 DEF Serves
    <3>3. Cardinality(W) = 1
      BY <3>2, FS_Singleton
    <3> QED BY <2>1, <3>3
  <2>2. CASE ~started[s]
    <3>1. W = {}
      BY <2>2 DEF IInv, StartedOK, Serves
    <3>2. Cardinality(W) = 0
      BY <3>1, FS_EmptySet
    <3> QED BY <2>2, <3>2
  <2> QED BY <2>1, <2>2
<1> QED BY <1>1, <1>2, <1>3, PTL DEF Spec

=============================================================================
