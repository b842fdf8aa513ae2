--------------------------- MODULE Sigwrap_proofs ---------------------------
(***************************************************************************)
(* Theorems about Sigwrap for any set of calls, errnos and handlers, and   *)
(* for sends nested to any depth.                                          *)
(***************************************************************************)
EXTENDS Sigwrap, TLAPS

Types    == Errnos \cup FixedTypes \cup {NULL}
Calls    == FileCalls \cup SocketCalls \cup EpollCalls \cup PthreadCalls
              \cup {"none", "malloc", "printf", "fread", "fwrite", "fseek"}
Failures == [call : Calls, what : Errnos \cup FixedTypes \cup {NoErrno, "end of file"}]
SendRecords == [type : Types, literal : BOOLEAN, i : Nat, why : Failures, stale : BOOLEAN,
                calls : SUBSET [h : Nat, msg : Failures]]

(* What _sig_send has done so far: it was given the type of the failure    *)
(* unless something stale went into it, and has called whatever accepts    *)
(* that type, down to the handler that runs.                               *)
SendOK(s) ==
  /\ s.i \in 1..Len(handlers)
  /\ ~s.stale => s.type = s.why.what
  /\ {c.h : c \in s.calls} = {j \in s.i..Len(handlers) : Accepts(j, s.type)}

HandlersOK == handlers \in Seq(HandlerTypes \cup {SIGNAL_ALL})

SendsOK ==
  /\ sends \in Seq(SendRecords)
  /\ \A k \in 1..Len(sends) : SendOK(sends[k])

IInv == HandlersOK /\ SendsOK /\ prefixed_str \in Failures

(* A silent short read leaves the end-of-file flag set.                    *)
SilentInv == SilentReads /\ (silent # <<>> => eof)

-----------------------------------------------------------------------------
(* What SendNext makes of the record of its send, ...                      *)
Moved(s, j, told) == [s EXCEPT !.i = j, !.calls = @ \cup {[h |-> j, msg |-> told]}]

(* ... and what it leaves of it.                                           *)
LEMMA SendMoved ==
  ASSUME NEW s \in SendRecords, NEW j \in Nat, NEW told \in Failures
  PROVE  /\ Moved(s, j, told) \in SendRecords
         /\ Moved(s, j, told).i = j
         /\ Moved(s, j, told).stale = s.stale
         /\ Moved(s, j, told).type = s.type
         /\ Moved(s, j, told).why = s.why
         /\ Moved(s, j, told).calls = s.calls \cup {[h |-> j, msg |-> told]}
<1> DEFINE c == s.calls \cup {[h |-> j, msg |-> told]}
<1>1. c \in SUBSET [h : Nat, msg : Failures]
  BY DEF SendRecords
<1>2. Moved(s, j, told) = [s EXCEPT !.i = j, !.calls = c]
  BY DEF SendRecords, Moved
<1> HIDE DEF c
<1>3. /\ [s EXCEPT !.i = j, !.calls = c] \in SendRecords
      /\ [s EXCEPT !.i = j, !.calls = c].i = j
      /\ [s EXCEPT !.i = j, !.calls = c].stale = s.stale
      /\ [s EXCEPT !.i = j, !.calls = c].type = s.type
      /\ [s EXCEPT !.i = j, !.calls = c].why = s.why
      /\ [s EXCEPT !.i = j, !.calls = c].calls = c
  BY <1>1 DEF SendRecords
<1> QED
  BY <1>2, <1>3 DEF c

-----------------------------------------------------------------------------
(* A new send keeps the sends in order, if it is given the type of its     *)
(* failure or is marked stale.                                             *)
LEMMA SendStarts ==
  ASSUME HandlersOK, prefixed_str' \in Failures,
         NEW type \in Types, NEW why \in Failures, NEW literal \in BOOLEAN,
         NEW stale \in BOOLEAN, ~stale => type = why.what,
         SendsOK, Send(type, why, literal, stale)
  PROVE  HandlersOK' /\ SendsOK'
<1>1. handlers' = handlers
  BY DEF Send
<1>2. PICK j \in 1..Len(handlers) :
        /\ IsNext(j, Len(handlers) + 1, type)
        /\ sends' = Append(sends,
             [type |-> type, literal |-> literal, i |-> j, why |-> why, stale |-> stale,
              calls |-> {[h |-> j, msg |-> IF literal THEN why ELSE prefixed_str']}])
  BY DEF Send
<1> DEFINE told == IF literal THEN why ELSE prefixed_str'
           new == [type |-> type, literal |-> literal, i |-> j, why |-> why, stale |-> stale,
                   calls |-> {[h |-> j, msg |-> told]}]
<1>3. Len(handlers) \in Nat
  BY DEF HandlersOK
<1>4. new \in SendRecords
  <2>1. told \in Failures
    OBVIOUS
  <2>2. {[h |-> j, msg |-> told]} \in SUBSET [h : Nat, msg : Failures]
    BY <2>1, <1>3
  <2> QED
    BY <2>2, <1>3 DEF SendRecords
<1>5. SendOK(new)
  <2>1. {c.h : c \in new.calls} = {j}
    OBVIOUS
  <2>2. {l \in j..Len(handlers) : Accepts(l, type)} = {j}
    BY <1>2, <1>3 DEF IsNext
  <2> QED
    BY <2>1, <2>2, <1>3 DEF SendOK
<1>6. \A s : SendOK(s)' <=> SendOK(s)
  BY <1>1 DEF SendOK, Accepts
<1>7. sends' = Append(sends, new)
  BY <1>2
<1> HIDE DEF new
<1>8. \A k \in 1..Len(sends') : SendOK(sends'[k])
  BY <1>5, <1>7, <1>4 DEF SendsOK
<1> QED
  BY <1>1, <1>4, <1>7, <1>6, <1>8 DEF SendsOK, HandlersOK, SendOK, Accepts

(* A message of a wrapper's own.                                           *)
LEMMA LiteralStarts ==
  ASSUME IInv, NEW type \in Types, NEW why \in Failures, NEW stale \in BOOLEAN,
         ~stale => type = why.what,
         SendLiteral(type, why, stale)
  PROVE  IInv'
BY SendStarts DEF SendLiteral, IInv, SendsOK

(* A message of prefixed_str.                                              *)
LEMMA ErrnoStarts ==
  ASSUME IInv, NEW call \in Calls, NEW e \in Errnos, NEW thread_errno,
         NEW stale \in BOOLEAN, ~stale => thread_errno = e,
         SendErrno(call, e, thread_errno, stale)
  PROVE  IInv'
<1>1. Failure(call, e) \in Failures /\ prefixed_str' = Failure(call, e)
  BY DEF SendErrno, Failure, Failures
<1>2. SigFromErrno(e, thread_errno) \in Types
  BY DEF SigFromErrno, Types
<1>3. ~stale => SigFromErrno(e, thread_errno) = Failure(call, e).what
  BY DEF SigFromErrno, Failure
<1>4. Send(SigFromErrno(e, thread_errno), Failure(call, e), FALSE, stale)
  BY DEF SendErrno
<1> QED
  BY <1>1, <1>2, <1>3, <1>4, SendStarts DEF IInv

(* The walk goes on to the next handler that accepts the type.             *)
LEMMA SendGoesOn ==
  ASSUME IInv, SendNext
  PROVE  IInv'
<1> DEFINE n == Len(sends)
           s == sends[n]
           told == IF s.literal THEN s.why ELSE prefixed_str
<1>1. /\ sends \in Seq(SendRecords) /\ n \in Nat /\ n > 0
      /\ s \in SendRecords /\ SendOK(s) /\ Last(sends) = s
  BY DEF IInv, SendsOK, SendNext, Last
<1>2. handlers' = handlers /\ prefixed_str' = prefixed_str /\ Len(handlers) \in Nat
  BY DEF SendNext, IInv, HandlersOK
<1>3. PICK j \in 1..Len(handlers) :
        /\ IsNext(j, s.i, s.type)
        /\ sends' = [sends EXCEPT ![n] = Moved(s, j, told)]
  BY <1>1 DEF SendNext, Moved
<1>4. told \in Failures /\ j \in Nat
  BY <1>1, <1>2 DEF IInv, SendRecords
<1> HIDE DEF s, told
<1> DEFINE new == Moved(s, j, told)
<1>5. /\ new \in SendRecords
      /\ new.i = j /\ new.stale = s.stale /\ new.type = s.type /\ new.why = s.why
      /\ new.calls = s.calls \cup {[h |-> j, msg |-> told]}
  BY <1>1, <1>4, SendMoved
<1>6. sends' \in Seq(SendRecords) /\ Len(sends') = n
      /\ \A k \in 1..n : sends'[k] = IF k = n THEN new ELSE sends[k]
  BY <1>1, <1>3, <1>5
<1> HIDE DEF new
<1>7. SendOK(new)
  <2>2. {c.h : c \in new.calls} = {c.h : c \in s.calls} \cup {j}
    <3> DEFINE call == [h |-> j, msg |-> told]
    <3>1. call.h = j /\ new.calls = s.calls \cup {call}
      BY <1>5
    <3> HIDE DEF call
    <3> QED
      BY <3>1
  <2>3. {l \in j..Len(handlers) : Accepts(l, s.type)}
          = {l \in s.i..Len(handlers) : Accepts(l, s.type)} \cup {j}
    <3>1. s.i \in 1..Len(handlers) /\ j \in 1..(s.i - 1)
      BY <1>1, <1>3 DEF SendOK, IsNext
    <3> QED
      BY <3>1, <1>2, <1>3 DEF IsNext
  <2> QED
    BY <1>5, <2>2, <2>3, <1>1 DEF SendOK
<1>8. \A k \in 1..n : SendOK(sends'[k])
  BY <1>6, <1>7 DEF IInv, SendsOK
<1> QED
  BY <1>2, <1>6, <1>8 DEF IInv, SendsOK, HandlersOK, SendOK, Accepts

(* Steps that start no send only cut the stack of sends, or leave it.      *)
LEMMA OthersKeep ==
  ASSUME IInv, handlers' = handlers, prefixed_str' = prefixed_str,
         \/ sends' = sends
         \/ \E k \in 0..(Len(sends) - 1) : sends' = SubSeq(sends, 1, k)
  PROVE  IInv'
<1>1. CASE sends' = sends
  BY <1>1 DEF IInv, SendsOK, HandlersOK, SendOK, Accepts
<1>2. CASE \E k \in 0..(Len(sends) - 1) : sends' = SubSeq(sends, 1, k)
  <2>1. PICK k \in 0..(Len(sends) - 1) : sends' = SubSeq(sends, 1, k)
    BY <1>2
  <2>2. sends \in Seq(SendRecords) /\ Len(sends) \in Nat
    BY DEF IInv, SendsOK
  <2>3. sends' \in Seq(SendRecords) /\ Len(sends') = k
        /\ \A l \in 1..k : sends'[l] = sends[l]
    BY <2>1, <2>2
  <2>4. \A l \in 1..Len(sends') : SendOK(sends'[l])
    BY <2>2, <2>3 DEF IInv, SendsOK
  <2> QED
    BY <2>3, <2>4 DEF IInv, SendsOK, HandlersOK, SendOK, Accepts
<1> QED
  BY <1>1, <1>2

-----------------------------------------------------------------------------
(* What a step does to the sends: it starts one with a message of its own, *)
(* starts one with prefixed_str, moves one on, or leaves or cuts the stack. *)
StartsLiteral ==
  \E type \in Types, why \in Failures, stale \in BOOLEAN :
    (~stale => type = why.what) /\ SendLiteral(type, why, stale)

StartsErrno ==
  \E call \in Calls, e \in Errnos, stale \in BOOLEAN :
    \E thread_errno : (~stale => thread_errno = e) /\ SendErrno(call, e, thread_errno, stale)

LeavesOrCuts ==
  /\ handlers' = handlers /\ prefixed_str' = prefixed_str
  /\ \/ sends' = sends
     \/ \E k \in 0..(Len(sends) - 1) : sends' = SubSeq(sends, 1, k)

LEMMA StepKinds ==
  ASSUME [Next]_vars
  PROVE  SendNext \/ StartsLiteral \/ StartsErrno \/ LeavesOrCuts
<1> USE DEF Failure
<1>1. CASE HandlerRestarts \/ CatchAllExits \/ OtherCode \/ Fseek \/ UNCHANGED vars
  BY <1>1 DEF HandlerRestarts, CatchAllExits, OtherCode, Fseek, vars, LeavesOrCuts
<1>2. ASSUME NEW call \in Calls, NEW e \in Errnos, ErrnoCallFails(call, e) PROVE StartsErrno
  <2>1. SendErrno(call, e, e, FALSE)
    BY <1>2 DEF ErrnoCallFails
  <2> DEFINE Late(stale) == \E thread_errno : (~stale => thread_errno = e)
                                              /\ SendErrno(call, e, thread_errno, stale)
  <2>2. Late(FALSE)
    BY <2>1
  <2> HIDE DEF Late
  <2>3. \E stale \in BOOLEAN : Late(stale)
    BY <2>2
  <2> QED
    BY <2>3 DEF StartsErrno, Late
<1>3. CASE FileCallFails \/ SocketCallFails \/ EpollCallFails \/ FseekFails
  BY <1>2, <1>3 DEF FileCallFails, SocketCallFails, EpollCallFails, FseekFails, Calls
<1>4. CASE PthreadCallFails
  <2>1. PICK call \in PthreadCalls, e \in Errnos : SendErrno(call, e, errno, errno # e)
    BY <1>4 DEF PthreadCallFails
  <2> DEFINE Late(stale) == \E thread_errno : (~stale => thread_errno = e)
                                              /\ SendErrno(call, e, thread_errno, stale)
  <2>2. call \in Calls /\ Late(errno # e)
    BY <2>1 DEF Calls
  <2> HIDE DEF Late
  <2>3. \E stale \in BOOLEAN : Late(stale)
    BY <2>2
  <2> QED
    BY <2>2, <2>3 DEF StartsErrno, Late
<1>5. ASSUME NEW call \in Calls, NEW type \in FixedTypes, SendLiteral(type, Failure(call, type), FALSE)
      PROVE StartsLiteral
  <2>1. Failure(call, type) \in Failures /\ type \in Types /\ Failure(call, type).what = type
    BY DEF Types, Failures
  <2> QED
    BY <1>5, <2>1 DEF StartsLiteral
<1>6. CASE AllocFails \/ PrintFails \/ FreadAtEof \/ FwriteFails
          \/ \E call \in {"fread", "fwrite", "fseek"} : StreamIsNull(call)
  BY <1>5, <1>6
     DEF AllocFails, PrintFails, FreadAtEof, FwriteFails, StreamIsNull, FixedTypes, Calls
<1>7. ASSUME NEW n \in 1..MaxItems, NEW failed \in BOOLEAN, Fread(n, failed)
      PROVE StartsLiteral \/ LeavesOrCuts
  <2> DEFINE what == IF failed THEN "SIGNAL_READ_ERROR" ELSE "end of file"
  <2>1. CASE SendLiteral("SIGNAL_READ_ERROR", Failure("fread", what), ~failed)
    <3>1. /\ Failure("fread", what) \in Failures /\ "SIGNAL_READ_ERROR" \in Types
          /\ ~(~failed) => "SIGNAL_READ_ERROR" = Failure("fread", what).what
      BY DEF Types, FixedTypes, Failures, Calls
    <3> QED
      BY <2>1, <3>1 DEF StartsLiteral
  <2>2. CASE UNCHANGED <<prefixed_str, handlers, sends, ended>>
    BY <2>2 DEF LeavesOrCuts
  <2> QED
    BY <1>7, <2>1, <2>2 DEF Fread
<1> QED
  BY <1>1, <1>3, <1>4, <1>6, <1>7 DEF Next

(* IInv is inductive.                                                      *)
LEMMA IInvHolds == Spec => []IInv
<1>1. Init => IInv
  <2> SUFFICES ASSUME Init PROVE IInv
    OBVIOUS
  <2>1. handlers \in Seq(HandlerTypes \cup {SIGNAL_ALL})
    BY DEF Init
  <2>2. prefixed_str \in Failures
    BY DEF Init, NoFailure, Failure, Failures, Calls
  <2> QED
    BY <2>1, <2>2 DEF Init, IInv, HandlersOK, SendsOK
<1>2. IInv /\ [Next]_vars => IInv'
  <2> SUFFICES ASSUME IInv, [Next]_vars PROVE IInv'
    OBVIOUS
  <2>1. CASE SendNext
    BY <2>1, SendGoesOn
  <2>2. CASE StartsLiteral
    BY <2>2, LiteralStarts DEF StartsLiteral
  <2>3. CASE StartsErrno
    BY <2>3, ErrnoStarts DEF StartsErrno
  <2>4. CASE LeavesOrCuts
    BY <2>4, OthersKeep DEF LeavesOrCuts
  <2> QED
    BY <2>1, <2>2, <2>3, <2>4, StepKinds
<1> QED
  BY <1>1, <1>2, PTL DEF Spec

(* A send calls exactly the handlers that are for its failure, unless it    *)
(* was made from what another call had left behind.                        *)
THEOREM FailuresReachTheirHandlers == Spec => []SignalFitsFailure
<1>1. IInv => SignalFitsFailure
  <2> SUFFICES ASSUME IInv, NEW s \in Range(sends), ~s.stale
               PROVE  {c.h : c \in s.calls} =
                        {j \in s.i..Len(handlers) : handlers[j] \in {s.why.what, SIGNAL_ALL}}
    BY DEF SignalFitsFailure
  <2>1. PICK k \in 1..Len(sends) : s = sends[k]
    BY DEF IInv, SendsOK, Range
  <2>2. SendOK(s)
    BY <2>1 DEF IInv, SendsOK
  <2> QED
    BY <2>2 DEF SendOK, Accepts
<1> QED
  BY <1>1, IInvHolds, PTL

-----------------------------------------------------------------------------
(* What one silent read leaves in the ghost.                               *)
LEMMA AppendToEmpty == \A x : Append(<<>>, x) = <<x>>
OBVIOUS

(* A read gets at most what it asked for.                                  *)
LEMMA ShortOfN == \A n \in 1..MaxItems : \A out \in 0..n : out # n => out < n
BY SigwrapAssumption

(* A read that fails is signalled, and so is every read after the one that *)
(* met the end of the file: the flag that sw_fread asks stays set until a   *)
(* seek.                                                                   *)
THEOREM ReadsAreNotSilent == Spec => []SilentReads
<1>1. Init => SilentInv
  BY DEF Init, SilentInv, SilentReads
<1>2. SilentInv /\ [Next]_vars => SilentInv'
  <2> SUFFICES ASSUME SilentInv, [Next]_vars PROVE SilentInv'
    OBVIOUS
  <2> USE DEF SilentInv, SilentReads
  <2>1. ASSUME NEW n \in 1..MaxItems, NEW failed \in BOOLEAN, Fread(n, failed) PROVE SilentInv'
    <3>1. silent = <<>>
      BY <2>1 DEF Fread
    <3>2. CASE UNCHANGED silent
      BY <3>1, <3>2
    <3>3. CASE UNCHANGED <<prefixed_str, handlers, sends, ended>>
      <4>1. PICK out \in 0..n :
              /\ eof' = (~failed /\ out < n)
              /\ error' = (error \/ failed)
              /\ IF failed THEN out < n ELSE out \in {n, left}
              /\ \/ (out # n /\ error') /\ UNCHANGED silent
                 \/ /\ ~(out # n /\ error')
                    /\ silent' = IF out = n THEN silent
                                 ELSE Append(silent, IF failed THEN "failed" ELSE "end of file")
        BY <2>1 DEF Fread
      <4>2. CASE UNCHANGED silent \/ out = n
        BY <4>1, <4>2, <3>1
      <4>3. CASE out # n /\ ~error'
        <5>1. ~failed
          BY <4>1, <4>3, Zenon
        <5>2. eof' /\ silent' = Append(<<>>, "end of file")
          BY <5>1, <4>1, <4>3, <3>1, ShortOfN
        <5> QED
          BY <5>2, AppendToEmpty
      <4> QED
        BY <4>1, <4>2, <4>3
    <3> QED
      BY <2>1, <3>2, <3>3 DEF Fread
  <2>2. CASE UNCHANGED <<eof, silent>>
    BY <2>2
  <2>3. CASE Fseek
    BY <2>3 DEF Fseek
  <2>4. CASE \/ SendNext \/ HandlerRestarts \/ CatchAllExits \/ OtherCode
            \/ FileCallFails \/ SocketCallFails \/ EpollCallFails \/ PthreadCallFails
            \/ AllocFails \/ PrintFails \/ FreadAtEof \/ FwriteFails \/ FseekFails
            \/ \E call \in {"fread", "fwrite", "fseek"} : StreamIsNull(call)
    BY <2>2, <2>4 DEF SendNext, HandlerRestarts, CatchAllExits, OtherCode, FileCallFails,
       SocketCallFails, EpollCallFails, PthreadCallFails, AllocFails, PrintFails, FreadAtEof,
       FwriteFails, FseekFails, StreamIsNull, ErrnoCallFails, streamVars
  <2>5. CASE UNCHANGED vars
    BY <2>2, <2>5 DEF vars
  <2> QED
    BY <2>1, <2>3, <2>4, <2>5 DEF Next
<1> QED
  BY <1>1, <1>2, PTL DEF Spec, SilentInv
====
