------------------------------ MODULE Sigwrap ------------------------------
(***************************************************************************)
(* The system call wrappers of one thread (src/libevsig/sigwrap*.c) and the*)
(* conversion of errno to signals and messages (errno_signals.c).  A       *)
(* wrapper makes its call and, if that failed, sends a signal.  What is    *)
(* hard is what the wrappers of a thread share: errno, the one buffer      *)
(* prefixed_str for all messages, and the flags of a stdio stream.  A      *)
(* handler is user code and may call wrappers that fail in their turn      *)
(* before the send it was called by goes on to the next handler.           *)
(*                                                                         *)
(* The signal system is reduced to what carries a failure to its handlers: *)
(* a handler stack that stays as it is, with the catch-all handler at the  *)
(* bottom, and the stack of sends in progress.  SigThread has the rest.    *)
(* The type SIGNAL_x of the errno x is written x; errnos that have two     *)
(* names have one value and one type.                                      *)
(***************************************************************************)
EXTENDS Integers, SequencesExt

CONSTANTS
  Errnos,        \* the values errno can have after a failure
  FileCalls,     \* wrapped calls that set errno: of sigwrap.c,
  SocketCalls,   \*   of sigwrap_socket.c,
  EpollCalls,    \*   of sigwrap_epoll.c
  PthreadCalls,  \* calls that return their error, of sigwrap_pthread.c
  HandlerTypes,  \* the types handlers are pushed for
  MaxHandlers,   \* bound: handlers above the catch-all handler
  MaxItems,      \* bound: items in the file, and in one read
  MaxDepth       \* bound: sends in progress, one inside the other

NoErrno    == "0"     \* errno of a thread in which nothing has failed yet
NULL       == "NULL"
SIGNAL_ALL == "SIGNAL_ALL"

(* The types that are not made from an errno.                              *)
FixedTypes == {"SIGNAL_ALLOC_FAILED", "SIGNAL_INVALID_INPUT", "SIGNAL_EOF",
               "SIGNAL_READ_ERROR", "SIGNAL_WRITE_ERROR", "SIGNAL_FAIL"}

ASSUME SigwrapAssumption ==
  /\ NoErrno \notin Errnos
  /\ HandlerTypes \subseteq Errnos \cup FixedTypes \cup {SIGNAL_ALL}
  /\ MaxHandlers \in Nat /\ MaxItems \in Nat

VARIABLES
  errno,
  prefixed_str,   \* the failure the text in the buffer describes
  handlers,       \* the types on the handler stack, the catch-all's first
  sends,          \* activations of _sig_send; a handler of the last one runs
  left, eof, error,  \* the FILE: items up to its end, and its two flags
  silent,         \* ghost: why reads since the last seek came back short unsignalled
  ended           \* the catch-all handler has ended the thread

vars == <<errno, prefixed_str, handlers, sends, left, eof, error, silent, ended>>

streamVars == <<left, eof, error, silent>>

(* A failure: the call, and the errno or type that says what happened.     *)
Failure(call, what) == [call |-> call, what |-> what]

NoFailure == Failure("none", NoErrno)

Init ==
  /\ errno = NoErrno
  /\ prefixed_str = NoFailure
  /\ \E n \in 0..MaxHandlers : \E pushed \in [1..n -> HandlerTypes] :
       handlers = <<SIGNAL_ALL>> \o pushed
  /\ sends = <<>>
  /\ left \in 0..MaxItems
  /\ eof = FALSE /\ error = FALSE
  /\ silent = <<>>
  /\ ended = FALSE

-----------------------------------------------------------------------------
(* Sending.                                                                *)

(* The table: a case for every errno, each with a type of its own.  It is  *)
(* asked with errno_in and switches on errno.                              *)
SigFromErrno(errno_in, thread_errno) ==
  IF thread_errno \in Errnos THEN thread_errno ELSE NULL

Accepts(j, type) == handlers[j] \in {type, SIGNAL_ALL}

(* The walk of _sig_send down from below: handler j is the next one called. *)
IsNext(j, below, type) ==
  /\ j \in 1..(below - 1)
  /\ Accepts(j, type)
  /\ \A k \in (j + 1)..(below - 1) : ~Accepts(k, type)

(* User code runs: the thread's own, or any handler's but the catch-all's. *)
UserRuns == ~ended /\ (sends # <<>> => Last(sends).i > 1)

(* A send starts and calls its first handler, with its message.  Ghosts:   *)
(* why it was sent, whether by what an earlier call left behind (stale),   *)
(* and the calls of handlers with the messages they were given.            *)
Send(type, why, literal, stale) ==
  /\ Len(sends) < MaxDepth
  /\ \E j \in 1..Len(handlers) :
       /\ IsNext(j, Len(handlers) + 1, type)
       /\ sends' = Append(sends,
            [type |-> type, literal |-> literal, i |-> j, why |-> why, stale |-> stale,
             calls |-> {[h |-> j, msg |-> IF literal THEN why ELSE prefixed_str']}])
  /\ UNCHANGED <<handlers, ended>>

(* SIG_SEND of a type of the wrapper's choice with a literal for a message. *)
SendLiteral(type, why, stale) ==
  /\ Send(type, why, TRUE, stale)
  /\ UNCHANGED prefixed_str

(* SIG_SEND(sig_from_errno(e), str_from_errno(prefix, e), ...).             *)
SendErrno(call, e, thread_errno, stale) ==
  /\ prefixed_str' = Failure(call, e)
  /\ Send(SigFromErrno(e, thread_errno), Failure(call, e), FALSE, stale)

(* The handler returns SIG_RESTART_NULL: the next one is called, with the  *)
(* same pointer.                                                           *)
SendNext ==
  /\ UserRuns /\ sends # <<>>
  /\ LET s == Last(sends)
         told == IF s.literal THEN s.why ELSE prefixed_str
     IN \E j \in 1..Len(handlers) :
          /\ IsNext(j, s.i, s.type)
          /\ sends' = [sends EXCEPT ![Len(sends)] =
               [s EXCEPT !.i = j, !.calls = @ \cup {[h |-> j, msg |-> told]}]]
  /\ UNCHANGED <<errno, prefixed_str, handlers, streamVars, ended>>

(* The handler chooses a restart: the send, and any it was made from, are  *)
(* unwound.                                                                *)
HandlerRestarts ==
  /\ UserRuns /\ sends # <<>>
  /\ \E k \in 0..(Len(sends) - 1) : sends' = SubSeq(sends, 1, k)
  /\ UNCHANGED <<errno, prefixed_str, handlers, streamVars, ended>>

(* The catch-all handler ends the thread.                                  *)
CatchAllExits ==
  /\ ~ended /\ sends # <<>> /\ Last(sends).i = 1
  /\ ended' = TRUE
  /\ UNCHANGED <<errno, prefixed_str, handlers, sends, streamVars>>

-----------------------------------------------------------------------------
(* The wrappers.  One that succeeds changes nothing here, except on the    *)
(* stream.                                                                 *)

(* Everything else the thread does may leave an errno and, if it uses the  *)
(* stream without a wrapper, its error flag.                               *)
OtherCode ==
  /\ UserRuns
  /\ errno' \in Errnos
  /\ error' \in {error, TRUE}
  /\ UNCHANGED <<prefixed_str, handlers, sends, left, eof, silent, ended>>

(* Mutant: the type is computed from the errno before the call.            *)
ErrnoCallFails_TypeTooEarly(call, e) ==
  /\ UserRuns
  /\ errno' = e
  /\ SendErrno(call, e, errno, FALSE)
  /\ UNCHANGED streamVars

ErrnoCallFails(call, e) ==
  /\ UserRuns
  /\ errno' = e
  /\ SendErrno(call, e, errno', FALSE)
  /\ UNCHANGED streamVars

FileCallFails   == \E call \in FileCalls, e \in Errnos : ErrnoCallFails(call, e)
SocketCallFails == \E call \in SocketCalls, e \in Errnos : ErrnoCallFails(call, e)
EpollCallFails  == \E call \in EpollCalls, e \in Errnos : ErrnoCallFails(call, e)

(* These return the error and leave errno alone.                           *)
PthreadCallFails ==
  /\ UserRuns
  /\ \E call \in PthreadCalls, e \in Errnos : SendErrno(call, e, errno, errno # e)
  /\ UNCHANGED <<errno, streamVars>>

AllocFails ==
  /\ UserRuns
  /\ errno' \in Errnos
  /\ SendLiteral("SIGNAL_ALLOC_FAILED", Failure("malloc", "SIGNAL_ALLOC_FAILED"), FALSE)
  /\ UNCHANGED streamVars

(* printf and fprintf; the catch-all handler prints its report with them.  *)
PrintFails ==
  /\ ~ended
  /\ errno' \in Errnos
  /\ error' \in {error, TRUE}
  /\ SendLiteral("SIGNAL_FAIL", Failure("printf", "SIGNAL_FAIL"), FALSE)
  /\ UNCHANGED <<left, eof, silent>>

StreamIsNull(call) ==
  /\ UserRuns
  /\ SendLiteral("SIGNAL_INVALID_INPUT", Failure(call, "SIGNAL_INVALID_INPUT"), FALSE)
  /\ UNCHANGED <<errno, streamVars>>

FreadAtEof ==
  /\ UserRuns /\ eof
  /\ SendLiteral("SIGNAL_EOF", Failure("fread", "SIGNAL_EOF"), FALSE)
  /\ UNCHANGED <<errno, streamVars>>

(* Mutant: sw_fread without its feof check.                                *)
Fread_NoEofCheck(n, failed) ==
  /\ UserRuns
  /\ \E out \in 0..n :
       /\ out <= left
       /\ IF failed THEN out < n ELSE out \in {n, left}
       /\ left' = left - out
       /\ eof' = (~failed /\ out < n)
       /\ error' = (error \/ failed)
       /\ IF out # n /\ error'
          THEN /\ SendLiteral("SIGNAL_READ_ERROR",
                    Failure("fread", IF failed THEN "SIGNAL_READ_ERROR" ELSE "end of file"),
                    ~failed)
               /\ UNCHANGED silent
          ELSE /\ silent' = IF out = n THEN silent
                            ELSE Append(silent, IF failed THEN "failed" ELSE "end of file")
               /\ UNCHANGED <<prefixed_str, handlers, sends, ended>>
  /\ errno' \in IF failed THEN Errnos ELSE {errno}

(* sw_fread of n items gets out of them: it stops short of n at the end of *)
(* the file or because the read failed.  The flags are sticky, so ferror   *)
(* may be an earlier call's.                                               *)
Fread(n, failed) ==
  /\ UserRuns /\ ~eof
  /\ \E out \in 0..n :
       /\ out <= left
       /\ IF failed THEN out < n ELSE out \in {n, left}
       /\ left' = left - out
       /\ eof' = (~failed /\ out < n)
       /\ error' = (error \/ failed)
       /\ IF out # n /\ error'
          THEN /\ SendLiteral("SIGNAL_READ_ERROR",
                    Failure("fread", IF failed THEN "SIGNAL_READ_ERROR" ELSE "end of file"),
                    ~failed)
               /\ UNCHANGED silent
          ELSE /\ silent' = IF out = n THEN silent
                            ELSE Append(silent, IF failed THEN "failed" ELSE "end of file")
               /\ UNCHANGED <<prefixed_str, handlers, sends, ended>>
  /\ errno' \in IF failed THEN Errnos ELSE {errno}

FwriteFails ==
  /\ UserRuns
  /\ errno' \in Errnos
  /\ error' = TRUE
  /\ SendLiteral("SIGNAL_WRITE_ERROR", Failure("fwrite", "SIGNAL_WRITE_ERROR"), FALSE)
  /\ UNCHANGED <<left, eof, silent>>

(* A seek that succeeds clears the end-of-file flag, not the other one.    *)
Fseek ==
  /\ UserRuns
  /\ eof' = FALSE
  /\ left' \in 0..MaxItems
  /\ silent' = <<>>
  /\ UNCHANGED <<errno, prefixed_str, handlers, sends, error, ended>>

FseekFails == \E e \in Errnos : ErrnoCallFails("fseek", e)

Next ==
  \/ SendNext \/ HandlerRestarts \/ CatchAllExits
  \/ OtherCode
  \/ FileCallFails \/ SocketCallFails \/ EpollCallFails \/ PthreadCallFails
  \/ AllocFails \/ PrintFails
  \/ \E call \in {"fread", "fwrite", "fseek"} : StreamIsNull(call)
  \/ FreadAtEof
  \/ \E n \in 1..MaxItems, failed \in BOOLEAN : Fread(n, failed)
  \/ FwriteFails \/ Fseek \/ FseekFails

Spec == Init /\ [][Next]_vars

-----------------------------------------------------------------------------
(* A send calls exactly the handlers that are for the failure it is about: *)
(* from the top down to the one running now, none was passed over and none *)
(* was called for something else.  Excepted are the sends that were made   *)
(* from an errno or an error flag that another call had left.              *)
SignalFitsFailure ==
  \A s \in Range(sends) : ~s.stale =>
    {c.h : c \in s.calls} =
      {j \in s.i..Len(handlers) : handlers[j] \in {s.why.what, SIGNAL_ALL}}

(* A read that fails is never silent, and of the reads that meet the end of *)
(* the file only the first one is: a loop around sw_fread cannot miss it.  *)
SilentReads == silent \in {<<>>, <<"end of file">>}

-----------------------------------------------------------------------------
(* What the documentation says and the code does not do.                   *)

(* errno_signals.h:9, of sig_from_errno: "Returns NULL if the errno can't  *)
(* be converted" - and only then.                                          *)
ErrnoIsConverted ==
  \A s \in Range(sends) : s.why.what \in Errnos => s.type # NULL

(* sigwrap.c:62-63: "callers must use feof(3) and ferror(3) to determine   *)
(* which occurred", end of file or error: a read error is reported when the *)
(* read failed.                                                            *)
ReadErrorIsReal ==
  \A s \in Range(sends) :
    s.type = "SIGNAL_READ_ERROR" => s.why.what = "SIGNAL_READ_ERROR"

(* signals.h:109-110: a handler may let the signal fall through "to the    *)
(* next handler" - which gets the message of that signal.                  *)
MessageIsTheSignals == \A s \in Range(sends) : \A c \in s.calls : c.msg = s.why

====
