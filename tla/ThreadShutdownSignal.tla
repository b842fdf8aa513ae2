------------------------ MODULE ThreadShutdownSignal ------------------------
(***************************************************************************)
(* The shutdown signals of a process (src/libevsig/thread_shutdown_signal.c *)
(* and its header): threads register themselves and callbacks, somebody    *)
(* sends the signal, a shutdown thread started with the first registration *)
(* does the sending for callers that cannot block, waits for the           *)
(* registered threads to confirm and ends the process.                     *)
(*                                                                         *)
(* Each actor - an application thread or a shutdown thread - has a stack   *)
(* of library calls in progress; an OS signal handler runs on top of what  *)
(* it interrupted.  A critical section is two steps, taking master_mutex   *)
(* (the lock of EvsigLock, which EvsigMutex implements) and the body with  *)
(* the unlock; everything the code does outside of one is a step of its    *)
(* own.                                                                    *)
(***************************************************************************)
EXTENDS Integers, Sequences, SequencesExt, FiniteSetsExt

CONSTANTS
  Signals,     \* the evsig_thread_shutdown_signal objects
  Global,      \* evsig_global_thread_shutdown_signal
  Threads,     \* application threads
  Workers,     \* shutdown threads (a finished one may be started again)
  NoOne,       \* owner of a free master_mutex
  ListAlloc,   \* first allocation of a list (8)
  Timeout,     \* a sender's timeout, in ticks (5000 ms)
  Ops,         \* the calls the application makes
  MaxCalls,    \* bound: calls of the application's threads
  MaxOsSignals,\* bound: OS signals delivered
  MaxJumps,    \* bound: ticks the wall clock is set back or forward
  MaxEvents    \* bound: both together

ASSUME ShutdownAssumption ==
  /\ Global \in Signals
  /\ Threads \cap Workers = {}
  /\ NoOne \notin Threads \cup Workers
  /\ ListAlloc \in Nat \ {0}

Actors == Threads \cup Workers

VARIABLES
  shutdown,    \* shutdown[s]: the flag
  callbacks,   \* callbacks[s]: the ids in the list, callbacks_fill of them
  cb_mem,      \* cb_mem[s]: what the list's pointer is: "null", "live", "freed"
  cb_alloc,
  last_id,     \* callbacks_last_insert_id
  threadlist, tl_mem, tl_alloc,
  master,      \* master[s]: who holds master_mutex
  gate,        \* gate[s]: shutdown_mutex, 1 while closed
  started,     \* shutdown_thread_started
  exit_flag,   \* shutdown_thread_exit
  calls,       \* calls[a]: the library calls a is in, innermost last
  left,        \* calls the application may still make
  os_left,     \* OS signals that may still arrive
  jumps_left,  \* ticks the wall clock may still be set back or forward
  status,      \* the process
  alive,       \* alive[s]: threads registered and not confirmed since
  pending,     \* pending[s]: those alive when the flag was set, unconfirmed since
  owned,       \* owned[s]: callback ids registered and not unregistered since
  called,      \* called[s]: the callbacks invoked, one element per call
  sent         \* sent[s]: somebody asked for this signal to be sent

listVars == <<callbacks, cb_mem, cb_alloc, last_id, threadlist, tl_mem, tl_alloc>>
flagVars == <<shutdown, gate, started, exit_flag>>
envVars  == <<left, os_left, jumps_left, status>>
ghosts   == <<alive, pending, owned, called, sent>>
vars == <<listVars, flagVars, master, calls, envVars, ghosts>>

(* EVSIG_THREAD_SHUTDOWN_SIGNAL_INIT *)
Init ==
  /\ shutdown = [s \in Signals |-> FALSE]
  /\ callbacks = [s \in Signals |-> <<>>]
  /\ cb_mem = [s \in Signals |-> "null"]
  /\ cb_alloc = [s \in Signals |-> 0]
  /\ last_id = [s \in Signals |-> 0]
  /\ threadlist = [s \in Signals |-> <<>>]
  /\ tl_mem = [s \in Signals |-> "null"]
  /\ tl_alloc = [s \in Signals |-> 0]
  /\ master = [s \in Signals |-> NoOne]
  /\ gate = [s \in Signals |-> 1]
  /\ started = [s \in Signals |-> FALSE]
  /\ exit_flag = [s \in Signals |-> FALSE]
  /\ calls = [a \in Actors |-> <<>>]
  /\ left = MaxCalls
  /\ os_left = MaxOsSignals
  /\ jumps_left = MaxJumps
  /\ status = "running"
  /\ alive = [s \in Signals |-> {}]
  /\ pending = [s \in Signals |-> {}]
  /\ owned = [s \in Signals |-> {}]
  /\ called = [s \in Signals |-> <<>>]
  /\ sent = [s \in Signals |-> FALSE]

-----------------------------------------------------------------------------
(* Calls and critical sections *)

Frame(op, s, at, arg) ==
  [op |-> op, s |-> s, at |-> at, arg |-> arg, waited |-> 0, drift |-> 0]

CurrentCall(a) == calls[a][Len(calls[a])]

IsAt(a, op, at) ==
  /\ status = "running"
  /\ calls[a] # <<>>
  /\ CurrentCall(a).op = op /\ CurrentCall(a).at = at

GoOn(a, at) == [calls EXCEPT ![a][Len(calls[a])].at = at]
Return(a) == [calls EXCEPT ![a] = SubSeq(@, 1, Len(@) - 1)]

(* An application thread makes a call of its budget. *)
Call(t, op, s, at, arg) ==
  /\ status = "running"
  /\ op \in Ops
  /\ calls[t] = <<>> /\ left > 0
  /\ left' = left - 1
  /\ calls' = [calls EXCEPT ![t] = <<Frame(op, s, at, arg)>>]
  /\ UNCHANGED <<listVars, flagVars, master, os_left, jumps_left, status, ghosts>>

(* A bug: evsig_lock comes back without having taken the lock. *)
Locks_NoWait(a) ==
  /\ status = "running" /\ calls[a] # <<>> /\ CurrentCall(a).at = "lock"
  /\ master' = [master EXCEPT ![CurrentCall(a).s] = a]
  /\ calls' = GoOn(a, "body")
  /\ UNCHANGED <<listVars, flagVars, envVars, ghosts>>

(* The calls that are one critical section, up to taking the lock. *)
Locks(a) ==
  /\ status = "running" /\ calls[a] # <<>> /\ CurrentCall(a).at = "lock"
  /\ master[CurrentCall(a).s] = NoOne
  /\ master' = [master EXCEPT ![CurrentCall(a).s] = a]
  /\ calls' = GoOn(a, "body")
  /\ UNCHANGED <<listVars, flagVars, envVars, ghosts>>

Unlock(s) == master' = [master EXCEPT ![s] = NoOne]

(* A list is read, written, reallocated or freed that is not there. *)
UndefinedBehaviour ==
  /\ status' = "undefined"
  /\ UNCHANGED <<listVars, flagVars, master, calls, left, os_left, jumps_left, ghosts>>

(* A bug: growing one entry too late. *)
GrownAlloc_TooLate(fill, alloc) ==
  IF fill <= alloc /\ alloc # 0 THEN alloc
  ELSE IF alloc = 0 THEN ListAlloc ELSE 2 * alloc

(* A list grows when it is full, from nothing to its first allocation. *)
GrownAlloc(fill, alloc) ==
  IF fill < alloc THEN alloc ELSE IF alloc = 0 THEN ListAlloc ELSE 2 * alloc

(* The pointer of a list is no memory for its entries: freed, or already     *)
(* NULL while fill is not yet 0.                                             *)
Gone(mem, list) == mem = "freed" \/ (mem = "null" /\ list # <<>>)

(* The entry written next is inside the list, which realloc gives it if it   *)
(* grows: an alloc that a send has reset before fill is too small.           *)
HasRoom(mem, list, alloc) ==
  LET grown == GrownAlloc(Len(list), alloc)
  IN  Len(list) < grown /\ (mem = "null" => grown # alloc)

(* A bug: the last entry is dropped in place of x. *)
Without_Last(list, x) ==
  IF x \in ToSet(list) THEN SubSeq(list, 1, Len(list) - 1) ELSE list

(* The shifting loops of confirm_shutdown and unregister_cb: x is taken out   *)
(* wherever it is, an entry k moves down by the number shift(k) of those     *)
(* before it.                                                                *)
Without(list, x) ==
  LET shift(k) == Cardinality({j \in 1 .. k : list[j] = x})
      moves(i) == CHOOSE k \in 1 .. Len(list) : list[k] # x /\ k - shift(k) = i
  IN  [i \in 1 .. Len(list) - shift(Len(list)) |-> list[moves(i)]]

-----------------------------------------------------------------------------
(* evsig_thread_shutdown_signal_register_thread *)

CallRegisterThread(t, s) == Call(t, "register_thread", s, "lock", t)

(* A bug: the gate is closed although the shutdown thread is running. *)
StartWorker_ClosesGate(t, s) ==
  /\ started' = [started EXCEPT ![s] = TRUE]
  /\ gate' = [gate EXCEPT ![s] = 1]
  /\ IF started[s]
     THEN calls' = Return(t)
     ELSE \E w \in Workers :
            /\ calls[w] = <<>>
            /\ calls' = [Return(t) EXCEPT ![w] = <<Frame("worker", s, "await", w)>>]

(* The shutdown thread is started, its gate closed, unless it is running. *)
StartWorker(t, s) ==
  IF started[s]
  THEN calls' = Return(t) /\ UNCHANGED <<started, gate>>
  ELSE /\ started' = [started EXCEPT ![s] = TRUE]
       /\ gate' = [gate EXCEPT ![s] = 1]
       /\ \E w \in Workers :
            /\ calls[w] = <<>>
            /\ calls' = [Return(t) EXCEPT ![w] = <<Frame("worker", s, "await", w)>>]

RegisterThread(t) ==
  LET s == CurrentCall(t).s
  IN  /\ IsAt(t, "register_thread", "body")
      /\ ~Gone(tl_mem[s], threadlist[s])
      /\ \/ /\ t \in ToSet(threadlist[s])
            /\ calls' = Return(t)
            /\ UNCHANGED <<threadlist, tl_mem, tl_alloc, started, gate>>
         \/ /\ t \notin ToSet(threadlist[s])
            /\ HasRoom(tl_mem[s], threadlist[s], tl_alloc[s])
            /\ tl_alloc' = [tl_alloc EXCEPT ![s] = GrownAlloc(Len(threadlist[s]), @)]
            /\ tl_mem' = [tl_mem EXCEPT ![s] = "live"]
            /\ threadlist' = [threadlist EXCEPT ![s] = Append(@, t)]
            /\ StartWorker(t, s)
      /\ Unlock(s)
      /\ alive' = [alive EXCEPT ![s] = @ \cup {t}]
      /\ UNCHANGED <<callbacks, cb_mem, cb_alloc, last_id, shutdown, exit_flag, envVars,
                     pending, owned, called, sent>>

(* evsig_thread_shutdown_signal_confirm_shutdown *)

CallConfirm(t, s) == Call(t, "confirm_shutdown", s, "lock", t)

(* A bug: the allocation is forgotten although threads are left.             *)
ConfirmShutdown_ResetsAlloc(t) ==
  LET s    == CurrentCall(t).s
      rest == Without(threadlist[s], t)
  IN  /\ IsAt(t, "confirm_shutdown", "body")
      /\ ~Gone(tl_mem[s], threadlist[s])
      /\ threadlist' = [threadlist EXCEPT ![s] = rest]
      /\ tl_mem' = [tl_mem EXCEPT ![s] = IF rest = <<>> THEN "null" ELSE @]
      /\ tl_alloc' = [tl_alloc EXCEPT ![s] = 0]
      /\ Unlock(s)
      /\ calls' = Return(t)
      /\ alive' = [alive EXCEPT ![s] = @ \ {t}]
      /\ pending' = [pending EXCEPT ![s] = @ \ {t}]
      /\ UNCHANGED <<callbacks, cb_mem, cb_alloc, last_id, flagVars, envVars,
                     owned, called, sent>>

ConfirmShutdown(t) ==
  LET s    == CurrentCall(t).s
      rest == Without(threadlist[s], t)
  IN  /\ IsAt(t, "confirm_shutdown", "body")
      /\ ~Gone(tl_mem[s], threadlist[s])
      /\ threadlist' = [threadlist EXCEPT ![s] = rest]
      /\ tl_mem' = [tl_mem EXCEPT ![s] = IF rest = <<>> THEN "null" ELSE @]
      /\ tl_alloc' = [tl_alloc EXCEPT ![s] = IF rest = <<>> THEN 0 ELSE @]
      /\ Unlock(s)
      /\ calls' = Return(t)
      /\ alive' = [alive EXCEPT ![s] = @ \ {t}]
      /\ pending' = [pending EXCEPT ![s] = @ \ {t}]
      /\ UNCHANGED <<callbacks, cb_mem, cb_alloc, last_id, flagVars, envVars,
                     owned, called, sent>>

(* evsig_thread_shutdown_signal_register_cb *)

CallRegisterCb(t, s) == Call(t, "register_cb", s, "lock", 0)

RegisterCb(t) ==
  LET s == CurrentCall(t).s
  IN  /\ IsAt(t, "register_cb", "body")
      /\ ~Gone(cb_mem[s], callbacks[s])
      /\ HasRoom(cb_mem[s], callbacks[s], cb_alloc[s])
      /\ cb_alloc' = [cb_alloc EXCEPT ![s] = GrownAlloc(Len(callbacks[s]), @)]
      /\ cb_mem' = [cb_mem EXCEPT ![s] = "live"]
      /\ last_id' = [last_id EXCEPT ![s] = @ + 1]
      /\ callbacks' = [callbacks EXCEPT ![s] = Append(@, last_id[s] + 1)]
      /\ Unlock(s)
      /\ calls' = Return(t)
      /\ owned' = [owned EXCEPT ![s] = @ \cup {last_id[s] + 1}]
      /\ UNCHANGED <<threadlist, tl_mem, tl_alloc, flagVars, envVars,
                     alive, pending, called, sent>>

(* evsig_thread_shutdown_signal_unregister_cb *)

CallUnregisterCb(t, s) ==
  \E id \in owned[s] : Call(t, "unregister_cb", s, "lock", id)

UnregisterCb(t) ==
  LET s    == CurrentCall(t).s
      rest == Without(callbacks[s], CurrentCall(t).arg)
  IN  /\ IsAt(t, "unregister_cb", "body")
      /\ ~Gone(cb_mem[s], callbacks[s])
      /\ callbacks' = [callbacks EXCEPT ![s] = rest]
      /\ cb_mem' = [cb_mem EXCEPT ![s] = IF rest = <<>> THEN "null" ELSE @]
      /\ cb_alloc' = [cb_alloc EXCEPT ![s] = IF rest = <<>> THEN 0 ELSE @]
      /\ Unlock(s)
      /\ calls' = Return(t)
      /\ owned' = [owned EXCEPT ![s] = @ \ {CurrentCall(t).arg}]
      /\ UNCHANGED <<last_id, threadlist, tl_mem, tl_alloc, flagVars, envVars,
                     alive, pending, called, sent>>

-----------------------------------------------------------------------------
(* evsig_thread_shutdown_signal_send_async, by the application (unwind_all)  *)
(* or by the OS signal handler, which always asks for an exit                *)

CallSendAsync(t, s) ==
  \E exit \in BOOLEAN : Call(t, "send_async", s, "lock", exit)

Disturbances == (MaxOsSignals - os_left) + (MaxJumps - jumps_left)

(* _sighandle_dispatch interrupts thread t wherever it is. *)
OsSignal(t) ==
  /\ status = "running"
  /\ os_left > 0 /\ Disturbances < MaxEvents
  /\ os_left' = os_left - 1
  /\ calls' = [calls EXCEPT ![t] = Append(@, Frame("send_async", Global, "lock", TRUE))]
  /\ UNCHANGED <<listVars, flagVars, master, left, jumps_left, status, ghosts>>

SendAsync(t) ==
  LET s == CurrentCall(t).s
  IN  /\ IsAt(t, "send_async", "body")
      /\ exit_flag' = [exit_flag EXCEPT ![s] = CurrentCall(t).arg]
      /\ gate' = [gate EXCEPT ![s] = 0]
      /\ Unlock(s)
      /\ calls' = Return(t)
      /\ sent' = [sent EXCEPT ![s] = TRUE]
      /\ UNCHANGED <<listVars, shutdown, started, envVars, alive, pending, owned, called>>

-----------------------------------------------------------------------------
(* evsig_thread_shutdown_signal_send_block *)

CallSendBlock(t, s) == Call(t, "send_block", s, "check", 0)

(* Back to the application, or to the shutdown thread with what happened:    *)
(* "noop" (already sent), "done" or "timeout".                               *)
SendBlockReturns(a, how) ==
  calls' = IF a \in Workers
           THEN [calls EXCEPT ![a] = <<[@[1] EXCEPT !.at = "lock", !.arg = how]>>]
           ELSE Return(a)

AlreadySent(a) ==
  /\ IsAt(a, "send_block", "check")
  /\ shutdown[CurrentCall(a).s]
  /\ SendBlockReturns(a, "noop")
  /\ UNCHANGED <<listVars, flagVars, master, envVars, ghosts>>

NotYetSent(a) ==
  /\ IsAt(a, "send_block", "check")
  /\ ~shutdown[CurrentCall(a).s]
  /\ calls' = GoOn(a, "set")
  /\ UNCHANGED <<listVars, flagVars, master, envVars, ghosts>>

SetShutdown(a) ==
  LET s == CurrentCall(a).s
  IN  /\ IsAt(a, "send_block", "set")
      /\ shutdown' = [shutdown EXCEPT ![s] = TRUE]
      /\ calls' = GoOn(a, "lock")
      /\ pending' = [pending EXCEPT ![s] = alive[s]]
      /\ sent' = [sent EXCEPT ![s] = @ \/ a \in Threads]
      /\ UNCHANGED <<listVars, gate, started, exit_flag, master, envVars, alive, owned, called>>

(* A bug: the loop ends one callback early. *)
CallCallbacks_Misses(a) ==
  LET s == CurrentCall(a).s
  IN  /\ IsAt(a, "send_block", "body")
      /\ cb_mem[s] # "freed" \/ callbacks[s] = <<>>
      /\ called' = [called EXCEPT ![s] = @ \o SubSeq(callbacks[s], 1, Len(callbacks[s]) - 1)]
      /\ Unlock(s)
      /\ calls' = GoOn(a, "poll")
      /\ UNCHANGED <<listVars, flagVars, envVars, alive, pending, owned, sent>>

(* All callbacks are called with the lock held; then the clock is read.      *)
CallCallbacks(a) ==
  LET s == CurrentCall(a).s
  IN  /\ IsAt(a, "send_block", "body")
      /\ cb_mem[s] # "freed" \/ callbacks[s] = <<>>
      /\ called' = [called EXCEPT ![s] = @ \o callbacks[s]]
      /\ Unlock(s)
      /\ calls' = GoOn(a, "poll")
      /\ UNCHANGED <<listVars, flagVars, envVars, alive, pending, owned, sent>>

(* A bug: one thread left counts as none.                                    *)
Poll_OffByOne(a) ==
  LET s == CurrentCall(a).s
  IN  /\ IsAt(a, "send_block", "poll")
      /\ master[s] = NoOne
      /\ calls' = GoOn(a, IF Len(threadlist[s]) <= 1 THEN "free_cb" ELSE "sleep")
      /\ UNCHANGED <<listVars, flagVars, master, envVars, ghosts>>

(* One look at threadlist_fill, the lock taken and given back.               *)
Poll(a) ==
  LET s == CurrentCall(a).s
  IN  /\ IsAt(a, "send_block", "poll")
      /\ master[s] = NoOne
      /\ calls' = GoOn(a, IF threadlist[s] = <<>> THEN "free_cb" ELSE "sleep")
      /\ UNCHANGED <<listVars, flagVars, master, envVars, ghosts>>

(* evsig_time_ms()-start_ms >= timeout_ms: of the wall clock, which is set    *)
(* back and forward under the sender, and unsigned, so that a clock that is  *)
(* behind its start counts as an immense delay.                              *)
TimedOut(f) == f.waited + f.drift \notin 0 .. Timeout - 1

(* A bug: the timeout is never looked at. *)
Sleep_NoTimeout(a) ==
  /\ IsAt(a, "send_block", "sleep")
  /\ calls' = GoOn(a, "poll")
  /\ UNCHANGED <<listVars, flagVars, master, envVars, ghosts>>

Sleep(a) ==
  /\ IsAt(a, "send_block", "sleep")
  /\ calls' = IF TimedOut(CurrentCall(a))
              THEN [calls EXCEPT ![a][Len(calls[a])] = [@ EXCEPT !.at = "free_cb", !.arg = 1]]
              ELSE GoOn(a, "poll")
  /\ UNCHANGED <<listVars, flagVars, master, envVars, ghosts>>

(* The lists are freed and reset without the lock, one statement after the   *)
(* other; the pointer to the callbacks is left as it is.                     *)
FreeCallbacks(a) ==
  LET s == CurrentCall(a).s
  IN  /\ IsAt(a, "send_block", "free_cb")
      /\ cb_mem[s] # "freed"
      /\ cb_mem' = [cb_mem EXCEPT ![s] = IF @ = "live" THEN "freed" ELSE @]
      /\ calls' = GoOn(a, "reset_cb_alloc")
      /\ UNCHANGED <<callbacks, cb_alloc, last_id, threadlist, tl_mem, tl_alloc, flagVars,
                     master, envVars, ghosts>>

ResetCallbacksAlloc(a) ==
  LET s == CurrentCall(a).s
  IN  /\ IsAt(a, "send_block", "reset_cb_alloc")
      /\ cb_alloc' = [cb_alloc EXCEPT ![s] = 0]
      /\ calls' = GoOn(a, "reset_cb")
      /\ UNCHANGED <<callbacks, cb_mem, last_id, threadlist, tl_mem, tl_alloc, flagVars,
                     master, envVars, ghosts>>

ResetCallbacks(a) ==
  LET s == CurrentCall(a).s
  IN  /\ IsAt(a, "send_block", "reset_cb")
      /\ callbacks' = [callbacks EXCEPT ![s] = <<>>]
      /\ calls' = GoOn(a, "free_tl")
      /\ UNCHANGED <<cb_mem, cb_alloc, last_id, threadlist, tl_mem, tl_alloc, flagVars,
                     master, envVars, ghosts>>

FreeThreadlist(a) ==
  LET s == CurrentCall(a).s
  IN  /\ IsAt(a, "send_block", "free_tl")
      /\ tl_mem[s] # "freed"
      /\ tl_mem' = [tl_mem EXCEPT ![s] = IF @ = "live" THEN "freed" ELSE @]
      /\ calls' = GoOn(a, "forget_tl")
      /\ UNCHANGED <<callbacks, cb_mem, cb_alloc, last_id, threadlist, tl_alloc, flagVars,
                     master, envVars, ghosts>>

ForgetThreadlist(a) ==
  LET s == CurrentCall(a).s
  IN  /\ IsAt(a, "send_block", "forget_tl")
      /\ tl_mem' = [tl_mem EXCEPT ![s] = "null"]
      /\ calls' = GoOn(a, "reset_tl_alloc")
      /\ UNCHANGED <<callbacks, cb_mem, cb_alloc, last_id, threadlist, tl_alloc, flagVars,
                     master, envVars, ghosts>>

ResetThreadlistAlloc(a) ==
  LET s == CurrentCall(a).s
  IN  /\ IsAt(a, "send_block", "reset_tl_alloc")
      /\ tl_alloc' = [tl_alloc EXCEPT ![s] = 0]
      /\ calls' = GoOn(a, "reset_tl")
      /\ UNCHANGED <<callbacks, cb_mem, cb_alloc, last_id, threadlist, tl_mem, flagVars,
                     master, envVars, ghosts>>

ResetThreadlist(a) ==
  LET s == CurrentCall(a).s
  IN  /\ IsAt(a, "send_block", "reset_tl")
      /\ threadlist' = [threadlist EXCEPT ![s] = <<>>]
      /\ SendBlockReturns(a, IF CurrentCall(a).arg = 1 THEN "timeout" ELSE "done")
      /\ UNCHANGED <<callbacks, cb_mem, cb_alloc, last_id, tl_mem, tl_alloc, flagVars,
                     master, envVars, ghosts>>

(* evsig_thread_shutdown_p reads the global flag, whatever signal it is given *)
ShutdownP(s) == shutdown[Global]

-----------------------------------------------------------------------------
(* _shutdown_thread *)

(* How the process ended, by what send_block did before. *)
Exited == [done |-> "exited", timeout |-> "exited_late", noop |-> "exited_unsent"]

(* A bug: a shutdown thread that does not wait for its gate. *)
SeeGateOpen_NoWait(w) ==
  /\ IsAt(w, "worker", "await")
  /\ calls' = [calls EXCEPT ![w] = <<[@[1] EXCEPT !.at = "sending"],
                                    Frame("send_block", Global, "check", 0)>>]
  /\ UNCHANGED <<listVars, flagVars, master, envVars, ghosts>>

(* Once the gate is open the global signal is sent, whatever this one is.    *)
SeeGateOpen(w) ==
  /\ IsAt(w, "worker", "await")
  /\ gate[CurrentCall(w).s] = 0
  /\ calls' = [calls EXCEPT ![w] = <<[@[1] EXCEPT !.at = "sending"],
                                    Frame("send_block", Global, "check", 0)>>]
  /\ UNCHANGED <<listVars, flagVars, master, envVars, ghosts>>

(* A bug: the shutdown thread forgets to say that it is gone. *)
WorkerFinishes_StaysStarted(w) ==
  LET s == CurrentCall(w).s
  IN  /\ IsAt(w, "worker", "body")
      /\ \/ /\ exit_flag[s]
            /\ status' = Exited[CurrentCall(w).arg]
            /\ UNCHANGED <<gate, started, master, calls>>
         \/ /\ ~exit_flag[s]
            /\ gate' = [gate EXCEPT ![s] = 1]
            /\ Unlock(s)
            /\ calls' = Return(w)
            /\ UNCHANGED <<status, started>>
      /\ UNCHANGED <<listVars, shutdown, exit_flag, left, os_left, jumps_left, ghosts>>

(* It ends the process, with the lock held, or closes its gate and itself    *)
(* ends.                                                                     *)
WorkerFinishes(w) ==
  LET s == CurrentCall(w).s
  IN  /\ IsAt(w, "worker", "body")
      /\ \/ /\ exit_flag[s]
            /\ status' = Exited[CurrentCall(w).arg]
            /\ UNCHANGED <<gate, started, master, calls>>
         \/ /\ ~exit_flag[s]
            /\ gate' = [gate EXCEPT ![s] = 1]
            /\ started' = [started EXCEPT ![s] = FALSE]
            /\ Unlock(s)
            /\ calls' = Return(w)
            /\ UNCHANGED status
      /\ UNCHANGED <<listVars, shutdown, exit_flag, left, os_left, jumps_left, ghosts>>

-----------------------------------------------------------------------------
(* A step on a list that a send is freeing or resetting or has freed. *)
UseAfterFree(a) ==
  LET f == CurrentCall(a)
  IN  /\ status = "running" /\ calls[a] # <<>>
      /\ \/ /\ f.op \in {"register_thread", "confirm_shutdown"} /\ f.at = "body"
            /\ Gone(tl_mem[f.s], threadlist[f.s])
         \/ /\ f.op = "register_thread" /\ f.at = "body"
            /\ a \notin ToSet(threadlist[f.s])
            /\ ~HasRoom(tl_mem[f.s], threadlist[f.s], tl_alloc[f.s])
         \/ /\ f.op \in {"register_cb", "unregister_cb"} /\ f.at = "body"
            /\ Gone(cb_mem[f.s], callbacks[f.s])
         \/ /\ f.op = "register_cb" /\ f.at = "body"
            /\ ~HasRoom(cb_mem[f.s], callbacks[f.s], cb_alloc[f.s])
         \/ /\ f.op = "send_block" /\ f.at = "body"
            /\ cb_mem[f.s] = "freed" /\ callbacks[f.s] # <<>>
         \/ f.op = "send_block" /\ f.at = "free_cb" /\ cb_mem[f.s] = "freed"
         \/ f.op = "send_block" /\ f.at = "free_tl" /\ tl_mem[f.s] = "freed"
      /\ UndefinedBehaviour

Waiting(a) == IsAt(a, "send_block", "poll") \/ IsAt(a, "send_block", "sleep")

(* Time passes for the senders that wait; nothing else looks at the clock.   *)
(* What is longer than the timeout and all jumps to come does not matter.    *)
Awaits(a) ==
  Waiting(a) /\ CurrentCall(a).waited + CurrentCall(a).drift < Timeout + jumps_left

Tick ==
  /\ \E a \in Actors : Awaits(a)
  /\ calls' = [a \in Actors |->
       IF Awaits(a) THEN [calls[a] EXCEPT ![Len(calls[a])].waited = @ + 1] ELSE calls[a]]
  /\ UNCHANGED <<listVars, flagVars, master, envVars, ghosts>>

(* The wall clock is set back or forward (settimeofday, NTP). *)
SetClock ==
  /\ jumps_left > 0 /\ Disturbances < MaxEvents
  /\ \E a \in Actors : Waiting(a)
  /\ jumps_left' = jumps_left - 1
  /\ \E jump \in {-1, 1} :
       calls' = [a \in Actors |->
         IF Waiting(a) THEN [calls[a] EXCEPT ![Len(calls[a])].drift = @ + jump] ELSE calls[a]]
  /\ UNCHANGED <<listVars, flagVars, master, left, os_left, status, ghosts>>

(* Nothing is left to do: the process has ended, or every call has returned  *)
(* and what shutdown threads there are wait for their gate.                  *)
Quiet ==
  \/ status # "running"
  \/ /\ \A t \in Threads : calls[t] = <<>>
     /\ \A w \in Workers : calls[w] # <<>> =>
          CurrentCall(w).at = "await" /\ gate[CurrentCall(w).s] = 1

Stutter == Quiet /\ UNCHANGED vars

-----------------------------------------------------------------------------
ThreadCalls(t, s) ==
  \/ CallRegisterThread(t, s) \/ CallConfirm(t, s)
  \/ CallRegisterCb(t, s) \/ CallUnregisterCb(t, s)
  \/ CallSendAsync(t, s) \/ CallSendBlock(t, s)

SendBlockStep(a) ==
  /\ calls[a] # <<>> /\ CurrentCall(a).op = "send_block"
  /\ \/ AlreadySent(a) \/ NotYetSent(a) \/ SetShutdown(a) \/ CallCallbacks(a)
     \/ Poll(a) \/ Sleep(a)
     \/ FreeCallbacks(a) \/ ResetCallbacksAlloc(a) \/ ResetCallbacks(a)
     \/ FreeThreadlist(a) \/ ForgetThreadlist(a) \/ ResetThreadlistAlloc(a)
     \/ ResetThreadlist(a)

ThreadStep(t) ==
  \/ RegisterThread(t) \/ ConfirmShutdown(t)
  \/ RegisterCb(t) \/ UnregisterCb(t) \/ SendAsync(t)

WorkerStep(w) == SeeGateOpen(w) \/ WorkerFinishes(w)

LibraryStep(a) ==
  \/ Locks(a) \/ SendBlockStep(a) \/ UseAfterFree(a)
  \/ a \in Threads /\ ThreadStep(a)
  \/ a \in Workers /\ WorkerStep(a)

Next ==
  \/ \E t \in Threads, s \in Signals : ThreadCalls(t, s)
  \/ \E t \in Threads : OsSignal(t)
  \/ \E a \in Actors : LibraryStep(a)
  \/ Tick \/ SetClock
  \/ Stutter

Spec == Init /\ [][Next]_vars

(* A thread inside the library keeps running, and time passes.  Whether and  *)
(* when the application calls is its own affair.                             *)
FairSpec == Spec /\ WF_vars(Tick) /\ \A a \in Actors : WF_vars(LibraryStep(a))

-----------------------------------------------------------------------------
(* Properties *)

(* A send has set the allocation of a list to 0 and not yet its fill. *)
HalfReset(s, at) ==
  \E a \in Actors : \E k \in DOMAIN calls[a] : calls[a][k].at = at /\ calls[a][k].s = s

TypeOK ==
  /\ shutdown \in [Signals -> BOOLEAN] /\ started \in [Signals -> BOOLEAN]
  /\ exit_flag \in [Signals -> BOOLEAN] /\ sent \in [Signals -> BOOLEAN]
  /\ gate \in [Signals -> {0, 1}]
  /\ master \in [Signals -> Actors \cup {NoOne}]
  /\ cb_mem \in [Signals -> {"null", "live", "freed"}]
  /\ tl_mem \in [Signals -> {"null", "live", "freed"}]
  /\ alive \in [Signals -> SUBSET Threads] /\ pending \in [Signals -> SUBSET Threads]
  /\ \A s \in Signals :
       /\ threadlist[s] \in Seq(Threads) /\ callbacks[s] \in Seq(1 .. last_id[s])
       /\ Len(threadlist[s]) <= tl_alloc[s] \/ HalfReset(s, "reset_tl")
       /\ Len(callbacks[s]) <= cb_alloc[s] \/ HalfReset(s, "reset_cb")
  /\ status \in {"running", "undefined"} \cup {Exited[how] : how \in DOMAIN Exited}

(* Threads and callbacks come and go in any order without a list being read  *)
(* or written outside its memory, until a send frees it.                     *)
DefinedUntilSent == status = "undefined" => \E s \in Signals : shutdown[s]

(* Until a signal is sent, its lists hold exactly the threads that have      *)
(* registered and not confirmed and the callbacks registered and not         *)
(* unregistered, each once, callbacks in the order of registration; and a    *)
(* list has memory exactly while it has entries.                             *)
ListsExact ==
  \A s \in Signals : ~shutdown[s] =>
    /\ ToSet(threadlist[s]) = alive[s] /\ Len(threadlist[s]) = Cardinality(alive[s])
    /\ ToSet(callbacks[s]) = owned[s] /\ Len(callbacks[s]) = Cardinality(owned[s])
    /\ \A i, j \in 1 .. Len(callbacks[s]) : i < j => callbacks[s][i] < callbacks[s][j]
    /\ tl_mem[s] = (IF alive[s] = {} THEN "null" ELSE "live")
    /\ cb_mem[s] = (IF owned[s] = {} THEN "null" ELSE "live")

(* A send calls exactly the callbacks that are registered at that moment:    *)
(* none whose unregister_cb has returned - its userdata may be gone - and    *)
(* none is forgotten.                                                        *)
CallsTheRegistered ==
  [][ \A s \in Signals : called'[s] # called[s] =>
        ToSet(SubSeq(called'[s], Len(called[s]) + 1, Len(called'[s]))) = owned[s] ]_vars

(* A signal has a shutdown thread exactly while started says so, and never   *)
(* two - not even while one is ending and threads come and go.               *)
OneWorker ==
  \A s \in Signals :
    Cardinality({w \in Workers : calls[w] # <<>> /\ calls[w][1].s = s})
      = IF started[s] THEN 1 ELSE 0

(* Of two actors, never both are inside the critical sections of a signal,   *)
(* and master_mutex is held exactly by the one who is.                       *)
InCriticalSection(a, s) ==
  \E k \in DOMAIN calls[a] : calls[a][k].at = "body" /\ calls[a][k].s = s

LockHeldInside ==
  \A s \in Signals, a \in Actors : master[s] = a <=> InCriticalSection(a, s)

(* The flag of a signal is set only after somebody asked for that signal.    *)
ShutdownWasSent == \A s \in Signals : shutdown[s] => sent[s]

(* When the process ends after a send that did not time out, every thread    *)
(* that was registered when the flag was set has confirmed: its unwind       *)
(* actions have run.                                                         *)
CleanExit == status = "exited" => pending[Global] = {}

(* The signal implements the protocol of ShutdownProtocol: threads join and  *)
(* leave the list one at a time and by their own calls only, the flag is set *)
(* once and on request, who is in the list at that moment is who is waited   *)
(* for, and only after that the list is emptied and the process ended.       *)
Protocol == INSTANCE ShutdownProtocol WITH
  members   <- ToSet(threadlist[Global]),
  requested <- sent[Global],
  flag      <- shutdown[Global],
  awaited   <- pending[Global],
  outcome   <- CASE status = "exited" -> "clean"
                 [] status \in {"exited_late", "exited_unsent"} -> "forced"
                 [] OTHER -> status

ImplementsProtocol == Protocol!Spec

(* thread_shutdown_signal.h, send_block: it blocks until the timeout has     *)
(* elapsed.                                                                  *)
TimeoutIsFull ==
  \A a \in Actors : \A k \in DOMAIN calls[a] :
    calls[a][k].op = "send_block" /\ calls[a][k].arg = 1 => calls[a][k].waited >= Timeout

(* An open gate is acted on: the shutdown thread sends, waits - at most the  *)
(* timeout, whatever the threads do - and ends itself or the process.        *)
ShutdownCompletes ==
  \A s \in Signals :
    (started[s] /\ gate[s] = 0) ~>
      (status # "running" \/ (shutdown[Global] /\ ~started[s]))

(* Every call of the library returns, the blocking send included.            *)
CallsReturn ==
  \A t \in Threads : (calls[t] # <<>>) ~> (calls[t] = <<>> \/ status # "running")

(* thread_shutdown_signal.h, send_async: "Async-handler safe."               *)
AsyncHandlerSafe ==
  ~ \E t \in Threads : calls[t] # <<>> /\ CurrentCall(t).at = "lock"
                        /\ master[CurrentCall(t).s] = t

(* thread_shutdown_signal.h, send_block frees the resources; register_cb and *)
(* unregister_cb may be called from any thread.                              *)
NoUndefinedBehaviour == status # "undefined"

(* thread_shutdown_signal.h: "resending the signal is a no-op".              *)
CallbacksCalledOnce ==
  \A s \in Signals : Len(called[s]) = Cardinality(ToSet(called[s]))

(* thread_shutdown_signal.h, send_async: with exit_process it waits up to 5  *)
(* seconds for all threads to confirm.                                       *)
ExitAwaitsThreads == status \in {"exited", "exited_unsent"} => pending[Global] = {}

(* thread_shutdown_signal.h, send_async: "Sends the shutdown signal".        *)
AsyncSends ==
  \A s \in Signals : sent[s] ~> (shutdown[s] \/ status # "running")

(* thread_shutdown_signal.h, send_async: with exit_process, once all threads *)
(* have confirmed or the timeout has passed, the process exits.              *)
ExitHonoured ==
  \A s \in Signals :
    (started[s] /\ gate[s] = 0 /\ exit_flag[s]) ~> status # "running"
=============================================================================
