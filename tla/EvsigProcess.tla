---------------------------- MODULE EvsigProcess ----------------------------
(***************************************************************************)
(* A process whose threads use the library: each lives as ThreadLife says  *)
(* and makes the calls of ThreadShutdownSignal that belong to its life -   *)
(* sig_init registers it, an unhandled signal raises SIGINT and asks for   *)
(* the shutdown, the last unwind_cleanup confirms.  There are threads with *)
(* sig_init(false), thread-local ones, and threads that use the shutdown   *)
(* signal alone, as the second thread of src/cli/main.c does.              *)
(*                                                                         *)
(* A step of a thread's life happens outside of library calls; a call it   *)
(* makes is a frame of ThreadShutdownSignal, whose steps then follow.      *)
(***************************************************************************)
EXTENDS ThreadShutdownSignal, ThreadLife

CONSTANTS
  Joining,       \* threads that may call sig_init(false)
  Local,         \* threads that may call sig_init(true)
  Polling,       \* threads that may use the shutdown signal alone
  CallbackOps,   \* what a callback calls, on the signal it is called for
  MaxTodo,       \* bound: actions on an unwind stack
  MaxRefs        \* bound: nested unwind_init calls

(* A callback may make the calls that begin by taking the lock; send_block   *)
(* would find the flag set and return.                                       *)
ASSUME ProcessAssumption ==
  /\ CallbackOps \subseteq {"register_thread", "confirm_shutdown", "register_cb",
                           "unregister_cb", "send_async"}
  /\ MaxTodo \in Nat /\ MaxRefs \in Nat \ {0}

VARIABLES
  life,     \* life[t]
  handled,  \* unwind_init has installed _sighandle_dispatch
  awaited   \* ghost: the threads registered when the flag was set

lifeVars == <<life, handled, awaited>>
procVars == <<vars, lifeVars>>

Lives ==
  [at : {"new", "registering", "local", "polling", "running", "unhandled", "raised", "asked",
         "cleaning", "dying", "leaving", "abandoned", "gone"},
   refs : 0 .. MaxRefs, todo : 0 .. MaxTodo]

ProcessInit ==
  /\ Init
  /\ life = [t \in Threads |-> [at |-> "new", refs |-> 0, todo |-> 0]]
  /\ handled = FALSE
  /\ awaited = {}

-----------------------------------------------------------------------------
(* What MaxEvents bounds here: OS signals, changes of the clock, callbacks  *)
(* and references to the unwind system that are held besides the first.     *)
Events ==
  Disturbances + last_id[Global]
  + Cardinality({t \in Threads : calls[t] # <<>> /\ calls[t][1].op = "register_cb"})
  + Cardinality({t \in Threads : life[t].refs > 1})

(* Outside of every library call *)
Idle(t) == status = "running" /\ calls[t] = <<>>

LifeIs(t, at) == Idle(t) /\ life[t].at = at

GoTo(t, at) == life' = [life EXCEPT ![t].at = at]

(* The lives of a thread that is there. *)
LivesAt(at) == [at : {at}, refs : 0 .. MaxRefs, todo : 0 .. MaxTodo]

(* The thread's life makes a step of ThreadLife, from one place to another. *)
Steps(t, from, to, Step(_, _)) ==
  /\ LifeIs(t, from)
  /\ \E m \in LivesAt(to) \ {life[t]} : Step(life[t], m) /\ life' = [life EXCEPT ![t] = m]

LibraryCall(t, op, arg) == calls' = [calls EXCEPT ![t] = <<Frame(op, Global, "lock", arg)>>]

Elsewhere == UNCHANGED <<listVars, flagVars, master, left, os_left, jumps_left, ghosts, awaited>>

(* A step that calls nothing of the shutdown signal. *)
Privately == Elsewhere /\ UNCHANGED <<calls, status, handled>>

(* A step that goes on with a call. *)
Calls(t, op, arg) == Elsewhere /\ UNCHANGED <<status, handled>> /\ LibraryCall(t, op, arg)

-----------------------------------------------------------------------------
(* A bug: the handlers are installed before the thread is registered. *)
SigInit_HandlersFirst(t) ==
  /\ LifeIs(t, "new")
  /\ \/ /\ t \in Joining /\ GoTo(t, "registering")
        /\ LibraryCall(t, "register_thread", t) /\ handled' = TRUE
        /\ Elsewhere /\ UNCHANGED status
     \/ t \in Local /\ GoTo(t, "local") /\ Privately

(* sig_init: a thread that is not thread-local registers itself first; *)
SigInit(t) ==
  /\ LifeIs(t, "new")
  /\ \/ t \in Joining /\ GoTo(t, "registering") /\ Calls(t, "register_thread", t)
     \/ t \in Local /\ GoTo(t, "local") /\ Privately

(* the stacks are set up, and unwind_init installs the OS signal handlers.   *)
InitUnwind(t) ==
  /\ LifeIs(t, "registering") \/ LifeIs(t, "local")
  /\ life' = [life EXCEPT ![t] = [at |-> "running", refs |-> 1, todo |-> 0]]
  /\ handled' = (handled \/ life[t].at = "registering")
  /\ Elsewhere /\ UNCHANGED <<calls, status>>

(* The life of a thread that only registers, polls and confirms. *)
StartPolling(t) ==
  /\ LifeIs(t, "new") /\ t \in Polling
  /\ GoTo(t, "polling")
  /\ Calls(t, "register_thread", t)

SeeShutdown(t) ==
  /\ LifeIs(t, "polling")
  /\ ShutdownP(Global)
  /\ GoTo(t, "leaving")
  /\ Calls(t, "confirm_shutdown", t)

Work(t) == Steps(t, "running", "running", Works) /\ Privately

CountReference(t) ==
  /\ Steps(t, "running", "running", CountsReferences)
  /\ life[t].refs > 1 \/ Events < MaxEvents
  /\ Privately

RegisterCallback(t) ==
  /\ LifeIs(t, "running")
  /\ Events < MaxEvents
  /\ UNCHANGED life
  /\ Calls(t, "register_cb", 0)

(* A handler chooses a restart that is not there: exit(1). *)
RestartFails(t) ==
  /\ LifeIs(t, "running")
  /\ status' = "failed"
  /\ Elsewhere /\ UNCHANGED <<calls, life, handled>>

-----------------------------------------------------------------------------
(* catchall_handler *)

ReachCatchAll(t) == Steps(t, "running", "unhandled", IsUnhandled) /\ Privately

HandleAfterAll(t) == Steps(t, "unhandled", "running", IsHandledAfterAll) /\ Privately

(* Every report fails and is reported in its turn, until the stack overflows *)
(* and SIGSEGV kills the process.                                            *)
ReportsOverflow(t) ==
  /\ LifeIs(t, "unhandled")
  /\ status' = "killed"
  /\ Elsewhere /\ UNCHANGED <<calls, life, handled>>

(* raise(SIGINT): the handler runs on this thread, or there is none and the  *)
(* process is killed.                                                        *)
RaiseSigint(t) ==
  \/ /\ handled
     /\ Steps(t, "unhandled", "raised", Raises)
     /\ Calls(t, "send_async", TRUE)
  \/ /\ ~handled
     /\ LifeIs(t, "unhandled")
     /\ status' = "killed"
     /\ Elsewhere /\ UNCHANGED <<calls, life, handled>>

(* unwind_all *)
UnwindAll(t) == Steps(t, "raised", "asked", Asks) /\ Calls(t, "send_async", TRUE)

(* sig_cleanup of the catch-all handler; of the thread itself *)
CatchallCleansUp(t) == Steps(t, "asked", "dying", CleansUp) /\ Privately
ThreadCleansUp(t) == Steps(t, "running", "cleaning", CleansUp) /\ Privately

Endings == {"cleaning", "dying"}

(* unwind_cleanup runs the topmost action that is left; scopes the action    *)
(* opens are closed again when it returns.                                   *)
RunAction(t) ==
  /\ \E at \in Endings : Steps(t, at, at, Works)
  /\ life'[t].todo = life[t].todo - 1
  /\ Privately

(* A bug: the thread leaves without a word. *)
Confirm_Forgotten(t) ==
  /\ \E at \in Endings : Steps(t, at, "leaving", Confirms)
  /\ Privately

Confirm(t) ==
  /\ \E at \in Endings : Steps(t, at, "leaving", Confirms)
  /\ Calls(t, "confirm_shutdown", t)

KeepReferences(t) ==
  /\ Steps(t, "cleaning", "running", GoesOn) \/ Steps(t, "dying", "abandoned", Abandons)
  /\ Privately

End(t) ==
  /\ \E at \in {"leaving", "abandoned"} : Steps(t, at, "gone", Ends)
  /\ Privately

-----------------------------------------------------------------------------
(* The OS delivers a signal from outside to any thread - the shutdown threads *)
(* block them all - and kills a process that has no handlers.                 *)
Deliver(t) ==
  /\ status = "running" /\ Events < MaxEvents
  /\ life[t].at \notin {"new", "gone"}
  /\ \/ handled /\ OsSignal(t)
     \/ /\ ~handled /\ os_left > 0
        /\ os_left' = os_left - 1
        /\ status' = "killed"
        /\ UNCHANGED <<listVars, flagVars, master, calls, left, jumps_left, ghosts>>
  /\ UNCHANGED lifeVars

(* A callback, called with the lock held, calls the library itself. *)
CallbackCalls(a) ==
  /\ IsAt(a, "send_block", "body")
  /\ callbacks[CurrentCall(a).s] # <<>> /\ cb_mem[CurrentCall(a).s] # "freed"
  /\ \E op \in CallbackOps :
       calls' = [calls EXCEPT ![a] = Append(@, Frame(op, CurrentCall(a).s, "lock", a))]
  /\ UNCHANGED <<listVars, flagVars, master, envVars, ghosts, lifeVars>>

(* The shutdown signal's own steps. *)
SignalStep(a) ==
  /\ calls[a] # <<>> /\ LibraryStep(a)
  /\ awaited' = IF shutdown'[Global] /\ ~shutdown[Global] THEN alive[Global] ELSE awaited
  /\ UNCHANGED <<life, handled>>

TimePasses == (Tick \/ (Events < MaxEvents /\ SetClock)) /\ UNCHANGED lifeVars

-----------------------------------------------------------------------------
(* What the library makes of a thread, without its own code's doing *)
LibraryRuns(t) ==
  /\ Idle(t)
  /\ \/ InitUnwind(t)
     \/ RaiseSigint(t) \/ UnwindAll(t) \/ CatchallCleansUp(t)
     \/ RunAction(t) \/ Confirm(t) \/ KeepReferences(t) \/ End(t)

ThreadDoes(t) ==
  /\ Idle(t)
  /\ \/ SigInit(t) \/ StartPolling(t) \/ SeeShutdown(t)
     \/ Work(t) \/ CountReference(t) \/ RegisterCallback(t) \/ RestartFails(t)
     \/ ReachCatchAll(t) \/ HandleAfterAll(t) \/ ReportsOverflow(t) \/ ThreadCleansUp(t)

ProcessNext ==
  \/ \E t \in Threads : LibraryRuns(t) \/ ThreadDoes(t) \/ Deliver(t)
  \/ \E a \in Actors : SignalStep(a) \/ CallbackCalls(a)
  \/ TimePasses

ProcessSpec == ProcessInit /\ [][ProcessNext]_procVars

(* Library code keeps running and time passes.  What a thread's own code     *)
(* does, whether it ever looks at the flag, is left open.                    *)
FairProcess ==
  /\ ProcessSpec
  /\ WF_procVars(Tick /\ UNCHANGED lifeVars)
  /\ \A a \in Actors : WF_procVars(SignalStep(a) \/ (a \in Threads /\ LibraryRuns(a)))

-----------------------------------------------------------------------------
(* Properties *)

(* The process ends in time only after every thread that was registered when *)
(* the flag was set - however it came to its end, whatever references it     *)
(* held - has run all its unwind actions.                                    *)
ActionsRunBeforeExit ==
  status = "exited" =>
    \A t \in awaited : life[t].at \in {"leaving", "gone"} /\ life[t].todo = 0

(* A thread that has ended after its last unwind_cleanup is not waited for.  *)
GoneIsNotAwaited ==
  \A t \in Threads :
    life[t].at = "gone" /\ life[t].refs = 0 => t \notin ToSet(threadlist[Global])

(* Once the OS signal handlers are installed a request to shut down finds a  *)
(* shutdown thread and is not taken back: no registration closes the gate.   *)
RequestsAreKept ==
  [][ handled /\ gate[Global] = 0 => started[Global] /\ gate'[Global] = 0 ]_procVars

(* A signal nobody handles in a thread of sig_init(false) ends the process,  *)
(* however many threads come and go meanwhile - unless its report was        *)
(* handled after all, or an OS signal or a callback waits for a lock of its  *)
(* own thread.                                                               *)
WaitsForItself(a) ==
  calls[a] # <<>> /\ CurrentCall(a).at = "lock" /\ master[CurrentCall(a).s] = a

UnhandledEndsProcess ==
  \A t \in Joining :
    (life[t].at \in {"unhandled", "raised"}) ~>
      (status # "running" \/ life[t].at = "running" \/ \E a \in Actors : WaitsForItself(a))

(* signals.h: with sig_init(true), "An unhandled signal means just the thread *)
(* will shut down" - neither its raise(SIGINT) nor its unwind_all asks for    *)
(* the shutdown of the process.                                              *)
LocalShutsDownAlone ==
  [][ \A t \in Local \ Joining :
        life[t].at \in {"raised", "asked"} /\ SendAsync(t) => sent[Global] ]_procVars
=============================================================================
