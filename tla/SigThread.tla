------------------------------ MODULE SigThread ------------------------------
(***************************************************************************)
(* One thread that uses the signal system and the unwind system            *)
(* (src/libevsig/signals.c, unwind.c and the macros of _signals.h and      *)
(* unwind.h).  Everything here is thread-local, so its steps interleave    *)
(* with nobody's; what is hard is the control flow: handlers, unwind       *)
(* actions and restart code are user code that may again push, send,       *)
(* unwind and leave scopes, and longjmp skips whatever is in between.      *)
(*                                                                         *)
(* The C call stack is the sequence `stack` of frames, of these kinds:     *)
(*   main           the thread's own code                                  *)
(*   action         the scope of an UNWIND_ACTION (always) or of an        *)
(*                  EXPLICIT_UNWIND_ACTION (not always)                    *)
(*   handler        the scope of a SIG_AUTOPOP_HANDLER                     *)
(*   point          the scope of a return point: UNWIND_RETURN_POINT       *)
(*                  (mode plain), SIG_PROVIDE_RESTART (mode block) or      *)
(*                  SIG_AUTOPOP_RESTART (mode autopop)                     *)
(*   handler_body, action_body   a user function being run                 *)
(*   send, unwind, catchall, cleanup   an activation of _sig_send, _unwind,*)
(*                  catchall_handler or unwind_cleanup with its locals     *)
(***************************************************************************)
EXTENDS Integers, SequencesExt, SigStacks, ThreadLife

CONSTANTS
  SIGNAL_ALL, SIGNAL_FAIL, SIGNAL_NO_SIG_HANDLER,  \* signal types
  HandlerSigs,      \* the types the thread pushes handlers for
  NullHandlers,     \* it may also give SIG_AUTOPOP_HANDLER a NULL handler
  Asserts,          \* the types it gives SIG_ASSERT_HANDLER
  RestartSigs,      \* the types it provides restarts for
  Restarts,         \* restart types
  SIG_RESTART_NULL, \* a handler's "not mine"
  Modes,            \* the kinds of return points the thread uses
  Datas,            \* what is sent along: "none", "valid" (with a cleanup function)
  Acts,             \* names of the unwind actions of user code
  SigintTerminates, \* no handler for SIGINT is installed in this process
  MaxDepth,         \* bound: frames on the C stack
  MaxReports,       \* bound: catch-all handlers in each other that the C stack holds
  MaxPersistent,    \* bound: persistent handlers held at a time
  MaxId,            \* bound: ids of persistent handlers
  MaxRefs           \* bound: nested unwind_init calls

ASSUME SigThreadAssumption ==
  /\ SIG_RESTART_NULL \notin Restarts
  /\ SigintTerminates \in BOOLEAN /\ NullHandlers \in BOOLEAN
  /\ Modes \subseteq {"plain", "block", "autopop"}
  /\ MaxRefs \in Nat \ {0}

VARIABLES
  stack,              \* the C call stack, a sequence of frames
  sig_handler_stack, sig_restart_stack, unwind_stack,
  sig_stacks,         \* the memory of the two signal stacks: "live" or "freed"
  unwind_init_ref,
  held,               \* ids of SIG_PERSISTENT_HANDLERs the user has not removed
  shutdown_sent,      \* unwind_all was called
  confirmed,          \* the thread confirmed its shutdown
  runs,               \* runs[n]: how often action n was started since it was pushed
  status

vars == <<stack, sig_handler_stack, sig_restart_stack, unwind_stack, sig_stacks,
          unwind_init_ref, held, shutdown_sent, confirmed, runs, status>>

sigVars  == <<sig_handler_stack, sig_restart_stack, sig_stacks, held>>
exitVars == <<unwind_init_ref, shutdown_sent, confirmed, status>>

NoId == -1   \* a plain return point provides no restart

CatchAll == [sig |-> SIGNAL_ALL, id |-> 1, catchall |-> TRUE]

(* sig_init: empty stacks, the catch-all handler below every other one.     *)
Init ==
  /\ stack = <<[k |-> "main"]>>
  /\ sig_handler_stack = Push(EmptyStack, CatchAll)
  /\ sig_restart_stack = EmptyStack
  /\ unwind_stack = EmptyStack
  /\ sig_stacks = "live"
  /\ unwind_init_ref = 1
  /\ held = {}
  /\ shutdown_sent = FALSE
  /\ confirmed = FALSE
  /\ runs = [n \in Acts |-> 0]
  /\ status = "running"

-----------------------------------------------------------------------------
Top == stack[Len(stack)]
Below == SubSeq(stack, 1, Len(stack) - 1)
Call(f) == stack' = Append(stack, f)
Return == stack' = Below

(* User code runs: the thread's own, a handler's, an action's or a restart's *)
UserRuns ==
  /\ status = "running"
  /\ Top.k \in {"main", "action", "handler", "point", "handler_body", "action_body"}

(* ... and may open one more scope or call into the library.                 *)
UserCalls == UserRuns /\ Len(stack) < MaxDepth

Matches(e, sig) == e.sig \in {sig, SIGNAL_ALL}

Pop(st) == [st EXCEPT !.mem = SubSeq(@, 1, st.fill - 1), !.fill = @ - 1]

Started(n) == [runs EXCEPT ![n] = IF @ < 2 THEN @ + 1 ELSE @]

(* A slot above fill is only ever read by a _sig_send whose loop index is    *)
(* still that high: the other ones are forgotten.                            *)
Reachable(st) ==
  LET looked(i) == \E k \in DOMAIN stack : stack[k].k = "send" /\ i <= stack[k].i
  IN  [mem   |-> [i \in {j \in DOMAIN st.mem : j <= st.fill \/ looked(j)} |-> st.mem[i]],
       fill  |-> st.fill,
       alloc |-> st.alloc]

RmHandler(id) ==
  sig_handler_stack' = IF id = 0 THEN sig_handler_stack
                       ELSE Reachable(RemoveId(sig_handler_stack, id))

RmRestart(id) == sig_restart_stack' = Reachable(RemoveId(sig_restart_stack, id))

(* Reading or writing the signal stacks after they were freed.               *)
UndefinedBehaviour ==
  /\ status' = "undefined"
  /\ UNCHANGED <<stack, sigVars, unwind_stack, unwind_init_ref, shutdown_sent,
                 confirmed, runs>>

(* The call e->h(e->userdata) of an unwind stack entry, the frames on the C  *)
(* stack being fs: a user function starts, or the entry removes what its     *)
(* scope put on a signal stack.                                              *)
CallAction(e, fs, base) ==
  \/ /\ e.h = "user"
     /\ stack' = Append(fs, [k |-> "action_body", n |-> e.arg, base |-> base])
     /\ runs' = Started(e.arg)
     /\ UNCHANGED sigVars
  \/ /\ e.h = "rm_handler"
     /\ stack' = fs
     /\ RmHandler(e.arg)
     /\ UNCHANGED <<sig_restart_stack, sig_stacks, held, runs>>
  \/ /\ e.h = "rm_restart"
     /\ stack' = fs
     /\ RmRestart(e.arg)
     /\ UNCHANGED <<sig_handler_stack, sig_stacks, held, runs>>

(* Such a call reads freed memory; _sig_rm_handler returns early for id 0.   *)
TouchesFreed(e) == sig_stacks = "freed" /\ e.h # "user" /\ <<e.h, e.arg>> # <<"rm_handler", 0>>

-----------------------------------------------------------------------------
(* Scopes opened and left by user code *)

NamesInUse == {stack[k].n : k \in {j \in DOMAIN stack : stack[j].k \in {"action", "action_body"}}}

UnwindAction(n, always) ==
  /\ UserCalls
  /\ n \notin NamesInUse
  /\ Call([k |-> "action", n |-> n, always |-> always])
  /\ unwind_stack' = Push(unwind_stack, [h |-> "user", arg |-> n])
  /\ runs' = [runs EXCEPT ![n] = 0]
  /\ UNCHANGED <<sigVars, exitVars>>

PushHandler(sig) ==
  sig_handler_stack' = Push(sig_handler_stack,
    [sig |-> sig, id |-> NextId(sig_handler_stack, 1), catchall |-> FALSE])

AutopopHandler(sig) ==
  LET id == NextId(sig_handler_stack, 1)
  IN  /\ UserCalls
      /\ sig_stacks = "live"
      /\ PushHandler(sig)
      /\ unwind_stack' = Push(unwind_stack, [h |-> "rm_handler", arg |-> id])
      /\ Call([k |-> "handler", id |-> id])
      /\ UNCHANGED <<sig_restart_stack, sig_stacks, held, runs, exitVars>>

(* A NULL handler is not pushed; the action that removes it is, with id 0.   *)
AutopopNullHandler ==
  /\ UserCalls
  /\ unwind_stack' = Push(unwind_stack, [h |-> "rm_handler", arg |-> 0])
  /\ Call([k |-> "handler", id |-> 0])
  /\ UNCHANGED <<sigVars, runs, exitVars>>

(* The restart of the point at position p of the C stack goes onto the       *)
(* restart stack, the action that removes it onto the unwind stack.          *)
PushRestart(sig, rst, p) ==
  LET id == NextId(sig_restart_stack, 0)
  IN  /\ sig_restart_stack' = Push(sig_restart_stack,
                                   [sig |-> sig, rst |-> rst, p |-> p, id |-> id])
      /\ unwind_stack' = Push(unwind_stack, [h |-> "rm_restart", arg |-> id])

(* A bug: the return point is set up after its restart was pushed, so the    *)
(* restart's removal is below it.                                            *)
ProvideRestart_PushFirst(mode, sig, rst) ==
  /\ UserCalls
  /\ sig_stacks = "live"
  /\ PushRestart(sig, rst, Len(stack) + 1)
  /\ Call([k |-> "point", mode |-> mode, sig |-> sig, rst |-> rst, returned |-> FALSE,
           to |-> unwind_stack.fill + 1, id |-> NextId(sig_restart_stack, 0)])
  /\ UNCHANGED <<sig_handler_stack, sig_stacks, held, runs, exitVars>>

ProvideRestart(mode, sig, rst) ==
  /\ UserCalls
  /\ sig_stacks = "live"
  /\ PushRestart(sig, rst, Len(stack) + 1)
  /\ Call([k |-> "point", mode |-> mode, sig |-> sig, rst |-> rst, returned |-> FALSE,
           to |-> unwind_stack.fill, id |-> NextId(sig_restart_stack, 0)])
  /\ UNCHANGED <<sig_handler_stack, sig_stacks, held, runs, exitVars>>

ReturnPoint ==
  /\ UserCalls
  /\ Call([k |-> "point", mode |-> "plain", returned |-> FALSE,
           to |-> unwind_stack.fill, id |-> NoId])
  /\ UNCHANGED <<unwind_stack, sigVars, runs, exitVars>>

(* After an autopop restart's code has run, control continues below the      *)
(* setjmp and provides the restart once more.                                *)
ReprovideRestart ==
  /\ UserRuns
  /\ Top.k = "point" /\ Top.mode = "autopop" /\ Top.returned
  /\ sig_stacks = "live"
  /\ PushRestart(Top.sig, Top.rst, Len(stack))
  /\ stack' = [stack EXCEPT ![Len(stack)].returned = FALSE,
                            ![Len(stack)].id = NextId(sig_restart_stack, 0)]
  /\ UNCHANGED <<sig_handler_stack, sig_stacks, held, runs, exitVars>>

(* What a scope has put on the unwind stack, which it also keeps in a local. *)
HasEntry(f) ==
  \/ f.k \in {"action", "handler"}
  \/ f.k = "point" /\ f.mode # "plain" /\ ~f.returned

EntryOf(f) ==
  CASE f.k = "action"  -> [h |-> "user", arg |-> f.n]
    [] f.k = "handler" -> [h |-> "rm_handler", arg |-> f.id]
    [] f.k = "point"   -> [h |-> "rm_restart", arg |-> f.id]

Explicit(f) == f.k = "action" /\ ~f.always

(* A bug: unwind_run_handler without its unwind_stack_fill--.                *)
LeaveScope_KeepsEntry ==
  /\ UserRuns
  /\ HasEntry(Top) /\ ~Explicit(Top)
  /\ ~TouchesFreed(EntryOf(Top))
  /\ CallAction(EntryOf(Top), Below, unwind_stack.fill - 1)
  /\ UNCHANGED <<unwind_stack, exitVars>>

(* The scope of an action, handler or restart is left: unwind_run_handler    *)
(* takes the top entry off the stack, then calls its own.                    *)
LeaveScope ==
  /\ UserRuns
  /\ HasEntry(Top) /\ ~Explicit(Top)
  /\ ~TouchesFreed(EntryOf(Top))
  /\ unwind_stack' = Pop(unwind_stack)
  /\ CallAction(EntryOf(Top), Below, unwind_stack.fill - 1)
  /\ UNCHANGED exitVars

(* A bug: unwind_rm_handler calls the handler it removes.                    *)
LeaveExplicitScope_Runs ==
  /\ UserRuns
  /\ Explicit(Top)
  /\ unwind_stack' = Pop(unwind_stack)
  /\ CallAction(EntryOf(Top), Below, unwind_stack.fill - 1)
  /\ UNCHANGED exitVars

(* unwind_rm_handler drops the entry of an explicit action without a call.   *)
LeaveExplicitScope ==
  /\ UserRuns
  /\ Explicit(Top)
  /\ unwind_stack' = Pop(unwind_stack)
  /\ Return
  /\ UNCHANGED <<sigVars, runs, exitVars>>

(* A plain point has no entry, a point that was returned to has none left.   *)
LeavePoint ==
  /\ UserRuns
  /\ Top.k = "point" /\ (Top.mode = "plain" \/ Top.returned)
  /\ Return
  /\ UNCHANGED <<unwind_stack, sigVars, runs, exitVars>>

(* A bug: the entry of an action that unwind_cleanup ran stays.              *)
ActionReturns_KeepsEntry ==
  /\ UserRuns
  /\ Top.k = "action_body"
  /\ Return
  /\ UNCHANGED <<unwind_stack, sigVars, runs, exitVars>>

ActionReturns ==
  /\ UserRuns
  /\ Top.k = "action_body"
  /\ Return
  /\ unwind_stack' = IF stack[Len(stack) - 1].k = "cleanup" THEN Pop(unwind_stack)
                     ELSE unwind_stack
  /\ UNCHANGED <<sigVars, runs, exitVars>>

PersistentHandler(sig) ==
  /\ UserRuns
  /\ sig_stacks = "live"
  /\ Cardinality(held) < MaxPersistent
  /\ NextId(sig_handler_stack, 1) <= MaxId
  /\ PushHandler(sig)
  /\ held' = held \cup {NextId(sig_handler_stack, 1)}
  /\ UNCHANGED <<stack, sig_restart_stack, sig_stacks, unwind_stack, runs, exitVars>>

RmPersistentHandler(id) ==
  /\ UserRuns
  /\ sig_stacks = "live"
  /\ RmHandler(id)
  /\ held' = held \ {id}
  /\ UNCHANGED <<stack, sig_restart_stack, sig_stacks, unwind_stack, runs, exitVars>>

UnwindInit ==
  /\ UserRuns
  /\ unwind_init_ref \in 1 .. MaxRefs - 1
  /\ unwind_init_ref' = unwind_init_ref + 1
  /\ UNCHANGED <<stack, sigVars, unwind_stack, shutdown_sent, confirmed, runs, status>>

(* The user's unwind_cleanup for an unwind_init of its own.                  *)
UnwindRelease ==
  /\ UserRuns
  /\ unwind_init_ref > 1
  /\ unwind_init_ref' = unwind_init_ref - 1
  /\ UNCHANGED <<stack, sigVars, unwind_stack, shutdown_sent, confirmed, runs, status>>

-----------------------------------------------------------------------------
(* _unwind *)

UnwindFrame(p) == [k |-> "unwind", i |-> unwind_stack.fill, p |-> p]

(* UNWIND of a point of the user's own.  The function of an action unwinds   *)
(* only to points that were there when it was registered, or to its own.     *)
MayUnwindTo(p) ==
  \A b \in p + 1 .. Len(stack) :
    stack[b].k = "action_body" => stack[p].to <= stack[b].base

Unwind(p) ==
  /\ UserCalls
  /\ stack[p].k = "point" /\ stack[p].mode = "plain"
  /\ MayUnwindTo(p)
  /\ Call(UnwindFrame(p))
  /\ UNCHANGED <<unwind_stack, sigVars, runs, exitVars>>

(* A bug: the loop stops one entry early.                                    *)
UnwindMore_StopsEarly(f) == f.i > stack[f.p].to + 1

UnwindMore(f) == f.i > stack[f.p].to

(* One iteration: fill is lowered before the entry is called.                *)
UnwindNext ==
  /\ status = "running" /\ Top.k = "unwind"
  /\ UnwindMore(Top)
  /\ LET e == unwind_stack.mem[Top.i]
     IN  /\ ~TouchesFreed(e)
         /\ CallAction(e, [stack EXCEPT ![Len(stack)].i = @ - 1], Top.i - 1)
  /\ unwind_stack' = Pop(unwind_stack)
  /\ UNCHANGED exitVars

(* longjmp: the frames above the point are gone, its code for the unwound    *)
(* case runs.                                                                *)
UnwindDone ==
  /\ status = "running" /\ Top.k = "unwind"
  /\ ~UnwindMore(Top)
  /\ stack' = [SubSeq(stack, 1, Top.p) EXCEPT ![Top.p].returned = TRUE]
  /\ UNCHANGED <<unwind_stack, sigVars, runs, exitVars>>

-----------------------------------------------------------------------------
(* _sig_send *)

SendFrame(sig, data) ==
  [k |-> "send", sig |-> sig, i |-> sig_handler_stack.fill, data |-> data, called |-> {}]

Send(sig, data) ==
  /\ UserCalls
  /\ sig_stacks = "live"
  /\ Call(SendFrame(sig, data))
  /\ UNCHANGED <<unwind_stack, sigVars, runs, exitVars>>

(* SIG_ASSERT_HANDLER: a handler for SIGNAL_ALL does not count.              *)
AssertHandler(sig) ==
  /\ UserCalls
  /\ sig_stacks = "live"
  /\ \A i \in 1 .. sig_handler_stack.fill : sig_handler_stack.mem[i].sig # sig
  /\ Call(SendFrame(SIGNAL_NO_SIG_HANDLER, "none"))
  /\ UNCHANGED <<unwind_stack, sigVars, runs, exitVars>>

(* A bug: a loop that ends before slot 0.                                    *)
Candidates_MissesBottom(f) == {j \in 2 .. f.i : Matches(sig_handler_stack.mem[j], f.sig)}

(* The slots the loop has yet to look at, whatever fill is by now.           *)
Candidates(f) == {j \in 1 .. f.i : Matches(sig_handler_stack.mem[j], f.sig)}

CalledFrame(e) ==
  IF e.catchall THEN [k |-> "catchall", stage |-> "report"]
                ELSE [k |-> "handler_body", id |-> e.id]

(* A bug: the loop index does not step down.                                 *)
SendNext_SameSlot ==
  /\ status = "running" /\ Top.k = "send"
  /\ sig_stacks = "live"
  /\ stack' = IF Candidates(Top) = {}
              THEN Below
              ELSE LET j == Max(Candidates(Top))
                   IN  Append([stack EXCEPT ![Len(stack)].i = j],
                              CalledFrame(sig_handler_stack.mem[j]))
  /\ UNCHANGED <<unwind_stack, sigVars, runs, exitVars>>

(* The loop calls the next handler that matches, or ends: then _sig_send     *)
(* returns to the code that sent the signal.                                 *)
SendNext ==
  /\ status = "running" /\ Top.k = "send"
  /\ sig_stacks = "live"
  /\ stack' = IF Candidates(Top) = {}
              THEN Below
              ELSE LET j == Max(Candidates(Top))
                   IN  Append([stack EXCEPT ![Len(stack)].i = j - 1],
                              CalledFrame(sig_handler_stack.mem[j]))
  /\ UNCHANGED <<unwind_stack, sigVars, runs, exitVars>>

Chosen(sig, rst) ==
  {j \in 1 .. sig_restart_stack.fill :
     sig_restart_stack.mem[j].rst = rst /\ Matches(sig_restart_stack.mem[j], sig)}

(* A handler returns rst: the signal's data is cleaned up whatever it chose, *)
(* then the topmost such restart is unwound to, or the process exits.        *)
HandlerReturns(rst) ==
  LET f  == stack[Len(stack) - 1]
      fs == [Below EXCEPT ![Len(stack) - 1].data = IF @ = "valid" THEN "cleaned" ELSE @,
                          ![Len(stack) - 1].called = @ \cup {Top.id}]
  IN  /\ UserRuns
      /\ Top.k = "handler_body"
      /\ sig_stacks = "live"
      /\ \/ /\ rst = SIG_RESTART_NULL
            /\ stack' = fs
            /\ UNCHANGED status
         \/ /\ rst # SIG_RESTART_NULL
            /\ Chosen(f.sig, rst) # {}
            /\ stack' = Append(fs, UnwindFrame(sig_restart_stack.mem[Max(Chosen(f.sig, rst))].p))
            /\ UNCHANGED status
         \/ /\ rst # SIG_RESTART_NULL
            /\ Chosen(f.sig, rst) = {}
            /\ stack' = fs
            /\ status' = "process_exited"
      /\ UNCHANGED <<unwind_stack, sigVars, runs, unwind_init_ref, shutdown_sent, confirmed>>

-----------------------------------------------------------------------------
(* catchall_handler and the end of the thread *)

AtStage(s) == status = "running" /\ Top.k = "catchall" /\ Top.stage = s
GoTo(s) == [stack EXCEPT ![Len(stack)].stage = s]

FramesOf(kind) == {k \in DOMAIN stack : stack[k].k = kind}

Reports == Cardinality(FramesOf("catchall"))

(* sw_fprintf to stderr fails and sends SIGNAL_FAIL itself, ...              *)
ReportFails ==
  /\ AtStage("report")
  /\ Reports < MaxReports /\ Len(stack) < MaxDepth
  /\ Call(SendFrame(SIGNAL_FAIL, "none"))
  /\ UNCHANGED <<unwind_stack, sigVars, runs, exitVars>>

(* ... which, if nobody else handles it, the catch-all handler reports: as   *)
(* long as reports fail nothing ends this recursion but the end of the C     *)
(* stack.                                                                    *)
ReportOverflows ==
  /\ AtStage("report")
  /\ Reports >= MaxReports
  /\ status' = "overflow"
  /\ UNCHANGED <<stack, sigVars, unwind_stack, runs, unwind_init_ref, shutdown_sent, confirmed>>

(* The report is written, raise(SIGINT) ends the process or comes back.      *)
ReportAndRaise ==
  /\ AtStage("report")
  /\ stack' = GoTo("raised")
  /\ status' = IF SigintTerminates THEN "killed" ELSE status
  /\ UNCHANGED <<unwind_stack, sigVars, runs, unwind_init_ref, shutdown_sent, confirmed>>

UnwindAll ==
  /\ AtStage("raised")
  /\ shutdown_sent' = TRUE
  /\ stack' = GoTo("asked")
  /\ UNCHANGED <<unwind_stack, sigVars, runs, unwind_init_ref, confirmed, status>>

(* sig_cleanup up to the loop of unwind_cleanup, fs being the caller's frames *)
SigCleanup(fs) ==
  /\ sig_stacks = "live"
  /\ sig_stacks' = "freed"
  /\ unwind_init_ref' = IF unwind_init_ref > 0 THEN unwind_init_ref - 1 ELSE 0
  /\ stack' = Append(fs, [k |-> "cleanup"])
  /\ UNCHANGED <<sig_handler_stack, sig_restart_stack, held, unwind_stack,
                 shutdown_sent, confirmed, runs, status>>

CatchallCleansUp == AtStage("asked") /\ SigCleanup(GoTo("cleaned"))

(* The thread's own sig_cleanup, when every scope is closed.                 *)
ThreadCleansUp == status = "running" /\ Len(stack) = 1 /\ SigCleanup(stack)

(* The thread's unwind_cleanup for what is left of its unwind_inits.         *)
ThreadUnwindCleanup ==
  /\ status = "running" /\ Len(stack) = 1
  /\ sig_stacks = "freed" /\ unwind_init_ref > 0
  /\ unwind_init_ref' = unwind_init_ref - 1
  /\ stack' = Append(stack, [k |-> "cleanup"])
  /\ UNCHANGED <<sigVars, unwind_stack, shutdown_sent, confirmed, runs, status>>

(* A bug: the unwind stack is dropped without a call.                        *)
CleanupNext_Drops ==
  /\ status = "running" /\ Top.k = "cleanup"
  /\ unwind_init_ref = 0 /\ unwind_stack.fill > 0
  /\ unwind_stack' = Pop(unwind_stack)
  /\ UNCHANGED <<stack, sigVars, runs, exitVars>>

(* One iteration of unwind_cleanup: the entry is called while it is still on *)
(* the stack; a user function's return lowers fill (ActionReturns).          *)
CleanupNext ==
  /\ status = "running" /\ Top.k = "cleanup"
  /\ unwind_init_ref = 0 /\ unwind_stack.fill > 0
  /\ LET e == unwind_stack.mem[unwind_stack.fill]
     IN  /\ ~TouchesFreed(e)
         /\ CallAction(e, stack, unwind_stack.fill - 1)
         /\ unwind_stack' = IF e.h = "user" THEN unwind_stack ELSE Pop(unwind_stack)
  /\ UNCHANGED exitVars

(* A bug: every call of unwind_cleanup confirms.                             *)
CleanupDone_Confirms ==
  /\ status = "running" /\ Top.k = "cleanup"
  /\ unwind_init_ref > 0 \/ unwind_stack.fill = 0
  /\ confirmed' = TRUE
  /\ status' = IF unwind_init_ref = 0 /\ Len(stack) = 2 THEN "finished" ELSE status
  /\ Return
  /\ UNCHANGED <<unwind_stack, sigVars, runs, unwind_init_ref, shutdown_sent>>

(* unwind_cleanup returns: with the last reference the unwind stack is freed *)
(* and the shutdown confirmed.                                               *)
CleanupDone ==
  /\ status = "running" /\ Top.k = "cleanup"
  /\ unwind_init_ref > 0 \/ unwind_stack.fill = 0
  /\ confirmed' = (confirmed \/ unwind_init_ref = 0)
  /\ status' = IF unwind_init_ref = 0 /\ Len(stack) = 2 THEN "finished" ELSE status
  /\ Return
  /\ UNCHANGED <<unwind_stack, sigVars, runs, unwind_init_ref, shutdown_sent>>

ExitThread ==
  /\ AtStage("cleaned")
  /\ status' = "thread_exited"
  /\ UNCHANGED <<stack, sigVars, unwind_stack, runs, unwind_init_ref, shutdown_sent, confirmed>>

(* Freed signal stacks in use: by user code that pushes, sends or returns    *)
(* from a handler, by a send still looping, by an entry that is called, by a *)
(* second sig_cleanup.                                                       *)
UseAfterFree ==
  /\ status = "running" /\ sig_stacks = "freed"
  /\ \/ UserRuns /\ unwind_init_ref = 0
     \/ Top.k = "send"
     \/ Top.k = "unwind" /\ UnwindMore(Top) /\ TouchesFreed(unwind_stack.mem[Top.i])
     \/ Top.k = "cleanup" /\ unwind_init_ref = 0 /\ unwind_stack.fill > 0
          /\ TouchesFreed(unwind_stack.mem[unwind_stack.fill])
     \/ AtStage("asked")
  /\ UndefinedBehaviour

(* The thread or the process has ended.                                      *)
Ended == status # "running" /\ UNCHANGED vars

-----------------------------------------------------------------------------
UserStep ==
  \/ \E n \in Acts, always \in BOOLEAN : UnwindAction(n, always)
  \/ \E sig \in HandlerSigs : AutopopHandler(sig)
  \/ NullHandlers /\ AutopopNullHandler
  \/ \E mode \in Modes \ {"plain"}, sig \in RestartSigs, rst \in Restarts :
       ProvideRestart(mode, sig, rst)
  \/ "plain" \in Modes /\ ReturnPoint
  \/ ReprovideRestart
  \/ LeaveScope \/ LeaveExplicitScope \/ LeavePoint
  \/ ActionReturns
  \/ \E rst \in Restarts \cup {SIG_RESTART_NULL} : HandlerReturns(rst)
  \/ \E sig \in HandlerSigs : PersistentHandler(sig)
  \/ \E id \in held : RmPersistentHandler(id)
  \/ UnwindInit \/ UnwindRelease
  \/ \E p \in DOMAIN stack : Unwind(p)
  \/ \E data \in Datas : Send(SIGNAL_FAIL, data)
  \/ \E sig \in Asserts : AssertHandler(sig)
  \/ ThreadCleansUp \/ ThreadUnwindCleanup

LibraryStep ==
  \/ UnwindNext \/ UnwindDone
  \/ SendNext
  \/ ReportFails \/ ReportOverflows \/ ReportAndRaise \/ UnwindAll \/ CatchallCleansUp \/ ExitThread
  \/ CleanupNext \/ CleanupDone
  \/ UseAfterFree

Next == UserStep \/ LibraryStep \/ Ended

Spec == Init /\ [][Next]_vars

(* A scope is left, a function of the user's returns.                        *)
UserReturns ==
  \/ LeaveScope \/ LeaveExplicitScope \/ LeavePoint
  \/ ActionReturns
  \/ \E rst \in Restarts \cup {SIG_RESTART_NULL} : HandlerReturns(rst)

(* The library's loops keep running, and the functions they call return in   *)
(* the end: code that could again and again leave a scope or a function at   *)
(* the same depth does leave it.  (The thread's own code, at depths 1 and 2, *)
(* need not; from MaxDepth on nothing is opened.)                            *)
FairSpec ==
  /\ Spec
  /\ WF_vars(LibraryStep)
  /\ \A d \in 3 .. MaxDepth - 1 : SF_vars(Len(stack) = d /\ UserReturns)
  /\ SF_vars(Len(stack) >= MaxDepth /\ UserReturns)

-----------------------------------------------------------------------------
(* Properties *)

TypeOK ==
  /\ \A st \in {sig_handler_stack, sig_restart_stack, unwind_stack} : WithinAlloc(st)
  /\ sig_stacks \in {"live", "freed"}
  /\ unwind_init_ref \in 0 .. MaxRefs
  /\ held \subseteq Nat
  /\ shutdown_sent \in BOOLEAN /\ confirmed \in BOOLEAN
  /\ runs \in [Acts -> 0 .. 2]
  /\ status \in {"running", "finished", "thread_exited", "process_exited", "killed", "overflow",
                "undefined"}

(* The entries es of the scopes below a frame f, and that of f if it has one; *)
(* a running _unwind has dealt with those from its i up.                     *)
WithEntry(es, f) ==
  CASE HasEntry(f)    -> Append(es, EntryOf(f))
    [] f.k = "unwind" -> SubSeq(es, 1, IF f.i < Len(es) THEN f.i ELSE Len(es))
    [] OTHER          -> es

(* The entries the lowest k frames account for, in the order of the scopes.  *)
EntriesUpTo[k \in 0 .. Len(stack)] ==
  IF k = 0 THEN <<>> ELSE WithEntry(EntriesUpTo[k - 1], stack[k])

EntriesOfScopes == EntriesUpTo[Len(stack)]

(* The unwind stack is always exactly the entries of the scopes that are     *)
(* open: whatever functions were left by longjmp, whoever jumped, no entry   *)
(* is lost, kept or run in place of another when a scope is left.            *)
UnwindStackMatchesScopes ==
  unwind_init_ref > 0 => Live(unwind_stack) = EntriesOfScopes

(* The handlers on the handler stack are the catch-all handler, the          *)
(* persistent ones not removed, and those of the autopop scopes whose        *)
(* removal is still on the unwind stack - each exactly once.                 *)
HandlersScoped ==
  LET rms == {i \in 1 .. unwind_stack.fill :
                unwind_stack.mem[i].h = "rm_handler" /\ unwind_stack.mem[i].arg # 0}
  IN  sig_stacks = "live" =>
        /\ {e.id : e \in {sig_handler_stack.mem[i] : i \in 1 .. sig_handler_stack.fill}}
             = {1} \cup held \cup {unwind_stack.mem[i].arg : i \in rms}
        /\ sig_handler_stack.fill = 1 + Cardinality(held) + Cardinality(rms)

(* Every restart a handler can choose belongs to a return point that is      *)
(* still on the C stack and has not been returned to, and its removal is the *)
(* first entry above that point: UNWIND never jumps to a dead frame, and     *)
(* jumping there takes the restart off the restart stack.                    *)
RestartsReachLiveFrames ==
  sig_stacks = "live" =>
    \A i \in 1 .. sig_restart_stack.fill :
      LET e == sig_restart_stack.mem[i]
      IN  /\ e.p <= Len(stack)
          /\ stack[e.p].k = "point" /\ stack[e.p].id = e.id /\ ~stack[e.p].returned
          /\ stack[e.p].to < unwind_stack.fill
          /\ unwind_stack.mem[stack[e.p].to + 1] = [h |-> "rm_restart", arg |-> e.id]

(* An id names one entry of its stack.                                       *)
IdsAreUnique == IdsIncrease(sig_handler_stack) /\ IdsIncrease(sig_restart_stack)

ActionScope(n, always) == \E k \in FramesOf("action") : stack[k].n = n /\ stack[k].always = always

(* However a scope is left, its action has been started exactly once - an    *)
(* explicit one only if the scope was left by unwinding, and only once       *)
(* unwind_cleanup runs could an action have been started before.             *)
ScopesAreCleaned ==
  [][ \A n \in Acts, always \in BOOLEAN :
        ActionScope(n, always) /\ ~ActionScope(n, always)' =>
          IF always \/ Top.k = "unwind"
          THEN runs'[n] = 1 \/ (unwind_init_ref = 0 /\ runs'[n] = 2)
          ELSE runs'[n] = 0 ]_vars

(* _sig_send never returns to the code that sent the signal: the catch-all   *)
(* handler is reached if no other one unwinds.                               *)
SendNeverReturns == [][Top.k = "send" => Len(stack') >= Len(stack)]_vars

(* A thread confirms its shutdown only with every action of every scope it   *)
(* will never leave normally started and its unwind stack empty: the process *)
(* may exit now.                                                             *)
ConfirmedIsClean ==
  confirmed => /\ unwind_stack.fill = 0
               /\ \A k \in FramesOf("action") : runs[stack[k].n] > 0

(* To the rest of its process the thread lives as ThreadLife says, until it  *)
(* ends the process or a step is undefined: in particular it confirms, or    *)
(* ends, only from the last unwind_cleanup with no action left on its stack, *)
(* and nothing but that cleanup runs after it has asked for the shutdown.    *)
Life ==
  LET cleansUp == FramesOf("cleanup") # {}
      ofStage  == [report |-> "unhandled", raised |-> "raised", asked |-> "asked",
                   cleaned |-> IF confirmed THEN "leaving" ELSE "abandoned"]
  IN  [at   |-> CASE status = "finished" -> "leaving"
                  [] status = "thread_exited" -> "gone"
                  [] status = "running" /\ cleansUp ->
                       IF FramesOf("catchall") # {} THEN "dying" ELSE "cleaning"
                  [] status = "running" /\ ~cleansUp /\ Top.k = "catchall" -> ofStage[Top.stage]
                  [] OTHER -> "running",
       refs |-> unwind_init_ref,
       todo |-> Cardinality({i \in 1 .. unwind_stack.fill : unwind_stack.mem[i].h = "user"})]

LivesAsThreadLife ==
  [][ status' \in {"undefined", "process_exited", "killed", "overflow"} \/ LifeStep(Life, Life') ]_Life

(* No call of the library lasts for ever - a send, an unwind, a cleanup or   *)
(* the catch-all handler - whatever the functions it calls open, send and    *)
(* unwind meanwhile: control gets back to code below it, or the thread ends. *)
(* The one exception is stated with it: reports of the catch-all handler     *)
(* that fail inside each other until they have used up the C stack.          *)
InLibrary == \E k \in DOMAIN stack : stack[k].k \in {"send", "unwind", "catchall", "cleanup"}

Endings == {"finished", "thread_exited", "process_exited", "killed", "undefined"}
Overflows == status = "overflow"

LibraryCallsEnd ==
  InLibrary ~> (~InLibrary \/ status \in Endings \/ Overflows)

(* signals.h: below all handlers there is the top-level backtrace-and-exit   *)
(* handler: a signal that nobody handles is reported and ends the thread.    *)
UnhandledIsReported == ~Overflows

(* README.md: a send walks down the handler stack, so it calls a handler at  *)
(* most once.                                                                *)
HandlersCalledOnce ==
  \A k \in FramesOf("handler_body") : stack[k].id \notin stack[k - 1].called

(* README.md: the stacks a thread is told to use inside unwind actions are   *)
(* there.                                                                    *)
NoUseAfterFree == status # "undefined"

(* README.md: an action that unwinds is not run again.                       *)
NoRerun == \A n \in Acts : runs[n] < 2

(* signals.h: a handler that falls through leaves the signal, data included, *)
(* to the next one.                                                          *)
DataIsValid ==
  \A k \in FramesOf("handler_body") : stack[k - 1].data # "cleaned"

(* signals.h: exit_thread_func is called after all unwind actions have run.  *)
ExitAfterActions ==
  status = "thread_exited" => \A k \in FramesOf("action") : runs[stack[k].n] > 0

(* signals.h: a thread-local thread shuts down alone.                        *)
OnlyThreadShutsDown == status # "killed"
=============================================================================
