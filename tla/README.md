# A formal model of libevsig

libevsig is a C library with two systems for error handling inside a thread - *signals* with handlers
and restarts, and an *unwind stack* of clean-up actions - and one for stopping the threads of a
process together, the *thread shutdown signal*. The modules in this directory translate that code to
TLA+; TLC checks them on small instances and TLAPS proves the theorems listed under "What is proved".

## The system

| component | state | operations | what is hard |
|---|---|---|---|
| `evsig_mutex` (`evsig_mutex.c`) | one atomic byte | `evsig_lock`, `evsig_unlock`, `evsig_ensure_locked`, `evsig_await_unlock` | a weak compare-and-swap in a loop; used as a lock and as a gate |
| unwind system (`unwind.c`, `unwind.h`) | per thread: `unwind_stack` with fill and allocation, `unwind_init_ref` | `unwind_init`, `unwind_cleanup`, `UNWIND_ACTION`, `EXPLICIT_UNWIND_ACTION`, `UNWIND_RETURN_POINT`, `UNWIND`, `unwind_all` | `longjmp` leaves functions without running their ends; actions may themselves open scopes, send and unwind |
| signal system (`signals.c`, `signals.h`, `_signals.h`) | per thread: `sig_handler_stack`, `sig_restart_stack` | `sig_init`, `sig_cleanup`, `SIG_SEND`, autopop and persistent handlers, both kinds of restarts, `SIG_ASSERT_HANDLER`, the catch-all handler | handlers run user code in the middle of the walk down the stack they may change |
| thread shutdown signal (`thread_shutdown_signal.c`) | per signal: flag, callback list, thread list, two mutexes, the state of the shutdown thread | register and confirm threads, register and unregister callbacks, `send_block`, `send_async`, `_shutdown_thread` | threads, callbacks, OS signal handlers and the shutdown thread interleave; timeout; exit of the process |
| errno signals (`errno_signals.c`) | per thread: the buffer `prefixed_str` | `sig_from_errno`, `str_from_errno` | all messages of a thread share the buffer; the table is asked about `errno` |
| system call wrappers (`sigwrap*.c`) | none; `errno` and the flags of streams are the C library's | `sw_*`: a call, and a `SIG_SEND` if it failed | handlers call wrappers that fail in their turn; sticky flags of a stream |
| time helpers (`util.h`) | none | sleeps and clock readings | the clock is the wall clock |
| demo (`cli/main.c`) | none of its own | a thread that polls the flag; handlers and restarts | it uses the shutdown signal without the signal system |
| build files | - | - | - |

The components meet in these places. A handler's choice of a restart is an `UNWIND` to the return point
that provides it; handlers and restarts of a scope are removed by actions on the unwind stack. The
catch-all handler, pushed below all others by `sig_init`, ends the thread: it reports, raises SIGINT,
asks for a shutdown with `unwind_all`, calls `sig_cleanup` - which frees the signal stacks and runs the
unwind actions - and exits the thread. `sig_init` registers a thread with the global shutdown signal
and `unwind_cleanup` confirms its shutdown there. The OS signal handler calls `send_async`, which opens
a gate (`shutdown_mutex`) that the shutdown thread waits for; that thread sends the signal, waits for the
confirmations, and ends the process.

What makes each one correct:

- mutex: mutual exclusion and progress; a gate that stays open lets its waiters through.
- unwind system: every scope that is left, however it is left, has its action run once, none is run in
  another's place, and none is forgotten; a confirmed shutdown means that the actions have run.
- signal system: a handler is on the stack exactly as long as its scope is open or its owner holds it; a
  restart can be chosen exactly as long as its frame is there; a send does not return; a handler is
  called at most once, with data that is still there.
- wrappers: a failure reaches the handlers registered for it; no failure and no second end of file is
  silent. (That it reaches them with its own message is not so.)
- shutdown: lists are exact under concurrent use; one shutdown thread per signal; the flag is set only on
  request, and a request leads to it; a process that exits in time exits after all confirmations; every
  call returns; nothing touches a list's memory wrongly before a send frees it. (That a timeout is a full
  timeout, or that nothing does so afterwards, is not so.)

## The modules

| module | contents |
|---|---|
| `EvsigLock` | the abstract lock: an owner or nobody |
| `EvsigMutex` | `evsig_mutex.c`, one step per atomic operation; refines `EvsigLock` |
| `EvsigMutex_proofs` | its invariant, mutual exclusion and the refinement, for any set of threads |
| `SigStacks` | the growable arrays that the per-thread stacks are: push, id of a new entry, removal by id |
| `SigThread` | one thread: signal system and unwind system together |
| `SigScopes_proofs` | ids are unique and the stacks within bounds; the unwind stack is exactly the open scopes' entries, their actions run once, restarts lead to frames that are there, types; a thread lives as `ThreadLife` says |
| `SigHandlers_proofs` | the handler stack holds exactly the handlers of the open scopes and those held; a send finds a handler, and calls none twice unless a persistent one is removed meanwhile |
| `ThreadLife` | a thread's life as its process sees it: where it is, its references, its actions |
| `ThreadShutdownSignal` | the shutdown signals of a process and their shutdown threads |
| `ShutdownProtocol` | what a shutdown signal promises, without lists, locks and shutdown threads |
| `EvsigProcess` | the process: threads that live as `ThreadLife` says and call `ThreadShutdownSignal` |
| `ThreadShutdownSignal_proofs` | `master_mutex` excludes and a signal has one shutdown thread, for any number of actors |
| `ShutdownCalls_proofs` | what a step does to the calls in progress; with one signal, its flag is set only on request; types and memory of the lists, which nothing misuses before somebody sends; until the signal is sent they say exactly who is registered |
| `ShutdownProtocol_proofs` | with one sender: clean exits, the registered are called, the refinement of `ShutdownProtocol` |
| `EvsigProcess_proofs` | the process: an exit in time follows all unwind actions, nobody who is gone is awaited, requests are kept |
| `Sigwrap` | one thread's failing calls: errno, the message buffer, a stream, and the sends they lead to |
| `Sigwrap_proofs` | failures reach their handlers, and reads are not silent, for any instance |
| `MCThreadShutdownSignal` | `ThreadShutdownSignal` with the symmetry of its actors, for TLC |

### EvsigMutex

`m` is the byte; a thread in `evsig_lock` has its local `expected` and alternates between an attempt
(`CasSucceeds` or `CasFails`) and the reset of `expected`. A weak compare-and-swap may fail on a free
lock, so `CasFails` has no guard on `m`. Spinning and sleeping between attempts is the delay that any
step may have. The library uses each mutex either as a lock or as a gate, never as both; the module has one
of each, `m` and `gate`.

### SigThread

All state of the two systems is thread-local, so one thread is the whole model. What interleaves is
*control*: `stack` is the C call stack, with a frame for every open scope of user code and for every
activation of `_sig_send`, `_unwind`, `catchall_handler` and `unwind_cleanup` with its locals (the loop
indices above all). User code may do anything the API allows whenever it runs (`UserRuns`): at the top,
in a handler, in an unwind action, in the code of a restart. Loop iterations are steps of their own, as
user code runs in between. `UnwindDone` is the `longjmp`: it cuts the C stack.

- `sig_handler_stack`, `sig_restart_stack` and `unwind_stack` are records of `SigStacks`: `mem` keeps slots
  above `fill`, since `_sig_send` keeps using the index it started with. A slot above `fill` that no
  running send can reach is dropped (`Reachable`), which loses no behaviour: it is written before it is
  read again.
- `UNWIND` is only called with a return point whose scope is open and whose entries are still there
  (the rule of `setjmp`, and `MayUnwindTo`). In an action that means a point inside the
  action or one that was there when the action was registered.
- Ghosts: `runs` counts the starts of each action, `held` the persistent handlers the user still holds,
  and a send frame's `called` the handlers it has called.
- `ReportFails` is a report of the catch-all handler that fails and sends from inside it. If nobody else
  handles that signal the catch-all handler is entered again, without end as long as its reports fail:
  `MaxReports` is how many of them the C stack holds, after which `ReportOverflows` ends the process
  (`status = "overflow"`). It is an outcome of the model like any other, so that what is shown of unhandled
  signals is shown with it.
- `status = "undefined"` ends the behaviour when freed stacks are used. What is checked in the passing
  runs is therefore what holds of the library up to the first undefined step; that such steps are
  reachable is itself a finding.

### ThreadLife

`SigThread` knows one thread to the last frame; in a process of several that detail is too much and
most of it does not matter. `ThreadLife` says what is left when only three things are looked at: where the
thread is in its life (`at`: running, its signal unhandled, SIGINT raised, cleaning up, ...), `unwind_init_ref`,
and how many actions of user code are on its unwind stack (`todo`). It is a set of relations between the life
before a step and the life after it, one for each place in the code where the process could see a
difference. `SigThread` EXTENDS it, defines the `Life` that its C stack amounts to, and `LivesAsThreadLife`
states that each of its steps is a `LifeStep` of that life or leaves it as it is; `EvsigProcess` takes the
same relations as the steps of its threads. So whatever `EvsigProcess` shows of all threads that live
like this, it shows of threads that run `SigThread`.

`LivesAsThreadLife` is checked and proved with return points that provide restarts. With plain points an action that runs in
the last `unwind_cleanup` may unwind right out of it (to a point of the thread's own code, which is
still on the C stack when the catch-all handler cleans up): the thread then runs on after it has given up its
last reference, which `ThreadLife` does not have. `thread_unwind` explores such lives on the side of one thread.

### ThreadShutdownSignal

`calls[a]` is the stack of library calls that actor `a` is in; an OS signal handler is a call pushed on top
of whatever was interrupted. `master_mutex` is the lock of `EvsigLock`. A critical section is two steps,
the acquisition and the body with the release, because nothing inside touches what is accessed outside
of the lock - except in `send_block`: its check and its setting of the flag, each look at the thread list,
and each of the seven statements that free and reset the two lists without the lock is a step of its own.
Calls of other threads can fall between any two of them and meet a list that is freed, or whose `alloc` is 0 or
whose pointer is NULL while `fill` is not (`Gone`, `HasRoom`): what they do with it is undefined behaviour
(`UseAfterFree`), which ends the behaviour. The wall clock enters as the time waited (`waited`) and how far the clock was set
forward or back meanwhile (`drift`), both per send; the difference that the code takes is unsigned, so a clock
that is behind the start of the wait has timed out (`TimedOut`).

Ghosts: `alive` (registered and not confirmed since), `pending` (those alive when the flag was set and
not confirmed since), `owned` (callbacks not yet unregistered), `called`, and `sent`.

`ShutdownProtocol` is the promise behind it, with five variables: who is a member, whether a shutdown was
requested, whether the threads were told, who of the members of that moment has not left since, and how the
process ended. `Protocol` reads these off the lists, the flag and the ghosts, and `ImplementsProtocol` states that every
step - a shifting loop, the reset of a list, the end of a shutdown thread - is a step of the protocol or
none. What it adds to the invariants is the order: nobody joins or leaves but by a call of its own, the flag
is set once and those awaited are exactly the members of that moment, the list is emptied only after
that, and a clean end has nobody left to wait for.

### EvsigProcess

It EXTENDS `ThreadShutdownSignal`, whose actors, calls and critical sections stay as they are, and takes the
application's calls from the threads' lives: `life[t]` makes a step of `ThreadLife` when the thread is in no
library call (`Idle`), and a step that calls pushes the frame whose steps then follow. `sig_init(false)`
registers and then, in `unwind_init`, installs the OS signal handlers for the process (`handled`);
`sig_init(true)` does neither; the catch-all handler raises SIGINT - which is `send_async` in the handler on this
very thread, or the end of a process without handlers - or overflows the C stack with reports that fail
(`ReportsOverflow`), then calls `unwind_all`, which is `send_async` again;
the last `unwind_cleanup` runs the actions one by one and confirms. A third kind of thread, that of
`cli/main.c`, registers, polls the flag, and confirms.

OS signals from outside arrive at any thread anywhere, also inside a critical section and in the middle of its
initialisation. A callback, called with the lock held, may call the library (`CallbackOps`). The ghost
`awaited` are the threads that were registered when the flag was set.

### Sigwrap

Of `_sig_send` this module keeps the walk down a handler stack that stays as it is; `sends` holds one
record per send in progress, as a handler may call wrappers itself. Each wrapper is its failure, by
kind: `ErrnoCallFails` (the wrappers of three source files), `PthreadCallFails` (the error is returned, `errno`
stays), and those with a type and a literal message of their own. The cases of the table each return the type of
their errno, by its own name or, as for EDEADLK, by its other one (`SIGNAL_EDEADLOCK`); errnos with two names are
one value. So the table is the identity on errno values, and what matters is what it is given: `SigFromErrno` has both the argument and the thread's `errno`, as
the code looks at the latter. `sw_fread` is modelled with its stream (`left` items, `eof`, `error`), since its
outcome depends on flags that earlier calls set. Ghosts: why a send was made, whether by something another
call had left behind (`stale`), which handlers it called with what message, and which short reads were silent.

## The runs

Passing runs. Deadlock is checked in all except `shutdown`, `process` and `sigwrap`.

| run | instance | shows |
|---|---|---|
| `mutex` | 3 threads lock, 1 gatekeeper, 2 waiters | `LockInv`, `ImplementsLock`, `SomeoneEnters`, `OpenGateReleases` |
| `thread_unwind` | 2 actions, autopop handlers, plain points, failing reports, 6 frames, fairness | the unwind stack is exactly the open scopes (`UnwindStackMatchesScopes`), every scope left is cleaned up (`ScopesAreCleaned`), a confirmation is clean (`ConfirmedIsClean`), every call of the library ends, or the reports of its catch-all handler overflow the C stack (`LibraryCallsEnd`) |
| `thread_scopes` | autopop handlers for one signal, both kinds of restarts for `SIGNAL_ALL`, an action that may do all of it again, 2 references, 7 frames | the same stack properties with everything mixed, `RestartsReachLiveFrames`, `HandlersScoped`, `HandlersCalledOnce`, `SendNeverReturns`, and the refinement `LivesAsThreadLife` |
| `thread_persist` | persistent, autopop and NULL handlers for two types, asserts; the stacks start at one slot | `HandlersScoped`, `IdsAreUnique`, `TypeOK` while the stack grows and is removed from anywhere |
| `shutdown` | 2 threads, 5 calls in all, an OS signal, the clock set forward or back | `ListsExact`, `CallsTheRegistered`, `TypeOK`, `DefinedUntilSent`, `OneWorker`, `LockHeldInside`, `ShutdownWasSent`, `CleanExit`, and the refinement `ImplementsProtocol` |
| `shutdown_live` | 2 threads, 4 calls in all, blocking sends too, fairness | `ShutdownCompletes`, `CallsReturn` |
| `process` | a thread of `sig_init(false)` beside one of `sig_init(true)` or one that polls; one event of: an OS signal, a callback that calls the library, the clock set back or forward, a second reference; fairness | an exit in time follows every action of every awaited thread (`ActionsRunBeforeExit`), who has confirmed is not waited for (`GoneIsNotAwaited`), no initialisation takes a request back (`RequestsAreKept`), an unhandled signal of a thread of `sig_init(false)` ends the process (`UnhandledEndsProcess`) |
| `sigwrap` | two errnos, a call of each kind, every stack of two handlers, a stream of two items, two nested sends | `SignalFitsFailure`, `SilentReads` |

`sigwrap` does not check deadlock: the catch-all handler ends the thread. `shutdown` and `process` do not
since the system really can stop there: a thread whose signal handler, or a shutdown thread whose callback,
waits for a lock that the thread itself holds (finding `bug_async_handler`), and in `process` the end of the
process is the end of the behaviour.

Bounds. `MaxDepth` bounds the frames; with the seven of `thread_scopes` an action can be running that has opened a scope in
which a signal is sent whose handler's restart unwinds a scope - the deepest nesting at which two loops
are suspended in each other with a scope in between. `MaxPersistent` = 2 is the least with which a
removal can shift a handler that is running, `MaxRefs` = 2 the least at which a cleanup does not clean
up; `thread_unwind` has one reference, which keeps its liveness graph small, as counting further ones changes no
stack; its six frames hold a handler that sends or unwinds with an action's scope open below it. Reports that fail inside each other have no bound in
the code but the C stack, which `MaxReports` stands for: with 2 a report fails inside another, and the next failure is the
overflow. `InitAlloc` = 1 makes the doubling happen twice; in the other runs it is the code's 32.
`ListAlloc` = 1 does the same for the shutdown lists. `Timeout` = 2 ticks lets a confirmation arrive
before, between and after two polls. Two workers are one more than a signal ever has. `MaxCalls`,
`MaxOsSignals` and `MaxJumps`, and `MaxEvents` for the two together, bound what the environment does. The clock jumps in
`shutdown` and `process`, by a tick forward or back; `shutdown_live`, whose graph a jump would more than
double, has an undisturbed clock - with a call less (`MaxCalls` = 3, `MaxJumps` = 1) its properties hold under a jump as well. Threads and workers are
interchangeable, so the safety run uses their permutations as symmetry; the liveness runs do not.

`process` has two threads and one shutdown thread. Its events, whose effects are each checked with everything
else interleaved, come one at a time (`MaxEvents` = 1): that an OS signal and a callback that hangs meet in one
behaviour adds nothing either of them could not do alone to the properties, which exempt both. With two
threads of `sig_init(false)` and `MaxRefs` = 1 the four properties hold as well (460 000 states); this
instance is too slow to be a run of its own. `MaxTodo` = 1 action is enough to be forgotten. `CallbackOps` has a call
that changes a list and one that does not.

In `sigwrap` two nested sends are the least with which a wrapper fails in another failure's handler; two handlers above the
catch-all let one fall through to another; two items let a read be full, short, or empty.

Which calls the application makes is a constant (`Ops`). `shutdown` and `process` have no
blocking send by the application, as with one the lists are freed under other threads' hands and much of
what these runs show is lost (`bug_dangling_callbacks`, and `ExitAwaitsThreads` and `CallbacksCalledOnce`
below).

Fairness. `EvsigMutex`: threads keep executing their loops and holders give the lock back (weak); the
compare-and-swaps of the spinning threads, taken together, do not for ever fail spuriously on a lock
that keeps becoming free (strong) - on the x86-64 that the code targets (`__builtin_ia32_pause`) the weak
form never fails spuriously. No fairness is assumed for one particular thread and none is provided:
only `SomeoneEnters` is claimed. `ThreadShutdownSignal`: each actor inside the library keeps running and
time passes (weak). Weak fairness of an actor's step is enough for its `Locks` too: in the instance a
waiting actor meets a lock that stays free, as the calls of the others are bounded. Nothing is assumed of
the application: it may never call, never confirm. `EvsigProcess`: the same, and that what the library does of its
own in a thread's life (`LibraryRuns`: the rest of `sig_init`, of the catch-all handler, of `unwind_cleanup`) goes on;
not that a thread's own code ever looks at the flag, returns from a handler or leaves a scope. `SigThread`: the
library's loops keep running (weak), and a function the library has called - a handler, an action - does return in
the end: if it can leave a scope or return again and again at the same depth of the C stack, it does (strong, one
condition per depth). A function that runs for ever would hang the library by its own doing; the claim of
`LibraryCallsEnd` is that nothing else does - no unwind or send or cleanup keeps another one going - with the one
exception it names, the overflow of reports that fail. The thread's own code at the lowest two depths need not
return.

### Where code and documentation disagree

Each of these runs checks one sentence of the documentation and is violated by what the code does.

| run | property | the code |
|---|---|---|
| `bug_use_after_free` | `NoUseAfterFree` | `sig_cleanup` frees the signal stacks before it runs the actions that use them |
| `bug_async_handler` | `AsyncHandlerSafe` | `send_async` locks: in a signal handler it may wait for its own thread |
| `bug_dangling_callbacks` | `NoUndefinedBehaviour` | `send_block` keeps the pointer to the callbacks it has freed |
| `bug_errno_argument` | `ErrnoIsConverted` | `sig_from_errno` switches on `errno`, not on its argument; a pthread error becomes NULL or another signal |

The modules state further sentences that the code does not keep to. They are not among the runs; TLC
finds each one violated within seconds in an instance with the constants named here.

| property | violated with | the code | the documentation |
|---|---|---|---|
| `NoRerun` | `Acts = {a1}`, plain return points | `unwind_cleanup` pops an action only after it returned; one that unwinds runs again | README.md:18, an unwind handler will not re-run |
| `ExitAwaitsThreads` | `Ops = {"register_thread", "send_async", "send_block"}` | the shutdown thread exits though another sender still waits | thread_shutdown_signal.h:89-90, it waits for all threads |
| `ReadErrorIsReal` | `sigwrap.cfg` | `sw_fread` asks the sticky `ferror` only: the end of the file after an earlier error is a read error | sigwrap.c:62-63, feof and ferror determine which |
| `MessageIsTheSignals` | `sigwrap.cfg` | a wrapper that fails in a handler overwrites the message the next handler gets | signals.h:109-110, fall-through to the next handler |
| `HandlersCalledOnce` | `MaxPersistent = 2` | a handler that removes a handler below itself is called again by the same send | README.md:129, a send walks down the handlers |
| `DataIsValid` | `Datas = {"valid"}` | the data is cleaned up after each handler, also when the next one gets it | signals.h:109-114, the next handler gets the data |
| `ExitAfterActions` | `MaxRefs = 2` | with two `unwind_init`s the thread exits without its actions | signals.h:90-91, after all unwind actions have run |
| `OnlyThreadShutsDown` | `SigintTerminates = TRUE` | the raised SIGINT kills a process of thread-local threads | signals.h:77-78, just the thread will shut down |
| `LocalShutsDownAlone` | `process.cfg` | where handlers are installed by another thread, an unhandled signal of a thread-local one shuts the whole process down, by its raise(SIGINT) and again by its `unwind_all` | signals.h:77-78 |
| `UnhandledIsReported` | `thread_unwind.cfg` | a report that fails sends a signal, whose report may fail, until the C stack overflows | signals.h:110, the top-level backtrace-and-exit handler |
| `CallbacksCalledOnce` | two threads that `send_block` | the flag is checked and set in two steps | thread_shutdown_signal.h:74-75, resending is a no-op |
| `ExitHonoured` | `Ops = {"register_thread", "send_async"}`, `FairSpec` | a later `send_async` without exit takes the exit of an earlier one back | thread_shutdown_signal.h:89-90, with exit_process it will call exit() |
| `AsyncSends` | `Ops = {"register_cb", "send_async"}`, `FairSpec` | without a registered thread nobody serves `send_async` | thread_shutdown_signal.h:85 |
| `ShutdownWasSent` | two `Signals` | the shutdown thread sends the global signal, whatever its own is | thread_shutdown_signal.h:85 |
| `TimeoutIsFull` | `shutdown_live.cfg` with `MaxJumps = 1` | the timeout is measured on the wall clock, unsigned: set forward, or back behind the start, it ends the wait early | thread_shutdown_signal.h:77-78 |

`HandlersCalledOnce` and `ShutdownWasSent` hold in the passing runs, in which no handler removes another one and there
is one signal. `UnhandledEndsProcess` is about threads of `sig_init(false)` alone, as of the others the documentation says
the opposite.

## What is proved

TLAPS checks these for every value of the constants, under the assumptions named in the modules.

- `EvsigMutex_proofs`: **`LockInvariant`**, `Spec => []LockInv`. Mutual exclusion alone is not inductive:
  what excludes a second thread is that the byte is 1 while one is inside, and what makes the byte
  trustworthy is that every attempt is made with `expected` = 0. `LockInv` adds these two and the type of
  the program counters. **`Exclusion`** follows. **`LockRefinement`**: `CasSucceeds` is `Acquire`, `Unlock`
  is `Release`, everything else leaves the owner as it is; the owner is a `CHOOSE` over the holders,
  determined because `LockInv` makes the holder unique. The steps of the gate leave `m` and the lockers'
  program counters alone (`UseAssumption`: a thread that locks does not wait at the gate).
- `SigScopes_proofs`, the stacks: `PushOK`, `RemoveOK` and their lemmas - pushing with `NextId` and removing by id keep a
  stack within its allocation (`InitAllocAssumption`) and its ids increasing; `SlotIsUnique`: an id names one slot.
  **`UniqueIds`**, `Spec => []IdsAreUnique`, and **`SigStacksInBounds`**: the inductive
  invariant `SigStacksOK` is the lemmas' `StackOK` of both stacks; one case per action of `Next`. It does
  not depend on the depth of the C stack: neither `MaxDepth` nor `MaxId` is used in the proof.
- `SigScopes_proofs`, the scopes: **`ScopesInvariant`**, `Spec => []ScopesInv`, and from it **`UnwindStackIsExact`**,
  `Spec => []UnwindStackMatchesScopes`, **`RestartsAreLive`**, `Spec => []RestartsReachLiveFrames`, and **`Typing`**,
  `Spec => []TypeOK`. That the unwind stack is the entries of the open scopes is not inductive: an `_unwind` in
  progress has run entries of scopes whose frames are still on the C stack, the last `unwind_cleanup` runs entries
  of scopes below it, and actions that run in either open scopes on top. `ScopesInv` therefore gives every frame
  a height: `g[k]` is how many entries the lowest k frames account for. A scope with an entry adds one, an
  unwind is at its loop index, the last cleanup may have sunk below everything, all else changes nothing
  (`Level`); a scope's entry is still there exactly while no frame above has sunk below it (`Stays`, `Entries`).
  Around that the invariant has what the code relies on without saying so: what may be called from where
  (`Above`), that an unwind's point is below it and nothing in between has given up an entry below that point
  (`Targets`), which base an action that runs has (`Bases`), and that every entry of the restart stack has a point that
  stays (`RestartsHold`). A step keeps the lowest frames with their heights and puts at most two on top: the lemmas
  `HeightsCarry`, `EntriesCarry`, `ShapeCarry`, `RestartCarry` say once what that preserves, `Pushes`, `Returns`,
  `Rewrites` and `TopChanges` are the four forms of steps, and each action of `Next` is one of these.
  `UnwindStackIsExact` follows by a least-number argument over the frames (`EntriesFollow`). As above, no bound is
  used but `MaxRefs`, in `Typing` alone.
  **`ActionsRunOnce`**, `Spec => ScopesAreCleaned`, and **`ConfirmsClean`**, `Spec => []ConfirmedIsClean`, need to know
  how often the action of every open scope was started. `RunsInv` says so with the same heights: a scope whose entry is
  still there (`Stays`) was not started, unless `unwind_cleanup` is running that very entry (`Running`: it calls an
  entry before it takes it off), then once; one whose entry is gone was started once, or twice if the last
  `unwind_cleanup` ran it and an `_unwind` of the action met it again (`Accounts`). For that to be kept, a scope and a
  cleanup are on the C stack at most once (`OneOf`), and an `_unwind` out of a cleanup stops below the entry being run
  (`Escapes`; from the rule `MayUnwindTo`). Most steps run no entry and only come and go above the frames that stay
  (`QuietRuns`, `PlainRuns`); those that run one lower all heights above its owner by one (`Sunk`, `AccountsSunk`).
  A scope then disappears in three ways only (`UserKeeps`, `LibraryKeeps`), and each finds its count right. For the
  confirmation, `ConfirmInv`: after it there is nothing left but the exit of the catch-all handler.
  **`LifeRefines`**, `Spec => LivesAsThreadLife`, assuming `"plain" \notin Modes`, is the refinement: every step of the thread is
  one of `ThreadLife` or leaves its life as it is. Most steps do not change where the thread is (`Ordinary`: no
  cleanup comes or goes, no catch-all handler gets to the top) and are `Works`; the others are taken one by one, and
  need that the thread has a reference as long as its signal stacks are live, that the library does nothing above an
  `unwind_cleanup` that runs actions (`Calm`; both in `LifeInv`), that only the last cleanup runs actions, and
  `ConfirmInv`. The assumption is needed for the reason given under `ThreadLife`: an action that unwinds to a plain
  point may leave the last cleanup for good.
- `SigHandlers_proofs`: **`HandlersAreScoped`**, `Spec => []HandlersScoped`. The property counts; inductive is the exact
  correspondence `HandlersExact`: the catch-all handler is at the bottom, and an id is on the handler stack if and
  only if it is the catch-all's, is held by user code, or is the argument of one `rm_handler` entry of the unwind
  stack - never of two, and never of one that is also held. That a new id is none of these is `NextIdAbove` of
  `SigScopes_proofs`; the count follows with the library's theorems about finite sets (`CountValues`, `CountDisjoint`).
  **`SendsDoNotReturn`**, `Spec => SendNeverReturns`: what is inductive is `SendsInv`, that the loop index of every
  `_sig_send` is at least 1 unless the catch-all handler runs above it - which is the bottom of the stack by
  `HandlersExact` and does not return -, so there is always a candidate left. Which frames of the C stack
  a step keeps and which it puts on top say the lemmas `...Frames` (`Frames1`, `Frames2`).
  **`HandlersRunOnce`**, `Spec /\ [][KeepsHeld]_vars => []HandlersCalledOnce`: a send calls no handler twice as long as no
  persistent handler is removed while a send is in progress; without that hypothesis
  the counterexample above is a behaviour. **`ScopedHandlersRunOnce`** draws from it that the property holds in every thread without
  persistent handlers (`MaxPersistent = 0`), what `thread_scopes` shows on an instance. A send compares nothing, it only counts down an
  index, so that it does not meet a handler again rests on ids: what its index has yet to pass is older than
  every handler it has called, than the one that runs, and than all whose removal lies on the unwind stack
  above the send's height (`SendDown`). Taking one of these out therefore leaves the part the send
  has yet to walk where it is (`BelowRemoved`), and what is pushed is newer than all (`HandlerEffect`). It is only
  so for sends no unwind has sunk below (`Stays`); the others may see the handlers below them go, and never go on.
- `ThreadShutdownSignal_proofs`: **`LockExcludes`**, `Spec => []LockHeldInside`, and **`OneShutdownThread`**,
  `Spec => []OneWorker`, from one inductive invariant `IInv`. `LockHeldInside` says that the lock names whoever is
  inside; for its preservation one also needs that of all frames of all actors at most one is inside a
  signal's critical section (`SectionsOK`) - an actor can have several frames, as OS signals push one on top of
  another, and leaving one section must not leave another behind. `OneWorker` needs that a shutdown thread
  is in `_shutdown_thread` at the bottom of its stack and in nothing but the send on top of it
  (`WorkersOK`): the step that clears `shutdown_thread_started` then ends the very thread that served the
  signal (`StartedOK`). The proof goes by what a step does to the call stacks: a call goes on, enters or
  leaves a section, is pushed, returns; each action is then one of these. Neither the bounds on calls and
  OS signals nor the contents of the lists are used.

- `ShutdownCalls_proofs`: what a step does to the frames of the calls in progress (`StepTraced`: each frame after it goes
  back to one before it, to a call just made, or to an OS signal), and a theorem that speaks of the calls alone,
  **`FlagSetOnRequest`**, `Spec => []ShutdownWasSent`, assuming there is one signal (`OneSignal`).
  The shutdown thread sets the flag without looking at who asked, so the argument is about how it got
  there: an open gate was opened by a request, a shutdown thread past its gate has seen it open
  (`SentOK`), and from waiting at the gate `SeeGateOpen` is the only way on (`LeavesGate`, which needs
  `WorkersOK`). The assumption cannot be dropped: the shutdown thread of any signal sends the global one.
  Its second part is about the lists: **`Typing`**, `Spec => []TypeOK`, and **`ListsAreExact`**, `Spec => []ListsExact`, without any
  assumption. First what the list operations do (`WithoutKeeps`, `AppendKeeps`: taking out and appending keep
  a list free of repetitions, increasing, and of the cardinality of its set). A list is exact until its memory
  is freed, and the steps that free it (`FreeCallbacks` ... `ResetThreadlist`) belong to a send that has set
  the flag: `Knows` says which frames can only exist with the flag set, `FramesOK` that all do, and that is what
  `ListsExact` needs to be inductive. While a send resets a list, `alloc` is below `fill` and the pointer may be NULL
  (`HalfReset`); `RoomOK` says that no other list is longer than its memory, which each growth by doubling keeps.
  **`UndefinedOnlyAfterSend`**, `Spec => []DefinedUntilSent`: a list that is exact has memory with room for one more entry
  (`ExactHasRoom`), so a call that meets one that is `Gone`, or without room, comes after a send (`UsesAfterSend`).
- `ShutdownProtocol_proofs`: **`ExitIsClean`**, `Spec => []CleanExit`, **`RegisteredAreCalled`**,
  `Spec => CallsTheRegistered`, and the refinement **`SignalImplementsProtocol`**, `Spec => ImplementsProtocol`. They assume
  `OneSender`: one signal, sent with `send_async`, so that the shutdown thread alone is in `_send_block`. Without it
  they are false: the check of the flag and its setting are two steps, two senders pass the check together, and
  the second calls the callbacks of lists the first has freed. That one shutdown thread is the sender comes from
  `StartedOK`. The invariant `PInv` (**`ProtocolInvariant`**) then follows the one send: until it frees anything
  (`Fresh`) the lists stay exact although the flag is set, and a send that frees them without having timed out has
  seen the thread list empty (`NobodyLeftBehind`), so nobody is pending when the process exits in time (`PendingOK`).

- `EvsigProcess_proofs`: **`ActionsRun`**, `ProcessSpec => []ActionsRunBeforeExit`, **`NoneGoneIsAwaited`**,
  `ProcessSpec => []GoneIsNotAwaited`, and **`KeepsRequests`**, `ProcessSpec => RequestsAreKept`, all from one inductive
  invariant `ProcessInv` (**`ProcessInvariant`**), which TLC checks on `process.cfg` as well. It has four parts.
  `ShapeOK`: which calls an actor can be in - a thread at most one of its own, that fits its place in life, under those of
  OS signals; the shutdown thread its `_shutdown_thread`, the `_send_block` on top and what a callback called.
  `GateOK`: there is one shutdown thread, from the first registration on and for good. It is for good because whoever
  opens the gate in such a process asks for an exit (`exit_flag` follows from the open gate), so the branch of
  `_shutdown_thread` that clears `shutdown_thread_started` and lets a registration close the gate again is never taken.
  `LeftOK`: whoever has confirmed is off the list. `ExitOK`: until a send gives up, whoever is awaited is listed or
  through with its actions, and a send past its flag that does not give up has seen everybody through
  (`SenderKnows`). That is more than the properties say, since the moment the list was seen empty lies
  several steps before the exit, with frees, resets and the return to `_shutdown_thread` between. The proof goes by kinds of steps
  (`ProcessKinds`): a thread's life goes on outside of calls (`LivesOn`), a call goes on or comes on top and
  touches nothing the invariant speaks of (`Calm`), a registration, a confirmation, or the shutdown thread works
  (`SenderWorks`). The one assumption on the constants that matters is `ProcessAssumption`: a callback calls what begins with
  the lock, which it then waits for for ever as `send_block` holds it; `send_block` itself would only find the flag set and return. The bounds on OS
  signals, events and jumps of the clock are not used, nor is the number of threads or actions.

- `Sigwrap_proofs`: **`FailuresReachTheirHandlers`**, `Spec => []SignalFitsFailure`. The property speaks of the failure;
  the walk of `_sig_send` only knows a type. `IInv` splits it in two: a send that nothing stale went into has
  the type of its failure, and every send, stale or not, has called exactly what accepts its type, from the
  top down to the handler that runs (`SendOK`). The lemmas go by how a step changes the stack of sends: one
  starts (`SendStarts`), goes on (`SendGoesOn`), or some are cut off (`OthersKeep`). **`ReadsAreNotSilent`**,
  `Spec => []SilentReads`, is inductive together with: after a silent short read `eof` is set.

Only model-checked. Liveness (`SomeoneEnters`, `OpenGateReleases`, `LibraryCallsEnd`, `ShutdownCompletes`, `CallsReturn`, `UnhandledEndsProcess`) is
out of the prover's reach, as is everything about `ENABLED`. Every invariant of the passing runs is the subject of
a theorem, some under the assumptions named with it; `HandlersCalledOnce` needs its hypothesis, as it is refuted with
two persistent handlers.

## What is not modelled

- `Sigwrap` and `SigThread` together: that any wrapper may send is what user code of `SigThread` may do anyway,
  and that the catch-all handler's report may itself send is its `ReportFails`. What wrapped calls return
  when they succeed, and writing to the modelled stream, are left out.
- The texts of the reports, the backtrace (its buffer of 64 frames is listed as a hazard), the colours.
- Failing allocations: the code prints and exits the process; nothing is left to go wrong after that.
- What callbacks of the shutdown signal do, but for calls of the library (`EvsigProcess`).
- The end of `main`, which ends a process under its other threads whatever the library does, and a
  new thread with the id of one that is gone.
- A thread that sends signals without `sig_init`, `pthread_cancel`, and C++ exceptions.

## Plan

Done: the mutex, the per-thread stacks, one thread and its liveness, the wrappers, the shutdown signal and the
protocol it implements, the process; the proofs above.

1. `ShiftOut`: the shifting loops of `confirm_shutdown` and `unregister_cb` element by element, against `Without`.
2. The backtrace buffer of the catch-all handler.
