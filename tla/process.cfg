SPECIFICATION FairProcess
CONSTANTS
  Signals = {g}
  Global = g
  Threads = {t1, t2}
  Workers = {w1}
  NoOne = NoOne
  ListAlloc = 1
  Timeout = 1
  Ops = {}
  MaxCalls = 0
  MaxOsSignals = 1
  MaxJumps = 1
  Joining = {t1}
  Local = {t2}
  Polling = {t2}
  CallbackOps = {"confirm_shutdown", "send_async"}
  MaxTodo = 1
  MaxRefs = 2
  MaxEvents = 1
INVARIANTS
  ActionsRunBeforeExit
  GoneIsNotAwaited
PROPERTIES
  RequestsAreKept
  UnhandledEndsProcess
CHECK_DEADLOCK FALSE
