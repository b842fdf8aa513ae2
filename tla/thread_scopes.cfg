SPECIFICATION Spec
CONSTANTS
  SIGNAL_ALL = SIGNAL_ALL
  SIGNAL_FAIL = SIGNAL_FAIL
  SIGNAL_NO_SIG_HANDLER = SIGNAL_NO_SIG_HANDLER
  SIG_RESTART_NULL = SIG_RESTART_NULL
  InitAlloc = 32
  HandlerSigs = {SIGNAL_FAIL}
  NullHandlers = FALSE
  Asserts = {}
  RestartSigs = {SIGNAL_ALL}
  Restarts = {r1}
  Modes = {"block","autopop"}
  Datas = {"none"}
  Acts = {a1}
  SigintTerminates = FALSE
  MaxDepth = 7
  MaxReports = 2
  MaxPersistent = 0
  MaxId = 4
  MaxRefs = 2
INVARIANTS
  UnwindStackMatchesScopes
  RestartsReachLiveFrames
  HandlersScoped
  HandlersCalledOnce
PROPERTIES
  ScopesAreCleaned
  SendNeverReturns
  LivesAsThreadLife
