SPECIFICATION Spec
CONSTANTS
  SIGNAL_ALL = SIGNAL_ALL
  SIGNAL_FAIL = SIGNAL_FAIL
  SIGNAL_NO_SIG_HANDLER = SIGNAL_NO_SIG_HANDLER
  SIG_RESTART_NULL = SIG_RESTART_NULL
  InitAlloc = 1
  HandlerSigs = {SIGNAL_FAIL, SIGNAL_ALL}
  NullHandlers = TRUE
  Asserts = {SIGNAL_FAIL}
  RestartSigs = {}
  Restarts = {}
  Modes = {}
  Datas = {"none"}
  Acts = {}
  SigintTerminates = FALSE
  MaxDepth = 5
  MaxReports = 2
  MaxPersistent = 2
  MaxId = 4
  MaxRefs = 1
INVARIANTS
  TypeOK
  HandlersScoped
  IdsAreUnique
