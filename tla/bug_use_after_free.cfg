SPECIFICATION Spec
CONSTANTS
  SIGNAL_ALL = SIGNAL_ALL
  SIGNAL_FAIL = SIGNAL_FAIL
  SIGNAL_NO_SIG_HANDLER = SIGNAL_NO_SIG_HANDLER
  SIG_RESTART_NULL = SIG_RESTART_NULL
  InitAlloc = 32
  HandlerSigs = {SIGNAL_FAIL}
  NullHandlers = FALSE
  Asserts = {}
  RestartSigs = {}
  Restarts = {}
  Modes = {}
  Datas = {"none"}
  Acts = {}
  SigintTerminates = FALSE
  MaxDepth = 3
  MaxReports = 2
  MaxPersistent = 0
  MaxId = 4
  MaxRefs = 1
INVARIANTS
  NoUseAfterFree
