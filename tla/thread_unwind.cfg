SPECIFICATION FairSpec
CONSTANTS
  SIGNAL_ALL = SIGNAL_ALL
  SIGNAL_FAIL = SIGNAL_FAIL
  SIGNAL_NO_SIG_HANDLER = SIGNAL_NO_SIG_HANDLER
  SIG_RESTART_NULL = SIG_RESTART_NULL
  InitAlloc = 32
  HandlerSigs = {SIGNAL_FAIL}
  NullHandlers = FALSE
  Asserts = {}
  RestartSigs = {}
  Restarts = {}
  Modes = {"plain"}
  Datas = {"none"}
  Acts = {a1, a2}
  SigintTerminates = FALSE
  MaxDepth = 6
  MaxReports = 2
  MaxPersistent = 0
  MaxId = 4
  MaxRefs = 1
INVARIANTS
  UnwindStackMatchesScopes
  ConfirmedIsClean
PROPERTIES
  ScopesAreCleaned
  LibraryCallsEnd
