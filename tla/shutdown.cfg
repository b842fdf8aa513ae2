SPECIFICATION Spec
CONSTANTS
  Signals = {g}
  Global = g
  Threads = {t1, t2}
  Workers = {w1, w2}
  NoOne = NoOne
  ListAlloc = 1
  Timeout = 2
  Ops = {"register_thread", "confirm_shutdown", "register_cb", "unregister_cb", "send_async"}
  MaxCalls = 5
  MaxOsSignals = 1
  MaxJumps = 1
  MaxEvents = 2
INVARIANTS
  TypeOK
  DefinedUntilSent
  ListsExact
  OneWorker
  ShutdownWasSent
  CleanExit
  LockHeldInside
PROPERTIES
  CallsTheRegistered
  ImplementsProtocol
SYMMETRY ActorSymmetry
CHECK_DEADLOCK FALSE
