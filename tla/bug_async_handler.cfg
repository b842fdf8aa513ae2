SPECIFICATION Spec
CONSTANTS
  Signals = {g}
  Global = g
  Threads = {t1, t2}
  Workers = {w1, w2}
  NoOne = NoOne
  ListAlloc = 1
  Timeout = 2
  Ops = {"register_thread"}
  MaxCalls = 2
  MaxOsSignals = 1
  MaxJumps = 0
  MaxEvents = 1
INVARIANTS
  AsyncHandlerSafe
