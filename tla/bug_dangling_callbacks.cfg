SPECIFICATION Spec
CONSTANTS
  Signals = {g}
  Global = g
  Threads = {t1}
  Workers = {w1, w2}
  NoOne = NoOne
  ListAlloc = 1
  Timeout = 2
  Ops = {"register_cb", "unregister_cb", "send_block"}
  MaxCalls = 3
  MaxOsSignals = 0
  MaxJumps = 0
  MaxEvents = 1
INVARIANTS
  NoUndefinedBehaviour
