SPECIFICATION FairSpec
CONSTANTS
  Signals = {g}
  Global = g
  Threads = {t1, t2}
  Workers = {w1}
  NoOne = NoOne
  ListAlloc = 1
  Timeout = 2
  Ops = {"register_thread", "confirm_shutdown", "send_async", "send_block"}
  MaxCalls = 4
  MaxOsSignals = 0
  MaxJumps = 0
  MaxEvents = 1
PROPERTIES
  ShutdownCompletes
  CallsReturn
