SPECIFICATION FairSpec
CONSTANTS
  Lockers = {t1, t2, t3}
  Gatekeepers = {g1}
  Waiters = {w1, w2}
  NoOwner = NoOwner
INVARIANTS
  LockInv
PROPERTIES
  ImplementsLock
  SomeoneEnters
  OpenGateReleases
