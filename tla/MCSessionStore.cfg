CONSTANTS
  SessionIds = {s1, s2}
  Threads = {t1, t2, t3}
  None = None
  IdleTimeout = 1
  CleanupInterval = 1
  MaxClock = 3
SPECIFICATION Spec
SYMMETRY Interchangeable
INVARIANTS EvictedOnlyAfterIdle SweepIsThorough
PROPERTIES ExpiryIsFinal ImplementsContract
