CONSTANTS
  States = {st1, st2}
  Threads = {t1, t2}
  None = None
  Ttl = 1
  MaxClock = 4
SPECIFICATION Spec
SYMMETRY Interchangeable
INVARIANTS HandedOutOnce LostOnlyWhenStale
PROPERTIES KeepsSignInContract
