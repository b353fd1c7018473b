CONSTANTS
  Browsers = {b1}
  States = {st1}
  SessionIds = {s1}
  Requests = {r1, r2}
  None = None
  Ttl = 2
  IdleTimeout = 8
  CleanupInterval = 1
  CookieAge = 8
  AssertionLife = 2
  TokenLife = 2
  Margin = 1
  MaxClock = 3
SPECIFICATION Spec
INVARIANTS AssertionUsable
