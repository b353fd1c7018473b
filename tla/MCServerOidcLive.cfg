CONSTANTS
  Browsers = {b1}
  States = {st1, st2}
  SessionIds = {s1}
  Requests = {r1, r2}
  None = None
  Ttl = 1
  IdleTimeout = 1
  CleanupInterval = 1
  CookieAge = 2
  AssertionLife = 1
  TokenLife = 1
  Margin = 0
  MaxClock = 2
SPECIFICATION FairSpec
PROPERTIES SignOutTakesEffect RequestsEnd KeepsSignInContract
