CONSTANTS
  Users = {u1}
  Clients = {c1, c2}
  Ids = {i1, i2}
  Slots = {s1, s2, s3}
  MountRuns = 2
  None = None
SPECIFICATION SpaSpec
SYMMETRY Interchangeable
INVARIANTS RootUsesOwnClient LoadingIsAwaited
PROPERTIES SignOutSticks KeepsCookieContract
