CONSTANTS
  Users = {u1, u2}
  Clients = {c1, c2}
  Ids = {i1}
  Slots = {s1}
  MountRuns = 1
  None = None
  Flows = {"mcs-broker", "none"}
  Widgets = {w1}
SPECIFICATION Spec
SYMMETRY Interchangeable
INVARIANTS CallbackOfThisRoot TokenAsShown
