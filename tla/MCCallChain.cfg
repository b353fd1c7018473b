CONSTANTS
  Users = {ann, bob}
  Apps = {bff, daemon}
  Bff = bff
  WithPuid = {bob}
  None = None
  Bad = Bad
SPECIFICATION Spec
INVARIANTS ActsForReportedUser OnlyPeopleAdmitted FlavorTellsKind AdmittedThroughout
