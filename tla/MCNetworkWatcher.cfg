CONSTANTS
  Fetches = {f1, f2}
  Xhrs = {x1}
  NoCall = NoCall
  Max = 2
  MaxSends = 2
SPECIFICATION Spec
SYMMETRY Interchangeable
INVARIANTS RecordsAreRecent AnswersStayApart SettledIsRecorded ViewIsCurrent
