SPECIFICATION Spec
CONSTANTS
  draft = draft
  record = record
  op1 = op1
  op2 = op2
  Path = {draft, record}
  Op = {op1, op2}
  Command <- MCCommand
  Absent = Absent
  Proc = {p1, p2}
  Foreign = Foreign
  NoEntry = NoEntry
  Nothing = Nothing
  Window = 1
  LiveEdits = FALSE
  MaxPreviews = 2
  MaxCommits = 3
  MaxCrashes = 1
  MaxIoErrors = 1
  MaxEdits = 0
  MaxTroubles = 1
INVARIANT ConflictNeedsAnEdit
