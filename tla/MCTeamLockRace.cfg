SPECIFICATION Spec
CONSTANTS
  Proc = {p1, p2, p3}
  Absent = Absent
  Orphan = Orphan
  MaxFaults = 1
INVARIANT PromptHoldersExclude
