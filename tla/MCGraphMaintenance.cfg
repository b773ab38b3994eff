SPECIFICATION Spec
CONSTANTS
  p1 = p1
  p2 = p2
  f1 = f1
  f2 = f2
  a = a
  b = b
  Proc = {p1, p2}
  File = {f1}
  Content = {a, b}
  Absent = Absent
  Todo = Todo
  Unread = Unread
  Free = Free
  Stray = Stray
  MaxEdits = 4
  MaxMoves = 1
  MaxBuilds = 2
  MaxCrashes = 1
  MaxDamage = 1
SYMMETRY Symmetry
INVARIANTS CandidateIsKept MtimeMeansHash
PROPERTIES DoneIsRecent ImplementsPublication
