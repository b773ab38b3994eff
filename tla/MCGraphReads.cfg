SPECIFICATION ReadSpec
CONSTANTS
  f1 = f1
  f2 = f2
  a = a
  b = b
  File = {f1}
  Content = {a, b}
  Absent = Absent
  MaxEdits = 2
  MaxBuilds = 3
SYMMETRY Symmetry
INVARIANTS ServedIsTrue NothingIsHidden OneChangeIsSurvived
