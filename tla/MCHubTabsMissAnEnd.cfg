SPECIFICATION StreamsSpec
CONSTANTS
  Client = {c1, c2}
  drift = drift
  Kind = {drift}
  Program <- MCProgram
  Nothing = Nothing
  HistoryLimit = 1
  Capacity = 2
  MaxJobs = 1
  MaxCancels = 0
  MaxFaults = 0
  Follower = {}
  Tab = {t}
  MaxOpened = 0
  MaxDrops = 0
INVARIANT TabsLearn
CHECK_DEADLOCK FALSE
