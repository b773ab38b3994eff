SPECIFICATION StreamsSpec
CONSTANTS
  Client = {c1, c2}
  drift = drift
  Kind = {drift}
  Program <- MCProgram
  Nothing = Nothing
  HistoryLimit = 1
  Capacity = 1
  MaxJobs = 1
  MaxCancels = 1
  MaxFaults = 1
  Follower = {f}
  Tab = {t}
  MaxOpened = 1
  MaxDrops = 1
INVARIANTS FollowersAreTold 
SYMMETRY Symmetry
CHECK_DEADLOCK FALSE
