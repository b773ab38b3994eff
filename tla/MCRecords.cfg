SPECIFICATION RecordsSpec
CONSTANTS
  ann = ann
  ben = ben
  cat = cat
  dan = dan
  main = main
  dev = dev
  v = v
  w = w
  x1 = x1
  x2 = x2
  Member = {ann, ben}
  Founder = {ann}
  Leaver = {ben}
  Git = ben
  Nobody = Nobody
  Process = {p}
  Idle = Idle
  Refused = Refused
  Proposal = {1}
  Pages = 1
  FirstPages = {}
  Absent = Absent
  Outside = Outside
  NoPin = NoPin
  NoRecord = NoRecord
  Unnamed = {ben}
  Slow = {"approve"}
  MaxRepairs = 1
  Modes = {"replace", "append", "update", "create"}
  Relay = {1}
  NoRelay = NoRelay
  Audience <- MCAudience
  MaxClock = 2
  SlowRelay = {"relay.acknowledge"}
  Reader = {ben}
  Branch = {main, dev}
  NoCursor = NoCursor
  NoPage = NoPage
  DefaultWindow = 1
  MaxPerSource = 1
  Playbook = {1}
  Workstream = {1}
  PlaybookRun = {1}
  NoWork = NoWork
  Todo = Todo
  StepSets = {{}, {x1, x2}}
  WorkStep = {1}
  StepStatus = {"done"}
  StreamStatus = {"active", "done"}
  GitNames = TRUE
  MaxRevision = 2
  SlowWork = {"run.start", "run.complete-step"}
  WikiPages = 2
  Title = {ann, ben, cat, dan}
  FirstEntity <- MCFirstEntity
  Batch = {1, 2, 3}
  Program <- MCProgram
  Handled = {2, 3}
  Pinned = {1}
  Unpinned = Unpinned
  AnyId = AnyId
  Writer = {v, w}
  MaxPlans = 1
  MaxStops = 1
  HandEdited <- MCHandEdited
  Documents = 2
  Text = {x1, x2}
  NoText = NoText
  MaxDocEdits = 2
  Maintainer = {v, w}
  NoLease = NoLease
  Unbuilt = Unbuilt
SYMMETRY Symmetry
INVARIANTS NothingIsSkipped AppliedOnce LogAndPagesAgree NothingIsLost FreshIsTrue
PROPERTIES ApprovalLosesNothing IndexIsOneInstant RunsKeepTheirWord
CHECK_DEADLOCK FALSE
