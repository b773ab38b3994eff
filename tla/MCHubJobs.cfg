SPECIFICATION HubStateSpec
CONSTANTS
  Client = {c1, c2}
  graph = graph
  wiki = wiki
  cozo = cozo
  Kind = {graph}
  Program <- MCProgram
  Nothing = Nothing
  HistoryLimit = 1
  Capacity = 2
  MaxJobs = 2
  MaxCancels = 1
  MaxFaults = 1
  Connection = {c3, c4}
  MaxStreams = 1
  MaxSessions = 1
  MaxIssued = 2
  Visitor = {v1}
  Batch = 1
  MaxActions = 2
  MaxLines = 2
  MaxLinks = 2
INVARIANTS OneAtATime CancelHonoured DiskCatchesUp SlotsAreCounted NoAgentIsLeft TranscriptIsWhole
PROPERTIES OutcomeIsFinal JobsEnd EndedSessionsStop CancelStops SetupEnds
CHECK_DEADLOCK FALSE
