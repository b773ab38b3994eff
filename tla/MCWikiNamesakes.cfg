SPECIFICATION WikiSpec
CONSTANTS
  ann = ann
  ben = ben
  cat = cat
  v = v
  WikiPages = 2
  Title = {ann, ben, cat}
  FirstEntity <- MCFirstEntity
  Batch = {1, 2}
  Program <- MCNamesakes
  Handled = {}
  Pinned = {1}
  Unpinned = Unpinned
  AnyId = AnyId
  Writer = {v}
  MaxPlans = 1
  MaxStops = 2
  HandEdited <- MCHandEdited
INVARIANTS CompleteMeansCreated
CHECK_DEADLOCK FALSE
