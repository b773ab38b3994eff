SPECIFICATION FairSpec
CONSTANTS
  Proc = {p1, p2, p3}
  Absent = Absent
  Orphan = Orphan
  MaxFaults = 2
INVARIANT DropRemovesOnlyOwn
PROPERTIES ImplementsMutex OrphanIsBroken AcquireReturns
