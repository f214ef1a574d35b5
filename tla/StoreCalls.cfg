SPECIFICATION FairSpec
CHECK_DEADLOCK FALSE
CONSTANTS
    Scripts <- Workloads
    NumCalls = 5
    Objects = {1, 2, 3}
    Extents = {1, 2}
INVARIANTS ExtentsOwned LeasedStable SnapshotExact
PROPERTY LeasesEnd
