SPECIFICATION FairSpec
CONSTANTS
    N = 3
    File = {"f1", "f2"}
    Listing <- TrioListing
    Remote <- OwnRemote
    Keep <- TrioKeep
    Forced <- Second
    Compress <- Second
    Jobs = 2
    Content = {v1}
    Size <- MCSize
    Partial = partial
    Absent = absent
    MaxClock = 0
    MaxEdits = 0
    MaxRuns = 1
INVARIANTS
    AtMostJobs
PROPERTIES
    RemovedIsStored
    RunEnds
CHECK_DEADLOCK FALSE
