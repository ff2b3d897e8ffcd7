SPECIFICATION Spec
CONSTANTS
    N = 2
    File = {"f1"}
    Listing <- TurnListing
    Remote <- OwnRemote
    Keep <- No
    Forced <- No
    Compress <- No
    Jobs = 1
    Content = {v1, v2, short}
    Size <- MCSize
    Partial = partial
    Absent = absent
    MaxClock = 2
    MaxEdits = 2
    MaxRuns = 3
INVARIANTS
    TypeOK
    QuietRunStores
    TwinsAreEqual
PROPERTY
    RemovedIsStored
CHECK_DEADLOCK FALSE
