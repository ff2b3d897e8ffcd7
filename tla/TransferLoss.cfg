SPECIFICATION Spec
CONSTANTS
    N = 2
    File = {"f1"}
    Listing <- TurnListing
    Remote <- OwnRemote
    Keep <- No
    Forced <- No
    Compress <- No
    Jobs = 1
    Content = {v1}
    Size <- MCSize
    Partial = partial
    Absent = absent
    MaxClock = 0
    MaxEdits = 0
    MaxRuns = 1
INVARIANT
    NoFileIsLost
CHECK_DEADLOCK FALSE
