SPECIFICATION FairSpec
CONSTANTS
    Box <- McBox
    Handlers <- McHandlers
    Content = {"b1", "b2"}
    Empty <- McEmpty
    Partial = partial
    Absent = absent
INVARIANTS
    TypeOK
    HandedInOrder
    SumIsOfFile
    KeptFilesStay
PROPERTY
    AllHanded
CHECK_DEADLOCK FALSE
