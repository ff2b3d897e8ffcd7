SPECIFICATION LibrarySpec
CONSTANTS
    Configs <- McConfigs
    Documents <- McDocuments
    Fsl <- Fsl0
    MaxDepth = 3
    Between = 1
    Wrap = 1000000000
    Longest = 2000000
    Clock <- Clock0
INVARIANTS
    DocumentsAreOwn
    IncrementsHold
    RecordsDescribed
    PlacesAgree
    MergeAgrees
CHECK_DEADLOCK FALSE
