SPECIFICATION Spec
CONSTANTS
    Lists = 1
    Days = 2
    Hours = 3
    MaxAttempt = 2
    MaxRuns = 2
INVARIANTS
    TypeOK
    EntriesInOrder
    SuccessIsAnswered
    NothingHalfDone
CHECK_DEADLOCK FALSE
