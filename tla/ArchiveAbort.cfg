SPECIFICATION Spec
CONSTANTS
    Source <- CsvSource
    Path <- CsvPath
    Content = {v1, v2}
    Partial = partial
    Command = {"mkcsv"}
    Item <- CsvItem
    Kind <- CsvKind
    Origin <- CsvOrigin
    Target <- CsvTarget
    LinkKind <- CsvLink
    Plan <- CsvPlan
    Todo <- CsvTodo
    Section <- CsvSection
    Given <- CsvGiven
    MaxRuns = 1
    MaxEdits = 0
    MaxReplaces = 0
INVARIANT
    SilentRunIsComplete
CHECK_DEADLOCK FALSE
