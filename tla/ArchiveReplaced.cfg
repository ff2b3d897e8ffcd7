SPECIFICATION Spec
CONSTANTS
    Source <- CsvSource
    Path <- CsvPath
    Content = {v1, v2}
    Partial = partial
    Command = {"mkcsv"}
    Item <- CsvItem
    Kind <- CsvKind
    Origin <- CsvOrigin
    Target <- CsvTarget
    LinkKind <- CsvLink
    Plan <- CsvPlan
    Todo <- CsvTodo
    Section <- CsvSection
    Given <- CsvGiven
    MaxRuns = 2
    MaxEdits = 1
    MaxReplaces = 1
INVARIANT
    MetadataIsRelated
CHECK_DEADLOCK FALSE
