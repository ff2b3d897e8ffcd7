SPECIFICATION Spec
CONSTANTS
    Source <- TwoSource
    Path <- TwoPath
    Content = {v1, v2}
    Partial = partial
    Command = {"mkicn", "mkmov"}
    Item <- TwoItem
    Kind <- TwoKind
    Origin <- TwoOrigin
    Target <- TwoTarget
    LinkKind <- TwoLink
    Plan <- TwoPlan
    Todo <- TwoTodo
    Section <- TwoSection
    Given <- TwoGiven
    MaxRuns = 1
    MaxEdits = 0
    MaxReplaces = 0
INVARIANTS
    MainLinksResolve
    CleanRunIsConsistent
    FirstRunIsTrue
CHECK_DEADLOCK FALSE
