SPECIFICATION Spec
CONSTANTS
    Source <- CamSource
    Path <- CamPath
    Content = {v1, v2}
    Partial = partial
    Command = {"mknef"}
    Item <- CamItem
    Kind <- CamKind
    Origin <- CamOrigin
    Target <- CamTarget
    LinkKind <- CamLink
    Plan <- CamPlan
    Todo <- CamTodo
    Section <- CamSection
    Given <- CamGiven
    MaxRuns = 2
    MaxEdits = 2
    MaxReplaces = 1
INVARIANTS
    TypeOK
    NoOrphanMetadata
    MainLinksResolve
    CleanRunIsConsistent
    FirstRunIsTrue
PROPERTIES
    SourcesPreserved
    ImplementsCatalog
CHECK_DEADLOCK FALSE
