SPECIFICATION FairSpec
CONSTANTS
    N = 3
    Task = 2
    Pre <- MCPre
    Post <- MCPost
    Env <- NoEnv
    Inherited = {"PATH"}
INVARIANTS
    TypeOK
    AtMostTask
    ExitWaits
    StagesInOrder
PROPERTY
    AllRun
