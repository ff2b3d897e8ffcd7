SPECIFICATION Spec
CONSTANTS
    N = 3
    Task = 2
    Pre <- MCPre
    Post <- MCPost
    Env <- SomeEnv
    Inherited = {"PATH"}
INVARIANT
    EnvReachesChild
