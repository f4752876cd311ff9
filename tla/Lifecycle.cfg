SPECIFICATION Spec
CONSTANTS
    RawConfigs <- MCRawConfigs
    Paths <- MCPaths
    Requests = {q1}
    Timers = {t1, t2}
    MaxGeneration = 1
    MaxDuration = 1000000
INVARIANTS
    CleanExit
    
    RoutesResolve
PROPERTIES
    StopsOnSignal
    CertCatchesUp
CHECK_DEADLOCK FALSE
