SPECIFICATION Safety
CONSTANTS
    NWorkers = 2
    NClients = 1
    SpuriousWakeups = TRUE
    Signals = {"SIGINT", "SIGHUP"}
    PipeCapacity = 1
    ConnModulus = 2
    None = None
INVARIANTS
    FdMaxCovers
    NoStrandedRequest
CHECK_DEADLOCK FALSE
