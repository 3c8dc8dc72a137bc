SPECIFICATION Spec
CONSTANTS
    NWorkers = 1
    NClients = 1
    SpuriousWakeups = FALSE
    Signals = {"SIGHUP"}
    PipeCapacity = 1
    ConnModulus = 4
    None = None
PROPERTIES
    ShutdownCompletes
CHECK_DEADLOCK FALSE
