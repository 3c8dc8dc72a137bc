SPECIFICATION Safety
CONSTANTS
    NWorkers = 2
    NClients = 2
    SpuriousWakeups = FALSE
    Signals = {}
    PipeCapacity = 1
    ConnModulus = 4
    None = None
INVARIANTS
    PopsRequest
