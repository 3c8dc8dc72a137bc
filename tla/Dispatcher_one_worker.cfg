SPECIFICATION Spec
CONSTANTS
    NWorkers = 1
    NClients = 3
    SpuriousWakeups = FALSE
    Signals = {}
    PipeCapacity = 1
    ConnModulus = 4
    None = None
INVARIANTS
    TypeOK
    OnePlace
    ConnExact
    ScanFresh

    
    
