SPECIFICATION Safety
CONSTANTS
    Paths = {p1, p2}
    Clients = {c1, c2}
    Workers = {w1, w2}
    Main = Main
    None = None
    MaxFiles = 2
    MaxSpace = 1
    Policy = "FIFO"
    Sizes = {1}
    Counts = {0}
    SendFailures = TRUE
SYMMETRY StoreSymmetry
INVARIANTS
    EvictionWaitsForReaders
    WritersDone
    ReadersPinned
    LockersOpened
    
PROPERTIES
    SentStable
CHECK_DEADLOCK FALSE
