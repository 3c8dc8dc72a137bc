SPECIFICATION Spec
CONSTANTS
    Paths = {p1, p2}
    Clients = {c1, c2}
    Workers = {w1, w2}
    Main = Main
    None = None
    MaxFiles = 1
    MaxSpace = 1
    Policy = "LRU"
    Sizes = {}
    Counts = {0}
    SendFailures = FALSE
INVARIANTS
    ReadersExact
PROPERTIES
    MutexReleased
    ClosingFinishes
