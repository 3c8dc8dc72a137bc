SPECIFICATION Safety
CONSTANTS
    Paths = {p1, p2, p3, p4}
    Clients = {c1}
    Workers = {w1}
    Main = Main
    None = None
    MaxFiles = 3
    MaxSpace = 3
    Policy = "LRU"
    Sizes = {1, 3, 4}
    Counts = {1}
    SendFailures = FALSE
SYMMETRY StoreSymmetry
INVARIANTS
    TypeOK
    AccountingExact
    WithinLimits
    VictimExists
PROPERTIES
    NoNeedlessLoss
    Implements
