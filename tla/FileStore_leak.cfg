SPECIFICATION Spec
CONSTANTS
    Paths = {p1}
    Clients = {c1}
    Workers = {w1}
    Main = Main
    None = None
    MaxFiles = 1
    MaxSpace = 1
    Policy = "LRU"
    Sizes = {1}
    Counts = {0}
    SendFailures = TRUE
PROPERTIES
    ClosingFinishes
CHECK_DEADLOCK FALSE
