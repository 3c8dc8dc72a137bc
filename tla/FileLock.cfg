SPECIFICATION Spec
CONSTANTS
    Threads = {t1, t2, t3, t4}
    None = None
INVARIANTS
    TypeOK
    WritersExclude
    CountersExact
    NoLostWakeup
    OneWaiter
PROPERTIES
    OrderHolderEnters
    Implements
