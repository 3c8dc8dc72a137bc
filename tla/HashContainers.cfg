SPECIFICATION Spec
CONSTANTS
    NULL = NULL
    k1 = k1
    k2 = k2
    k3 = k3
    k4 = k4
    d1 = d1
    d2 = d2
    Keys = {k1, k2, k3, k4}
    Data = {d1, d2}
    HashOf <- MCHashOf
    HASH_N_LIST = 2
    MaxQueue = 3
INVARIANTS
    WellLinked
    KeysFindable
PROPERTY
    Implements
