\* Four slots, two stepped over when full, three laps.
SPECIFICATION Spec
CONSTANTS
    Capacity = 4
    Skip = 2
    MaxPush = 14
INVARIANTS
    TypeOK
    Contiguous
    LossPerOverflow
PROPERTIES
    InOrderOnce
    EveryElementLeaves
    ImplementsFifo
CHECK_DEADLOCK FALSE
