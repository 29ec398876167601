CONSTANTS
    Exchanges = 2
    Orders <- MCOrders
    Exid <- MCExid
    Vol <- MCVol
    MaxTry = 1
    Faults = {"down", "beat", "error", "refuse", "logout", "late"}
    MaxTrouble = 2
    MaxAsked = 2
SPECIFICATION Spec
INVARIANTS TypeOK Initialised BooksExact
PROPERTIES StartEnds LogsBackIn
CHECK_DEADLOCK FALSE
