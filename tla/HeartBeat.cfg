CONSTANTS
    Exchanges = 2
    Orders <- MCOrders
    Exid <- MCExid
    Vol <- MCVol
    MaxTry = 1
    Faults = {"beat"}
    MaxTrouble = 1
    MaxAsked = 2
SPECIFICATION Spec
PROPERTY AlwaysBackIn
CHECK_DEADLOCK FALSE
