CONSTANTS
    HourLen = 4
    DayLen = 24
    Begin = 94
    MaxTime = 97
    MaxVolume = 2
    MaxQueue = 1
    MaxEvents = 1
    Silent = 2
    Invented = 1
    Period = 1
    UnsetTimes = 2
SPECIFICATION Spec
INVARIANTS TypeOK BarsExact NeverHalfDone TrustedTicks
PROPERTIES NewestLast LastLineSaved
CHECK_DEADLOCK FALSE
