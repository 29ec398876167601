SPECIFICATION Spec
CONSTANTS
    Accounts <- MCAccounts
    Targets <- MCTargets
    MaxOnce = 2
    LongMax = 2
    ShortMax = 2
    MaxRef = 4
INVARIANTS TypeOK BooksFollow ClosesCovered TargetKept
CHECK_DEADLOCK FALSE
