SPECIFICATION Spec
CONSTANTS
    Docs <- MCDocs
    Default <- MCDefault
    MaxOrder = 2
    MaxUnchecked = 1
    MaxCrash = 1
INVARIANTS TypeOK CountsKept AtMostOneLate DayBudget MinuteBudget
