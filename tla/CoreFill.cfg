CONSTANTS
    Scenarios <- MCFill
    Lot = 2
    Workers = {"algo"}
    MaxRef = 3
SPECIFICATION Spec
INVARIANTS TypeOK ExposureKept BooksAgree
PROPERTIES TargetHeld
