SPECIFICATION Spec
CONSTANTS
    Workers = {algo, auction}
    Docs <- MCDocs
    Positions <- MCPositions
    MaxClock = 5
    MaxNodes = 3
    Buffers = 2
INVARIANTS TypeOK Tracks GotLatest
PROPERTIES NeverBack CurrentUntouched
