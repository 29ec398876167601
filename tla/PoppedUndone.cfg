SPECIFICATION Spec
CONSTANTS
    Workers = {algo}
    Docs <- MCDocs
    Positions <- MCPositions
    MaxClock = 5
    MaxNodes = 3
    Buffers = 2
PROPERTIES PopsTriggered
