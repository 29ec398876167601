CONSTANTS
    Scenarios <- MCTwoTriggers
    Lot = 2
    Workers = {"algo", "auction"}
    MaxRef = 2
SPECIFICATION Spec
INVARIANTS ExposureKept
CHECK_DEADLOCK FALSE
