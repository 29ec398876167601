CONSTANTS
    Scenarios <- MCTurnOrFaults
    Lot = 2
    Workers = {"algo"}
    MaxRef = 3
SPECIFICATION Spec
INVARIANTS BookedOnce NeverOver CancelOnce ViewExact
PROPERTIES TargetMet
