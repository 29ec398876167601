CONSTANTS
    Scenarios <- MCOffline
    Lot = 2
    Workers = {"algo"}
    MaxRef = 3
SPECIFICATION Spec
PROPERTIES TradingResumes
CHECK_DEADLOCK FALSE
