SPECIFICATION RecSpec
CONSTANTS
    MaxRetries = 1
    NumBases = 2
    MaxItems = 1
    Hints <- MCHints
    Statuses = {200, 400, 500, 502}
INVARIANTS
    FailuresAreRetained
CHECK_DEADLOCK FALSE
