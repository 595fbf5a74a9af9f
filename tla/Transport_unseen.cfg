SPECIFICATION Spec
CONSTANTS
    MaxRetries = 2
    NumBases = 2
    MaxItems = 1
    Statuses = {200, 400, 500, 502}
INVARIANTS
    MovedOnlyIfUnseen
CHECK_DEADLOCK FALSE
