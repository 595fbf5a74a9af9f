SPECIFICATION Spec
CONSTANTS
    Requests = {r1, r2, r3}
    Kinds = {"failure"}
    Endpoints = {"chat"}
    Errors = {"none"}
    Families = {"primary"}
    MaxWindowKeys = 2
    MaxEvents = 1
    MaxBatchEvents = 1
    MaxBatchRows = 1
    UrgentSize = 3
    Retention = 1
    MaxRetained = 1
    FlushMinutes = 1
    MinBackoff = 1
    MaxBackoff = 2
    MaxTime = 2
SYMMETRY RequestSymmetry
INVARIANTS
    RetentionIsBounded
CHECK_DEADLOCK FALSE
