SPECIFICATION Spec
CONSTANTS
    Requests = {r1, r2, r3}
    Kinds = {"ok", "failure"}
    Endpoints = {"chat"}
    Errors = {"none"}
    Families = {"primary"}
    MaxWindowKeys = 2
    MaxEvents = 2
    MaxBatchEvents = 1
    MaxBatchRows = 1
    UrgentSize = 3
    Retention = 0
    MaxRetained = 1
    FlushMinutes = 1
    MinBackoff = 1
    MaxBackoff = 2
    MaxTime = 1
INVARIANTS
    LossIsReported
    ConfirmedIsDone
    NotBackdated
PROPERTIES
    PausesAreHonoured
    FailuresOutliveSuccesses
SYMMETRY RequestSymmetry
CHECK_DEADLOCK FALSE

