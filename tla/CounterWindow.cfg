SPECIFICATION WindowSpec
CONSTANTS
    MaxWindowKeys = 2
    Requests = {r1, r2, r3, r4}
    Endpoints = {"chat", "inference_other"}
    Errors = {"dns", "tls", "unknown"}
    Families = {"primary", "alias"}
INVARIANTS
    CountedOnce
PROPERTIES
    FoldsStayInTheFamily
CHECK_DEADLOCK FALSE
