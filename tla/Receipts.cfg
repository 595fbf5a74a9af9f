SPECIFICATION Spec
CONSTANTS
    Issued <- MCIssued
    Payloads = {"a", "b"}
    MaxEvents = 4
    MaxPerChunk = 2
INVARIANTS
    VerifiedIsUntouched
    VerifiedIsBound
    EvidenceIsNeverAssumed
CHECK_DEADLOCK FALSE
