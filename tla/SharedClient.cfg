SPECIFICATION FairClientSpec
CONSTANTS
    Callers = {"c1", "c2"}
    Regions <- MCRegions
    Aliases <- MCAliases
    MaxRetries = 1
    Mixes <- MCMixes
    Probes = {"p1"}
INVARIANTS
    ListIsWalked
    OneReporter
PROPERTIES
    WireIsOurs
    SharedStateIsStable
    CallsEnd
CHECK_DEADLOCK FALSE
