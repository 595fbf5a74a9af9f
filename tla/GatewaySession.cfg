SPECIFICATION FairSpec
CONSTANTS
    MaxFetches = 3
INVARIANTS
    AcceptedIsFresh
    PinnedStreamIsInStep
    NothingLeaks
PROPERTIES
    FetchesEnd
CHECK_DEADLOCK FALSE
