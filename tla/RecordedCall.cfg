SPECIFICATION RecSpec
CONSTANTS
    MaxRetries = 2
    NumBases = 2
    MaxItems = 1
    Hints <- MCHints
    Statuses = {200, 302, 400, 500, 502}
INVARIANTS
    TypeOK
    EventMatchesWire
    ExhaustedMeansBudgetSpent
    HeaderTellsPreviousTry
    ChargedAtMostOnce
    KeylessResendIsDead
    ResendsAreJustified
    BudgetIsSpentExactly
    SleepsAreBounded
PROPERTIES
    PromiseKept
CHECK_DEADLOCK FALSE
