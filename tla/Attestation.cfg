SPECIFICATION Spec
CONSTANTS
    Images <- MCImages
    Releases <- MCReleases
    MaxNonces = 2
INVARIANTS
    OnlyPublishedImages
    BindingIsEndToEnd
    DocumentIsOnlyFresh
    HonestIsVerified
CHECK_DEADLOCK FALSE
