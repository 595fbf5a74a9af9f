SPECIFICATION CompletionSpec
CONSTANTS
    Chunks <- MCChunks
    MaxLines = 4
INVARIANTS
    SurfacedInOrder
    CompletedIsWhole
    CollectedIsSaid
    TextStreamAgrees
CHECK_DEADLOCK FALSE
