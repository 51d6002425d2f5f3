\* Four chunks, and the task may be cancelled twice.
CONSTANTS
    MaxChunks = 4
    MaxCancels = 2
SPECIFICATION FairSpec
CHECK_DEADLOCK FALSE
INVARIANTS
    TypeOK
    CountIsLowerBound
PROPERTIES
    EndReleases
    TimeLimitHolds
    ImplementsRecording
