\* Nobody cancels: download() returns at its time limit.
CONSTANTS
    MaxChunks = 2
    MaxCancels = 0
SPECIFICATION Spec
CHECK_DEADLOCK FALSE
INVARIANTS
    CountIsFileSize
