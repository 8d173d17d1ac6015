\* Two verification runs of one process, each with a collector of its own.
SPECIFICATION Spec
CONSTANTS
    Policy <- MCPolicy
    MaxRequests = 3
    Matrices <- MCFewMatrices
    MaxCalls = 2
    NewObjects = TRUE
    MaxClock = 4
    Never = Never
    NoResult = NoResult
INVARIANT
    SpacedAcrossRuns
CHECK_DEADLOCK FALSE
