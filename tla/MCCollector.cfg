\* Two calls of one collector; MaxRequests is less than one of the matrices.
SPECIFICATION FairSpec
CONSTANTS
    Policy <- MCPolicy
    MaxRequests = 3
    Matrices <- MCMatrices
    MaxCalls = 2
    NewObjects = TRUE
    MaxClock = 3
    Never = Never
    NoResult = NoResult
INVARIANTS
    TypeOK
    SpacedPerTarget
    NoBurstOfThree
    SendsAPrefix
    ReturnsAllOrNothing
    SendsOnlyAuthorized
PROPERTY
    CallEnds
CHECK_DEADLOCK FALSE
