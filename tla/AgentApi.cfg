\* Three calls, two ids, two commands each, one restart.
SPECIFICATION FairSpec
CONSTANTS
    Calls = {c1, c2, c3}
    Ids = {i1, i2}
    None = None
    MaxCommands = 2
    MaxRestarts = 1
CHECK_DEADLOCK FALSE
INVARIANTS
    TypeOK
    RepeatedOnlyIfForgotten
    OverlapOnlyByDrop
PROPERTY
    PermitReturns
