\* Two calls: do their commands ever overlap?
SPECIFICATION Spec
CONSTANTS
    Calls = {c1, c2}
    Ids = {i1, i2}
    None = None
    MaxCommands = 2
    MaxRestarts = 0
CHECK_DEADLOCK FALSE
INVARIANT
    OneCommandAtATime
