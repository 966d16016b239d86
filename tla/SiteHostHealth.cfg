\* What health reports of the container a create has started.
SPECIFICATION Spec
CONSTANTS
    Sites = {s1}
    Versions = {v8}
    None = None
    MaxOps = 1
    MaxBoots = 0
CHECK_DEADLOCK FALSE
INVARIANT
    HealthFollowsContainer
