\* One server, one site, every rule, one statement that fails.
SPECIFICATION FairSpec
CONSTANTS
    Names = {n1}
    Sites = {s1}
    None = None
    MaxFaults = 1
PROPERTIES
    LostOnlyIfLate
    AlertFollows
