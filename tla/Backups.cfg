\* Two destinations, two schedules, two jobs or requests at a time, two snapshots.
SPECIFICATION BackupsSpec
CONSTANTS
    Dests = {d1, d2}
    NoDest = NoDest
    Procs = {p1, p2}
    MaxSnaps = 2
    MaxUpsets = 1
    MaxPerSite = 2
    Reported = "other"
SYMMETRY Symmetry
INVARIANTS
    BackupsTypeOK
    OneRowUnlessCrossed
    RowNamesHolder
    RestoreFindsSnapshot
    CopiesOneSnapshot
