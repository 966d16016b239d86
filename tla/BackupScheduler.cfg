\* Two sites, two rows, two editors with two edits, one failed statement or restart.
SPECIFICATION FairSpec
CONSTANTS
    Sites = {s1, s2}
    NoSite = NoSite
    None = None
    Handlers = {h1, h2}
    MaxEdits = 2
    MaxSchedules = 2
    MaxManual = 1
    MaxMishaps = 1
CHECK_DEADLOCK FALSE
INVARIANTS
    OneScheduledBackup
    NothingSkipped
    ServedOnce
PROPERTY
    DueIsServed
