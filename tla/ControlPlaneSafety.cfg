\* Two sites, two workers, three jobs, one lost answer; a production panel.
SPECIFICATION Spec
CONSTANTS
    Sites = {s1, s2}
    NoSite = NoSite
    Workers = {w1, w2}
    DemoData = FALSE
    MaxJobs = 3
    MaxLosses = 1
SYMMETRY Symmetry
CHECK_DEADLOCK FALSE
INVARIANTS
    RowHasRecord
    OnlyAPushRevives
    StuckIsCopyOrLoss
    StatusFollowsRecord
PROPERTY LedgerSpec
