\* Three sites, four handlers, one restart of the agent, both modes.
SPECIFICATION Spec
CONSTANTS
    Sites = {s1, s2, s3}
    Versions = {v7, v8}
    None = None
    MaxOps = 4
    MaxBoots = 1
SYMMETRY Symmetry
CHECK_DEADLOCK FALSE
INVARIANTS
    UidsApart
    AtMostOneMore
    PoisonOnlyByRewrite
PROPERTIES
    SwitchKeepsServing
    LiveAddsNoSite
