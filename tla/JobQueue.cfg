\* Two workers, two rows, two restarts, two failed statements between boots.
SPECIFICATION FairSpec
CONSTANTS
    Workers = {w1, w2}
    None = None
    MaxJobs = 2
    MaxCrashes = 2
    MaxFaults = 2
INVARIANTS
    OneWorkerPerJob
    SentAtMostOnce
    SucceededWasApplied
    StrandedOnlyByFault
PROPERTIES
    LedgerSpec
    QueuedEnds
