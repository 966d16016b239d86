\* Every hook, two pages being rendered at a time, TLS turned on or off once.
SPECIFICATION CacheSpec
CONSTANTS
    Aliased = {"post"}
    MaxFetching = 2
    MaxWrites = 1
INVARIANTS
    StaleHasCause
