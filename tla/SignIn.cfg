\* Three requests at a time, the throttle at three failures.
SPECIFICATION Spec
CONSTANTS
    Browsers = {b1, b2, b3}
    MaxFailures = 3
    MaxRefused = 1
SYMMETRY Symmetry
INVARIANTS
    ChecksBounded
    SecondFactorHeld
    UnprovenOnlyByOverwrite
