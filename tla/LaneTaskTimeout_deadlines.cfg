CONSTANTS
    TaskTimeout = 3
    AbortGrace = 2
    MaxLag = 1
    Horizon = 12
SPECIFICATION Spec
INVARIANTS
    HeldWithinDeadline
    ReleaseBeatsGrace
PROPERTIES
    TruthfulCause
CHECK_DEADLOCK FALSE
