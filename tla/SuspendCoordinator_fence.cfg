CONSTANTS
    c1 = c1
    c2 = c2
    e1 = e1
    h1 = h1
    h2 = h2
    Chains <- TwoChains
    Emitters <- OneEmitter
    Requests <- TwoHosts
    TTL = 2
    MaxRoots = 2
    MaxGeneration = 2
SPECIFICATION CoordinatorFairSpec
INVARIANTS
    FenceHasTimer
    SchedulerPausedBehindFence
    SuspensionIsQuiet
PROPERTIES
    SuspensionEnds
    WaitersAreAnswered
CHECK_DEADLOCK FALSE
