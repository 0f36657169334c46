CONSTANTS
    c1 = c1
    c2 = c2
    e1 = e1
    e2 = e2
    Chains <- TwoChains
    Emitters <- TwoEmitters
    MaxRoots = 2
    MaxGeneration = 3
SPECIFICATION Spec
INVARIANTS
    RootsAreCounted
    WaitersAreWoken
    DrainedIsFinal
    FenceHasOneOwner
PROPERTIES
    ImplementsGate
CHECK_DEADLOCK FALSE
