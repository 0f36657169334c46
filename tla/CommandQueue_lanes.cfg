SPECIFICATION FairSpec
CONSTANTS
    main = main
    w1 = w1
    Lanes <- OneLane
    ProbeLanes = {}
    Waiters <- OneWaiter
    Priorities = {0, 1}
    TimedChoices = {TRUE}
    MaxConcurrency = 1
    MaxEntries = 3
    MaxGeneration = 1
INVARIANTS NoIdleSlot SlotAccounting PendingIsHeld WaiterHasReason
PROPERTIES ImplementsLanes TimedWorkSettles WaitersAnswered NoOvertaking
