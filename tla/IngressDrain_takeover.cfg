SPECIFICATION Spec
CONSTANTS
  Events <- OneEvent
  Lanes <- OneLane
  LaneOf <- SameLane
  Drains = {"d1", "d2"}
  Procs = {"p1", "p2"}
  ProcOf <- Apart
  Supersedes = FALSE
  Faults = {"lapse", "crash"}
  MaxClaims = 2
PROPERTIES ImplementsInbox
CHECK_DEADLOCK FALSE
