SPECIFICATION Spec
CONSTANTS
  Events <- OneEvent
  Lanes <- OneLane
  LaneOf <- SameLane
  Drains = {"d1"}
  Procs = {"p1"}
  ProcOf <- Alone
  Supersedes = FALSE
  Faults = {}
  MaxClaims = 2
INVARIANTS AdoptionIsGenuine
CHECK_DEADLOCK FALSE
