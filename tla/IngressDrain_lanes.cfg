SPECIFICATION Spec
CONSTANTS
  Events <- TwoEvents
  Lanes <- OneLane
  LaneOf <- SameLane
  Drains = {"d1"}
  Procs = {"p1"}
  ProcOf <- Alone
  Supersedes = TRUE
  Faults = {"write", "abort"}
  MaxClaims = 3
INVARIANTS LaneHasOneHandler NoOrphanedClaim AdoptedOnce
CHECK_DEADLOCK FALSE
