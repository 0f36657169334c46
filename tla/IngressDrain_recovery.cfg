SPECIFICATION FairSpec
CONSTANTS
  Events <- OneEvent
  Lanes <- OneLane
  LaneOf <- SameLane
  Drains = {"d1", "d2"}
  Procs = {"p1"}
  ProcOf <- Alone
  Supersedes = FALSE
  Faults = {"abort", "resubmit", "prune"}
  MaxClaims = 1
PROPERTIES RetiredClaimIsRecovered HandlerFreesLane
CHECK_DEADLOCK FALSE
