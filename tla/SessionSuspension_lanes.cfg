SPECIFICATION Spec
CONSTANTS
  Lanes <- AllKinds
  LaneKind <- KindOf
  Sessions = {"s1"}
  Limits = {1, 2}
  TTL = 2
  MaxCalls = 2
  MaxGeneration = 4
INVARIANTS TimersAreFenced ClosedLaneHasResume StoredMeansThrottled
PROPERTIES HeldUntilDue
CHECK_DEADLOCK FALSE
