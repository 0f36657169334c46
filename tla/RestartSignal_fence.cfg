SPECIFICATION FairSpec
CONSTANTS
    Hooks = {"h1", "h2"}
    SessionOf <- TwoSessions
    Emitters = {"e1", "e2"}
    Nobody = Nobody
INVARIANTS FenceHasOwner IdleStaysIdle PreparedIsHeld
PROPERTIES AdmissionReopens
CHECK_DEADLOCK FALSE
