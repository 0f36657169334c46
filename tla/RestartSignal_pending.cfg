SPECIFICATION Spec
CONSTANTS
    Hooks = {}
    SessionOf <- OneSession
    Emitters = {"e1", "e2"}
    Nobody = Nobody
INVARIANTS PendingIsDriven
CHECK_DEADLOCK FALSE
