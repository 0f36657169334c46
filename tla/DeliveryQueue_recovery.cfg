SPECIFICATION FairSpec
CONSTANTS
    startup = startup
    drain = drain
    Live = Live
    Nobody = Nobody
    Recoverers <- OnePass
    NumParts = 2
    MaxRetries = 2
    MaxFailedWrites = 3
    MaxCrashes = 2
INVARIANTS TypeOK EvidenceBeforeSend AckedWasDelivered
PROPERTIES ImplementsOutbox PendingIsResolved
CHECK_DEADLOCK FALSE
