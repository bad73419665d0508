\* Two goroutines: every interleaving of two calls and of what an earlier call left.
CONSTANTS
    t1 = t1
    t2 = t2
    Tasks = {t1, t2}
    Base = 1
    Max = 4
    AttemptCap = 3
    MaxCooldown = 4
    MaxDrops = 3
    Backoff <- MCBackoff
SPECIFICATION HFairSpec
INVARIANTS
    HTypeOK
    OneAuth
    AuthenticatingIsBacked
    CooldownFitsAttempts
PROPERTIES
    AuthNotDisturbed
    KeychainFailureStops
    RejectedIsRetried
    AuthSlotIsFreed
    ImplementsOrchestrator
    CallsReturn
CHECK_DEADLOCK TRUE
