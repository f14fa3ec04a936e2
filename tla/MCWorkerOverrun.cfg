\* Two payout workers.
SPECIFICATION Spec
CONSTANTS
    Worker = {w1, w2}
    Nobody = Nobody
    Orphan = Orphan
    HeartbeatInterval = 1
    DrainTimeout = 1
    StopTimeout = 2
    LeaseDuration = 4
    RetryInterval = 1
    AcquireWait = 5
    CallLimit = 3
PROPERTIES
    TimedOutDrainKeepsLease
