\* Two payout worker processes.
SPECIFICATION SpecAll
CONSTANTS
    w1 = w1
    w2 = w2
    p1 = p1
    p2 = p2
    t1 = t1
    Worker = {w1, w2}
    Nobody = nobody
    Orphan = orphan
    HeartbeatInterval = 1
    DrainTimeout = 1
    StopTimeout = 2
    LeaseDuration = 4
    RetryInterval = 1
    AcquireWait = 5
    CallLimit = 3
SYMMETRY Interchangeable
INVARIANTS
    LeaseIsSound
    ReportsAreOfOneTip
    ReleasedIsNeverMined
    CallersAgree
    NoReplacement
\* The bounds on blocks, operations, calls and crashes end a behaviour.
CHECK_DEADLOCK FALSE
