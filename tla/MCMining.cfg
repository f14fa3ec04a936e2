SPECIFICATION SpecAll
CONSTANTS
    c1 = c1
    c2 = c2
    c3 = c3
    a1 = a1
    a2 = a2
    Work <- MovingWork
    Easiest = 2
    InitialTarget = 1
    Capacity = 2
    MaxAnnounced = 3
    MaxRecovery = 2
    MaxPending = 2
    MaxRecent = 2
    MaxJobs = 2
    MaxTickets = 3
    MaxEnds = 1
    MaxTime = 1
    MaxRevision = 1
SYMMETRY Interchangeable
INVARIANTS
    CleanBoundaryIsKept
    
    BooksMatchSessions
    ScalingIsExact
\* A closed connection, a stopped listener and a finished division take no step.
CHECK_DEADLOCK FALSE
