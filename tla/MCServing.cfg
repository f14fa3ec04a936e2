\* Two starts: a service or a probe, and its successor, one after the other or
\* side by side.
SPECIFICATION SpecAll
CONSTANTS
    p1 = p1
    p2 = p2
    c1 = c1
    c2 = c2
    a1 = a1
    Processes = {p1, p2}
    NoProcess = none
    Policies = {"a", "b"}
    Unbound = unbound
    Tasks = {"edge", "nonce"}
    Lease = 2
    Attempts = 2
    MaxStarts = 2
PROPERTIES
    ServesByRight
    BrokenServiceStops
    RevokedIsCutOff
    
\* A stopped listener takes no step.
CHECK_DEADLOCK FALSE
