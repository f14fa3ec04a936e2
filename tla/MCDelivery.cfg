SPECIFICATION SpecAll
CONSTANTS
    w1 = w1
    w2 = w2
    s1 = s1
    m1 = m1
    m2 = m2
    Writers = {w1, w2}
    Server = server
    Shares = {s1}
    NoShare = none
    PageSize = 2
    Capacity = 1
    MaxOther = 1
    MaxSubmits = 1
    MaxFaults = 1
INVARIANTS
    BooksComeFirst
    PausesReachEveryShare
PROPERTIES
    NothingIsLeftBehind
    EveryShareIsAnswered
\* The bounds on events and submissions end a behaviour of the journal.
CHECK_DEADLOCK FALSE
