\* Two requests at a time over two sessions and one hashing slot; the account
\* may have two workers, and two second factors in turn.
SPECIFICATION SpecAll
CONSTANTS
    r1 = r1
    r2 = r2
    t1 = t1
    t2 = t2
    Requests = {r1, r2}
    Tokens = {t1, t2}
    Slots = 1
    MaxAttempts = 2
    MaxWorkers = 2
    MaxSecrets = 2
SYMMETRY Interchangeable
INVARIANTS
    SessionsHaveTheFactor
    WorkersStayListable
    ViewsAreComplete
PROPERTY DraftsUseTheNewest
