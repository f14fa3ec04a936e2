SPECIFICATION SpecAll
CONSTANTS
    Batch = {1, 2}
    MaxExpiryCandidates = 2
    MaxWatches = 1
    MaxFailures = 1
    MaxFaults = 1
    MaxMoves = 1
INVARIANTS
    OneInFlight
    EffectsFollowFences
PROPERTIES
    
    
    NobodyIsPassedOver
    CallsEndInTheTruth
