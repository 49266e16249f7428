CONSTANTS
    Clients = {c1, c2}
    Pool = 2
    MaxAsks = 3
SPECIFICATION FairSpec
INVARIANTS
    
    
    EngineAgrees
PROPERTIES
    RequestsEnd
CHECK_DEADLOCK FALSE
