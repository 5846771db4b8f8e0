SPECIFICATION FairSpec
CONSTANTS
    Callers = {c1, c2, c3}
    Free = Free
    MaxFailures = 2
    ResetTimeout = 1
    HalfOpenMaxRequests = 2
INVARIANTS
    BreakerConsistent
PROPERTIES
    EpisodesAndCallsEnd
