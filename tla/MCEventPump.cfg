SPECIFICATION FairSpec
CONSTANTS
    Capacities = {0, 2}
    MaxMessages = 4
INVARIANT TypeOK
PROPERTIES
    IsEventStream
    ErrorReachesWatch
    GoroutineEnds
    NeverNilError
