SPECIFICATION FairSpec
CONSTANTS
    Capacities <- MCCapacities
    MaxEvents = 7
    SockBuf = 1
INVARIANTS
    IInv
    WakeupNotLost
    PendingImpliesBacklog
    CleanEndOwesNothing
    StreamTellsAll
    NoticesAreTrue
PROPERTY
    ImplementsLossyFifo
    DestructorReturns
    AcceptedIsSent
