SPECIFICATION FairServerSpec
CONSTANTS
    Sockets = {s1, s2}
    MaxPublished = 3
INVARIANTS
    NoHandlerNoRegistration
    NoZombiePeer
    NoCloseDuringSend
    RegisteredIsUpToDate
PROPERTIES
    FailedPeerIsReleased
    ImplementsFeed
    DeliversInOrder
    QueuedPublishStarts
    ReplayEnds
CHECK_DEADLOCK FALSE
