SPECIFICATION FairSpec
CONSTANTS
    MaxFeed = 3
    MaxPolls = 2
    MaxExtra = 1
    MaxRestarts = 1
INVARIANTS
    ETagIsAccountedFor
    RecordsOncePublished
PROPERTIES
    PendingIsNeverDropped
    PublishesInOrder
    LastVersionIsPublished
CHECK_DEADLOCK FALSE
