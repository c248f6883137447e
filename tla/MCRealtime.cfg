SPECIFICATION FairSpec
CONSTANTS
    s1 = s1
    Subscribers = {s1}
    MaxEvents = 2
    BatchLimit = 2
    QueueLimit = 1
    MaxStatus = 1
    MaxToggles = 2
    MaxFailures = 2
INVARIANTS
    TypeOK
    DeliveredIsPublished
    PublishedAgainAfterFailure
    NoSilentGap
PROPERTIES
    CommittedIsPublished
    OverflowIsClosed
CHECK_DEADLOCK FALSE
