SPECIFICATION FairSpec
CONSTANTS
    m1 = m1
    m2 = m2
    Messages = {m1, m2}
    Incoming = {m1}
    NEvents = 4
    ContentOf <- MCContentOf
    Loads <- MCLoads
    NoEntry = NoEntry
    MaxFailures = 2
INVARIANTS
    TypeOK
    NoEventLost
    AcknowledgedIsStored
    AnnouncedOnce
    AnnouncedInOrder
PROPERTIES
    DeliveryImplementsContract
    SpooledIsProcessed
CHECK_DEADLOCK FALSE
