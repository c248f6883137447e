SPECIFICATION Spec
CONSTANTS
    m1 = m1
    m2 = m2
    Messages = {m1, m2}
    Incoming = {m1}
    NEvents = 2
    ContentOf <- MCHistoryContentOf
    Loads <- MCAll
    NoEntry = NoEntry
    MaxFailures = 0
INVARIANT
    AcknowledgedIsAnnounced
CHECK_DEADLOCK FALSE
