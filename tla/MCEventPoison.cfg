SPECIFICATION FairSpec
CONSTANTS
    m1 = m1
    m2 = m2
    Messages = {m1, m2}
    Incoming = {m1}
    NEvents = 2
    ContentOf <- MCPoisonContentOf
    Loads <- MCAll
    NoEntry = NoEntry
    MaxFailures = 0
PROPERTY
    ConformingIsProcessed
CHECK_DEADLOCK FALSE
