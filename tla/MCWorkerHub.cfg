SPECIFICATION FairSpec
CONSTANTS
    w1 = w1
    w2 = w2
    c1 = c1
    c2 = c2
    Workers = {w1, w2}
    Conns = {c1, c2}
    NoWorker = NoWorker
    NoConn = NoConn
    MaxFailures = 1
    MaxRestarts = 1
INVARIANTS
    TypeOK
    OneActiveWorker
    OneKeyholder
    RegisteredIsCurrent
    LiveMeansConnected
PROPERTIES
    KeyholderReconnects
    DeletedIsClosed
