SPECIFICATION FairSpec
CONSTANTS
    w1 = w1
    w2 = w2
    c1 = c1
    c2 = c2
    Workers = {w1}
    Conns = {c1, c2}
    NoWorker = NoWorker
    NoConn = NoConn
    MaxFailures = 1
    MaxRestarts = 0
PROPERTY
    ReachableIsReported
CHECK_DEADLOCK FALSE
