SPECIFICATION Spec
CONSTANTS
    w1 = w1
    w2 = w2
    c1 = c1
    c2 = c2
    Workers = {w1}
    Conns = {c1}
    NoWorker = NoWorker
    NoConn = NoConn
    MaxFailures = 0
    MaxRestarts = 0
INVARIANT
    DeletedHasNoWorker
CHECK_DEADLOCK FALSE
