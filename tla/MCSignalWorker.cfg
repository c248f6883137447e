SPECIFICATION FairSpec
CONSTANTS
    c1 = c1
    c2 = c2
    c3 = c3
    c4 = c4
    c5 = c5
    Commands <- MCCommands
    KindsOf <- MCKindsOf
    HandlerLimit = 2
    ResultLimit = 1
    NotificationLimit = 1
    EventLimit = 1
    NNotifications = 4
    Textual = {1, 3, 4}
    Loads <- MCLoads
INVARIANTS
    TypeOK
    NotificationsInOrder
PROPERTIES
    SignalImplementsWorker
    CommandIsAnswered
CHECK_DEADLOCK FALSE
