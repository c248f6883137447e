SPECIFICATION FairSpec
CONSTANTS
    c1 = c1
    c2 = c2
    Commands <- MCCommands
    KindsOf <- MCKindsOf
    MaxCompleted = 1
    NUpdates = 3
    Loads <- MCLoads
    MaxLines = 2
INVARIANTS
    UpdatesInOrder
PROPERTIES
    TelegramImplementsWorker
    TakenIsAnswered
CHECK_DEADLOCK FALSE
