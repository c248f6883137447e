SPECIFICATION FairSpec
CONSTANTS
    Requests = {r1, r2, r3}
    theKey = theKey
    Keys = {theKey}
    KeyOf <- MCKeyOf
    Platform = "signal"
    NoMessage = NoMessage
INVARIANTS
    TypeOK
    AtMostOneSend
    CommandMatchesMessage
    OneRowPerMessage
    OutboxMatchesRow
    DispatchedHasOwner
PROPERTIES
    
    SendImplementsContract
    DispatchedIsSettled
