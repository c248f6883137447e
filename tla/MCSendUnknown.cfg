SPECIFICATION Spec
CONSTANTS
    Requests = {r1}
    theKey = theKey
    Keys = {theKey}
    KeyOf <- MCKeyOf
    Platform = "signal"
    NoMessage = NoMessage
INVARIANTS
    LostAckIsUnknown
