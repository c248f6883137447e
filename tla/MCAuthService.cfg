SPECIFICATION Spec
CONSTANTS
    l1 = l1
    r1 = r1
    r2 = r2
    Logins = {l1}
    Requests = {r1, r2}
    MaxTokens = 3
    None = None
INVARIANTS
    TypeOK
    OneSessionPerLogin
    GuessesAreBounded
    OneValidToken
