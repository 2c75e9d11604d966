SPECIFICATION Spec
CONSTANTS
    t1 = t1
    t2 = t2
    Tokens <- MCTokens
    Known <- MCKnown
    Clients = {c1, c2}
    TTL = 2
    NoToken = NoToken
    Garbage = Garbage
CHECK_DEADLOCK FALSE
INVARIANTS
    TypeOK
    
PROPERTIES
    NoLaterLogin
    NoEarlyRemoval
    TokensExpire
