SPECIFICATION Spec
CONSTANTS
    TOKEN_SIZE = 2
    ID_SIZE = 2
    MaxId = 3
    MaxSignIns = 3
CHECK_DEADLOCK FALSE
INVARIANTS
    TypeOK
    StreamKept
    PairsMatch
PROPERTY
    SignInsArrive
