SPECIFICATION Spec
CONSTANTS
    Refs = {r1, r2, r3, r4}
    MaxCreates = 3
    NoOne = NoOne
SYMMETRY Symmetry
INVARIANTS
    TypeOK
    RefsExact
    NoUseAfterFree
    NullTestHolds
CHECK_DEADLOCK FALSE
