SPECIFICATION Spec
CONSTANTS
    Sessions = {s1, s2}
INVARIANT
    ErrorIsOwn
CHECK_DEADLOCK FALSE
