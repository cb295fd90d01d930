SPECIFICATION FairSpec
CHECK_DEADLOCK FALSE
CONSTANTS
    Waiters = {w1, w2}
    Aborters = {a1}
PROPERTIES
    AbortResolves
