SPECIFICATION Spec
CONSTANTS
    Messages = {m1, m2}
    Invalid = {m2}
    Workers = {w1, w2}
    Handlers = {h1}
    Prefetch = 2
INVARIANTS
    NoMessageLost
    GraceIsGiven
    AtMostOneLateCall
PROPERTY
    Terminates
CHECK_DEADLOCK FALSE
