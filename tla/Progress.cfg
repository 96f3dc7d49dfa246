SPECIFICATION MCSpec
CONSTANTS
    Ids = {n1, n2}
    Calls = {c1, c2}
    MaxAttempts = 2
    MaxFaults = 2
PROPERTY
    EventuallySettled
