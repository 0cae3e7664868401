SPECIFICATION Spec
CONSTANTS
    r1 = r1
    r2 = r2
    s1 = s1
    s2 = s2
    Slots = {1}
    Sessions = {s1}
    Records = {r1, r2}
    Late = {r2}
    Paths = {s1}
    SessionOf <- OneSession
    PathOf <- MCPathOf
    MaxSessionRetries = 3
    MaxTaskRetries = 0
    MaxStray = 0
    MaxFaults = 0
INVARIANT FileIsComplete
CHECK_DEADLOCK FALSE
