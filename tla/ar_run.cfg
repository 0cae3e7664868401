SPECIFICATION FairSpec
CONSTANTS
    s1 = s1
    s2 = s2
    Slots = {1, 2, 3}
    Sessions = {s1, s2}
    Records = {s1, s2}
    Late = {s2}
    Paths = {s1, s2}
    SessionOf <- MCSessionOf
    PathOf <- MCPathOf
    MaxSessionRetries = 3
    MaxTaskRetries = 1
    MaxStray = 0
    MaxFaults = 1
INVARIANTS TypeOK FileIsComplete SessionsAccounted OneSessionPerWorker
PROPERTIES RunEnds
CHECK_DEADLOCK FALSE
