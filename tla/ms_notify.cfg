SPECIFICATION Spec
CONSTANTS
    w1 = w1
    w2 = w2
    k1 = k1
    k2 = k2
    a = a
    stored_a = stored_a
    b = b
    c1 = c1
    c2 = c2
    None = None
    Workers = {w1, w2}
    Keys = {k1}
    Configs = {a, stored_a, b}
    Requested = {a, b}
    DbForm <- MCDbForm
    Clients = {c1, c2}
    Booted = {w1, w2}
    Loaders = {w1, w2}
    Features = {}
    MaxChanges = 4
    MaxFaults = 0
SYMMETRY Symmetry
INVARIANTS TypeOK NotifySuffices
CHECK_DEADLOCK FALSE
