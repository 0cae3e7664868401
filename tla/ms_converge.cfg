SPECIFICATION FairSpec
CONSTANTS
    w1 = w1
    w2 = w2
    k1 = k1
    k2 = k2
    a = a
    stored_a = stored_a
    b = b
    c1 = c1
    c2 = c2
    None = None
    Workers = {w1, w2}
    Keys = {k1}
    Configs = {a, stored_a}
    Requested = {a}
    DbForm <- MCDbForm
    Clients = {c1}
    Booted = {w1}
    Loaders = {w1}
    Features = {"periodic", "fallback", "error", "disconnect", "crash"}
    MaxChanges = 2
    MaxFaults = 1
PROPERTIES Converges DeletedModelsStop OrphanOnlyByRace
