SPECIFICATION Spec
CONSTANTS
    k1 = k1
    k2 = k2
    a = a
    b = b
    tk = tk
    r1 = r1
    r2 = r2
    Sync = Sync
    None = None
    Keys = {k1}
    Configs = {a}
    Tokenizers = {tk}
    TokenizerOf <- MCTokenizerOf
    StaticConfig <- MCNoStatic
    Reqs = {r1}
    CacheMaxSize = 1
    SyncOps = {"unregister"}
    MaxFailedBuilds = 0

INVARIANTS NoOrphan
