SPECIFICATION Spec
CONSTANTS
    k1 = k1
    k2 = k2
    a = a
    b = b
    tk = tk
    r1 = r1
    Sync = Sync
    None = None
    Keys = {k1, k2}
    Configs = {a, b}
    Tokenizers = {tk}
    TokenizerOf <- MCTokenizerOf
    StaticConfig <- MCStatic
    Reqs = {r1}
    CacheMaxSize = 1
    SyncOps = {"register", "unregister", "idle", "static", "fullsync"}
    MaxFailedBuilds = 0

INVARIANTS TypeOK RefsExact
