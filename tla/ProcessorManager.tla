-------------------------- MODULE ProcessorManager --------------------------
(***************************************************************************)
(* The in-memory model registry of one worker: ProcessorManager and the    *)
(* TokenizerCache it owns.                                                 *)
(*                                                                         *)
(* Two threads of the worker process share these dictionaries.  The HTTP   *)
(* thread runs uvicorn's event loop (RemoteWorker.initialize starts it);   *)
(* the actor's own loop runs the model synchronizer and the idle eviction. *)
(* Coroutines of the HTTP loop interleave only where they suspend (an      *)
(* await that really waits): `loop' is the coroutine that is running.  The *)
(* two threads interleave between any two calls: a step of this module is  *)
(* what one thread does without a call between its dictionary accesses.    *)
(***************************************************************************)
EXTENDS Naturals, FiniteSets

CONSTANTS
    Keys,            \* (run_id, model_name) pairs
    Configs,         \* contents of a ModelConfig
    Tokenizers,      \* tokenizer paths
    TokenizerOf,     \* the path a config needs, None without token_in_token_out
    StaticConfig,    \* the models the worker's YAML file names
    Reqs,            \* coroutines of the HTTP loop
    Sync,            \* the actor's loop
    CacheMaxSize,    \* processor_cache_max_size
    SyncOps,         \* the callbacks the actor's loop runs in this instance
    MaxFailedBuilds, \* bound: failing Processor constructors explored
    None

MaybeConfig == Configs \union {None}
Procs == Reqs \union {Sync}

ASSUME ConstantsAssumption ==
    /\ IsFiniteSet(Keys) /\ IsFiniteSet(Reqs)
    /\ Sync \notin Reqs
    /\ None \notin Keys \union Configs \union Tokenizers \union Procs
    /\ TokenizerOf \in [Configs -> Tokenizers \union {None}]
    /\ StaticConfig \in [Keys -> MaybeConfig]
    /\ CacheMaxSize \in Nat \ {0}
    /\ SyncOps \subseteq {"static", "register", "unregister", "fullsync", "idle"}
    /\ MaxFailedBuilds \in Nat

VARIABLES
    static,   \* _config_configs
    dyn,      \* _dynamic_configs
    cache,    \* _processor_cache: the config each cached Processor was built from
    newer,    \* the order of the OrderedDict: the keys used after each cached key
    stamps,   \* the keys of _last_access_time
    refs,     \* _ref_counts of the TokenizerCache, 0 where there is no entry
    lock,     \* _load_lock: the coroutine that holds it
    loop,     \* the coroutine the HTTP event loop is running
    pc, op,   \* where each process is, and in which operation
    key,      \* the key a request is about
    cfg,      \* a config object read earlier and used later
    same,     \* whether that object is still the effective entry of its key
    target,   \* the key whose cache entry a process is dropping
    held,     \* the Processor in a local variable: built, or popped
    snapshot, todo, gone, \* full_sync: DB rows, keys to visit, keys to remove
    leaked    \* history: references no Processor accounts for

regVars   == <<static, dyn>>
cacheVars == <<cache, newer>>
syncVars  == <<snapshot, todo, gone>>
vars == <<static, dyn, cache, newer, stamps, refs, lock, loop, pc, op, key,
          cfg, same, target, held, snapshot, todo, gone, leaked>>

Pcs == {"idle", "check", "touch", "return", "waiting", "locked", "evict",
        "popitem", "build", "loading", "recheck", "discard", "insert", "stamp",
        "dbread", "regset", "dbinsert", "dbdelete", "keyerror", "staticset",
        "scan", "apply", "stampThenCache", "popCache", "cacheThenStamp",
        "dropStamp", "release"}
Ops == {"none", "get", "retry", "resync", "register", "unregister",
        "static", "notify", "fullsync", "idle"}

\* The effective entry: self._config_configs.get(key) or self._dynamic_configs.get(key).
Current(k) == IF static[k] # None THEN static[k] ELSE dyn[k]
Cached == {k \in Keys : cache[k] # None}

\* The types of the dictionaries, of the coroutines' local variables and of the
\* reference counts, which never go below zero.
TypeOK ==
    /\ static \in [Keys -> MaybeConfig] /\ dyn \in [Keys -> MaybeConfig]
    /\ cache \in [Keys -> MaybeConfig]  /\ newer \in [Keys -> SUBSET Keys]
    /\ stamps \subseteq Keys            /\ refs \in [Tokenizers -> Nat]
    /\ lock \in Reqs \union {None}      /\ loop \in Reqs \union {None}
    /\ pc \in [Procs -> Pcs]            /\ op \in [Procs -> Ops]
    /\ key \in [Reqs -> Keys \union {None}]
    /\ cfg \in [Procs -> MaybeConfig]   /\ same \in [Reqs -> BOOLEAN]
    /\ target \in [Procs -> Keys \union {None}]
    /\ held \in [Procs -> MaybeConfig]
    /\ snapshot \in [Keys -> MaybeConfig]
    /\ todo \subseteq Keys              /\ gone \subseteq Keys
    /\ leaked \in [Tokenizers -> Nat]

Init ==
    /\ static = [k \in Keys |-> None] /\ dyn = [k \in Keys |-> None]
    /\ cache = [k \in Keys |-> None]  /\ newer = [k \in Keys |-> {}]
    /\ stamps = {}                    /\ refs = [t \in Tokenizers |-> 0]
    /\ lock = None                    /\ loop = None
    /\ pc = [p \in Procs |-> "idle"]  /\ op = [p \in Procs |-> "none"]
    /\ key = [r \in Reqs |-> None]    /\ cfg = [p \in Procs |-> None]
    /\ same = [r \in Reqs |-> FALSE]  /\ target = [p \in Procs |-> None]
    /\ held = [p \in Procs |-> None]
    /\ snapshot = [k \in Keys |-> None] /\ todo = {} /\ gone = {}
    /\ leaked = [t \in Tokenizers |-> 0]

-----------------------------------------------------------------------------
(* Effects shared by the operations.                                        *)

\* An assignment to (or deletion from) _dynamic_configs: every object read
\* earlier for k stops being the effective entry, unless a static one hides it.
SetDyn(k, c) ==
    /\ dyn' = [dyn EXCEPT ![k] = c]
    /\ same' = [r \in Reqs |-> same[r] /\ (key[r] # k \/ static[k] # None)]
    /\ UNCHANGED static

\* OrderedDict.move_to_end, and the position of a new entry.
Newest(k) ==
    [j \in Keys |-> IF j = k \/ j \notin Cached THEN {} ELSE newer[j] \union {k}]

\* Removal of k from the cache into the local variable of p.
PopInto(p, k) ==
    /\ held' = [held EXCEPT ![p] = cache[k]]
    /\ cache' = [cache EXCEPT ![k] = None]
    /\ newer' = [j \in Keys |-> IF j = k THEN {} ELSE newer[j] \ {k}]

\* Mutation of Dereferenced: release is called twice for one Processor.
DereferencedTwice(p) ==
    LET c == held[p] IN
    IF c # None /\ TokenizerOf[c] # None
    THEN [refs EXCEPT ![TokenizerOf[c]] = @ - 2]
    ELSE refs

\* _release_processor_async on the local Processor of p: TokenizerCache.release.
Dereferenced(p) ==
    LET c == held[p] IN
    IF c # None /\ TokenizerOf[c] # None /\ refs[TokenizerOf[c]] > 0
    THEN [refs EXCEPT ![TokenizerOf[c]] = @ - 1]
    ELSE refs

\* The coroutine r ends its operation: the lock, if held, is released.
Finish(r) ==
    /\ pc' = [pc EXCEPT ![r] = "idle"] /\ op' = [op EXCEPT ![r] = "none"]
    /\ key' = [key EXCEPT ![r] = None] /\ cfg' = [cfg EXCEPT ![r] = None]
    /\ same' = [same EXCEPT ![r] = FALSE]
    /\ lock' = IF lock = r THEN None ELSE lock
    /\ loop' = None

\* Mutation of ReturnNone: the lock is not given back when a build fails.
ReturnNoneKeepsLock(r) ==
    \/ /\ op[r] = "get"
       /\ pc' = [pc EXCEPT ![r] = "check"] /\ op' = [op EXCEPT ![r] = "retry"]
       /\ cfg' = [cfg EXCEPT ![r] = None] /\ same' = [same EXCEPT ![r] = FALSE]
       /\ loop' = r
       /\ UNCHANGED <<key, lock>>
    \/ op[r] # "get" /\ Finish(r)

\* _load_processor returns None: the route falls back on
\* try_get_or_sync_from_db after get_processor_async, and answers 404 after that.
ReturnNone(r) ==
    \/ /\ op[r] = "get"
       /\ pc' = [pc EXCEPT ![r] = "check"] /\ op' = [op EXCEPT ![r] = "retry"]
       /\ cfg' = [cfg EXCEPT ![r] = None] /\ same' = [same EXCEPT ![r] = FALSE]
       /\ lock' = IF lock = r THEN None ELSE lock
       /\ loop' = r
       /\ UNCHANGED key
    \/ op[r] # "get" /\ Finish(r)

\* A subscript or del of a missing key raises KeyError; only the part of
\* try_get_or_sync_from_db after the database read catches it.
RaiseKeyError(r) ==
    \/ op[r] = "resync" /\ Finish(r)
    \/ /\ op[r] # "resync"
       /\ pc' = [pc EXCEPT ![r] = "keyerror"]
       /\ lock' = IF lock = r THEN None ELSE lock
       /\ loop' = None
       /\ UNCHANGED <<op, key, cfg, same>>

\* Mutation of LockFree: _load_processor without `async with self._load_lock'.
NoLock == TRUE

\* asyncio.Lock lets nobody pass a waiter (which waiter is woken is left open).
LockFree == lock = None /\ \A q \in Reqs : pc[q] # "waiting"

Goto(p, label) == pc' = [pc EXCEPT ![p] = label]
At(p, label) == pc[p] = label /\ (p # Sync => loop = p)

-----------------------------------------------------------------------------
(* get_processor_async, try_get_or_sync_from_db and _load_processor.        *)

\* A chat request asks for the Processor of k.
ChatRequest(r, k) ==
    /\ pc[r] = "idle" /\ loop = None
    /\ loop' = r /\ Goto(r, "check")
    /\ op' = [op EXCEPT ![r] = "get"] /\ key' = [key EXCEPT ![r] = k]
    /\ UNCHANGED <<regVars, cacheVars, stamps, refs, lock, cfg, same, target, held,
                   syncVars, leaked>>

\* `key in self._processor_cache'; on a miss the config lookup.  A free lock is
\* taken without suspending, otherwise the coroutine waits for it.
CheckHit(r) ==
    /\ At(r, "check") /\ key[r] \in Cached
    /\ Goto(r, "touch")
    /\ UNCHANGED <<regVars, cacheVars, stamps, refs, lock, loop, op, key, cfg, same,
                   target, held, syncVars, leaked>>

CheckMiss(r) ==
    /\ At(r, "check") /\ key[r] \notin Cached /\ Current(key[r]) # None
    /\ cfg' = [cfg EXCEPT ![r] = Current(key[r])]
    /\ same' = [same EXCEPT ![r] = TRUE]
    /\ \/ LockFree /\ lock' = r /\ Goto(r, "locked") /\ UNCHANGED loop
       \/ ~LockFree /\ loop' = None /\ Goto(r, "waiting") /\ UNCHANGED lock
    /\ UNCHANGED <<static, dyn, cacheVars, stamps, refs, op, key, target, held,
                   syncVars, leaked>>

CheckUnknown(r) ==
    /\ At(r, "check") /\ key[r] \notin Cached /\ Current(key[r]) = None
    /\ \/ /\ op[r] = "retry" /\ Goto(r, "dbread") /\ loop' = None
          /\ UNCHANGED <<op, key, cfg, same, lock>>
       \/ op[r] # "retry" /\ ReturnNone(r)
    /\ UNCHANGED <<regVars, cacheVars, stamps, refs, target, held, syncVars,
                   leaked>>

\* ModelRepository.get_by_key of the fallback: a row, or none (or an error).
DbRead(r) ==
    /\ pc[r] = "dbread" /\ loop = None
    /\ \/ /\ \E c \in Configs : SetDyn(key[r], c)
          /\ op' = [op EXCEPT ![r] = "resync"] /\ Goto(r, "check") /\ loop' = r
          /\ UNCHANGED <<key, cfg, lock>>
       \/ Finish(r) /\ UNCHANGED regVars
    /\ UNCHANGED <<cacheVars, stamps, refs, target, held, syncVars, leaked>>

\* _touch: a second membership test, then move_to_end.
Touch(r) ==
    /\ At(r, "touch")
    /\ \/ /\ key[r] \in Cached
          /\ newer' = Newest(key[r]) /\ Goto(r, "return")
          /\ UNCHANGED <<op, key, cfg, same, lock, loop>>
       \/ key[r] \notin Cached /\ RaiseKeyError(r) /\ UNCHANGED newer
    /\ UNCHANGED <<regVars, cache, stamps, refs, target, held, syncVars, leaked>>

\* The end of _touch, then `return self._processor_cache[key]'.
Return(r) ==
    /\ At(r, "return")
    /\ stamps' = stamps \union {key[r]}
    /\ \/ key[r] \in Cached /\ Finish(r)
       \/ key[r] \notin Cached /\ RaiseKeyError(r)
    /\ UNCHANGED <<regVars, cacheVars, refs, target, held, syncVars, leaked>>

\* The exception has reached the route, which answers with an error.
KeyErrorAnswered(r) ==
    /\ pc[r] = "keyerror" /\ loop = None
    /\ Finish(r)
    /\ UNCHANGED <<regVars, cacheVars, stamps, refs, target, held, syncVars,
                   leaked>>

AcquireLock(r) ==
    /\ pc[r] = "waiting" /\ loop = None /\ lock = None
    /\ lock' = r /\ loop' = r /\ Goto(r, "locked")
    /\ UNCHANGED <<regVars, cacheVars, stamps, refs, op, key, cfg, same, target, held,
                   syncVars, leaked>>

DoubleCheck(r) ==
    /\ At(r, "locked")
    /\ Goto(r, IF key[r] \in Cached THEN "touch" ELSE "evict")
    /\ UNCHANGED <<regVars, cacheVars, stamps, refs, lock, loop, op, key, cfg, same,
                   target, held, syncVars, leaked>>

\* Mutation of EvictLoop: > instead of >=.
EvictLoopOffByOne(r) ==
    /\ At(r, "evict")
    /\ Goto(r, IF Cardinality(Cached) > CacheMaxSize THEN "popitem" ELSE "build")
    /\ UNCHANGED <<regVars, cacheVars, stamps, refs, lock, loop, op, key, cfg,
                   same, target, held, syncVars, leaked>>

\* while len(self._processor_cache) >= self._cache_max_size
EvictLoop(r) ==
    /\ At(r, "evict")
    /\ Goto(r, IF Cardinality(Cached) >= CacheMaxSize THEN "popitem" ELSE "build")
    /\ UNCHANGED <<regVars, cacheVars, stamps, refs, lock, loop, op, key, cfg, same,
                   target, held, syncVars, leaked>>

\* _evict_one: popitem(last=False), unless the other thread emptied the cache.
PopOldest(r) ==
    /\ At(r, "popitem")
    /\ \/ /\ Cached = {} /\ Goto(r, "evict")
          /\ UNCHANGED <<cacheVars, held, target>>
       \/ \E v \in Cached :
            /\ Cached \ {v} \subseteq newer[v]
            /\ PopInto(r, v)
            /\ target' = [target EXCEPT ![r] = v]
            /\ Goto(r, "dropStamp")
    /\ UNCHANGED <<regVars, stamps, refs, lock, loop, op, key, cfg, same, syncVars,
                   leaked>>

\* The Processor constructor, after the tokenizer was acquired: it may raise
\* (a parser that rejects the tokenizer), and _load_processor returns None.
Construct(r) ==
    \/ /\ held' = [held EXCEPT ![r] = cfg[r]] /\ Goto(r, "recheck")
       /\ loop' = r
       /\ UNCHANGED <<op, key, cfg, same, lock, leaked>>
    \/ /\ TokenizerOf[cfg[r]] # None
       /\ leaked[TokenizerOf[cfg[r]]] < MaxFailedBuilds
       /\ leaked' = [leaked EXCEPT ![TokenizerOf[cfg[r]]] = @ + 1]
       /\ ReturnNone(r)
       /\ UNCHANGED held

\* _build_processor up to the first suspension: a cached tokenizer is
\* referenced at once, another is loaded in a helper thread.
Build(r) ==
    /\ At(r, "build")
    /\ LET t == TokenizerOf[cfg[r]] IN
       \/ t = None /\ Construct(r) /\ UNCHANGED refs
       \/ /\ t # None /\ refs[t] > 0
          /\ refs' = [refs EXCEPT ![t] = @ + 1]
          /\ Construct(r)
       \/ /\ t # None /\ refs[t] = 0
          /\ Goto(r, "loading") /\ loop' = None
          /\ UNCHANGED <<refs, held, op, key, cfg, same, lock, leaked>>
    /\ UNCHANGED <<regVars, cacheVars, stamps, target, syncVars>>

\* AutoTokenizer.from_pretrained has returned, or raised.
TokenizerLoaded(r) ==
    /\ pc[r] = "loading" /\ loop = None
    /\ \/ /\ refs' = [refs EXCEPT ![TokenizerOf[cfg[r]]] = 1]
          /\ Construct(r)
       \/ ReturnNone(r) /\ UNCHANGED <<refs, held, leaked>>
    /\ UNCHANGED <<regVars, cacheVars, stamps, target, syncVars>>

\* Mutation of Recheck: the built Processor is always kept.
NoRecheck(r) ==
    /\ At(r, "recheck") /\ Goto(r, "insert")
    /\ UNCHANGED <<regVars, cacheVars, stamps, refs, lock, loop, op, key, cfg,
                   same, target, held, syncVars, leaked>>

\* The TOCTOU check: the entry must still be the very object read at the start.
Recheck(r) ==
    /\ At(r, "recheck")
    /\ Goto(r, IF Current(key[r]) = None \/ ~same[r] THEN "discard" ELSE "insert")
    /\ UNCHANGED <<regVars, cacheVars, stamps, refs, lock, loop, op, key, cfg, same,
                   target, held, syncVars, leaked>>

\* Mutation of Discard: the abandoned Processor is not released.
DiscardWithoutRelease(r) ==
    /\ At(r, "discard")
    /\ held' = [held EXCEPT ![r] = None]
    /\ ReturnNone(r)
    /\ UNCHANGED <<regVars, cacheVars, stamps, refs, target, syncVars, leaked>>

Discard(r) ==
    /\ At(r, "discard")
    /\ refs' = Dereferenced(r) /\ held' = [held EXCEPT ![r] = None]
    /\ ReturnNone(r)
    /\ UNCHANGED <<regVars, cacheVars, stamps, target, syncVars, leaked>>

Insert(r) ==
    /\ At(r, "insert")
    /\ cache' = [cache EXCEPT ![key[r]] = held[r]] /\ newer' = Newest(key[r])
    /\ held' = [held EXCEPT ![r] = None]
    /\ Goto(r, "stamp")
    /\ UNCHANGED <<regVars, stamps, refs, lock, loop, op, key, cfg, same, target,
                   syncVars, leaked>>

Stamp(r) ==
    /\ At(r, "stamp")
    /\ stamps' = stamps \union {key[r]}
    /\ Finish(r)
    /\ UNCHANGED <<regVars, cacheVars, refs, target, held, syncVars, leaked>>

-----------------------------------------------------------------------------
(* register_dynamic_processor and unregister_dynamic_processor (a duplicate *)
(* and an unknown model are refused without any effect).                    *)

RegisterModel(r, k, c) ==
    /\ pc[r] = "idle" /\ loop = None
    /\ static[k] = None /\ dyn[k] = None
    /\ loop' = r /\ Goto(r, "regset")
    /\ op' = [op EXCEPT ![r] = "register"] /\ key' = [key EXCEPT ![r] = k]
    /\ cfg' = [cfg EXCEPT ![r] = c]
    /\ UNCHANGED <<same, regVars, cacheVars, stamps, refs, lock, target, held,
                   syncVars, leaked>>

\* The config is stored locally, then the INSERT is awaited.
RegisterSet(r) ==
    /\ At(r, "regset")
    /\ SetDyn(key[r], cfg[r])
    /\ Goto(r, "dbinsert") /\ loop' = None
    /\ UNCHANGED <<cacheVars, stamps, refs, lock, op, key, cfg, target, held,
                   syncVars, leaked>>

\* The INSERT succeeds, or fails and the local registration is rolled back:
\* `del self._dynamic_configs[key]', whatever entry is there by now.
DbInsert(r) ==
    /\ pc[r] = "dbinsert" /\ loop = None
    /\ \/ Finish(r) /\ UNCHANGED <<regVars, target>>
       \/ dyn[key[r]] = None /\ RaiseKeyError(r) /\ UNCHANGED <<regVars, target>>
       \/ /\ dyn[key[r]] # None /\ SetDyn(key[r], None)
          /\ target' = [target EXCEPT ![r] = key[r]]
          /\ Goto(r, "cacheThenStamp") /\ loop' = r
          /\ UNCHANGED <<op, key, cfg, lock>>
    /\ UNCHANGED <<cacheVars, stamps, refs, held, syncVars, leaked>>

UnregisterModel(r, k) ==
    /\ pc[r] = "idle" /\ loop = None /\ dyn[k] # None
    /\ SetDyn(k, None)
    /\ loop' = r /\ Goto(r, "stampThenCache")
    /\ op' = [op EXCEPT ![r] = "unregister"] /\ key' = [key EXCEPT ![r] = k]
    /\ target' = [target EXCEPT ![r] = k]
    /\ UNCHANGED <<cacheVars, stamps, refs, lock, cfg, held, syncVars, leaked>>

\* The DELETE returns, or raises: nothing is restored either way.
DbDelete(r) ==
    /\ pc[r] = "dbdelete" /\ loop = None
    /\ Finish(r)
    /\ UNCHANGED <<regVars, cacheVars, stamps, refs, target, held, syncVars,
                   leaked>>

-----------------------------------------------------------------------------
(* The tail every removal shares: drop the access time and the cached       *)
(* Processor of `target' (in either order), release the Processor.          *)

StampThenCache(p) ==
    /\ At(p, "stampThenCache")
    /\ stamps' = stamps \ {target[p]} /\ Goto(p, "popCache")
    /\ UNCHANGED <<regVars, cacheVars, refs, lock, loop, op, key, cfg, same, target,
                   held, syncVars, leaked>>

PopCache(p) ==
    /\ \/ At(p, "popCache") /\ Goto(p, "release")
       \/ At(p, "cacheThenStamp") /\ Goto(p, "dropStamp")
    /\ PopInto(p, target[p])
    /\ UNCHANGED <<regVars, stamps, refs, lock, loop, op, key, cfg, same, target,
                   syncVars, leaked>>

DropStamp(p) ==
    /\ At(p, "dropStamp")
    /\ stamps' = stamps \ {target[p]} /\ Goto(p, "release")
    /\ UNCHANGED <<regVars, cacheVars, refs, lock, loop, op, key, cfg, same, target,
                   held, syncVars, leaked>>

\* _release_processor_async, then the rest of the operation p is in.
Release(p) ==
    /\ At(p, "release")
    /\ refs' = Dereferenced(p) /\ held' = [held EXCEPT ![p] = None]
    /\ target' = [target EXCEPT ![p] = None]
    /\ \/ /\ p = Sync /\ op[p] = "notify"
          /\ Goto(p, "idle") /\ op' = [op EXCEPT ![p] = "none"]
          /\ UNCHANGED <<loop, lock, key, cfg, same>>
       \/ /\ p = Sync /\ op[p] # "notify" /\ Goto(p, "scan")
          /\ UNCHANGED <<loop, lock, op, key, cfg, same>>
       \/ p # Sync /\ op[p] = "register" /\ Finish(p)
       \/ /\ p # Sync /\ op[p] = "unregister" /\ Goto(p, "dbdelete")
          /\ loop' = None /\ UNCHANGED <<lock, op, key, cfg, same>>
       \/ /\ p # Sync /\ op[p] \notin {"register", "unregister"}
          /\ Goto(p, "evict") /\ UNCHANGED <<loop, lock, op, key, cfg, same>>
    /\ UNCHANGED <<regVars, cacheVars, stamps, syncVars, leaked>>

-----------------------------------------------------------------------------
(* The actor's loop.  Between two of its suspensions nothing else runs on   *)
(* it, so its callbacks form one process.                                   *)

\* register_static_processor, at start-up: the duplicate check, then the store.
StaticCheck(k) ==
    /\ "static" \in SyncOps /\ pc[Sync] = "idle" /\ StaticConfig[k] # None
    /\ static[k] = None /\ dyn[k] = None
    /\ Goto(Sync, "staticset") /\ target' = [target EXCEPT ![Sync] = k]
    /\ op' = [op EXCEPT ![Sync] = "static"]
    /\ UNCHANGED <<regVars, cacheVars, stamps, refs, lock, loop, key, cfg, same, held,
                   syncVars, leaked>>

StaticSet ==
    /\ pc[Sync] = "staticset"
    /\ static' = [static EXCEPT ![target[Sync]] = StaticConfig[target[Sync]]]
    /\ same' = [r \in Reqs |-> same[r] /\ key[r] # target[Sync]]
    /\ Goto(Sync, "idle") /\ op' = [op EXCEPT ![Sync] = "none"]
    /\ target' = [target EXCEPT ![Sync] = None]
    /\ UNCHANGED <<dyn, cacheVars, stamps, refs, lock, loop, key, cfg, held,
                   syncVars, leaked>>

\* register_from_config: the entry is replaced, the cache is left alone.
RegisterFromConfig(k, c) ==
    /\ "register" \in SyncOps /\ pc[Sync] = "idle"
    /\ SetDyn(k, c)
    /\ UNCHANGED <<cacheVars, stamps, refs, lock, loop, pc, op, key, cfg, target,
                   held, syncVars, leaked>>

UnregisterByKey(k) ==
    /\ "unregister" \in SyncOps /\ pc[Sync] = "idle"
    /\ SetDyn(k, None)
    /\ Goto(Sync, "stampThenCache") /\ op' = [op EXCEPT ![Sync] = "notify"]
    /\ target' = [target EXCEPT ![Sync] = k]
    /\ UNCHANGED <<cacheVars, stamps, refs, lock, loop, key, cfg, held, syncVars,
                   leaked>>

\* full_sync on the rows that get_all returned some time ago.
FullSync(rows) ==
    /\ "fullsync" \in SyncOps /\ pc[Sync] = "idle"
    /\ snapshot' = rows
    /\ todo' = {k \in Keys : rows[k] # None}
    /\ gone' = {k \in Keys : dyn[k] # None /\ rows[k] = None}
    /\ Goto(Sync, "scan") /\ op' = [op EXCEPT ![Sync] = "fullsync"]
    /\ UNCHANGED <<regVars, cacheVars, stamps, refs, lock, loop, key, cfg, same,
                   target, held, leaked>>

\* existing = self._dynamic_configs.get(key)
FullSyncRead(k) ==
    /\ pc[Sync] = "scan" /\ op[Sync] = "fullsync" /\ k \in todo
    /\ todo' = todo \ {k} /\ target' = [target EXCEPT ![Sync] = k]
    /\ cfg' = [cfg EXCEPT ![Sync] = dyn[k]] /\ Goto(Sync, "apply")
    /\ UNCHANGED <<same, regVars, cacheVars, stamps, refs, lock, loop, op, key, held,
                   snapshot, gone, leaked>>

\* A new row is added; a changed one also evicts the cached Processor.
FullSyncApply ==
    /\ pc[Sync] = "apply"
    /\ LET k == target[Sync] IN
       \/ cfg[Sync] = None /\ SetDyn(k, snapshot[k]) /\ Goto(Sync, "scan")
       \/ cfg[Sync] = snapshot[k] /\ Goto(Sync, "scan") /\ UNCHANGED <<regVars, same>>
       \/ /\ cfg[Sync] \notin {None, snapshot[k]}
          /\ SetDyn(k, snapshot[k]) /\ Goto(Sync, "stampThenCache")
    /\ cfg' = [cfg EXCEPT ![Sync] = None]
    /\ UNCHANGED <<cacheVars, stamps, refs, lock, loop, op, key, target, held,
                   syncVars, leaked>>

FullSyncRemove(k) ==
    /\ pc[Sync] = "scan" /\ op[Sync] = "fullsync" /\ todo = {} /\ k \in gone
    /\ gone' = gone \ {k}
    /\ SetDyn(k, None)
    /\ target' = [target EXCEPT ![Sync] = k] /\ Goto(Sync, "stampThenCache")
    /\ UNCHANGED <<cacheVars, stamps, refs, lock, loop, op, key, cfg, held,
                   snapshot, todo, leaked>>

\* _evict_idle_processors: which access times are too old is left open.
IdleScan(idle) ==
    /\ "idle" \in SyncOps /\ pc[Sync] = "idle"
    /\ Cached # {} /\ idle \subseteq stamps /\ idle # {}
    /\ todo' = idle
    /\ Goto(Sync, "scan") /\ op' = [op EXCEPT ![Sync] = "idle"]
    /\ UNCHANGED <<regVars, cacheVars, stamps, refs, lock, loop, key, cfg, same,
                   target, held, snapshot, gone, leaked>>

IdleEvict(k) ==
    /\ pc[Sync] = "scan" /\ op[Sync] = "idle" /\ k \in todo
    /\ todo' = todo \ {k}
    /\ target' = [target EXCEPT ![Sync] = k] /\ Goto(Sync, "cacheThenStamp")
    /\ UNCHANGED <<regVars, cacheVars, stamps, refs, lock, loop, op, key, cfg, same,
                   held, snapshot, gone, leaked>>

ScanDone ==
    /\ pc[Sync] = "scan" /\ todo = {} /\ gone = {}
    /\ Goto(Sync, "idle") /\ op' = [op EXCEPT ![Sync] = "none"]
    /\ target' = [target EXCEPT ![Sync] = None]
    /\ snapshot' = [k \in Keys |-> None]
    /\ UNCHANGED <<regVars, cacheVars, stamps, refs, lock, loop, key, cfg, same, held,
                   todo, gone, leaked>>

-----------------------------------------------------------------------------
\* A step of the coroutine that is running.
Running(r) ==
    \/ CheckHit(r) \/ CheckMiss(r) \/ CheckUnknown(r) \/ Touch(r) \/ Return(r)
    \/ DoubleCheck(r) \/ EvictLoop(r) \/ PopOldest(r) \/ Build(r) \/ Recheck(r)
    \/ Discard(r) \/ Insert(r) \/ Stamp(r) \/ RegisterSet(r)
    \/ StampThenCache(r) \/ PopCache(r) \/ DropStamp(r) \/ Release(r)

\* The event loop resumes a coroutine whose await has completed.
Resume(r) ==
    \/ DbRead(r) \/ KeyErrorAnswered(r) \/ AcquireLock(r) \/ TokenizerLoaded(r)
    \/ DbInsert(r) \/ DbDelete(r)

Arrive(r) ==
    \E k \in Keys : \/ ChatRequest(r, k) \/ UnregisterModel(r, k)
                    \/ \E c \in Configs : RegisterModel(r, k, c)

\* A step inside a callback of the actor's loop, and the start of one.
SyncRunning ==
    \/ StaticSet \/ FullSyncApply \/ ScanDone
    \/ \E k \in Keys : FullSyncRead(k) \/ FullSyncRemove(k) \/ IdleEvict(k)
    \/ StampThenCache(Sync) \/ PopCache(Sync) \/ DropStamp(Sync) \/ Release(Sync)

SyncStart ==
    \/ \E k \in Keys : \/ StaticCheck(k) \/ UnregisterByKey(k)
                       \/ \E c \in Configs : RegisterFromConfig(k, c)
    \/ \E rows \in [Keys -> MaybeConfig] : FullSync(rows)
    \/ \E idle \in SUBSET stamps : IdleScan(idle)

Next ==
    \/ \E r \in Reqs : Running(r) \/ Resume(r) \/ Arrive(r)
    \/ SyncRunning \/ SyncStart

Spec == Init /\ [][Next]_vars

\* Both threads keep running; a coroutine whose await completes again and
\* again while the loop is free is resumed: the ready queue and the waiters of
\* asyncio.Lock are first in, first out.
Fairness ==
    /\ \A r \in Reqs : WF_vars(Running(r)) /\ SF_vars(Resume(r))
    /\ WF_vars(SyncRunning)

FairSpec == Spec /\ Fairness

-----------------------------------------------------------------------------
(* Properties.                                                              *)

\* The LRU limit holds whatever the two threads do: the check of the length,
\* the build that may suspend for seconds and the insertion are three steps,
\* and the lock is what keeps a second insertion out of the gap.
CacheBounded == Cardinality(Cached) <= CacheMaxSize

\* Processors that use tokenizer t: in the cache, or in somebody's hands.
Users(t)   == {k \in Keys : cache[k] # None /\ TokenizerOf[cache[k]] = t}
Holders(t) == {p \in Procs : held[p] # None /\ TokenizerOf[held[p]] = t}

\* The reference count of a tokenizer is the number of Processors that use it,
\* plus one for every constructor that failed after acquiring it: no release is
\* missed or doubled by any interleaving of loads, evictions, rollbacks,
\* removals and full syncs, and no cached Processor loses its tokenizer.
RefsExact ==
    \A t \in Tokenizers :
        refs[t] = Cardinality(Users(t)) + Cardinality(Holders(t)) + leaked[t]

\* p is about to remove the cache entry of k.
Removing(p, k) ==
    target[p] = k /\ pc[p] \in {"stampThenCache", "popCache", "cacheThenStamp"}

\* What the TOCTOU check of _load_processor is for: no Processor stays in the
\* cache after the model it serves was rolled back or unregistered.
NoOrphan ==
    \A k \in Cached : Current(k) # None \/ \E p \in Procs : Removing(p, k)

\* Every request, registration and removal comes to an end: the lock is given
\* back on every path and the eviction loop terminates.
RequestsEnd == \A r \in Reqs : pc[r] # "idle" ~> pc[r] = "idle"
=============================================================================
