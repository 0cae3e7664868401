----------------------- MODULE ProcessorManagerProofs -----------------------
(***************************************************************************)
(* Proofs about ProcessorManager, for any number of keys, configs,         *)
(* tokenizers and requests, any cache size and any set of callbacks.       *)
(***************************************************************************)
EXTENDS ProcessorManager, FiniteSetTheorems, TLAPS

\* Where the local variables of a process are meaningful.
SyncPcs   == {"staticset", "scan", "apply"}
DropPcs   == {"stampThenCache", "popCache", "cacheThenStamp"}
TargetPcs == DropPcs \union {"dropStamp"}
ConfigPcs == {"waiting", "locked", "evict", "popitem", "build", "loading",
              "recheck", "discard", "insert", "regset"}

\* r runs the tail of _evict_one, inside _load_processor.
Evicting(r) ==
    pc[r] \in {"dropStamp", "release"} /\ op[r] \notin {"register", "unregister"}

Locals ==
    /\ \A r \in Reqs : /\ pc[r] # "idle" => key[r] \in Keys
                       /\ pc[r] \notin SyncPcs
                       /\ pc[r] \in ConfigPcs => cfg[r] \in Configs
                       /\ Evicting(r) => cfg[r] \in Configs
                       /\ pc[r] \in DropPcs => op[r] \in {"register", "unregister"}
                       /\ pc[r] \in {"regset", "dbinsert"} => op[r] = "register"
    /\ \A p \in Procs : pc[p] \in TargetPcs => target[p] \in Keys
    /\ pc[Sync] \in {"staticset", "apply"} => target[Sync] \in Keys

TypeInv == TypeOK /\ Locals

\* A worker starts with empty dictionaries, which are well typed.
LEMMA InitTypeInv == Init => TypeInv
BY ConstantsAssumption DEF Init, TypeInv, TypeOK, Locals, MaybeConfig, Procs, Pcs, Ops,
   SyncPcs, TargetPcs, DropPcs, ConfigPcs, Evicting


\* TypeOK in two halves: what the steps of a coroutine's control touch, and
\* the dictionaries.
ControlType ==
    /\ lock \in Reqs \union {None} /\ loop \in Reqs \union {None}
    /\ pc \in [Procs -> Pcs] /\ op \in [Procs -> Ops]
    /\ key \in [Reqs -> Keys \union {None}]
    /\ cfg \in [Procs -> MaybeConfig] /\ same \in [Reqs -> BOOLEAN]

DataType ==
    /\ static \in [Keys -> MaybeConfig] /\ dyn \in [Keys -> MaybeConfig]
    /\ cache \in [Keys -> MaybeConfig] /\ newer \in [Keys -> SUBSET Keys]
    /\ stamps \subseteq Keys /\ refs \in [Tokenizers -> Nat]
    /\ target \in [Procs -> Keys \union {None}]
    /\ held \in [Procs -> MaybeConfig]
    /\ snapshot \in [Keys -> MaybeConfig]
    /\ todo \subseteq Keys /\ gone \subseteq Keys
    /\ leaked \in [Tokenizers -> Nat]

\* An assignment to the registry keeps its type.
LEMMA SetDynType ==
    ASSUME TypeOK, NEW k, NEW c \in MaybeConfig, SetDyn(k, c)
    PROVE  /\ same' \in [Reqs -> BOOLEAN]
           /\ dyn' \in [Keys -> MaybeConfig] /\ static' = static
<1>1. same' \in [Reqs -> BOOLEAN]
  BY Zenon DEF SetDyn
<1> QED
  BY <1>1 DEF SetDyn, TypeOK

\* Ending an operation keeps the control state well typed.
LEMMA FinishType ==
    ASSUME TypeOK, NEW r \in Reqs, Finish(r) PROVE ControlType'
BY DEF TypeOK, ControlType, Finish, Procs, Pcs, Ops, MaybeConfig

\* So does a load that returns None.
LEMMA ReturnNoneType ==
    ASSUME TypeOK, NEW r \in Reqs, ReturnNone(r) PROVE ControlType'
<1>1. CASE op[r] # "get"
  BY <1>1, FinishType DEF ReturnNone
<1>2. CASE op[r] = "get"
  <2>1. /\ pc' = [pc EXCEPT ![r] = "check"] /\ op' = [op EXCEPT ![r] = "retry"]
        /\ cfg' = [cfg EXCEPT ![r] = None] /\ same' = [same EXCEPT ![r] = FALSE]
        /\ lock' \in {lock, None} /\ loop' = r /\ key' = key
    BY <1>2 DEF ReturnNone
  <2> QED
    BY <2>1 DEF TypeOK, ControlType, Procs, Pcs, Ops, MaybeConfig
<1> QED BY <1>1, <1>2

\* So does a KeyError, caught or not.
LEMMA RaiseKeyErrorType ==
    ASSUME TypeOK, NEW r \in Reqs, RaiseKeyError(r) PROVE ControlType'
<1>1. CASE op[r] = "resync"
  BY <1>1, FinishType DEF RaiseKeyError
<1>2. CASE op[r] # "resync"
  BY <1>2 DEF TypeOK, ControlType, RaiseKeyError, Procs, Pcs, Ops, MaybeConfig
<1> QED BY <1>1, <1>2

\* Every step of either thread keeps the types and the local variables' shape.
LEMMA NextTypeInv == TypeInv /\ [Next]_vars => TypeInv'
<1> SUFFICES ASSUME TypeInv, [Next]_vars PROVE TypeInv'
  OBVIOUS
<1> USE ConstantsAssumption
    DEF TypeInv, TypeOK, Locals, Evicting, MaybeConfig, Procs, Pcs, Ops,
        SyncPcs, TargetPcs, DropPcs, ConfigPcs, At, Goto, regVars, cacheVars, syncVars
<1>1. ASSUME NEW r \in Reqs, CheckHit(r) PROVE TypeInv'
  BY <1>1 DEF CheckHit
<1>2. ASSUME NEW r \in Reqs, CheckMiss(r) PROVE TypeInv'
  BY <1>2 DEF CheckMiss, Current, LockFree
<1>3. ASSUME NEW r \in Reqs, CheckUnknown(r) PROVE TypeInv'
  <2>1. ControlType'
    BY <1>3, ReturnNoneType DEF ControlType, CheckUnknown
  <2>2. DataType'
    BY <1>3 DEF DataType, CheckUnknown
  <2>3. Locals'
    BY <1>3 DEF CheckUnknown, ReturnNone, Finish
  <2> QED BY <2>1, <2>2, <2>3 DEF ControlType, DataType
<1>4. ASSUME NEW r \in Reqs, Touch(r) PROVE TypeInv'
  <2>1. ControlType'
    BY <1>4, RaiseKeyErrorType DEF ControlType, Touch, Newest
  <2>2. DataType'
    <3>1. newer' \in [Keys -> SUBSET Keys]
      BY <1>4 DEF Touch, Newest
    <3> QED
      BY <1>4, <3>1 DEF DataType, Touch
  <2>3. Locals'
    BY <1>4 DEF Touch, Newest, RaiseKeyError, Finish
  <2> QED BY <2>1, <2>2, <2>3 DEF ControlType, DataType
<1>5. ASSUME NEW r \in Reqs, Return(r) PROVE TypeInv'
  <2>1. ControlType'
    BY <1>5, FinishType, RaiseKeyErrorType DEF ControlType, Return
  <2>2. DataType'
    BY <1>5 DEF DataType, Return
  <2>3. Locals'
    BY <1>5 DEF Return, RaiseKeyError, Finish
  <2> QED BY <2>1, <2>2, <2>3 DEF ControlType, DataType
<1>6. ASSUME NEW r \in Reqs, DoubleCheck(r) PROVE TypeInv'
  BY <1>6 DEF DoubleCheck
<1>7. ASSUME NEW r \in Reqs, EvictLoop(r) PROVE TypeInv'
  BY <1>7 DEF EvictLoop
<1>8. ASSUME NEW r \in Reqs, PopOldest(r) PROVE TypeInv'
  <2>1. CASE Cached = {} /\ Goto(r, "evict") /\ UNCHANGED <<cacheVars, held, target>>
    BY <1>8, <2>1 DEF PopOldest, cacheVars
  <2>2. ASSUME NEW v \in Cached, PopInto(r, v), target' = [target EXCEPT ![r] = v],
               Goto(r, "dropStamp")
        PROVE  TypeInv'
    <3>1. v \in Keys
      BY DEF Cached
    <3>2. ControlType'
      BY <1>8, <2>2 DEF ControlType, PopOldest, PopInto
    <3>3. DataType'
      BY <1>8, <2>2, <3>1 DEF DataType, PopOldest, PopInto
    <3>4. Locals'
      BY <1>8, <2>2, <3>1 DEF PopOldest
    <3> QED BY <3>2, <3>3, <3>4 DEF ControlType, DataType
  <2> QED BY <1>8, <2>1, <2>2 DEF PopOldest
<1>9. ASSUME NEW r \in Reqs, Build(r) PROVE TypeInv'
  <2>1. ControlType'
    BY <1>9, ReturnNoneType DEF ControlType, Build, Construct
  <2>2. DataType'
    BY <1>9 DEF DataType, Build, Construct
  <2>3. Locals'
    BY <1>9 DEF Build, Construct, ReturnNone, Finish
  <2> QED BY <2>1, <2>2, <2>3 DEF ControlType, DataType
<1>10. ASSUME NEW r \in Reqs, Recheck(r) PROVE TypeInv'
  BY <1>10 DEF Recheck
<1>11. ASSUME NEW r \in Reqs, Discard(r) PROVE TypeInv'
  <2>1. ControlType'
    BY <1>11, ReturnNoneType DEF ControlType, Discard, Dereferenced
  <2>2. DataType'
    BY <1>11 DEF DataType, Discard, Dereferenced
  <2>3. Locals'
    BY <1>11 DEF Discard, Dereferenced, ReturnNone, Finish
  <2> QED BY <2>1, <2>2, <2>3 DEF ControlType, DataType
<1>12. ASSUME NEW r \in Reqs, Insert(r) PROVE TypeInv'
  BY <1>12 DEF Insert, Newest
<1>13. ASSUME NEW r \in Reqs, Stamp(r) PROVE TypeInv'
  BY <1>13 DEF Stamp, Finish
<1>14. ASSUME NEW r \in Reqs, RegisterSet(r) PROVE TypeInv'
  BY <1>14 DEF RegisterSet, SetDyn
<1>15. ASSUME NEW r \in Reqs, DbRead(r) PROVE TypeInv'
  <2>1. ControlType'
    <3>1. CASE Finish(r)
      BY <3>1, FinishType
    <3>2. CASE ~Finish(r)
      <4>1. PICK c \in Configs : SetDyn(key[r], c)
        BY <1>15, <3>2 DEF DbRead
      <4>2. /\ op' = [op EXCEPT ![r] = "resync"] /\ pc' = [pc EXCEPT ![r] = "check"]
            /\ loop' = r /\ UNCHANGED <<key, cfg, lock>>
        BY <1>15, <3>2 DEF DbRead
      <4>3. pc' \in [Procs -> Pcs] /\ op' \in [Procs -> Ops]
        BY <4>2
      <4>4. same' \in [Reqs -> BOOLEAN]
        BY <4>1, SetDynType
      <4> QED
        BY <4>2, <4>3, <4>4 DEF ControlType
    <3> QED BY <3>1, <3>2
  <2>2. DataType'
    BY <1>15 DEF DataType, DbRead, SetDyn
  <2>3. Locals'
    BY <1>15 DEF DbRead, SetDyn, Finish
  <2> QED BY <2>1, <2>2, <2>3 DEF ControlType, DataType
<1>16. ASSUME NEW r \in Reqs, KeyErrorAnswered(r) PROVE TypeInv'
  BY <1>16 DEF KeyErrorAnswered, Finish
<1>17. ASSUME NEW r \in Reqs, AcquireLock(r) PROVE TypeInv'
  BY <1>17 DEF AcquireLock
<1>18. ASSUME NEW r \in Reqs, TokenizerLoaded(r) PROVE TypeInv'
  <2>1. ControlType'
    BY <1>18, ReturnNoneType DEF ControlType, TokenizerLoaded, Construct
  <2>2. DataType'
    BY <1>18 DEF DataType, TokenizerLoaded, Construct
  <2>3. Locals'
    BY <1>18 DEF TokenizerLoaded, Construct, ReturnNone, Finish
  <2> QED BY <2>1, <2>2, <2>3 DEF ControlType, DataType
<1>19. ASSUME NEW r \in Reqs, DbInsert(r) PROVE TypeInv'
  <2>1. ControlType'
    <3>1. CASE Finish(r) \/ RaiseKeyError(r)
      BY <3>1, FinishType, RaiseKeyErrorType
    <3>2. CASE ~(Finish(r) \/ RaiseKeyError(r))
      <4>1. /\ SetDyn(key[r], None) /\ pc' = [pc EXCEPT ![r] = "cacheThenStamp"]
            /\ loop' = r /\ UNCHANGED <<op, key, cfg, lock>>
        BY <1>19, <3>2 DEF DbInsert
      <4>2. same' \in [Reqs -> BOOLEAN]
        BY <4>1, SetDynType
      <4> QED
        BY <4>1, <4>2 DEF ControlType
    <3> QED BY <3>1, <3>2
  <2>2. DataType'
    BY <1>19 DEF DataType, DbInsert, SetDyn
  <2>3. Locals'
    BY <1>19 DEF DbInsert, SetDyn, RaiseKeyError, Finish
  <2> QED BY <2>1, <2>2, <2>3 DEF ControlType, DataType
<1>20. ASSUME NEW r \in Reqs, DbDelete(r) PROVE TypeInv'
  BY <1>20 DEF DbDelete, Finish
<1>21. ASSUME NEW p \in Procs, StampThenCache(p) PROVE TypeInv'
  BY <1>21 DEF StampThenCache
<1>22. ASSUME NEW p \in Procs, PopCache(p) PROVE TypeInv'
  <2>1. ControlType'
    <3>1. /\ pc' \in {[pc EXCEPT ![p] = "release"], [pc EXCEPT ![p] = "dropStamp"]}
          /\ UNCHANGED <<lock, loop, op, key, cfg, same>>
      BY <1>22 DEF PopCache
    <3> QED
      BY <3>1 DEF ControlType
  <2>2. DataType'
    BY <1>22 DEF DataType, PopCache, PopInto
  <2>3. Locals'
    <3>1. /\ pc[p] \in {"popCache", "cacheThenStamp"}
          /\ pc' \in {[pc EXCEPT ![p] = "release"], [pc EXCEPT ![p] = "dropStamp"]}
          /\ UNCHANGED <<op, key, cfg, target>>
      BY <1>22 DEF PopCache
    <3> QED
      BY <3>1
  <2> QED BY <2>1, <2>2, <2>3 DEF ControlType, DataType
<1>23. ASSUME NEW p \in Procs, DropStamp(p) PROVE TypeInv'
  BY <1>23 DEF DropStamp
<1>24. ASSUME NEW p \in Procs, Release(p) PROVE TypeInv'
  <2>1. ControlType'
    <3>1. CASE p # Sync /\ op[p] = "register" /\ Finish(p)
      BY <3>1, FinishType
    <3>2. CASE ~(p # Sync /\ op[p] = "register" /\ Finish(p))
      <4>1. /\ pc' \in {[pc EXCEPT ![p] = l] : l \in {"idle", "scan", "dbdelete", "evict"}}
            /\ op' \in {op, [op EXCEPT ![p] = "none"]}
            /\ loop' \in {loop, None} /\ UNCHANGED <<lock, key, cfg, same>>
        BY <1>24, <3>2 DEF Release
      <4> QED
        BY <4>1 DEF ControlType
    <3> QED BY <3>1, <3>2
  <2>2. DataType'
    BY <1>24 DEF DataType, Release, Dereferenced
  <2>3. Locals'
    BY <1>24 DEF Release, Dereferenced, Finish
  <2> QED BY <2>1, <2>2, <2>3 DEF ControlType, DataType
<1>25. ASSUME NEW r \in Reqs, NEW k \in Keys, ChatRequest(r, k) PROVE TypeInv'
  BY <1>25 DEF ChatRequest
<1>26. ASSUME NEW r \in Reqs, NEW k \in Keys, UnregisterModel(r, k) PROVE TypeInv'
  BY <1>26 DEF UnregisterModel, SetDyn
<1>27. ASSUME NEW r \in Reqs, NEW k \in Keys, NEW c \in Configs, RegisterModel(r, k, c)
      PROVE  TypeInv'
  BY <1>27 DEF RegisterModel
<1>28. ASSUME StaticSet PROVE TypeInv'
  BY <1>28 DEF StaticSet
<1>29. ASSUME FullSyncApply PROVE TypeInv'
  <2>1. ControlType'
    BY <1>29, SetDynType DEF ControlType, FullSyncApply
  <2>2. DataType'
    BY <1>29 DEF DataType, FullSyncApply, SetDyn
  <2>3. Locals'
    BY <1>29 DEF FullSyncApply, SetDyn
  <2> QED BY <2>1, <2>2, <2>3 DEF ControlType, DataType
<1>30. ASSUME ScanDone PROVE TypeInv'
  BY <1>30 DEF ScanDone
<1>31. ASSUME NEW k \in Keys, FullSyncRead(k) PROVE TypeInv'
  BY <1>31 DEF FullSyncRead
<1>32. ASSUME NEW k \in Keys, FullSyncRemove(k) PROVE TypeInv'
  BY <1>32 DEF FullSyncRemove, SetDyn
<1>33. ASSUME NEW k \in Keys, IdleEvict(k) PROVE TypeInv'
  BY <1>33 DEF IdleEvict
<1>34. ASSUME NEW k \in Keys, StaticCheck(k) PROVE TypeInv'
  BY <1>34 DEF StaticCheck
<1>35. ASSUME NEW k \in Keys, UnregisterByKey(k) PROVE TypeInv'
  BY <1>35 DEF UnregisterByKey, SetDyn
<1>36. ASSUME NEW k \in Keys, NEW c \in Configs, RegisterFromConfig(k, c) PROVE TypeInv'
  BY <1>36 DEF RegisterFromConfig, SetDyn
<1>37. ASSUME NEW rows \in [Keys -> MaybeConfig], FullSync(rows) PROVE TypeInv'
  BY <1>37 DEF FullSync
<1>38. ASSUME NEW idle \in SUBSET stamps, IdleScan(idle) PROVE TypeInv'
  BY <1>38 DEF IdleScan
<1>39. CASE UNCHANGED vars
  BY <1>39 DEF vars
<1> QED
  BY <1>1, <1>2, <1>3, <1>4, <1>5, <1>6, <1>7, <1>8, <1>9, <1>10, <1>11, <1>12, <1>13,
     <1>14, <1>15, <1>16, <1>17, <1>18, <1>19, <1>20, <1>21, <1>22, <1>23, <1>24, <1>25, <1>26,
     <1>27, <1>28, <1>29, <1>30, <1>31, <1>32, <1>33, <1>34, <1>35, <1>36, <1>37, <1>38, <1>39
     DEF Next, Running, Resume, Arrive, SyncRunning, SyncStart, Procs

\* Type correctness of the registry, the LRU cache and the tokenizer cache,
\* for every interleaving of the HTTP coroutines and the actor's loop.
THEOREM TypeCorrect == Spec => []TypeOK
<1>1. TypeInv => TypeOK
  BY DEF TypeInv
<1> QED
  BY <1>1, InitTypeInv, NextTypeInv, PTL DEF Spec

-----------------------------------------------------------------------------
(* _load_lock.                                                              *)

CriticalPcs == {"locked", "evict", "popitem", "build", "loading", "recheck",
                "discard", "insert", "stamp"}
InCritical(r) == pc[r] \in CriticalPcs \/ Evicting(r)

\* Whoever is inside `async with self._load_lock' holds the lock.
LockInv == \A r \in Reqs : InCritical(r) => lock = r

\* Nobody is inside _load_processor's lock at the start.
LEMMA InitLockInv == Init => LockInv
BY DEF Init, LockInv, InCritical, CriticalPcs, Evicting, Procs

\* Only the holder of _load_lock is inside its block, after every step too.
LEMMA NextLockInv == TypeInv /\ LockInv /\ [Next]_vars => LockInv'
<1> SUFFICES ASSUME TypeInv, LockInv, [Next]_vars PROVE LockInv'
  OBVIOUS
<1> USE ConstantsAssumption
    DEF LockInv, InCritical, CriticalPcs, Evicting, TypeInv, TypeOK, Locals,
        Procs, Ops, DropPcs, At, Goto
<1>1. ASSUME NEW r \in Reqs, CheckHit(r) PROVE LockInv'
  BY <1>1 DEF CheckHit
<1>2. ASSUME NEW r \in Reqs, CheckMiss(r) PROVE LockInv'
  BY <1>2 DEF CheckMiss, LockFree
<1>3. ASSUME NEW r \in Reqs, CheckUnknown(r) PROVE LockInv'
  BY <1>3 DEF CheckUnknown, ReturnNone, Finish
<1>4. ASSUME NEW r \in Reqs, Touch(r) PROVE LockInv'
  BY <1>4 DEF Touch, RaiseKeyError, Finish
<1>5. ASSUME NEW r \in Reqs, Return(r) PROVE LockInv'
  BY <1>5 DEF Return, RaiseKeyError, Finish
<1>6. ASSUME NEW r \in Reqs, DoubleCheck(r) PROVE LockInv'
  BY <1>6 DEF DoubleCheck
<1>7. ASSUME NEW r \in Reqs, EvictLoop(r) PROVE LockInv'
  BY <1>7 DEF EvictLoop
<1>8. ASSUME NEW r \in Reqs, PopOldest(r) PROVE LockInv'
  BY <1>8 DEF PopOldest
<1>9. ASSUME NEW r \in Reqs, Build(r) PROVE LockInv'
  BY <1>9 DEF Build, Construct, ReturnNone, Finish
<1>10. ASSUME NEW r \in Reqs, Recheck(r) PROVE LockInv'
  BY <1>10 DEF Recheck
<1>11. ASSUME NEW r \in Reqs, Discard(r) PROVE LockInv'
  BY <1>11 DEF Discard, ReturnNone, Finish
<1>12. ASSUME NEW r \in Reqs, Insert(r) PROVE LockInv'
  BY <1>12 DEF Insert
<1>13. ASSUME NEW r \in Reqs, Stamp(r) PROVE LockInv'
  BY <1>13 DEF Stamp, Finish
<1>14. ASSUME NEW r \in Reqs, RegisterSet(r) PROVE LockInv'
  BY <1>14 DEF RegisterSet
<1>15. ASSUME NEW r \in Reqs, DbRead(r) PROVE LockInv'
  BY <1>15 DEF DbRead, Finish
<1>16. ASSUME NEW r \in Reqs, KeyErrorAnswered(r) PROVE LockInv'
  BY <1>16 DEF KeyErrorAnswered, Finish
<1>17. ASSUME NEW r \in Reqs, AcquireLock(r) PROVE LockInv'
  BY <1>17 DEF AcquireLock
<1>18. ASSUME NEW r \in Reqs, TokenizerLoaded(r) PROVE LockInv'
  BY <1>18 DEF TokenizerLoaded, Construct, ReturnNone, Finish
<1>19. ASSUME NEW r \in Reqs, DbInsert(r) PROVE LockInv'
  BY <1>19 DEF DbInsert, RaiseKeyError, Finish
<1>20. ASSUME NEW r \in Reqs, DbDelete(r) PROVE LockInv'
  BY <1>20 DEF DbDelete, Finish
<1>21. ASSUME NEW p \in Procs, StampThenCache(p) PROVE LockInv'
  BY <1>21 DEF StampThenCache
<1>22. ASSUME NEW p \in Procs, PopCache(p) PROVE LockInv'
  BY <1>22 DEF PopCache
<1>23. ASSUME NEW p \in Procs, DropStamp(p) PROVE LockInv'
  BY <1>23 DEF DropStamp
<1>24. ASSUME NEW p \in Procs, Release(p) PROVE LockInv'
  BY <1>24 DEF Release, Finish
<1>25. ASSUME NEW r \in Reqs, NEW k \in Keys, ChatRequest(r, k) PROVE LockInv'
  BY <1>25 DEF ChatRequest
<1>26. ASSUME NEW r \in Reqs, NEW k \in Keys, UnregisterModel(r, k) PROVE LockInv'
  BY <1>26 DEF UnregisterModel
<1>27. ASSUME NEW r \in Reqs, NEW k \in Keys, NEW c \in Configs, RegisterModel(r, k, c)
      PROVE  LockInv'
  BY <1>27 DEF RegisterModel
<1>28. ASSUME StaticSet PROVE LockInv'
  BY <1>28 DEF StaticSet
<1>29. ASSUME FullSyncApply PROVE LockInv'
  BY <1>29 DEF FullSyncApply
<1>30. ASSUME ScanDone PROVE LockInv'
  BY <1>30 DEF ScanDone
<1>31. ASSUME NEW k \in Keys, FullSyncRead(k) PROVE LockInv'
  BY <1>31 DEF FullSyncRead
<1>32. ASSUME NEW k \in Keys, FullSyncRemove(k) PROVE LockInv'
  BY <1>32 DEF FullSyncRemove
<1>33. ASSUME NEW k \in Keys, IdleEvict(k) PROVE LockInv'
  BY <1>33 DEF IdleEvict
<1>34. ASSUME NEW k \in Keys, StaticCheck(k) PROVE LockInv'
  BY <1>34 DEF StaticCheck
<1>35. ASSUME NEW k \in Keys, UnregisterByKey(k) PROVE LockInv'
  BY <1>35 DEF UnregisterByKey
<1>36. ASSUME NEW k \in Keys, NEW c \in Configs, RegisterFromConfig(k, c) PROVE LockInv'
  BY <1>36 DEF RegisterFromConfig
<1>37. ASSUME NEW rows \in [Keys -> MaybeConfig], FullSync(rows) PROVE LockInv'
  BY <1>37 DEF FullSync
<1>38. ASSUME NEW idle \in SUBSET stamps, IdleScan(idle) PROVE LockInv'
  BY <1>38 DEF IdleScan
<1>39. CASE UNCHANGED vars
  BY <1>39 DEF vars
<1> QED
  BY <1>1, <1>2, <1>3, <1>4, <1>5, <1>6, <1>7, <1>8, <1>9, <1>10, <1>11, <1>12, <1>13,
     <1>14, <1>15, <1>16, <1>17, <1>18, <1>19, <1>20, <1>21, <1>22, <1>23, <1>24, <1>25, <1>26,
     <1>27, <1>28, <1>29, <1>30, <1>31, <1>32, <1>33, <1>34, <1>35, <1>36, <1>37, <1>38, <1>39
     DEF Next, Running, Resume, Arrive, SyncRunning, SyncStart

-----------------------------------------------------------------------------
(* What a step does to the caches, and where a load can be.                 *)

HeldPcs == {"dropStamp", "release", "recheck", "discard", "insert"}

\* Steps on the LRU cache, the processors in local variables and the counts.
CacheEffect ==
    \/ UNCHANGED <<cache, held, refs, leaked>>
    \/ \E p \in Procs, k \in Keys :
         PopInto(p, k) /\ pc[p] \notin HeldPcs /\ UNCHANGED <<refs, leaked>>
    \/ \E p \in Procs :
         /\ refs' = Dereferenced(p) /\ held' = [held EXCEPT ![p] = None]
         /\ UNCHANGED <<cache, leaked>>
    \/ \E r \in Reqs : Insert(r) \/ Build(r) \/ TokenizerLoaded(r)

\* What a step can do to the cache, whichever action it is.
LEMMA StepCacheEffect == TypeInv /\ [Next]_vars => CacheEffect
<1> SUFFICES ASSUME TypeInv, [Next]_vars PROVE CacheEffect
  OBVIOUS
<1> USE DEF CacheEffect, TypeInv, Locals, Procs, TargetPcs, DropPcs, HeldPcs, At,
        cacheVars
<1>1. ASSUME NEW r \in Reqs, CheckHit(r) PROVE CacheEffect
  BY <1>1 DEF CheckHit
<1>2. ASSUME NEW r \in Reqs, CheckMiss(r) PROVE CacheEffect
  BY <1>2 DEF CheckMiss
<1>3. ASSUME NEW r \in Reqs, CheckUnknown(r) PROVE CacheEffect
  BY <1>3 DEF CheckUnknown
<1>4. ASSUME NEW r \in Reqs, Touch(r) PROVE CacheEffect
  BY <1>4 DEF Touch
<1>5. ASSUME NEW r \in Reqs, Return(r) PROVE CacheEffect
  BY <1>5 DEF Return
<1>6. ASSUME NEW r \in Reqs, DoubleCheck(r) PROVE CacheEffect
  BY <1>6 DEF DoubleCheck
<1>7. ASSUME NEW r \in Reqs, EvictLoop(r) PROVE CacheEffect
  BY <1>7 DEF EvictLoop
<1>8. ASSUME NEW r \in Reqs, PopOldest(r) PROVE CacheEffect
  BY <1>8 DEF PopOldest, Cached
<1>9. ASSUME NEW r \in Reqs, Build(r) PROVE CacheEffect
  BY <1>9 DEF Build
<1>10. ASSUME NEW r \in Reqs, Recheck(r) PROVE CacheEffect
  BY <1>10 DEF Recheck
<1>11. ASSUME NEW r \in Reqs, Discard(r) PROVE CacheEffect
  BY <1>11 DEF Discard
<1>12. ASSUME NEW r \in Reqs, Insert(r) PROVE CacheEffect
  BY <1>12 DEF Insert
<1>13. ASSUME NEW r \in Reqs, Stamp(r) PROVE CacheEffect
  BY <1>13 DEF Stamp
<1>14. ASSUME NEW r \in Reqs, RegisterSet(r) PROVE CacheEffect
  BY <1>14 DEF RegisterSet
<1>15. ASSUME NEW r \in Reqs, DbRead(r) PROVE CacheEffect
  BY <1>15 DEF DbRead
<1>16. ASSUME NEW r \in Reqs, KeyErrorAnswered(r) PROVE CacheEffect
  BY <1>16 DEF KeyErrorAnswered
<1>17. ASSUME NEW r \in Reqs, AcquireLock(r) PROVE CacheEffect
  BY <1>17 DEF AcquireLock
<1>18. ASSUME NEW r \in Reqs, TokenizerLoaded(r) PROVE CacheEffect
  BY <1>18 DEF TokenizerLoaded
<1>19. ASSUME NEW r \in Reqs, DbInsert(r) PROVE CacheEffect
  BY <1>19 DEF DbInsert
<1>20. ASSUME NEW r \in Reqs, DbDelete(r) PROVE CacheEffect
  BY <1>20 DEF DbDelete
<1>21. ASSUME NEW p \in Procs, StampThenCache(p) PROVE CacheEffect
  BY <1>21 DEF StampThenCache
<1>22. ASSUME NEW p \in Procs, PopCache(p) PROVE CacheEffect
  BY <1>22 DEF PopCache
<1>23. ASSUME NEW p \in Procs, DropStamp(p) PROVE CacheEffect
  BY <1>23 DEF DropStamp
<1>24. ASSUME NEW p \in Procs, Release(p) PROVE CacheEffect
  BY <1>24 DEF Release
<1>25. ASSUME NEW r \in Reqs, NEW k \in Keys, ChatRequest(r, k) PROVE CacheEffect
  BY <1>25 DEF ChatRequest
<1>26. ASSUME NEW r \in Reqs, NEW k \in Keys, UnregisterModel(r, k) PROVE CacheEffect
  BY <1>26 DEF UnregisterModel
<1>27. ASSUME NEW r \in Reqs, NEW k \in Keys, NEW c \in Configs, RegisterModel(r, k, c)
      PROVE  CacheEffect
  BY <1>27 DEF RegisterModel
<1>28. ASSUME StaticSet PROVE CacheEffect
  BY <1>28 DEF StaticSet
<1>29. ASSUME FullSyncApply PROVE CacheEffect
  BY <1>29 DEF FullSyncApply
<1>30. ASSUME ScanDone PROVE CacheEffect
  BY <1>30 DEF ScanDone
<1>31. ASSUME NEW k \in Keys, FullSyncRead(k) PROVE CacheEffect
  BY <1>31 DEF FullSyncRead
<1>32. ASSUME NEW k \in Keys, FullSyncRemove(k) PROVE CacheEffect
  BY <1>32 DEF FullSyncRemove
<1>33. ASSUME NEW k \in Keys, IdleEvict(k) PROVE CacheEffect
  BY <1>33 DEF IdleEvict
<1>34. ASSUME NEW k \in Keys, StaticCheck(k) PROVE CacheEffect
  BY <1>34 DEF StaticCheck
<1>35. ASSUME NEW k \in Keys, UnregisterByKey(k) PROVE CacheEffect
  BY <1>35 DEF UnregisterByKey
<1>36. ASSUME NEW k \in Keys, NEW c \in Configs, RegisterFromConfig(k, c) PROVE CacheEffect
  BY <1>36 DEF RegisterFromConfig
<1>37. ASSUME NEW rows \in [Keys -> MaybeConfig], FullSync(rows) PROVE CacheEffect
  BY <1>37 DEF FullSync
<1>38. ASSUME NEW idle \in SUBSET stamps, IdleScan(idle) PROVE CacheEffect
  BY <1>38 DEF IdleScan
<1>39. CASE UNCHANGED vars
  BY <1>39 DEF vars
<1> QED
  BY <1>1, <1>2, <1>3, <1>4, <1>5, <1>6, <1>7, <1>8, <1>9, <1>10, <1>11, <1>12, <1>13,
     <1>14, <1>15, <1>16, <1>17, <1>18, <1>19, <1>20, <1>21, <1>22, <1>23, <1>24, <1>25, <1>26,
     <1>27, <1>28, <1>29, <1>30, <1>31, <1>32, <1>33, <1>34, <1>35, <1>36, <1>37, <1>38, <1>39
     DEF Next, Running, Resume, Arrive, SyncRunning, SyncStart

\* r has made room in the cache and not used it yet.
RoomPcs == {"build", "loading", "recheck", "insert"}
\* r has found its key missing under the lock and not inserted it yet.
Loading(r) == pc[r] \in RoomPcs \union {"evict", "popitem"} \/ Evicting(r)

LoadEffect ==
    \A q \in Reqs :
        /\ pc'[q] \in RoomPcs => pc[q] \in RoomPcs \/ EvictLoop(q)
        /\ Loading(q)' => Loading(q) \/ DoubleCheck(q)
        /\ Loading(q)' => key'[q] = key[q]
        /\ pc'[q] = "loading" => /\ pc[q] = "loading" \/ Build(q)
                                 /\ cfg'[q] = cfg[q]

\* What a step can do to a coroutine that is loading, whichever action it is.
LEMMA StepLoadEffect == TypeInv /\ [Next]_vars => LoadEffect
<1> SUFFICES ASSUME TypeInv, [Next]_vars PROVE LoadEffect
  OBVIOUS
<1> USE ConstantsAssumption
    DEF LoadEffect, Loading, Evicting, RoomPcs, TypeInv, TypeOK, Locals, Procs,
        Ops, DropPcs, At, Goto
<1>1. ASSUME NEW r \in Reqs, CheckHit(r) PROVE LoadEffect
  BY <1>1 DEF CheckHit
<1>2. ASSUME NEW r \in Reqs, CheckMiss(r) PROVE LoadEffect
  BY <1>2 DEF CheckMiss, LockFree
<1>3. ASSUME NEW r \in Reqs, CheckUnknown(r) PROVE LoadEffect
  BY <1>3 DEF CheckUnknown, ReturnNone, Finish
<1>4. ASSUME NEW r \in Reqs, Touch(r) PROVE LoadEffect
  BY <1>4 DEF Touch, RaiseKeyError, Finish
<1>5. ASSUME NEW r \in Reqs, Return(r) PROVE LoadEffect
  BY <1>5 DEF Return, RaiseKeyError, Finish
<1>6. ASSUME NEW r \in Reqs, DoubleCheck(r) PROVE LoadEffect
  BY <1>6 DEF DoubleCheck
<1>7. ASSUME NEW r \in Reqs, EvictLoop(r) PROVE LoadEffect
  BY <1>7 DEF EvictLoop
<1>8. ASSUME NEW r \in Reqs, PopOldest(r) PROVE LoadEffect
  BY <1>8 DEF PopOldest
<1>9. ASSUME NEW r \in Reqs, Build(r) PROVE LoadEffect
  BY <1>9 DEF Build, Construct, ReturnNone, Finish
<1>10. ASSUME NEW r \in Reqs, Recheck(r) PROVE LoadEffect
  BY <1>10 DEF Recheck
<1>11. ASSUME NEW r \in Reqs, Discard(r) PROVE LoadEffect
  BY <1>11 DEF Discard, ReturnNone, Finish
<1>12. ASSUME NEW r \in Reqs, Insert(r) PROVE LoadEffect
  BY <1>12 DEF Insert
<1>13. ASSUME NEW r \in Reqs, Stamp(r) PROVE LoadEffect
  BY <1>13 DEF Stamp, Finish
<1>14. ASSUME NEW r \in Reqs, RegisterSet(r) PROVE LoadEffect
  BY <1>14 DEF RegisterSet
<1>15. ASSUME NEW r \in Reqs, DbRead(r) PROVE LoadEffect
  BY <1>15 DEF DbRead, Finish
<1>16. ASSUME NEW r \in Reqs, KeyErrorAnswered(r) PROVE LoadEffect
  BY <1>16 DEF KeyErrorAnswered, Finish
<1>17. ASSUME NEW r \in Reqs, AcquireLock(r) PROVE LoadEffect
  BY <1>17 DEF AcquireLock
<1>18. ASSUME NEW r \in Reqs, TokenizerLoaded(r) PROVE LoadEffect
  BY <1>18 DEF TokenizerLoaded, Construct, ReturnNone, Finish
<1>19. ASSUME NEW r \in Reqs, DbInsert(r) PROVE LoadEffect
  BY <1>19 DEF DbInsert, RaiseKeyError, Finish
<1>20. ASSUME NEW r \in Reqs, DbDelete(r) PROVE LoadEffect
  BY <1>20 DEF DbDelete, Finish
<1>21. ASSUME NEW p \in Procs, StampThenCache(p) PROVE LoadEffect
  BY <1>21 DEF StampThenCache
<1>22. ASSUME NEW p \in Procs, PopCache(p) PROVE LoadEffect
  BY <1>22 DEF PopCache
<1>23. ASSUME NEW p \in Procs, DropStamp(p) PROVE LoadEffect
  BY <1>23 DEF DropStamp
<1>24. ASSUME NEW p \in Procs, Release(p) PROVE LoadEffect
  BY <1>24 DEF Release, Finish
<1>25. ASSUME NEW r \in Reqs, NEW k \in Keys, ChatRequest(r, k) PROVE LoadEffect
  BY <1>25 DEF ChatRequest
<1>26. ASSUME NEW r \in Reqs, NEW k \in Keys, UnregisterModel(r, k) PROVE LoadEffect
  BY <1>26 DEF UnregisterModel
<1>27. ASSUME NEW r \in Reqs, NEW k \in Keys, NEW c \in Configs, RegisterModel(r, k, c)
      PROVE  LoadEffect
  BY <1>27 DEF RegisterModel
<1>28. ASSUME StaticSet PROVE LoadEffect
  BY <1>28 DEF StaticSet
<1>29. ASSUME FullSyncApply PROVE LoadEffect
  BY <1>29 DEF FullSyncApply
<1>30. ASSUME ScanDone PROVE LoadEffect
  BY <1>30 DEF ScanDone
<1>31. ASSUME NEW k \in Keys, FullSyncRead(k) PROVE LoadEffect
  BY <1>31 DEF FullSyncRead
<1>32. ASSUME NEW k \in Keys, FullSyncRemove(k) PROVE LoadEffect
  BY <1>32 DEF FullSyncRemove
<1>33. ASSUME NEW k \in Keys, IdleEvict(k) PROVE LoadEffect
  BY <1>33 DEF IdleEvict
<1>34. ASSUME NEW k \in Keys, StaticCheck(k) PROVE LoadEffect
  BY <1>34 DEF StaticCheck
<1>35. ASSUME NEW k \in Keys, UnregisterByKey(k) PROVE LoadEffect
  BY <1>35 DEF UnregisterByKey
<1>36. ASSUME NEW k \in Keys, NEW c \in Configs, RegisterFromConfig(k, c) PROVE LoadEffect
  BY <1>36 DEF RegisterFromConfig
<1>37. ASSUME NEW rows \in [Keys -> MaybeConfig], FullSync(rows) PROVE LoadEffect
  BY <1>37 DEF FullSync
<1>38. ASSUME NEW idle \in SUBSET stamps, IdleScan(idle) PROVE LoadEffect
  BY <1>38 DEF IdleScan
<1>39. CASE UNCHANGED vars
  BY <1>39 DEF vars
<1> QED
  BY <1>1, <1>2, <1>3, <1>4, <1>5, <1>6, <1>7, <1>8, <1>9, <1>10, <1>11, <1>12, <1>13,
     <1>14, <1>15, <1>16, <1>17, <1>18, <1>19, <1>20, <1>21, <1>22, <1>23, <1>24, <1>25, <1>26,
     <1>27, <1>28, <1>29, <1>30, <1>31, <1>32, <1>33, <1>34, <1>35, <1>36, <1>37, <1>38, <1>39
     DEF Next, Running, Resume, Arrive, SyncRunning, SyncStart

-----------------------------------------------------------------------------
(* The LRU bound.                                                           *)

\* The cache is finite, so its length is a number.
LEMMA CachedFinite ==
    /\ IsFiniteSet(Cached) /\ Cardinality(Cached) \in Nat
    /\ \A S \in SUBSET Cached :
         IsFiniteSet(S) /\ Cardinality(S) \in Nat /\ Cardinality(S) <= Cardinality(Cached)
<1>1. Cached \in SUBSET Keys
  BY DEF Cached
<1>2. IsFiniteSet(Cached)
  BY <1>1, FS_Subset, ConstantsAssumption
<1> QED
  BY <1>2, FS_Subset, FS_CardinalityType

\* Only an insertion makes the cache grow.
LEMMA OnlyInsertGrows ==
    ASSUME TypeInv, CacheEffect
    PROVE  Cached' \subseteq Cached \/ \E r \in Reqs : Insert(r)
<1>1. CASE cache' = cache
  BY <1>1 DEF Cached
<1>2. ASSUME NEW p \in Procs, NEW k \in Keys, PopInto(p, k) PROVE Cached' \subseteq Cached
  BY <1>2 DEF PopInto, Cached, TypeInv, TypeOK
<1> QED
  BY <1>1, <1>2 DEF CacheEffect, Build, TokenizerLoaded, cacheVars

\* An insertion adds at most the key of the request, which leaves its place
\* in front of the insertion.
LEMMA InsertEffect ==
    ASSUME TypeInv, NEW r \in Reqs, Insert(r)
    PROVE  /\ Cached' \subseteq Cached \union {key[r]}
           /\ pc[r] = "insert" /\ pc' = [pc EXCEPT ![r] = "stamp"]
           /\ UNCHANGED <<op, key, refs, leaked>>
BY DEF TypeInv, TypeOK, Insert, Cached, At, Goto, Procs

BoundInv ==
    /\ CacheBounded
    /\ \A r \in Reqs : pc[r] \in RoomPcs => Cardinality(Cached) < CacheMaxSize

\* The empty cache is within the limit.
LEMMA InitBoundInv == Init => BoundInv
<1> SUFFICES ASSUME Init PROVE BoundInv
  OBVIOUS
<1>1. Cached = {} /\ \A r \in Reqs : pc[r] = "idle"
  BY DEF Init, Cached, Procs
<1> QED
  BY <1>1, FS_EmptySet, ConstantsAssumption DEF BoundInv, CacheBounded, RoomPcs

\* No step takes the cache over the limit, or the room away from a loader.
LEMMA NextBoundInv == TypeInv /\ LockInv /\ BoundInv /\ [Next]_vars => BoundInv'
<1> SUFFICES ASSUME TypeInv, LockInv, BoundInv, [Next]_vars PROVE BoundInv'
  OBVIOUS
<1>1. CacheEffect /\ LoadEffect
  BY StepCacheEffect, StepLoadEffect
<1>2. CASE Cached' \subseteq Cached
  <2>1. Cardinality(Cached') \in Nat /\ Cardinality(Cached') <= Cardinality(Cached)
    BY <1>2, CachedFinite
  <2>2. ASSUME NEW r \in Reqs, pc'[r] \in RoomPcs PROVE Cardinality(Cached) < CacheMaxSize
    <3>1. CASE pc[r] \in RoomPcs
      BY <3>1 DEF BoundInv
    <3>2. CASE pc[r] \notin RoomPcs
      <4>1. EvictLoop(r)
        BY <3>2, <2>2, <1>1 DEF LoadEffect
      <4>2. ~(Cardinality(Cached) >= CacheMaxSize)
        BY <4>1, <2>2 DEF EvictLoop, Goto, RoomPcs, TypeInv, TypeOK, Procs
      <4> QED
        BY <4>2, CachedFinite, ConstantsAssumption
    <3> QED BY <3>1, <3>2
  <2> QED
    BY <2>1, <2>2, CachedFinite, ConstantsAssumption DEF BoundInv, CacheBounded
<1>3. ASSUME NEW r \in Reqs, Insert(r) PROVE BoundInv'
  <2>1. Cardinality(Cached) < CacheMaxSize /\ lock = r
    BY <1>3, InsertEffect
       DEF BoundInv, RoomPcs, LockInv, InCritical, CriticalPcs
  <2>2. IsFiniteSet(Cached \union {key[r]})
        /\ Cardinality(Cached \union {key[r]}) <= Cardinality(Cached) + 1
    BY CachedFinite, FS_AddElement
  <2>3. Cardinality(Cached') \in Nat
        /\ Cardinality(Cached') <= Cardinality(Cached \union {key[r]})
    BY <2>2, <1>3, InsertEffect, FS_Subset, FS_CardinalityType
  <2>4. CacheBounded'
    <3>1. Cardinality(Cached \union {key[r]}) \in Nat
      BY <2>2, FS_CardinalityType
    <3> QED
      BY <2>1, <2>2, <2>3, <3>1, CachedFinite, ConstantsAssumption DEF CacheBounded
  <2>5. ASSUME NEW q \in Reqs, pc'[q] \in RoomPcs PROVE FALSE
    <3>1. q # r /\ pc[q] \in RoomPcs
      BY <2>5, <1>3, InsertEffect DEF RoomPcs, TypeInv, TypeOK, Procs
    <3>2. lock = q
      BY <3>1 DEF LockInv, InCritical, CriticalPcs, RoomPcs
    <3> QED BY <3>1, <3>2, <2>1
  <2> QED
    BY <2>4, <2>5 DEF BoundInv
<1> QED
  BY <1>1, <1>2, <1>3, OnlyInsertGrows

\* For every interleaving the LRU cache never exceeds processor_cache_max_size.
THEOREM CacheBoundedAlways == Spec => []CacheBounded
<1>1. Init => TypeInv /\ LockInv /\ BoundInv
  BY InitTypeInv, InitLockInv, InitBoundInv
<1>2. TypeInv /\ LockInv /\ BoundInv /\ [Next]_vars => (TypeInv /\ LockInv /\ BoundInv)'
  BY NextTypeInv, NextLockInv, NextBoundInv
<1>3. BoundInv => CacheBounded
  BY DEF BoundInv
<1> QED
  BY <1>1, <1>2, <1>3, PTL DEF Spec

-----------------------------------------------------------------------------
(* The reference counts.                                                    *)

\* A process has a Processor in its hands only where the code is about to
\* store it or release it.
HeldInv == \A p \in Procs : pc[p] \notin HeldPcs => held[p] = None

\* A local Processor exists only between its pop or build and its release or insertion.
LEMMA NextHeldInv == TypeInv /\ HeldInv /\ [Next]_vars => HeldInv'
<1> SUFFICES ASSUME TypeInv, HeldInv, [Next]_vars PROVE HeldInv'
  OBVIOUS
<1> USE ConstantsAssumption
    DEF HeldInv, HeldPcs, TypeInv, TypeOK, Procs, At, Goto
<1>1. ASSUME NEW r \in Reqs, CheckHit(r) PROVE HeldInv'
  BY <1>1 DEF CheckHit
<1>2. ASSUME NEW r \in Reqs, CheckMiss(r) PROVE HeldInv'
  BY <1>2 DEF CheckMiss, LockFree
<1>3. ASSUME NEW r \in Reqs, CheckUnknown(r) PROVE HeldInv'
  BY <1>3 DEF CheckUnknown, ReturnNone, Finish
<1>4. ASSUME NEW r \in Reqs, Touch(r) PROVE HeldInv'
  BY <1>4 DEF Touch, RaiseKeyError, Finish
<1>5. ASSUME NEW r \in Reqs, Return(r) PROVE HeldInv'
  BY <1>5 DEF Return, RaiseKeyError, Finish
<1>6. ASSUME NEW r \in Reqs, DoubleCheck(r) PROVE HeldInv'
  BY <1>6 DEF DoubleCheck
<1>7. ASSUME NEW r \in Reqs, EvictLoop(r) PROVE HeldInv'
  BY <1>7 DEF EvictLoop
<1>8. ASSUME NEW r \in Reqs, PopOldest(r) PROVE HeldInv'
  BY <1>8 DEF PopOldest, PopInto
<1>9. ASSUME NEW r \in Reqs, Build(r) PROVE HeldInv'
  BY <1>9 DEF Build, Construct, ReturnNone, Finish
<1>10. ASSUME NEW r \in Reqs, Recheck(r) PROVE HeldInv'
  BY <1>10 DEF Recheck
<1>11. ASSUME NEW r \in Reqs, Discard(r) PROVE HeldInv'
  BY <1>11 DEF Discard, ReturnNone, Finish
<1>12. ASSUME NEW r \in Reqs, Insert(r) PROVE HeldInv'
  BY <1>12 DEF Insert
<1>13. ASSUME NEW r \in Reqs, Stamp(r) PROVE HeldInv'
  BY <1>13 DEF Stamp, Finish
<1>14. ASSUME NEW r \in Reqs, RegisterSet(r) PROVE HeldInv'
  BY <1>14 DEF RegisterSet
<1>15. ASSUME NEW r \in Reqs, DbRead(r) PROVE HeldInv'
  BY <1>15 DEF DbRead, Finish
<1>16. ASSUME NEW r \in Reqs, KeyErrorAnswered(r) PROVE HeldInv'
  BY <1>16 DEF KeyErrorAnswered, Finish
<1>17. ASSUME NEW r \in Reqs, AcquireLock(r) PROVE HeldInv'
  BY <1>17 DEF AcquireLock
<1>18. ASSUME NEW r \in Reqs, TokenizerLoaded(r) PROVE HeldInv'
  BY <1>18 DEF TokenizerLoaded, Construct, ReturnNone, Finish
<1>19. ASSUME NEW r \in Reqs, DbInsert(r) PROVE HeldInv'
  BY <1>19 DEF DbInsert, RaiseKeyError, Finish
<1>20. ASSUME NEW r \in Reqs, DbDelete(r) PROVE HeldInv'
  BY <1>20 DEF DbDelete, Finish
<1>21. ASSUME NEW p \in Procs, StampThenCache(p) PROVE HeldInv'
  BY <1>21 DEF StampThenCache
<1>22. ASSUME NEW p \in Procs, PopCache(p) PROVE HeldInv'
  BY <1>22 DEF PopCache, PopInto
<1>23. ASSUME NEW p \in Procs, DropStamp(p) PROVE HeldInv'
  BY <1>23 DEF DropStamp
<1>24. ASSUME NEW p \in Procs, Release(p) PROVE HeldInv'
  BY <1>24 DEF Release, Finish
<1>25. ASSUME NEW r \in Reqs, NEW k \in Keys, ChatRequest(r, k) PROVE HeldInv'
  BY <1>25 DEF ChatRequest
<1>26. ASSUME NEW r \in Reqs, NEW k \in Keys, UnregisterModel(r, k) PROVE HeldInv'
  BY <1>26 DEF UnregisterModel
<1>27. ASSUME NEW r \in Reqs, NEW k \in Keys, NEW c \in Configs, RegisterModel(r, k, c)
      PROVE  HeldInv'
  BY <1>27 DEF RegisterModel
<1>28. ASSUME StaticSet PROVE HeldInv'
  BY <1>28 DEF StaticSet
<1>29. ASSUME FullSyncApply PROVE HeldInv'
  BY <1>29 DEF FullSyncApply
<1>30. ASSUME ScanDone PROVE HeldInv'
  BY <1>30 DEF ScanDone
<1>31. ASSUME NEW k \in Keys, FullSyncRead(k) PROVE HeldInv'
  BY <1>31 DEF FullSyncRead
<1>32. ASSUME NEW k \in Keys, FullSyncRemove(k) PROVE HeldInv'
  BY <1>32 DEF FullSyncRemove
<1>33. ASSUME NEW k \in Keys, IdleEvict(k) PROVE HeldInv'
  BY <1>33 DEF IdleEvict
<1>34. ASSUME NEW k \in Keys, StaticCheck(k) PROVE HeldInv'
  BY <1>34 DEF StaticCheck
<1>35. ASSUME NEW k \in Keys, UnregisterByKey(k) PROVE HeldInv'
  BY <1>35 DEF UnregisterByKey
<1>36. ASSUME NEW k \in Keys, NEW c \in Configs, RegisterFromConfig(k, c) PROVE HeldInv'
  BY <1>36 DEF RegisterFromConfig
<1>37. ASSUME NEW rows \in [Keys -> MaybeConfig], FullSync(rows) PROVE HeldInv'
  BY <1>37 DEF FullSync
<1>38. ASSUME NEW idle \in SUBSET stamps, IdleScan(idle) PROVE HeldInv'
  BY <1>38 DEF IdleScan
<1>39. CASE UNCHANGED vars
  BY <1>39 DEF vars
<1> QED
  BY <1>1, <1>2, <1>3, <1>4, <1>5, <1>6, <1>7, <1>8, <1>9, <1>10, <1>11, <1>12, <1>13,
     <1>14, <1>15, <1>16, <1>17, <1>18, <1>19, <1>20, <1>21, <1>22, <1>23, <1>24, <1>25, <1>26,
     <1>27, <1>28, <1>29, <1>30, <1>31, <1>32, <1>33, <1>34, <1>35, <1>36, <1>37, <1>38, <1>39
     DEF Next, Running, Resume, Arrive, SyncRunning, SyncStart

\* A request that is loading its key does not find it in the cache: the
\* insertion overwrites nothing.
FreshInv == \A r \in Reqs : Loading(r) => key[r] \notin Cached

\* The key a coroutine is loading under the lock is not in the cache.
LEMMA NextFreshInv == TypeInv /\ LockInv /\ FreshInv /\ [Next]_vars => FreshInv'
<1> SUFFICES ASSUME TypeInv, LockInv, FreshInv, [Next]_vars,
                    NEW q \in Reqs, Loading(q)'
             PROVE  key'[q] \notin Cached'
  BY DEF FreshInv
<1>1. CacheEffect /\ LoadEffect
  BY StepCacheEffect, StepLoadEffect
<1>2. key'[q] = key[q]
  BY <1>1 DEF LoadEffect
<1>3. CASE DoubleCheck(q)
  <2>1. key[q] \notin Cached
    BY <1>3 DEF DoubleCheck, Loading, RoomPcs, Evicting, Goto, TypeInv, TypeOK, Procs
  <2>2. Cached' = Cached
    BY <1>3 DEF DoubleCheck, cacheVars, Cached
  <2> QED BY <1>2, <2>1, <2>2
<1>4. CASE Loading(q)
  <2>1. key[q] \notin Cached
    BY <1>4 DEF FreshInv
  <2>2. ASSUME NEW r \in Reqs, Insert(r) PROVE FALSE
    <3>1. lock = r /\ lock = q
      BY <1>4, <2>2, InsertEffect
         DEF LockInv, InCritical, CriticalPcs, Loading, RoomPcs
    <3> QED
      BY <2>2, <3>1, InsertEffect DEF Loading, RoomPcs, Evicting, TypeInv, TypeOK, Procs
  <2> QED BY <1>1, <1>2, <2>1, <2>2, OnlyInsertGrows
<1> QED BY <1>1, <1>3, <1>4 DEF LoadEffect

\* The sets that are counted are finite.
LEMMA CountsFinite ==
    ASSUME NEW t
    PROVE  /\ IsFiniteSet(Users(t)) /\ Cardinality(Users(t)) \in Nat
           /\ IsFiniteSet(Holders(t)) /\ Cardinality(Holders(t)) \in Nat
           /\ IsFiniteSet(Users(t)') /\ Cardinality(Users(t)') \in Nat
           /\ IsFiniteSet(Holders(t)') /\ Cardinality(Holders(t)') \in Nat
<1>1. IsFiniteSet(Procs) /\ IsFiniteSet(Keys)
  BY FS_AddElement, ConstantsAssumption DEF Procs
<1>2. /\ Users(t) \in SUBSET Keys /\ Users(t)' \in SUBSET Keys
      /\ Holders(t) \in SUBSET Procs /\ Holders(t)' \in SUBSET Procs
  BY DEF Users, Holders
<1> QED
  BY <1>1, <1>2, FS_Subset, FS_CardinalityType

\* Adding an element to a finite set, and taking one away.
LEMMA CardAdd ==
    ASSUME NEW S, IsFiniteSet(S), NEW x, x \notin S
    PROVE  Cardinality(S \union {x}) = Cardinality(S) + 1
BY FS_AddElement

\* Taking an element away from a finite set.
LEMMA CardRemove ==
    ASSUME NEW S, IsFiniteSet(S), NEW x \in S
    PROVE  /\ Cardinality(S \ {x}) = Cardinality(S) - 1
           /\ Cardinality(S) > 0
<1>1. S # {}
  OBVIOUS
<1>2. Cardinality(S) # 0 /\ Cardinality(S) \in Nat
  BY <1>1, FS_EmptySet, FS_CardinalityType
<1> QED
  BY <1>2, FS_RemoveElement

\* The tokenizer being loaded has no entry yet: setting its count to 1 loses
\* no reference.
LoadingInv ==
    \A r \in Reqs : pc[r] = "loading" =>
        TokenizerOf[cfg[r]] # None /\ refs[TokenizerOf[cfg[r]]] = 0

CountInv == RefsExact /\ LoadingInv

\* A Processor that moves from the cache into local hands is counted once.
LEMMA PopKeepsCount ==
    ASSUME TypeInv, HeldInv, RefsExact,
           NEW p \in Procs, NEW k \in Keys, PopInto(p, k), pc[p] \notin HeldPcs,
           UNCHANGED <<refs, leaked>>
    PROVE  RefsExact'
<1> SUFFICES ASSUME NEW t \in Tokenizers
             PROVE  Cardinality(Users(t)') + Cardinality(Holders(t)')
                    = Cardinality(Users(t)) + Cardinality(Holders(t))
  BY DEF RefsExact
<1>1. held[p] = None
  BY DEF HeldInv
<1>2. CASE cache[k] # None /\ TokenizerOf[cache[k]] = t
  <2>1. Users(t)' = Users(t) \ {k} /\ k \in Users(t)
    BY <1>2 DEF PopInto, Users, TypeInv, TypeOK
  <2>2. Holders(t)' = Holders(t) \union {p} /\ p \notin Holders(t)
    BY <1>1, <1>2 DEF PopInto, Holders, TypeInv, TypeOK
  <2> QED
    BY <2>1, <2>2, CountsFinite, CardAdd, CardRemove
<1>3. CASE ~(cache[k] # None /\ TokenizerOf[cache[k]] = t)
  <2>1. Users(t)' = Users(t)
    BY <1>3 DEF PopInto, Users, TypeInv, TypeOK
  <2>2. Holders(t)' = Holders(t)
    BY <1>1, <1>3 DEF PopInto, Holders, TypeInv, TypeOK
  <2> QED BY <2>1, <2>2
<1> QED BY <1>2, <1>3

\* A release takes away one user and one reference; counts never grow by it.
LEMMA ReleaseKeepsCount ==
    ASSUME TypeInv, RefsExact, NEW p \in Procs, refs' = Dereferenced(p),
           held' = [held EXCEPT ![p] = None], UNCHANGED <<cache, leaked>>
    PROVE  /\ RefsExact'
           /\ \A t \in Tokenizers : refs[t] = 0 => refs'[t] = 0
<1> SUFFICES ASSUME NEW t \in Tokenizers
             PROVE  /\ refs'[t] = Cardinality(Users(t)') + Cardinality(Holders(t)') + leaked'[t]
                    /\ refs[t] = 0 => refs'[t] = 0
  BY DEF RefsExact
<1>1. /\ refs[t] = Cardinality(Users(t)) + Cardinality(Holders(t)) + leaked[t]
      /\ refs[t] \in Nat /\ leaked[t] \in Nat
  BY DEF RefsExact, TypeInv, TypeOK
<1>2. Users(t)' = Users(t)
  BY DEF Users
<1>3. CASE held[p] # None /\ TokenizerOf[held[p]] = t
  <2>1. Holders(t)' = Holders(t) \ {p} /\ p \in Holders(t)
    BY <1>3 DEF Holders, TypeInv, TypeOK
  <2>2. /\ Cardinality(Holders(t)') = Cardinality(Holders(t)) - 1
        /\ Cardinality(Holders(t)) > 0
    BY <2>1, CountsFinite, CardRemove
  <2>3. refs[t] > 0
    BY <2>2, <1>1, CountsFinite
  <2>4. refs'[t] = refs[t] - 1
    BY <1>3, <2>3, ConstantsAssumption DEF Dereferenced, TypeInv, TypeOK
  <2> QED
    BY <1>1, <1>2, <2>2, <2>3, <2>4, CountsFinite
<1>4. CASE ~(held[p] # None /\ TokenizerOf[held[p]] = t)
  <2>1. Holders(t)' = Holders(t)
    BY <1>4 DEF Holders, TypeInv, TypeOK
  <2>2. refs'[t] = refs[t]
    BY <1>4 DEF Dereferenced, TypeInv, TypeOK
  <2> QED BY <1>1, <1>2, <2>1, <2>2
<1> QED BY <1>3, <1>4

\* A Processor that moves from local hands into a free place of the cache.
LEMMA InsertKeepsCount ==
    ASSUME TypeInv, FreshInv, RefsExact, NEW r \in Reqs, Insert(r)
    PROVE  RefsExact'
<1> SUFFICES ASSUME NEW t \in Tokenizers
             PROVE  Cardinality(Users(t)') + Cardinality(Holders(t)')
                    = Cardinality(Users(t)) + Cardinality(Holders(t))
  BY InsertEffect DEF RefsExact
<1>1. /\ key[r] \in Keys /\ cache[key[r]] = None
      /\ cache' = [cache EXCEPT ![key[r]] = held[r]]
      /\ held' = [held EXCEPT ![r] = None]
  BY DEF Insert, At, FreshInv, Loading, RoomPcs, Cached, TypeInv, Locals
<1>2. CASE held[r] # None /\ TokenizerOf[held[r]] = t
  <2>1. Users(t)' = Users(t) \union {key[r]} /\ key[r] \notin Users(t)
    BY <1>1, <1>2 DEF Users, TypeInv, TypeOK
  <2>2. Holders(t)' = Holders(t) \ {r} /\ r \in Holders(t)
    BY <1>1, <1>2 DEF Holders, TypeInv, TypeOK, Procs
  <2>3. Cardinality(Users(t)') = Cardinality(Users(t)) + 1
    BY <2>1, CountsFinite, CardAdd
  <2>4. Cardinality(Holders(t)') = Cardinality(Holders(t)) - 1
    BY <2>2, CountsFinite, CardRemove
  <2> QED
    BY <2>3, <2>4, CountsFinite
<1>3. CASE ~(held[r] # None /\ TokenizerOf[held[r]] = t)
  <2>1. Users(t)' = Users(t)
    BY <1>1, <1>3 DEF Users, TypeInv, TypeOK
  <2>2. Holders(t)' = Holders(t)
    BY <1>1, <1>3 DEF Holders, TypeInv, TypeOK, Procs
  <2> QED BY <2>1, <2>2
<1> QED BY <1>2, <1>3

\* A tokenizer acquired for a Processor: the constructor hands it over, or
\* fails and leaks the reference.
LEMMA AcquireKeepsCount ==
    ASSUME TypeInv, HeldInv, RefsExact, NEW r \in Reqs, pc[r] \in {"build", "loading"},
           Construct(r), UNCHANGED cache,
           \/ TokenizerOf[cfg[r]] = None /\ refs' = refs
           \/ /\ TokenizerOf[cfg[r]] # None
              /\ refs' = [refs EXCEPT ![TokenizerOf[cfg[r]]] = refs[TokenizerOf[cfg[r]]] + 1]
    PROVE  RefsExact'
<1> SUFFICES ASSUME NEW t \in Tokenizers
             PROVE  refs'[t] = Cardinality(Users(t)') + Cardinality(Holders(t)') + leaked'[t]
  BY DEF RefsExact
<1>1. /\ refs[t] = Cardinality(Users(t)) + Cardinality(Holders(t)) + leaked[t]
      /\ refs[t] \in Nat /\ leaked[t] \in Nat
  BY DEF RefsExact, TypeInv, TypeOK
<1>2. Users(t)' = Users(t)
  BY DEF Users
<1>3. held[r] = None /\ cfg[r] \in Configs /\ cfg[r] # None
  BY ConstantsAssumption DEF HeldInv, HeldPcs, Procs, TypeInv, Locals, ConfigPcs
<1>4. CASE held' = [held EXCEPT ![r] = cfg[r]] /\ leaked' = leaked
  <2>1. CASE TokenizerOf[cfg[r]] = t
    <3>1. Holders(t)' = Holders(t) \union {r} /\ r \notin Holders(t)
      BY <1>3, <1>4, <2>1 DEF Holders, TypeInv, TypeOK, Procs
    <3>2. refs'[t] = refs[t] + 1
      BY <2>1, ConstantsAssumption DEF TypeInv, TypeOK
    <3>3. Cardinality(Holders(t)') = Cardinality(Holders(t)) + 1
      BY <3>1, CountsFinite, CardAdd
    <3> QED BY <1>1, <1>2, <1>4, <3>2, <3>3, CountsFinite
  <2>2. CASE TokenizerOf[cfg[r]] # t
    <3>1. Holders(t)' = Holders(t)
      BY <1>3, <1>4, <2>2 DEF Holders, TypeInv, TypeOK, Procs
    <3>2. refs'[t] = refs[t]
      BY <2>2 DEF TypeInv, TypeOK
    <3> QED BY <1>1, <1>2, <1>4, <3>1, <3>2
  <2> QED BY <2>1, <2>2
<1>5. CASE /\ TokenizerOf[cfg[r]] # None /\ held' = held
           /\ leaked' = [leaked EXCEPT ![TokenizerOf[cfg[r]]] = @ + 1]
  <2>1. Holders(t)' = Holders(t)
    BY <1>5 DEF Holders
  <2>2. refs'[t] - refs[t] = leaked'[t] - leaked[t] /\ refs'[t] \in Nat /\ leaked'[t] \in Nat
    BY <1>1, <1>5 DEF TypeInv, TypeOK
  <2> QED BY <1>1, <1>2, <2>1, <2>2, CountsFinite
<1> QED BY <1>4, <1>5 DEF Construct

\* Both ways to acquire a tokenizer add one reference and run the constructor,
\* or leave the counts alone.
LEMMA BuildAcquires ==
    ASSUME TypeInv, LoadingInv, NEW r \in Reqs, Build(r) \/ TokenizerLoaded(r)
    PROVE  /\ pc[r] \in {"build", "loading"} /\ UNCHANGED cache
           /\ \/ UNCHANGED <<cache, held, refs, leaked>>
              \/ /\ Construct(r)
                 /\ \/ TokenizerOf[cfg[r]] = None /\ refs' = refs
                    \/ /\ TokenizerOf[cfg[r]] # None
                       /\ refs' = [refs EXCEPT ![TokenizerOf[cfg[r]]] =
                                     refs[TokenizerOf[cfg[r]]] + 1]
<1>1. CASE Build(r)
  BY <1>1 DEF Build, At, cacheVars
<1>2. CASE TokenizerLoaded(r)
  BY <1>2 DEF TokenizerLoaded, LoadingInv, cacheVars
<1> QED BY <1>1, <1>2

\* Every step keeps the reference counts exact.
LEMMA NextRefsExact ==
    TypeInv /\ HeldInv /\ FreshInv /\ CountInv /\ [Next]_vars => RefsExact'
<1> SUFFICES ASSUME TypeInv, HeldInv, FreshInv, CountInv, [Next]_vars PROVE RefsExact'
  OBVIOUS
<1> USE DEF CountInv
<1>1. CacheEffect
  BY StepCacheEffect
<1>2. CASE UNCHANGED <<cache, held, refs, leaked>>
  BY <1>2 DEF RefsExact, Users, Holders
<1>3. ASSUME NEW p \in Procs, NEW k \in Keys, PopInto(p, k), pc[p] \notin HeldPcs,
             UNCHANGED <<refs, leaked>>
      PROVE  RefsExact'
  BY <1>3, PopKeepsCount
<1>4. ASSUME NEW p \in Procs, refs' = Dereferenced(p),
             held' = [held EXCEPT ![p] = None], UNCHANGED <<cache, leaked>>
      PROVE  RefsExact'
  BY <1>4, ReleaseKeepsCount
<1>5. ASSUME NEW r \in Reqs, Insert(r) PROVE RefsExact'
  BY <1>5, InsertKeepsCount
<1>6. ASSUME NEW r \in Reqs, Build(r) \/ TokenizerLoaded(r) PROVE RefsExact'
  BY <1>2, <1>6, BuildAcquires, AcquireKeepsCount
<1> QED BY <1>1, <1>2, <1>3, <1>4, <1>5, <1>6 DEF CacheEffect

\* Every step keeps what a suspended tokenizer load relies on.
LEMMA NextLoadingInv ==
    TypeInv /\ LockInv /\ CountInv /\ [Next]_vars => LoadingInv'
<1> SUFFICES ASSUME TypeInv, LockInv, CountInv, [Next]_vars,
                    NEW q \in Reqs, pc'[q] = "loading"
             PROVE  TokenizerOf[cfg'[q]] # None /\ refs'[TokenizerOf[cfg'[q]]] = 0
  BY DEF LoadingInv
<1> USE DEF CountInv
<1>1. CacheEffect /\ LoadEffect
  BY StepCacheEffect, StepLoadEffect
<1>2. cfg'[q] = cfg[q]
  BY <1>1 DEF LoadEffect
<1>3. CASE Build(q)
  BY <1>2, <1>3
     DEF Build, Construct, ReturnNone, Finish, Goto, At, TypeInv, TypeOK, Procs
<1>4. CASE pc[q] = "loading" /\ ~Build(q)
  <2>1. /\ TokenizerOf[cfg[q]] \in Tokenizers /\ TokenizerOf[cfg[q]] # None
        /\ refs[TokenizerOf[cfg[q]]] = 0 /\ lock = q
    BY <1>4, ConstantsAssumption
       DEF LoadingInv, LockInv, InCritical, CriticalPcs, TypeInv, Locals, ConfigPcs
  <2>2. ASSUME NEW p \in Procs, refs' = Dereferenced(p),
               held' = [held EXCEPT ![p] = None], UNCHANGED <<cache, leaked>>
        PROVE  refs'[TokenizerOf[cfg[q]]] = 0
    BY <2>1, <2>2, ReleaseKeepsCount
  <2>3. ASSUME NEW r \in Reqs, Insert(r) \/ Build(r) \/ TokenizerLoaded(r)
        PROVE  refs' = refs
    <3>1. CASE Insert(r)
      BY <3>1 DEF Insert
    <3>2. CASE Build(r) \/ TokenizerLoaded(r)
      <4>1. lock = r
        BY <3>2, BuildAcquires DEF LockInv, InCritical, CriticalPcs
      <4>2. TokenizerLoaded(q)
        BY <4>1, <2>1, <3>2, <1>4
      <4>3. pc'[q] # "loading"
        BY <4>2 DEF TokenizerLoaded, Construct, ReturnNone, Finish, Goto, TypeInv,
                    TypeOK, Procs
      <4> QED BY <4>3
    <3> QED BY <2>3, <3>1, <3>2
  <2> QED
    BY <1>1, <1>2, <2>1, <2>2, <2>3 DEF CacheEffect
<1> QED BY <1>1, <1>3, <1>4 DEF LoadEffect

\* The counting invariants hold at the start.
LEMMA InitCounts == Init => HeldInv /\ FreshInv /\ CountInv
<1> SUFFICES ASSUME Init PROVE HeldInv /\ FreshInv /\ CountInv
  OBVIOUS
<1>1. HeldInv /\ FreshInv /\ LoadingInv
  BY DEF Init, HeldInv, FreshInv, LoadingInv, Loading, RoomPcs, Evicting, Procs
<1>2. \A t \in Tokenizers : Users(t) = {} /\ Holders(t) = {}
  BY DEF Init, Users, Holders
<1>3. RefsExact
  <2>1. ASSUME NEW t \in Tokenizers
        PROVE  refs[t] = Cardinality(Users(t)) + Cardinality(Holders(t)) + leaked[t]
    <3>1. refs[t] = 0 /\ leaked[t] = 0
      BY DEF Init
    <3>2. Cardinality(Users(t)) = 0 /\ Cardinality(Holders(t)) = 0
      BY <1>2, FS_EmptySet
    <3> QED BY <3>1, <3>2
  <2> QED BY <2>1 DEF RefsExact
<1> QED BY <1>1, <1>3 DEF CountInv

\* For every interleaving a tokenizer's reference count is the number of the
\* Processors that use it, plus the references failed constructors leaked.
THEOREM RefsExactAlways == Spec => []RefsExact
<1> DEFINE IndInv == TypeInv /\ LockInv /\ HeldInv /\ FreshInv /\ CountInv
<1>1. Init => IndInv
  BY InitTypeInv, InitLockInv, InitCounts
<1>2. IndInv /\ [Next]_vars => IndInv'
  BY NextTypeInv, NextLockInv, NextHeldInv, NextFreshInv, NextRefsExact,
     NextLoadingInv DEF CountInv
<1>3. IndInv => RefsExact
  BY DEF CountInv
<1> QED
  BY <1>1, <1>2, <1>3, PTL DEF Spec

-----------------------------------------------------------------------------
(* What the TOCTOU check is worth.                                         *)

\* The callbacks of this instance that run beside the HTTP loop add and evict,
\* but remove no model.
SyncRemovesNothing == SyncOps \intersect {"unregister", "fullsync"} = {}

\* A coroutine that has passed the check runs on until it has inserted, and its
\* model stays registered until then.
Passed ==
    \A r \in Reqs : pc[r] = "insert" => loop = r /\ Current(key[r]) # None

SyncKeeps ==
    /\ op[Sync] # "fullsync" /\ pc[Sync] # "apply"
    /\ pc[Sync] = "staticset" => StaticConfig[target[Sync]] # None

OrphanInv == NoOrphan /\ Passed /\ SyncKeeps

\* The cache is empty at the start.
LEMMA InitOrphanInv == Init => OrphanInv
BY ConstantsAssumption
   DEF Init, OrphanInv, NoOrphan, Passed, SyncKeeps, Cached, Procs

\* A step that caches nothing and takes no model away leaves no orphan.
LEMMA NoNewOrphan ==
    ASSUME NoOrphan, Cached' \subseteq Cached,
           \A k \in Keys : Current(k) # None => Current(k)' # None,
           \A p \in Procs : pc[p] \in DropPcs => UNCHANGED <<pc[p], target[p]>>
    PROVE  NoOrphan'
BY DEF NoOrphan, Removing, DropPcs, Cached

\* No step makes an orphan as long as the other thread removes no model.
LEMMA NextOrphanInv ==
    ASSUME SyncRemovesNothing
    PROVE  TypeInv /\ OrphanInv /\ [Next]_vars => OrphanInv'
<1> SUFFICES ASSUME TypeInv, OrphanInv, [Next]_vars PROVE OrphanInv'
  OBVIOUS
<1> USE ConstantsAssumption
    DEF OrphanInv, NoOrphan, Passed, SyncKeeps, SyncRemovesNothing, Cached, Current, Removing,
        TypeInv, TypeOK, Locals, DropPcs, TargetPcs, MaybeConfig, Procs, At, Goto, regVars,
        cacheVars, syncVars
<1>1. ASSUME NEW r \in Reqs, CheckHit(r) PROVE OrphanInv'
  BY <1>1 DEF CheckHit
<1>2. ASSUME NEW r \in Reqs, CheckMiss(r) PROVE OrphanInv'
  BY <1>2 DEF CheckMiss
<1>3. ASSUME NEW r \in Reqs, CheckUnknown(r) PROVE OrphanInv'
  <2>1. NoOrphan'
    <3>1. Cached' \subseteq Cached
      BY <1>3 DEF CheckUnknown, ReturnNone, Finish
    <3>2. \A k \in Keys : Current(k) # None => Current(k)' # None
      BY <1>3 DEF CheckUnknown, ReturnNone, Finish
    <3>3. \A p \in Procs : pc[p] \in DropPcs => UNCHANGED <<pc[p], target[p]>>
      BY <1>3 DEF CheckUnknown, ReturnNone, Finish
    <3> QED BY <3>1, <3>2, <3>3, NoNewOrphan
  <2>2. Passed'
    BY <1>3 DEF CheckUnknown, ReturnNone, Finish
  <2>3. SyncKeeps'
    BY <1>3 DEF CheckUnknown, ReturnNone, Finish
  <2> QED BY <2>1, <2>2, <2>3
<1>4. ASSUME NEW r \in Reqs, Touch(r) PROVE OrphanInv'
  <2>1. NoOrphan'
    <3>1. Cached' \subseteq Cached
      BY <1>4 DEF Touch, RaiseKeyError, Finish
    <3>2. \A k \in Keys : Current(k) # None => Current(k)' # None
      BY <1>4 DEF Touch, RaiseKeyError, Finish
    <3>3. \A p \in Procs : pc[p] \in DropPcs => UNCHANGED <<pc[p], target[p]>>
      BY <1>4 DEF Touch, RaiseKeyError, Finish
    <3> QED BY <3>1, <3>2, <3>3, NoNewOrphan
  <2>2. Passed'
    BY <1>4 DEF Touch, RaiseKeyError, Finish
  <2>3. SyncKeeps'
    BY <1>4 DEF Touch, RaiseKeyError, Finish
  <2> QED BY <2>1, <2>2, <2>3
<1>5. ASSUME NEW r \in Reqs, Return(r) PROVE OrphanInv'
  <2>1. NoOrphan'
    <3>1. Cached' \subseteq Cached
      BY <1>5 DEF Return, RaiseKeyError, Finish
    <3>2. \A k \in Keys : Current(k) # None => Current(k)' # None
      BY <1>5 DEF Return, RaiseKeyError, Finish
    <3>3. \A p \in Procs : pc[p] \in DropPcs => UNCHANGED <<pc[p], target[p]>>
      BY <1>5 DEF Return, RaiseKeyError, Finish
    <3> QED BY <3>1, <3>2, <3>3, NoNewOrphan
  <2>2. Passed'
    BY <1>5 DEF Return, RaiseKeyError, Finish
  <2>3. SyncKeeps'
    BY <1>5 DEF Return, RaiseKeyError, Finish
  <2> QED BY <2>1, <2>2, <2>3
<1>6. ASSUME NEW r \in Reqs, DoubleCheck(r) PROVE OrphanInv'
  BY <1>6 DEF DoubleCheck
<1>7. ASSUME NEW r \in Reqs, EvictLoop(r) PROVE OrphanInv'
  BY <1>7 DEF EvictLoop
<1>8. ASSUME NEW r \in Reqs, PopOldest(r) PROVE OrphanInv'
  <2>1. NoOrphan'
    <3>1. Cached' \subseteq Cached
      BY <1>8 DEF PopOldest, PopInto
    <3>2. \A k \in Keys : Current(k) # None => Current(k)' # None
      BY <1>8 DEF PopOldest, PopInto
    <3>3. \A p \in Procs : pc[p] \in DropPcs => UNCHANGED <<pc[p], target[p]>>
      BY <1>8 DEF PopOldest, PopInto
    <3> QED BY <3>1, <3>2, <3>3, NoNewOrphan
  <2>2. Passed'
    BY <1>8 DEF PopOldest, PopInto
  <2>3. SyncKeeps'
    BY <1>8 DEF PopOldest, PopInto
  <2> QED BY <2>1, <2>2, <2>3
<1>9. ASSUME NEW r \in Reqs, Build(r) PROVE OrphanInv'
  <2>1. NoOrphan'
    <3>1. Cached' \subseteq Cached
      BY <1>9 DEF Build, Construct, ReturnNone, Finish
    <3>2. \A k \in Keys : Current(k) # None => Current(k)' # None
      BY <1>9 DEF Build, Construct, ReturnNone, Finish
    <3>3. \A p \in Procs : pc[p] \in DropPcs => UNCHANGED <<pc[p], target[p]>>
      BY <1>9 DEF Build, Construct, ReturnNone, Finish
    <3> QED BY <3>1, <3>2, <3>3, NoNewOrphan
  <2>2. Passed'
    BY <1>9 DEF Build, Construct, ReturnNone, Finish
  <2>3. SyncKeeps'
    BY <1>9 DEF Build, Construct, ReturnNone, Finish
  <2> QED BY <2>1, <2>2, <2>3
<1>10. ASSUME NEW r \in Reqs, Recheck(r) PROVE OrphanInv'
  BY <1>10 DEF Recheck
<1>11. ASSUME NEW r \in Reqs, Discard(r) PROVE OrphanInv'
  <2>1. NoOrphan'
    <3>1. Cached' \subseteq Cached
      BY <1>11 DEF Discard, ReturnNone, Finish
    <3>2. \A k \in Keys : Current(k) # None => Current(k)' # None
      BY <1>11 DEF Discard, ReturnNone, Finish
    <3>3. \A p \in Procs : pc[p] \in DropPcs => UNCHANGED <<pc[p], target[p]>>
      BY <1>11 DEF Discard, ReturnNone, Finish
    <3> QED BY <3>1, <3>2, <3>3, NoNewOrphan
  <2>2. Passed'
    BY <1>11 DEF Discard, ReturnNone, Finish
  <2>3. SyncKeeps'
    BY <1>11 DEF Discard, ReturnNone, Finish
  <2> QED BY <2>1, <2>2, <2>3
<1>12. ASSUME NEW r \in Reqs, Insert(r) PROVE OrphanInv'
  BY <1>12 DEF Insert
<1>13. ASSUME NEW r \in Reqs, Stamp(r) PROVE OrphanInv'
  BY <1>13 DEF Stamp, Finish
<1>14. ASSUME NEW r \in Reqs, RegisterSet(r) PROVE OrphanInv'
  <2>1. NoOrphan'
    <3>1. Cached' \subseteq Cached
      BY <1>14 DEF RegisterSet, SetDyn, ConfigPcs
    <3>2. \A k \in Keys : Current(k) # None => Current(k)' # None
      BY <1>14 DEF RegisterSet, SetDyn, ConfigPcs
    <3>3. \A p \in Procs : pc[p] \in DropPcs => UNCHANGED <<pc[p], target[p]>>
      BY <1>14 DEF RegisterSet, SetDyn, ConfigPcs
    <3> QED BY <3>1, <3>2, <3>3, NoNewOrphan
  <2>2. Passed'
    BY <1>14 DEF RegisterSet, SetDyn, ConfigPcs
  <2>3. SyncKeeps'
    BY <1>14 DEF RegisterSet, SetDyn, ConfigPcs
  <2> QED BY <2>1, <2>2, <2>3
<1>15. ASSUME NEW r \in Reqs, DbRead(r) PROVE OrphanInv'
  <2>1. NoOrphan'
    <3>1. Cached' \subseteq Cached
      BY <1>15 DEF DbRead, Finish, SetDyn
    <3>2. \A k \in Keys : Current(k) # None => Current(k)' # None
      BY <1>15 DEF DbRead, Finish, SetDyn
    <3>3. \A p \in Procs : pc[p] \in DropPcs => UNCHANGED <<pc[p], target[p]>>
      BY <1>15 DEF DbRead, Finish, SetDyn
    <3> QED BY <3>1, <3>2, <3>3, NoNewOrphan
  <2>2. Passed'
    BY <1>15 DEF DbRead, Finish, SetDyn
  <2>3. SyncKeeps'
    BY <1>15 DEF DbRead, Finish, SetDyn
  <2> QED BY <2>1, <2>2, <2>3
<1>16. ASSUME NEW r \in Reqs, KeyErrorAnswered(r) PROVE OrphanInv'
  <2>1. NoOrphan'
    <3>1. Cached' \subseteq Cached
      BY <1>16 DEF KeyErrorAnswered, Finish
    <3>2. \A k \in Keys : Current(k) # None => Current(k)' # None
      BY <1>16 DEF KeyErrorAnswered, Finish
    <3>3. \A p \in Procs : pc[p] \in DropPcs => UNCHANGED <<pc[p], target[p]>>
      BY <1>16 DEF KeyErrorAnswered, Finish
    <3> QED BY <3>1, <3>2, <3>3, NoNewOrphan
  <2>2. Passed'
    BY <1>16 DEF KeyErrorAnswered, Finish
  <2>3. SyncKeeps'
    BY <1>16 DEF KeyErrorAnswered, Finish
  <2> QED BY <2>1, <2>2, <2>3
<1>17. ASSUME NEW r \in Reqs, AcquireLock(r) PROVE OrphanInv'
  BY <1>17 DEF AcquireLock
<1>18. ASSUME NEW r \in Reqs, TokenizerLoaded(r) PROVE OrphanInv'
  <2>1. NoOrphan'
    <3>1. Cached' \subseteq Cached
      BY <1>18 DEF TokenizerLoaded, Construct, ReturnNone, Finish
    <3>2. \A k \in Keys : Current(k) # None => Current(k)' # None
      BY <1>18 DEF TokenizerLoaded, Construct, ReturnNone, Finish
    <3>3. \A p \in Procs : pc[p] \in DropPcs => UNCHANGED <<pc[p], target[p]>>
      BY <1>18 DEF TokenizerLoaded, Construct, ReturnNone, Finish
    <3> QED BY <3>1, <3>2, <3>3, NoNewOrphan
  <2>2. Passed'
    BY <1>18 DEF TokenizerLoaded, Construct, ReturnNone, Finish
  <2>3. SyncKeeps'
    BY <1>18 DEF TokenizerLoaded, Construct, ReturnNone, Finish
  <2> QED BY <2>1, <2>2, <2>3
<1>19. ASSUME NEW r \in Reqs, DbInsert(r) PROVE OrphanInv'
  <2>1. /\ pc[r] = "dbinsert" /\ loop = None /\ UNCHANGED <<cache, static>>
        /\ key[r] \in Keys
    BY <1>19 DEF DbInsert, SetDyn
  <2>2. Passed'
    BY <1>19, <2>1 DEF DbInsert, RaiseKeyError, Finish
  <2>3. SyncKeeps'
    BY <1>19, <2>1 DEF DbInsert, RaiseKeyError, Finish
  <2>4. CASE (Finish(r) \/ RaiseKeyError(r)) /\ UNCHANGED <<regVars, target>>
    <3>1. \A p \in Procs : pc[p] \in DropPcs => UNCHANGED <<pc[p], target[p]>>
      BY <2>1, <2>4 DEF RaiseKeyError, Finish
    <3>2. NoOrphan'
      BY <2>1, <2>4, <3>1, NoNewOrphan
    <3> QED BY <2>2, <2>3, <3>2
  <2>5. CASE /\ SetDyn(key[r], None) /\ target' = [target EXCEPT ![r] = key[r]]
             /\ Goto(r, "cacheThenStamp") /\ UNCHANGED key
    <3>1. \A k \in Keys : k # key[r] => Current(k)' = Current(k)
      BY <2>5 DEF SetDyn
    <3>2. Removing(r, key[r])'
      BY <2>1, <2>5
    <3>3. ASSUME NEW p \in Procs, NEW k \in Keys, Removing(p, k) PROVE Removing(p, k)'
      BY <2>1, <2>5, <3>3
    <3>4. ASSUME NEW k \in Cached', Current(k)' = None PROVE \E p \in Procs : Removing(p, k)'
      <4>1. CASE k = key[r]
        <5>1. key' = key
          BY <2>5
        <5> HIDE DEF Removing
        <5> QED BY <3>2, <4>1, <5>1
      <4>2. CASE k # key[r]
        <5>1. k \in Cached /\ Current(k) = None
          BY <2>1, <3>1, <3>4, <4>2
        <5>2. PICK p \in Procs : Removing(p, k)
          BY <5>1
        <5> QED BY <3>3, <5>1, <5>2
      <4> QED BY <4>1, <4>2
    <3>5. NoOrphan'
      BY <3>4
    <3> QED BY <2>2, <2>3, <3>5
  <2> QED BY <1>19, <2>4, <2>5 DEF DbInsert
<1>20. ASSUME NEW r \in Reqs, DbDelete(r) PROVE OrphanInv'
  <2>1. NoOrphan'
    <3>1. Cached' \subseteq Cached
      BY <1>20 DEF DbDelete, Finish
    <3>2. \A k \in Keys : Current(k) # None => Current(k)' # None
      BY <1>20 DEF DbDelete, Finish
    <3>3. \A p \in Procs : pc[p] \in DropPcs => UNCHANGED <<pc[p], target[p]>>
      BY <1>20 DEF DbDelete, Finish
    <3> QED BY <3>1, <3>2, <3>3, NoNewOrphan
  <2>2. Passed'
    BY <1>20 DEF DbDelete, Finish
  <2>3. SyncKeeps'
    BY <1>20 DEF DbDelete, Finish
  <2> QED BY <2>1, <2>2, <2>3
<1>21. ASSUME NEW p \in Procs, StampThenCache(p) PROVE OrphanInv'
  BY <1>21 DEF StampThenCache
<1>22. ASSUME NEW p \in Procs, PopCache(p) PROVE OrphanInv'
  BY <1>22 DEF PopCache, PopInto
<1>23. ASSUME NEW p \in Procs, DropStamp(p) PROVE OrphanInv'
  BY <1>23 DEF DropStamp
<1>24. ASSUME NEW p \in Procs, Release(p) PROVE OrphanInv'
  BY <1>24 DEF Release, Finish
<1>25. ASSUME NEW r \in Reqs, NEW k \in Keys, ChatRequest(r, k) PROVE OrphanInv'
  BY <1>25 DEF ChatRequest
<1>26. ASSUME NEW r \in Reqs, NEW k \in Keys, UnregisterModel(r, k) PROVE OrphanInv'
  BY <1>26 DEF UnregisterModel, SetDyn
<1>27. ASSUME NEW r \in Reqs, NEW k \in Keys, NEW c \in Configs, RegisterModel(r, k, c)
      PROVE OrphanInv'
  BY <1>27 DEF RegisterModel
<1>28. ASSUME StaticSet PROVE OrphanInv'
  <2>1. NoOrphan'
    <3>1. Cached' \subseteq Cached
      BY <1>28 DEF StaticSet
    <3>2. \A k \in Keys : Current(k) # None => Current(k)' # None
      BY <1>28 DEF StaticSet
    <3>3. \A p \in Procs : pc[p] \in DropPcs => UNCHANGED <<pc[p], target[p]>>
      BY <1>28 DEF StaticSet
    <3> QED BY <3>1, <3>2, <3>3, NoNewOrphan
  <2>2. Passed'
    BY <1>28 DEF StaticSet
  <2>3. SyncKeeps'
    BY <1>28 DEF StaticSet
  <2> QED BY <2>1, <2>2, <2>3
<1>29. ASSUME FullSyncApply PROVE OrphanInv'
  BY <1>29 DEF FullSyncApply
<1>30. ASSUME ScanDone PROVE OrphanInv'
  BY <1>30 DEF ScanDone
<1>31. ASSUME NEW k \in Keys, FullSyncRead(k) PROVE OrphanInv'
  BY <1>31 DEF FullSyncRead
<1>32. ASSUME NEW k \in Keys, FullSyncRemove(k) PROVE OrphanInv'
  BY <1>32 DEF FullSyncRemove
<1>33. ASSUME NEW k \in Keys, IdleEvict(k) PROVE OrphanInv'
  BY <1>33 DEF IdleEvict
<1>34. ASSUME NEW k \in Keys, StaticCheck(k) PROVE OrphanInv'
  BY <1>34 DEF StaticCheck
<1>35. ASSUME NEW k \in Keys, UnregisterByKey(k) PROVE OrphanInv'
  BY <1>35 DEF UnregisterByKey
<1>36. ASSUME NEW k \in Keys, NEW c \in Configs, RegisterFromConfig(k, c) PROVE OrphanInv'
  BY <1>36 DEF RegisterFromConfig, SetDyn
<1>37. ASSUME NEW rows \in [Keys -> MaybeConfig], FullSync(rows) PROVE OrphanInv'
  BY <1>37 DEF FullSync
<1>38. ASSUME NEW idle \in SUBSET stamps, IdleScan(idle) PROVE OrphanInv'
  BY <1>38 DEF IdleScan
<1>39. CASE UNCHANGED vars
  BY <1>39 DEF vars, regVars, cacheVars, syncVars
<1> QED
  BY <1>1, <1>2, <1>3, <1>4, <1>5, <1>6, <1>7, <1>8, <1>9, <1>10, <1>11, <1>12, <1>13,
     <1>14, <1>15, <1>16, <1>17, <1>18, <1>19, <1>20, <1>21, <1>22, <1>23, <1>24, <1>25, <1>26,
     <1>27, <1>28, <1>29, <1>30, <1>31, <1>32, <1>33, <1>34, <1>35, <1>36, <1>37, <1>38, <1>39
     DEF Next, Running, Resume, Arrive, SyncRunning, SyncStart

\* As long as the other thread removes no model, no Processor stays in the cache
\* after its model was rolled back or unregistered: the identity check of
\* _load_processor is enough against every other coroutine of the HTTP loop.
THEOREM NoOrphanAlways ==
    ASSUME SyncRemovesNothing
    PROVE  Spec => []NoOrphan
<1>1. Init => TypeInv /\ OrphanInv
  BY InitTypeInv, InitOrphanInv
<1>2. TypeInv /\ OrphanInv /\ [Next]_vars => (TypeInv /\ OrphanInv)'
  BY NextTypeInv, NextOrphanInv
<1>3. OrphanInv => NoOrphan
  BY DEF OrphanInv
<1> QED
  BY <1>1, <1>2, <1>3, PTL DEF Spec
=============================================================================
