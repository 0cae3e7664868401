------------------------------ MODULE ModelSync ------------------------------
(***************************************************************************)
(* How the workers agree on the dynamic models: the model_registry table,  *)
(* the NOTIFY that commits with every change of it, and on each worker the *)
(* listener task, the periodic full sync and the HTTP requests.            *)
(*                                                                         *)
(* A step is what a task does between two awaits on the database: the      *)
(* interleavings inside one worker's dictionaries are the subject of       *)
(* ProcessorManager.  The end of _load_processor is two steps: the HTTP    *)
(* thread checks that the config is still there, then stores the           *)
(* Processor, and nothing keeps the actor's thread, whose loop runs the    *)
(* listener and the full syncs, from removing the model in between.        *)
(***************************************************************************)
EXTENDS Naturals, Sequences

CONSTANTS
    Workers,       \* the ProxyWorker processes
    Keys,          \* (run_id, model_name) pairs
    Configs,       \* contents of a ModelConfig
    Requested,     \* those of them a client asks for
    DbForm,        \* a config as it comes back from its row
    Clients,       \* HTTP requests in flight
    Booted,        \* the workers that have finished starting when we look first
    Loaders,       \* bound: the workers on which Processors are loaded
    Features,      \* the parts of the environment this instance explores
    MaxChanges,    \* bound: registrations and removals accepted
    MaxFaults,     \* bound: database errors, lost connections and crashes
    None

MaybeConfig == Configs \union {None}

ASSUME SyncAssumption ==
    /\ None \notin Configs \union Workers \union Keys \union Clients
    /\ Requested \subseteq Configs
    /\ DbForm \in [Configs -> Configs]
    /\ \A c \in Configs : DbForm[DbForm[c]] = DbForm[c]
    /\ Booted \subseteq Workers /\ Loaders \subseteq Workers
    /\ Features \subseteq {"periodic", "fallback", "error", "disconnect", "crash"}
    /\ MaxChanges \in Nat /\ MaxFaults \in Nat

\* The two tasks of the actor's loop that touch the registry.
Tasks == {"listener", "periodic"}
Notes == [action : {"register", "unregister"}, key : Keys]

VARIABLES
    db,        \* public.model_registry
    dyn,       \* _dynamic_configs of each worker
    proc,      \* _processor_cache: the config each Processor was built from
    loading,   \* the Processor the HTTP thread of each worker is about to store
    listening, \* whether the LISTEN connection is up
    queue,     \* the notifications sent to each worker, the first being handled
    tpc,       \* where each task is
    rows,      \* what the task read from the table
    cpc,       \* where each request is
    at, ckey, ccfg, \* its worker, its key, the config it carries
    changes, faults \* how much of the bounds is used

taskVars == <<tpc, rows>>
clientVars == <<cpc, at, ckey, ccfg>>
vars == <<db, dyn, proc, loading, listening, queue, tpc, rows, cpc, at, ckey, ccfg,
          changes, faults>>

NoModels == [k \in Keys |-> None]
Tables == [Keys -> MaybeConfig]
Loads == [key : Keys, cfg : Configs]

\* The types of the table, of each worker's copy of it and of the messages; the
\* bounds are kept.
TypeOK ==
    /\ db \in Tables
    /\ dyn \in [Workers -> Tables] /\ proc \in [Workers -> Tables]
    /\ loading \in [Workers -> Loads \union {None}]
    /\ listening \in [Workers -> BOOLEAN]
    /\ queue \in [Workers -> Seq(Notes)]
    /\ tpc \in [Workers -> [Tasks -> {"off", "idle", "row", "full", "rows"}]]
    /\ rows \in [Workers -> [Tasks -> Tables]]
    /\ cpc \in [Clients -> {"idle", "insert", "delete", "store"}]
    /\ at \in [Clients -> Workers \union {None}]
    /\ ckey \in [Clients -> Keys \union {None}]
    /\ ccfg \in [Clients -> MaybeConfig]
    /\ changes \in 0 .. MaxChanges /\ faults \in 0 .. MaxFaults

\* ModelSynchronizer.start: an initial full sync, then the listener and the
\* periodic task.
BootTasks == [t \in Tasks |-> IF t = "periodic" THEN "full" ELSE "off"]

Init ==
    /\ db = NoModels
    /\ dyn = [w \in Workers |-> NoModels] /\ proc = [w \in Workers |-> NoModels]
    /\ loading = [w \in Workers |-> None]
    /\ listening = [w \in Workers |-> w \in Booted]
    /\ queue = [w \in Workers |-> << >>]
    /\ tpc = [w \in Workers |-> IF w \in Booted THEN [t \in Tasks |-> "idle"] ELSE BootTasks]
    /\ rows = [w \in Workers |-> [t \in Tasks |-> NoModels]]
    /\ cpc = [c \in Clients |-> "idle"] /\ at = [c \in Clients |-> None]
    /\ ckey = [c \in Clients |-> None]  /\ ccfg = [c \in Clients |-> None]
    /\ changes = 0 /\ faults = 0

-----------------------------------------------------------------------------
(* The table.                                                               *)

\* Mutation of Notify: the payload does not name the model.
NotifyAnonymous(action, k) ==
    queue' = [w \in Workers |->
                IF listening[w] THEN Append(queue[w], [action |-> action, key |-> None])
                ELSE queue[w]]

\* NOTIFY reaches every connection that listens, the sender's own included.
Notify(action, k) ==
    queue' = [w \in Workers |->
                IF listening[w] THEN Append(queue[w], [action |-> action, key |-> k])
                ELSE queue[w]]

\* ModelRepository.register: the upsert and its NOTIFY in one transaction.
Upsert(k, c) ==
    /\ db' = [db EXCEPT ![k] = DbForm[c]]
    /\ Notify("register", k)

\* Mutation of Delete: the row goes, the other workers are not told.
DeleteSilently(k) ==
    /\ db' = [db EXCEPT ![k] = None]
    /\ UNCHANGED queue

\* ModelRepository.unregister: NOTIFY only when a row was deleted.
Delete(k) ==
    /\ db' = [db EXCEPT ![k] = None]
    /\ \/ db[k] # None /\ Notify("unregister", k)
       \/ db[k] = None /\ UNCHANGED queue

Fault(kind) == kind \in Features /\ faults < MaxFaults /\ faults' = faults + 1

-----------------------------------------------------------------------------
(* HTTP requests.                                                           *)

\* Between the check and the store of a load the HTTP thread does nothing else.
HttpFree(w) == loading[w] = None

\* Mutation of Forget: the Processor of a removed model stays in the cache.
ForgetConfigOnly(w, k) ==
    /\ dyn' = [dyn EXCEPT ![w][k] = None]
    /\ UNCHANGED proc

\* The entry of k is removed, and the Processor that may have been loaded for it.
Forget(w, k) ==
    /\ dyn' = [dyn EXCEPT ![w][k] = None]
    /\ proc' = [proc EXCEPT ![w][k] = None]

Answer(c) ==
    /\ cpc' = [cpc EXCEPT ![c] = "idle"] /\ at' = [at EXCEPT ![c] = None]
    /\ ckey' = [ckey EXCEPT ![c] = None] /\ ccfg' = [ccfg EXCEPT ![c] = None]

Begin(c, w, k, x, label) ==
    /\ cpc[c] = "idle"
    /\ cpc' = [cpc EXCEPT ![c] = label] /\ at' = [at EXCEPT ![c] = w]
    /\ ckey' = [ckey EXCEPT ![c] = k] /\ ccfg' = [ccfg EXCEPT ![c] = x]

\* register_dynamic_processor up to the database: a known key is refused,
\* otherwise the config is stored in memory first.
Register(c, w, k, x) ==
    /\ HttpFree(w) /\ dyn[w][k] = None /\ changes < MaxChanges
    /\ dyn' = [dyn EXCEPT ![w][k] = x]
    /\ changes' = changes + 1
    /\ Begin(c, w, k, x, "insert")
    /\ UNCHANGED <<db, proc, loading, listening, queue, taskVars, faults>>

InsertCommitted(c) ==
    /\ cpc[c] = "insert"
    /\ Upsert(ckey[c], ccfg[c])
    /\ Answer(c)
    /\ UNCHANGED <<dyn, proc, loading, listening, taskVars, changes, faults>>

\* A database error rolls the local registration back, whatever is stored under
\* the key by then; the transaction may have committed all the same.  Where the
\* entry is gone the `del' of the roll-back raises, and the cache is not cleaned.
InsertFailed(c) ==
    /\ cpc[c] = "insert" /\ HttpFree(at[c]) /\ Fault("error")
    /\ \/ Upsert(ckey[c], ccfg[c])
       \/ UNCHANGED <<db, queue>>
    /\ \/ dyn[at[c]][ckey[c]] # None /\ Forget(at[c], ckey[c])
       \/ dyn[at[c]][ckey[c]] = None /\ UNCHANGED <<dyn, proc>>
    /\ Answer(c)
    /\ UNCHANGED <<loading, listening, taskVars, changes>>

\* unregister_dynamic_processor: memory first, then the row.
Unregister(c, w, k) ==
    /\ HttpFree(w) /\ dyn[w][k] # None /\ changes < MaxChanges
    /\ Forget(w, k)
    /\ changes' = changes + 1
    /\ Begin(c, w, k, None, "delete")
    /\ UNCHANGED <<db, loading, listening, queue, taskVars, faults>>

DeleteCommitted(c) ==
    /\ cpc[c] = "delete"
    /\ Delete(ckey[c])
    /\ Answer(c)
    /\ UNCHANGED <<dyn, proc, loading, listening, taskVars, changes, faults>>

\* The error is reported and the model is not put back, whether or not the
\* transaction has committed.
DeleteFailed(c) ==
    /\ cpc[c] = "delete" /\ Fault("error")
    /\ \/ Delete(ckey[c])
       \/ UNCHANGED <<db, queue>>
    /\ Answer(c)
    /\ UNCHANGED <<dyn, proc, loading, listening, taskVars, changes>>

\* try_get_or_sync_from_db: a chat request for an unknown model reads the row,
\* and stores what it read when it runs again.
FallbackRead(c, w, k) ==
    /\ "fallback" \in Features /\ HttpFree(w)
    /\ dyn[w][k] = None /\ proc[w][k] = None /\ db[k] # None
    /\ Begin(c, w, k, db[k], "store")
    /\ UNCHANGED <<db, dyn, proc, loading, listening, queue, taskVars, changes, faults>>

FallbackStore(c) ==
    /\ cpc[c] = "store" /\ HttpFree(at[c])
    /\ dyn' = [dyn EXCEPT ![at[c]][ckey[c]] = ccfg[c]]
    /\ Answer(c)
    /\ UNCHANGED <<db, proc, loading, listening, queue, taskVars, changes, faults>>

\* A chat request for a known model builds its Processor.  When that is done
\* _load_processor checks that the config it read is still the current one ...
Recheck(w, k) ==
    /\ w \in Loaders /\ HttpFree(w)
    /\ dyn[w][k] # None /\ proc[w][k] = None
    /\ loading' = [loading EXCEPT ![w] = [key |-> k, cfg |-> dyn[w][k]]]
    /\ UNCHANGED <<db, dyn, proc, listening, queue, taskVars, clientVars, changes, faults>>

\* ... and stores it, whatever the actor's thread did since.
CacheProcessor(w) ==
    /\ loading[w] # None
    /\ proc' = [proc EXCEPT ![w][loading[w].key] = loading[w].cfg]
    /\ loading' = [loading EXCEPT ![w] = None]
    /\ UNCHANGED <<db, dyn, listening, queue, taskVars, clientVars, changes, faults>>

\* LRU and idle eviction drop a Processor; the latter is the actor's thread.
Evict(w, k) ==
    /\ proc[w][k] # None
    /\ proc' = [proc EXCEPT ![w][k] = None]
    /\ UNCHANGED <<db, dyn, loading, listening, queue, taskVars, clientVars, changes, faults>>

-----------------------------------------------------------------------------
(* The synchronizer's tasks.                                                *)

Goto(w, t, label) == tpc' = [tpc EXCEPT ![w][t] = label]

\* A task ends its work: the listener has consumed the notification, the
\* initial full sync lets the listener start.
TaskDone(w, t) ==
    /\ tpc' = [tpc EXCEPT ![w][t] = "idle",
                          ![w]["listener"] = IF t = "listener" \/ @ = "off" THEN "idle" ELSE @]
    /\ rows' = [rows EXCEPT ![w][t] = NoModels]
    /\ queue' = IF t = "listener" THEN [queue EXCEPT ![w] = Tail(@)] ELSE queue

\* _handle_notification of a registration: the row is read again, and a row that
\* is gone, or an error, falls back on a full sync.
Handling(w, action) ==
    /\ tpc[w]["listener"] = "idle"
    /\ queue[w] # << >> /\ Head(queue[w]).action = action

GetByKey(w) ==
    /\ Handling(w, "register") /\ db[Head(queue[w]).key] # None
    /\ Goto(w, "listener", "row") /\ rows' = [rows EXCEPT ![w]["listener"] = db]
    /\ UNCHANGED <<db, dyn, proc, loading, listening, queue, clientVars, changes, faults>>

RowMissing(w) ==
    /\ Handling(w, "register") /\ db[Head(queue[w]).key] = None
    /\ Goto(w, "listener", "full")
    /\ UNCHANGED <<db, dyn, proc, loading, listening, queue, rows, clientVars, changes, faults>>

GetByKeyFailed(w) ==
    /\ Handling(w, "register") /\ Fault("error")
    /\ Goto(w, "listener", "full")
    /\ UNCHANGED <<db, dyn, proc, loading, listening, queue, rows, clientVars, changes>>

\* register_from_config: the config is replaced, a cached Processor stays.
RegisterFromConfig(w) ==
    /\ tpc[w]["listener"] = "row"
    /\ LET k == Head(queue[w]).key IN
       dyn' = [dyn EXCEPT ![w][k] = rows[w]["listener"][k]]
    /\ TaskDone(w, "listener")
    /\ UNCHANGED <<db, proc, loading, listening, clientVars, changes, faults>>

UnregisterByKey(w) ==
    /\ Handling(w, "unregister")
    /\ Forget(w, Head(queue[w]).key)
    /\ TaskDone(w, "listener")
    /\ UNCHANGED <<db, loading, listening, clientVars, changes, faults>>

\* _periodic_sync wakes up.
PeriodicSync(w) ==
    /\ "periodic" \in Features
    /\ tpc[w]["periodic"] = "idle"
    /\ Goto(w, "periodic", "full")
    /\ UNCHANGED <<db, dyn, proc, loading, listening, queue, rows, clientVars, changes, faults>>

\* get_all, answered or failing: the periodic task tries again later, the
\* listener drops the notification, the start goes on without models.
GetAll(w, t) ==
    /\ tpc[w][t] = "full"
    /\ Goto(w, t, "rows") /\ rows' = [rows EXCEPT ![w][t] = db]
    /\ UNCHANGED <<db, dyn, proc, loading, listening, queue, clientVars, changes, faults>>

GetAllFailed(w, t) ==
    /\ tpc[w][t] = "full" /\ Fault("error")
    /\ TaskDone(w, t)
    /\ UNCHANGED <<db, dyn, proc, loading, listening, clientVars, changes>>

\* Mutation of FullSync: models that left the table are kept.
FullSyncAddsOnly(w, t) ==
    /\ tpc[w][t] = "rows"
    /\ dyn' = [dyn EXCEPT ![w] = [k \in Keys |->
                 IF rows[w][t][k] = None THEN dyn[w][k] ELSE rows[w][t][k]]]
    /\ TaskDone(w, t)
    /\ UNCHANGED <<db, proc, loading, listening, clientVars, changes, faults>>

\* Mutation of FullSync: a removed model leaves its Processor in the cache.
FullSyncKeepsProcessors(w, t) ==
    /\ tpc[w][t] = "rows"
    /\ dyn' = [dyn EXCEPT ![w] = rows[w][t]]
    /\ TaskDone(w, t)
    /\ UNCHANGED <<db, proc, loading, listening, clientVars, changes, faults>>

\* full_sync: memory becomes what the table was; where the entry differs from
\* the row, or has none, the Processor is dropped.
FullSync(w, t) ==
    /\ tpc[w][t] = "rows"
    /\ dyn' = [dyn EXCEPT ![w] = rows[w][t]]
    /\ proc' = [proc EXCEPT ![w] = [k \in Keys |->
                  IF dyn[w][k] \notin {None, rows[w][t][k]} THEN None ELSE proc[w][k]]]
    /\ TaskDone(w, t)
    /\ UNCHANGED <<db, loading, listening, clientVars, changes, faults>>

-----------------------------------------------------------------------------
(* Connections and processes that fail.                                     *)

\* _listen_loop connects, the first time and after an error.
Connect(w) ==
    /\ tpc[w]["listener"] = "idle" /\ ~listening[w] /\ queue[w] = << >>
    /\ listening' = [listening EXCEPT ![w] = TRUE]
    /\ UNCHANGED <<db, dyn, proc, loading, queue, taskVars, clientVars, changes, faults>>

\* The LISTEN connection breaks: what was not received yet is lost.
Disconnect(w) ==
    /\ listening[w] /\ Fault("disconnect")
    /\ listening' = [listening EXCEPT ![w] = FALSE]
    /\ \E n \in 0 .. Len(queue[w]) :
         /\ tpc[w]["listener"] # "idle" => n >= 1
         /\ queue' = [queue EXCEPT ![w] = SubSeq(@, 1, n)]
    /\ UNCHANGED <<db, dyn, proc, loading, taskVars, clientVars, changes>>

\* The worker process dies with its requests; Ray restarts the actor and the
\* health monitor initializes it again.
Crash(w) ==
    /\ Fault("crash")
    /\ dyn' = [dyn EXCEPT ![w] = NoModels] /\ proc' = [proc EXCEPT ![w] = NoModels]
    /\ loading' = [loading EXCEPT ![w] = None]
    /\ listening' = [listening EXCEPT ![w] = FALSE]
    /\ queue' = [queue EXCEPT ![w] = << >>]
    /\ tpc' = [tpc EXCEPT ![w] = BootTasks]
    /\ rows' = [rows EXCEPT ![w] = [t \in Tasks |-> NoModels]]
    /\ cpc' = [c \in Clients |-> IF at[c] = w THEN "idle" ELSE cpc[c]]
    /\ ckey' = [c \in Clients |-> IF at[c] = w THEN None ELSE ckey[c]]
    /\ ccfg' = [c \in Clients |-> IF at[c] = w THEN None ELSE ccfg[c]]
    /\ at' = [c \in Clients |-> IF at[c] = w THEN None ELSE at[c]]
    /\ UNCHANGED <<db, changes>>

-----------------------------------------------------------------------------
Arrive(c) ==
    \E w \in Workers, k \in Keys :
        \/ Unregister(c, w, k) \/ FallbackRead(c, w, k)
        \/ \E x \in Requested : Register(c, w, k, x)

\* The database answers a request, and the worker goes on with it.
Proceed(c) == InsertCommitted(c) \/ DeleteCommitted(c) \/ FallbackStore(c)

Listen(w) ==
    \/ Connect(w) \/ GetByKey(w) \/ RowMissing(w)
    \/ RegisterFromConfig(w) \/ UnregisterByKey(w)
    \/ GetAll(w, "listener") \/ FullSync(w, "listener")

Poll(w) == PeriodicSync(w) \/ GetAll(w, "periodic") \/ FullSync(w, "periodic")

Failure ==
    \/ \E c \in Clients : InsertFailed(c) \/ DeleteFailed(c)
    \/ \E w \in Workers : \/ \E t \in Tasks : GetAllFailed(w, t)
                          \/ GetByKeyFailed(w) \/ Disconnect(w) \/ Crash(w)

Next ==
    \/ \E c \in Clients : Arrive(c) \/ Proceed(c)
    \/ \E w \in Workers, k \in Keys : Recheck(w, k) \/ Evict(w, k)
    \/ \E w \in Workers : CacheProcessor(w) \/ Listen(w) \/ Poll(w)
    \/ Failure

Spec == Init /\ [][Next]_vars

\* The database answers, the HTTP thread goes on, the listener keeps reading and
\* reconnecting, and the periodic task never ends: every exception of its body is
\* caught.
Fairness ==
    /\ \A c \in Clients : WF_vars(Proceed(c))
    /\ \A w \in Workers :
         WF_vars(CacheProcessor(w)) /\ WF_vars(Listen(w)) /\ WF_vars(Poll(w))

FairSpec == Spec /\ Fairness

-----------------------------------------------------------------------------
(* Properties.                                                              *)

\* The fallback channel repairs everything: whatever notifications were lost,
\* snapshots applied late, registrations rolled back over another worker's and
\* workers restarted, once the changes stop every worker ends up with the table.
Converges == <>[](\A w \in Workers : dyn[w] = db)

Orphan(w, k) == proc[w][k] # None /\ dyn[w][k] = None

\* The model has gone between the check and the store of its Processor.
Raced(w, k) == ~HttpFree(w) /\ loading[w].key = k /\ dyn[w][k] = None

\* A model that was deleted for good stops being served, also from a Processor
\* the worker had cached, as long as no load of it there is overtaken by a removal
\* between its check and its store.  The hypothesis is needed: the orphan such a
\* load leaves behind is in no registry that full_sync compares with the table,
\* so no sync drops it, and get_processor_async serves it from the cache until it
\* is evicted.
DeletedModelsStop ==
    \A w \in Loaders, k \in Keys :
        []~Raced(w, k) => <>[](db[k] = None => proc[w][k] = None)

Quiet ==
    /\ \A c \in Clients : cpc[c] = "idle"
    /\ \A w \in Workers : queue[w] = << >> /\ tpc[w]["listener"] = "idle"

\* The main channel is enough by itself while nothing fails: when every
\* notification is handled, every worker has the table, in whatever order
\* registrations, removals, commits, row reads and stores interleaved.
NotifySuffices == Quiet => \A w \in Workers : dyn[w] = db

\* The race between the check and the store of a load is the only way to a
\* Processor of a model the worker does not have: removals, roll-backs, late
\* snapshots, notifications, fallback reads, evictions and crashes make none.
\* That the race makes one is what the run pm_orphan of ProcessorManager shows.
OrphanOnlyByRace ==
    [][\A w \in Workers, k \in Keys :
         Orphan(w, k)' => Orphan(w, k) \/ Raced(w, k)]_vars
=============================================================================
