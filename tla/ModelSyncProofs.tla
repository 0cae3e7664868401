--------------------------- MODULE ModelSyncProofs ---------------------------
(***************************************************************************)
(* Proofs about ModelSync, for any number of workers, models, requests and *)
(* faults: its types, that a worker comes to a Processor of a model it     *)
(* does not have by one race only, and that the notifications alone bring  *)
(* every worker up to date when nothing fails and no other channel         *)
(* interferes.                                                             *)
(***************************************************************************)
EXTENDS ModelSync, SequenceTheorems, TLAPS

USE SyncAssumption DEF MaybeConfig, Tables, Loads, Tasks, Notes, NoModels
-----------------------------------------------------------------------------
(* Types, and what requests and tasks carry over an await.                 *)

(* A request in flight carries its worker, its key and, to store it, a     *)
(* config.                                                                 *)
Carries(c) ==
  /\ cpc[c] # "idle" => at[c] \in Workers /\ ckey[c] \in Keys
  /\ cpc[c] \in {"insert", "store"} => ccfg[c] \in Configs

(* The listener at work has its notification at the head of the queue, and *)
(* a row it read is one that was there.                                    *)
Handles(w) ==
  /\ tpc[w]["listener"] \notin {"off", "idle"} => queue[w] # << >>
  /\ tpc[w]["listener"] = "row" => rows[w]["listener"][Head(queue[w]).key] # None

IInv ==
  /\ TypeOK
  /\ \A c \in Clients : Carries(c)
  /\ \A w \in Workers : Handles(w)

(* The invariant holds at the start. *)
LEMMA InitEstablishes == Init => IInv
<1> SUFFICES ASSUME Init PROVE IInv
  OBVIOUS
<1>1. TypeOK
  BY DEF Init, TypeOK, BootTasks
<1>2. \A c \in Clients : Carries(c)
  BY DEF Init, Carries
<1>3. \A w \in Workers : Handles(w)
  BY DEF Init, Handles, BootTasks
<1> QED BY <1>1, <1>2, <1>3 DEF IInv

(* The types of what the requests hold, of what the tasks hold and of the  *)
(* models, the three parts of the state that actions change separately.    *)
ClientsOK ==
  /\ cpc \in [Clients -> {"idle", "insert", "delete", "store"}]
  /\ at \in [Clients -> Workers \union {None}]
  /\ ckey \in [Clients -> Keys \union {None}]
  /\ ccfg \in [Clients -> MaybeConfig]
  /\ \A c \in Clients : Carries(c)

TasksOK ==
  /\ queue \in [Workers -> Seq(Notes)]
  /\ tpc \in [Workers -> [Tasks -> {"off", "idle", "row", "full", "rows"}]]
  /\ rows \in [Workers -> [Tasks -> Tables]]
  /\ \A w \in Workers : Handles(w)

ModelsOK ==
  /\ dyn \in [Workers -> Tables] /\ proc \in [Workers -> Tables]
  /\ loading \in [Workers -> Loads \union {None}]

Rest ==
  /\ db \in Tables
  /\ listening \in [Workers -> BOOLEAN]
  /\ changes \in 0 .. MaxChanges /\ faults \in 0 .. MaxFaults

(* The invariant by what its parts read. *)
LEMMA Parts == IInv <=> ClientsOK /\ TasksOK /\ ModelsOK /\ Rest
BY DEF IInv, TypeOK, ClientsOK, TasksOK, ModelsOK, Rest

(* The same in the next state. *)
LEMMA PartsNext == IInv' <=> ClientsOK' /\ TasksOK' /\ ModelsOK' /\ Rest'
BY DEF IInv, TypeOK, ClientsOK, TasksOK, ModelsOK, Rest, Carries, Handles

(* Steps that leave the registrations alone. *)
LEMMA SameClients == ASSUME ClientsOK, UNCHANGED clientVars PROVE ClientsOK'
BY DEF ClientsOK, Carries, clientVars

(* Steps that leave the registries of the workers alone. *)
LEMMA SameModels == ASSUME ModelsOK, UNCHANGED <<dyn, proc, loading>> PROVE ModelsOK'
BY DEF ModelsOK

(* Steps that leave the synchronisers alone. *)
LEMMA SameTasks == ASSUME TasksOK, UNCHANGED <<queue, taskVars>> PROVE TasksOK'
BY DEF TasksOK, Handles, taskVars

(* A request ends. *)
LEMMA AnswerKeeps == ASSUME ClientsOK, NEW c \in Clients, Answer(c) PROVE ClientsOK'
BY DEF ClientsOK, Carries, Answer

(* A request begins, with the config it has to store. *)
LEMMA BeginKeeps ==
  ASSUME ClientsOK, NEW c \in Clients, NEW w \in Workers, NEW k \in Keys, NEW x \in MaybeConfig,
         NEW label \in {"insert", "delete", "store"}, label # "delete" => x # None,
         Begin(c, w, k, x, label)
  PROVE  ClientsOK'
BY DEF ClientsOK, Carries, Begin

(* A model is removed from a worker. *)
LEMMA ForgetKeeps ==
  ASSUME ModelsOK, NEW w \in Workers, NEW k \in Keys, Forget(w, k), UNCHANGED loading
  PROVE  ModelsOK'
BY DEF ModelsOK, Forget

(* A model is stored on a worker. *)
LEMMA StoreKeeps ==
  ASSUME ModelsOK, NEW w \in Workers, NEW k \in Keys, NEW x \in Configs,
         dyn' = [dyn EXCEPT ![w][k] = x], UNCHANGED <<proc, loading>>
  PROVE  ModelsOK'
BY DEF ModelsOK

(* Notifications are added at the end: the one being handled stays.        *)
LEMMA NotifyKeeps ==
  ASSUME TasksOK, NEW action \in {"register", "unregister"}, NEW k \in Keys,
         Notify(action, k), UNCHANGED taskVars
  PROVE  TasksOK'
<1> DEFINE note == [action |-> action, key |-> k]
<1>1. note \in Notes
  OBVIOUS
<1>2. ASSUME NEW w \in Workers
      PROVE  /\ queue'[w] \in Seq(Notes)
             /\ queue[w] # << >> => queue'[w] # << >> /\ Head(queue'[w]) = Head(queue[w])
  <2>1. queue[w] \in Seq(Notes)
    BY DEF TasksOK
  <2>2. queue'[w] = queue[w] \/ queue'[w] = Append(queue[w], note)
    BY DEF Notify
  <2> HIDE DEF note
  <2>3. Append(queue[w], note) \in Seq(Notes) /\ Append(queue[w], note) # << >>
    BY ONLY <1>1, <2>1, AppendProperties
  <2>4. queue[w] # << >> => Head(Append(queue[w], note)) = Head(queue[w])
    BY <1>1, <2>1
  <2> QED BY <2>1, <2>2, <2>3, <2>4
<1>3. queue' \in [Workers -> Seq(Notes)]
  BY <1>2 DEF Notify
<1>4. \A w \in Workers : Handles(w)'
  BY <1>2 DEF Handles, TasksOK, taskVars
<1> QED BY <1>3, <1>4 DEF TasksOK, taskVars

(* A row that is written. *)
LEMMA UpsertKeeps ==
  ASSUME TasksOK, db \in Tables, NEW k \in Keys, NEW x \in Configs, Upsert(k, x),
         UNCHANGED taskVars
  PROVE  TasksOK' /\ db' \in Tables
BY NotifyKeeps DEF Upsert

(* A row that is deleted. *)
LEMMA DeleteKeeps ==
  ASSUME TasksOK, db \in Tables, NEW k \in Keys, Delete(k), UNCHANGED taskVars
  PROVE  TasksOK' /\ db' \in Tables
<1>1. db' \in Tables
  BY DEF Delete
<1>2. CASE Notify("unregister", k)
  BY <1>1, <1>2, NotifyKeeps
<1>3. CASE UNCHANGED queue
  BY <1>1, <1>3, SameTasks
<1> QED BY <1>2, <1>3 DEF Delete

(* A task ends its work. *)
LEMMA TaskDoneKeeps ==
  ASSUME TasksOK, NEW w \in Workers, NEW t \in Tasks, TaskDone(w, t),
         t = "listener" => queue[w] # << >>
  PROVE  TasksOK'
<1>1. queue' \in [Workers -> Seq(Notes)]
  <2>1. t = "listener" => Tail(queue[w]) \in Seq(Notes)
    BY HeadTailProperties DEF TasksOK
  <2> QED BY <2>1 DEF TaskDone, TasksOK
<1>2. tpc' \in [Workers -> [Tasks -> {"off", "idle", "row", "full", "rows"}]]
  BY DEF TaskDone, TasksOK
<1>3. rows' \in [Workers -> [Tasks -> Tables]]
  BY DEF TaskDone, TasksOK
<1>4. ASSUME NEW v \in Workers PROVE Handles(v)'
  <2>1. CASE v # w
    BY <2>1 DEF TaskDone, TasksOK, Handles
  <2>2. CASE v = w /\ t = "listener"
    BY <2>2 DEF TaskDone, TasksOK, Handles
  <2>3. CASE v = w /\ t = "periodic"
    BY <2>3 DEF TaskDone, TasksOK, Handles
  <2> QED BY <2>1, <2>2, <2>3
<1> QED BY <1>1, <1>2, <1>3, <1>4 DEF TasksOK

(* A task reads the table, or is about to. *)
LEMMA TaskMovesKeeps ==
  ASSUME TasksOK, db \in Tables, NEW w \in Workers, NEW t \in Tasks,
         NEW label \in {"row", "full", "rows"},
         Goto(w, t, label), rows' = rows \/ rows' = [rows EXCEPT ![w][t] = db],
         UNCHANGED queue,
         t = "listener" => queue[w] # << >>,
         label = "row" => t = "listener" /\ rows'[w][t][Head(queue[w]).key] # None
  PROVE  TasksOK'
<1>1. tpc' \in [Workers -> [Tasks -> {"off", "idle", "row", "full", "rows"}]]
  BY DEF Goto, TasksOK
<1>2. rows' \in [Workers -> [Tasks -> Tables]]
  <2>1. [rows EXCEPT ![w][t] = db] \in [Workers -> [Tasks -> Tables]]
    BY DEF TasksOK
  <2> QED BY <2>1 DEF TasksOK
<1>3. ASSUME NEW v \in Workers PROVE Handles(v)'
  <2>1. \A u \in Tasks : <<v, u>> # <<w, t>> =>
          tpc'[v][u] = tpc[v][u] /\ rows'[v][u] = rows[v][u]
    BY DEF Goto, TasksOK
  <2>2. tpc'[w][t] = label
    BY DEF Goto, TasksOK
  <2> HIDE DEF Tasks
  <2>3. CASE v = w /\ t = "listener"
    BY <2>2, <2>3 DEF Handles
  <2>4. CASE v # w \/ t # "listener"
    BY <2>1, <2>4 DEF TasksOK, Handles, Tasks
  <2> QED BY <2>3, <2>4
<1> QED BY <1>1, <1>2, <1>3 DEF TasksOK

(* The steps of the requests. *)
LEMMA ArriveKeeps ==
  ASSUME IInv, NEW c \in Clients, Arrive(c)
  PROVE  IInv'
<1> USE Parts, PartsNext
<1>1. PICK w \in Workers, k \in Keys :
        \/ Unregister(c, w, k) \/ FallbackRead(c, w, k)
        \/ \E x \in Requested : Register(c, w, k, x)
  BY DEF Arrive
<1>2. CASE Unregister(c, w, k)
  <2>1. ClientsOK'
    BY <1>2, BeginKeeps DEF Unregister
  <2>2. ModelsOK'
    BY <1>2, ForgetKeeps DEF Unregister
  <2>3. TasksOK'
    BY <1>2, SameTasks DEF Unregister
  <2>4. Rest'
    BY <1>2 DEF Unregister, Rest
  <2> QED BY <2>1, <2>2, <2>3, <2>4
<1>3. CASE FallbackRead(c, w, k)
  <2>1. ClientsOK'
    BY <1>3, BeginKeeps DEF FallbackRead, Rest
  <2>2. ModelsOK'
    BY <1>3, SameModels DEF FallbackRead
  <2>3. TasksOK'
    BY <1>3, SameTasks DEF FallbackRead
  <2>4. Rest'
    BY <1>3 DEF FallbackRead, Rest
  <2> QED BY <2>1, <2>2, <2>3, <2>4
<1>4. ASSUME NEW x \in Requested, Register(c, w, k, x) PROVE IInv'
  <2>1. ClientsOK'
    BY <1>4, BeginKeeps DEF Register
  <2>2. ModelsOK'
    BY <1>4, StoreKeeps DEF Register
  <2>3. TasksOK'
    BY <1>4, SameTasks DEF Register
  <2>4. Rest'
    BY <1>4 DEF Register, Rest
  <2> QED BY <2>1, <2>2, <2>3, <2>4
<1> QED BY <1>1, <1>2, <1>3, <1>4

(* A registration or removal goes on. *)
LEMMA ProceedKeeps ==
  ASSUME IInv, NEW c \in Clients, Proceed(c)
  PROVE  IInv'
<1> USE Parts, PartsNext
<1>1. CASE InsertCommitted(c)
  <2>1. ckey[c] \in Keys /\ ccfg[c] \in Configs
    BY <1>1 DEF InsertCommitted, ClientsOK, Carries
  <2>2. ClientsOK'
    BY <1>1, AnswerKeeps DEF InsertCommitted
  <2>3. ModelsOK'
    BY <1>1, SameModels DEF InsertCommitted
  <2>4. TasksOK' /\ db' \in Tables
    BY <1>1, <2>1, UpsertKeeps DEF InsertCommitted, Rest
  <2>5. Rest'
    BY <1>1, <2>4 DEF InsertCommitted, Rest
  <2> QED BY <2>2, <2>3, <2>4, <2>5
<1>2. CASE DeleteCommitted(c)
  <2>1. ckey[c] \in Keys
    BY <1>2 DEF DeleteCommitted, ClientsOK, Carries
  <2>2. ClientsOK'
    BY <1>2, AnswerKeeps DEF DeleteCommitted
  <2>3. ModelsOK'
    BY <1>2, SameModels DEF DeleteCommitted
  <2>4. TasksOK' /\ db' \in Tables
    BY <1>2, <2>1, DeleteKeeps DEF DeleteCommitted, Rest
  <2>5. Rest'
    BY <1>2, <2>4 DEF DeleteCommitted, Rest
  <2> QED BY <2>2, <2>3, <2>4, <2>5
<1>3. CASE FallbackStore(c)
  <2>1. at[c] \in Workers /\ ckey[c] \in Keys /\ ccfg[c] \in Configs
    BY <1>3 DEF FallbackStore, ClientsOK, Carries
  <2>2. ClientsOK'
    BY <1>3, AnswerKeeps DEF FallbackStore
  <2>3. ModelsOK'
    BY <1>3, <2>1, StoreKeeps DEF FallbackStore
  <2>4. TasksOK'
    BY <1>3, SameTasks DEF FallbackStore
  <2>5. Rest'
    BY <1>3 DEF FallbackStore, Rest
  <2> QED BY <2>2, <2>3, <2>4, <2>5
<1> QED BY <1>1, <1>2, <1>3 DEF Proceed

(* A Processor is checked, stored or evicted. *)
LEMMA CacheKeeps ==
  ASSUME IInv, NEW w \in Workers,
         CacheProcessor(w) \/ \E k \in Keys : Recheck(w, k) \/ Evict(w, k)
  PROVE  IInv'
<1> USE Parts, PartsNext
<1>1. ModelsOK'
  <2>1. CASE CacheProcessor(w)
    <3>1. loading[w] \in Loads
      BY <2>1 DEF CacheProcessor, ModelsOK
    <3> QED BY <2>1, <3>1 DEF CacheProcessor, ModelsOK
  <2>2. ASSUME NEW k \in Keys, Recheck(w, k) PROVE ModelsOK'
    BY <2>2 DEF Recheck, ModelsOK
  <2>3. ASSUME NEW k \in Keys, Evict(w, k) PROVE ModelsOK'
    BY <2>3 DEF Evict, ModelsOK
  <2> QED BY <2>1, <2>2, <2>3
<1>2. UNCHANGED <<db, listening, queue, taskVars, clientVars, changes, faults>>
  BY DEF CacheProcessor, Recheck, Evict
<1>3. ClientsOK' /\ TasksOK'
  BY <1>2, SameClients, SameTasks
<1>4. Rest'
  BY <1>2 DEF Rest
<1> QED BY <1>1, <1>3, <1>4

(* The steps of a worker's tasks. *)
LEMMA NoteTyped ==
  ASSUME TasksOK, NEW w \in Workers, queue[w] # << >>
  PROVE  Head(queue[w]) \in Notes /\ Head(queue[w]).key \in Keys
<1>1. queue[w] \in Seq(Notes)
  BY DEF TasksOK
<1>2. Head(queue[w]) \in Notes
  BY ONLY <1>1, queue[w] # << >>, HeadTailProperties
<1> QED BY <1>2

(* A snapshot is applied, however old it is. *)
LEMMA FullSyncKeeps ==
  ASSUME IInv, NEW w \in Workers, NEW t \in Tasks, FullSync(w, t)
  PROVE  IInv'
<1> USE Parts, PartsNext
<1>1. ClientsOK'
  BY SameClients DEF FullSync
<1>2. TasksOK'
  <2>1. t = "listener" => queue[w] # << >>
    BY DEF FullSync, TasksOK, Handles
  <2> QED BY <2>1, TaskDoneKeeps DEF FullSync
<1>3. ModelsOK'
  <2>1. rows[w][t] \in Tables
    BY DEF TasksOK
  <2>2. /\ dyn' = [dyn EXCEPT ![w] = rows[w][t]]
        /\ proc' = [proc EXCEPT ![w] = [k \in Keys |->
                      IF dyn[w][k] \notin {None, rows[w][t][k]} THEN None ELSE proc[w][k]]]
    BY DEF FullSync
  <2> HIDE DEF Tasks
  <2>3. loading' = loading
    BY DEF FullSync
  <2> QED BY <2>1, <2>2, <2>3 DEF ModelsOK
<1>4. Rest'
  BY DEF FullSync, Rest
<1> QED BY <1>1, <1>2, <1>3, <1>4

(* A snapshot is taken. *)
LEMMA GetAllKeeps ==
  ASSUME IInv, NEW w \in Workers, NEW t \in Tasks, GetAll(w, t)
  PROVE  IInv'
<1> USE Parts, PartsNext
<1>1. ClientsOK' /\ ModelsOK'
  BY SameClients, SameModels DEF GetAll
<1>2. TasksOK'
  <2>1. t = "listener" => queue[w] # << >>
    BY DEF GetAll, TasksOK, Handles
  <2> QED BY <2>1, TaskMovesKeeps DEF GetAll, Rest
<1>3. Rest'
  BY DEF GetAll, Rest
<1> QED BY <1>1, <1>2, <1>3

(* A snapshot that cannot be taken. *)
LEMMA GetAllFailedKeeps ==
  ASSUME IInv, NEW w \in Workers, NEW t \in Tasks, GetAllFailed(w, t)
  PROVE  IInv'
<1> USE Parts, PartsNext
<1>1. ClientsOK' /\ ModelsOK'
  BY SameClients, SameModels DEF GetAllFailed
<1>2. TasksOK'
  <2>1. t = "listener" => queue[w] # << >>
    BY DEF GetAllFailed, TasksOK, Handles
  <2> QED BY <2>1, TaskDoneKeeps DEF GetAllFailed
<1>3. Rest'
  BY DEF GetAllFailed, Fault, Rest
<1> QED BY <1>1, <1>2, <1>3

(* The steps of the listener. *)
LEMMA ListenKeeps ==
  ASSUME IInv, NEW w \in Workers, Listen(w) \/ GetByKeyFailed(w)
  PROVE  IInv'
<1> USE Parts, PartsNext
<1>1. CASE Connect(w)
  <2>1. ClientsOK' /\ ModelsOK' /\ TasksOK'
    BY <1>1, SameClients, SameModels, SameTasks DEF Connect
  <2>2. Rest'
    BY <1>1 DEF Connect, Rest
  <2> QED BY <2>1, <2>2
<1>2. CASE GetByKey(w)
  <2>1. ClientsOK' /\ ModelsOK'
    BY <1>2, SameClients, SameModels DEF GetByKey
  <2>2. rows'[w]["listener"] = db
    BY <1>2 DEF GetByKey, TasksOK
  <2>3. TasksOK'
    BY <1>2, <2>2, TaskMovesKeeps DEF GetByKey, Handling, Rest
  <2>4. Rest'
    BY <1>2 DEF GetByKey, Rest
  <2> QED BY <2>1, <2>3, <2>4
<1>3. CASE RowMissing(w)
  <2>1. ClientsOK' /\ ModelsOK'
    BY <1>3, SameClients, SameModels DEF RowMissing
  <2>2. TasksOK'
    BY <1>3, TaskMovesKeeps DEF RowMissing, Handling, Rest
  <2>3. Rest'
    BY <1>3 DEF RowMissing, Rest
  <2> QED BY <2>1, <2>2, <2>3
<1>4. CASE GetByKeyFailed(w)
  <2>1. ClientsOK' /\ ModelsOK'
    BY <1>4, SameClients, SameModels DEF GetByKeyFailed
  <2>2. TasksOK'
    BY <1>4, TaskMovesKeeps DEF GetByKeyFailed, Handling, Rest
  <2>3. Rest'
    BY <1>4 DEF GetByKeyFailed, Fault, Rest
  <2> QED BY <2>1, <2>2, <2>3
<1>5. CASE RegisterFromConfig(w)
  <2> DEFINE k == Head(queue[w]).key
  <2>1. queue[w] # << >> /\ rows[w]["listener"][k] # None
    BY <1>5 DEF RegisterFromConfig, TasksOK, Handles
  <2>2. k \in Keys
    BY <2>1, NoteTyped
  <2>3. rows[w]["listener"][k] \in Configs
    BY <2>1, <2>2 DEF TasksOK
  <2>4. /\ dyn' = [dyn EXCEPT ![w][k] = rows[w]["listener"][k]]
        /\ UNCHANGED <<proc, loading>>
    BY <1>5 DEF RegisterFromConfig
  <2> HIDE DEF k
  <2>5. ModelsOK'
    BY <2>2, <2>3, <2>4, StoreKeeps
  <2>6. ClientsOK' /\ TasksOK'
    BY <1>5, <2>1, SameClients, TaskDoneKeeps DEF RegisterFromConfig
  <2>7. Rest'
    BY <1>5 DEF RegisterFromConfig, Rest
  <2> QED BY <2>5, <2>6, <2>7
<1>6. CASE UnregisterByKey(w)
  <2>1. queue[w] # << >>
    BY <1>6 DEF UnregisterByKey, Handling
  <2>2. ModelsOK'
    BY <1>6, <2>1, NoteTyped, ForgetKeeps DEF UnregisterByKey
  <2>3. ClientsOK' /\ TasksOK'
    BY <1>6, <2>1, SameClients, TaskDoneKeeps DEF UnregisterByKey
  <2>4. Rest'
    BY <1>6 DEF UnregisterByKey, Rest
  <2> QED BY <2>2, <2>3, <2>4
<1> QED BY <1>1, <1>2, <1>3, <1>4, <1>5, <1>6, GetAllKeeps, FullSyncKeeps DEF Listen

(* The periodic synchronisation begins. *)
LEMMA PeriodicSyncKeeps ==
  ASSUME IInv, NEW w \in Workers, PeriodicSync(w)
  PROVE  IInv'
<1> USE Parts, PartsNext
<1>1. ClientsOK' /\ ModelsOK'
  BY SameClients, SameModels DEF PeriodicSync
<1>2. TasksOK'
  BY TaskMovesKeeps DEF PeriodicSync, Rest
<1>3. Rest'
  BY DEF PeriodicSync, Rest
<1> QED BY <1>1, <1>2, <1>3

(* Database errors of the requests, lost connections and crashes. *)
LEMMA InsertFailedKeeps ==
  ASSUME IInv, NEW c \in Clients, InsertFailed(c)
  PROVE  IInv'
<1> USE Parts, PartsNext
<1>1. at[c] \in Workers /\ ckey[c] \in Keys /\ ccfg[c] \in Configs
  BY DEF InsertFailed, ClientsOK, Carries
<1>2. ClientsOK'
  BY AnswerKeeps DEF InsertFailed
<1>3. ModelsOK'
  <2>1. CASE Forget(at[c], ckey[c])
    BY <1>1, <2>1, ForgetKeeps DEF InsertFailed
  <2>2. CASE UNCHANGED <<dyn, proc>>
    BY <2>2, SameModels DEF InsertFailed
  <2> QED BY <2>1, <2>2 DEF InsertFailed
<1>4. TasksOK' /\ db' \in Tables
  <2>1. CASE Upsert(ckey[c], ccfg[c])
    BY <1>1, <2>1, UpsertKeeps DEF InsertFailed, Rest
  <2>2. CASE UNCHANGED <<db, queue>>
    BY <2>2, SameTasks DEF InsertFailed, Rest
  <2> QED BY <2>1, <2>2 DEF InsertFailed
<1>5. Rest'
  BY <1>4 DEF InsertFailed, Fault, Rest
<1> QED BY <1>2, <1>3, <1>4, <1>5

(* A removal whose statement fails, committed or not. *)
LEMMA DeleteFailedKeeps ==
  ASSUME IInv, NEW c \in Clients, DeleteFailed(c)
  PROVE  IInv'
<1> USE Parts, PartsNext
<1>1. ckey[c] \in Keys
  BY DEF DeleteFailed, ClientsOK, Carries
<1>2. ClientsOK' /\ ModelsOK'
  BY AnswerKeeps, SameModels DEF DeleteFailed
<1>3. TasksOK' /\ db' \in Tables
  <2>1. CASE Delete(ckey[c])
    BY <1>1, <2>1, DeleteKeeps DEF DeleteFailed, Rest
  <2>2. CASE UNCHANGED <<db, queue>>
    BY <2>2, SameTasks DEF DeleteFailed, Rest
  <2> QED BY <2>1, <2>2 DEF DeleteFailed
<1>4. Rest'
  BY <1>3 DEF DeleteFailed, Fault, Rest
<1> QED BY <1>2, <1>3, <1>4

(* The connection loses the end of the queue, never what is being handled. *)
LEMMA DisconnectKeeps ==
  ASSUME IInv, NEW w \in Workers, Disconnect(w)
  PROVE  IInv'
<1> USE Parts, PartsNext
<1>1. ClientsOK' /\ ModelsOK'
  BY SameClients, SameModels DEF Disconnect
<1>2. PICK n \in 0 .. Len(queue[w]) :
        /\ tpc[w]["listener"] # "idle" => n >= 1
        /\ queue' = [queue EXCEPT ![w] = SubSeq(@, 1, n)]
  BY DEF Disconnect
<1> DEFINE q == queue[w]
           s == SubSeq(q, 1, n)
<1>3. q \in Seq(Notes) /\ Len(q) \in Nat
  <2>1. q \in Seq(Notes)
    BY DEF TasksOK
  <2> QED BY ONLY <2>1, LenProperties
<1>4. /\ s \in Seq(Notes)
      /\ n >= 1 => s # << >> /\ Head(s) = Head(q)
  <2>1. n \in Nat /\ n <= Len(q)
    BY <1>3
  <2>2. \A i \in 1 .. n : q[i] \in Notes
    <3>1. \A i \in 1 .. Len(q) : q[i] \in Notes
      BY ONLY <1>3, ElementOfSeq
    <3> QED BY ONLY <1>3, <2>1, <3>1
  <2>3. /\ s \in Seq(Notes)
        /\ Len(s) = IF 1 <= n THEN n - 1 + 1 ELSE 0
        /\ \A i \in 1 .. n - 1 + 1 : s[i] = q[1 + i - 1]
    BY ONLY <2>1, <2>2, SubSeqProperties
  <2> HIDE DEF s
  <2> QED BY <1>3, <2>1, <2>3
<1>5. queue' = [queue EXCEPT ![w] = s]
  BY <1>2
<1> HIDE DEF s
<1>6. TasksOK'
  <2>1. queue' \in [Workers -> Seq(Notes)]
    BY <1>4, <1>5 DEF TasksOK
  <2>2. UNCHANGED taskVars
    BY DEF Disconnect
  <2>3. \A v \in Workers : Handles(v)'
    BY <1>2, <1>4, <1>5, <2>2 DEF Handles, TasksOK, taskVars
  <2> QED BY <2>1, <2>2, <2>3 DEF TasksOK, taskVars
<1>7. Rest'
  BY DEF Disconnect, Fault, Rest
<1> QED BY <1>1, <1>6, <1>7

(* A worker dies with its registry and starts again. *)
LEMMA CrashKeeps ==
  ASSUME IInv, NEW w \in Workers, Crash(w)
  PROVE  IInv'
<1> USE Parts, PartsNext
<1>1. ClientsOK'
  BY DEF Crash, ClientsOK, Carries
<1>2. ModelsOK'
  BY DEF Crash, ModelsOK
<1>3. TasksOK'
  <2>1. BootTasks["listener"] = "off" /\ << >> \in Seq(Notes)
    BY DEF BootTasks
  <2>2. BootTasks \in [Tasks -> {"off", "idle", "row", "full", "rows"}]
    BY DEF BootTasks
  <2>3. /\ queue' = [queue EXCEPT ![w] = << >>]
        /\ tpc' = [tpc EXCEPT ![w] = BootTasks]
        /\ rows' = [rows EXCEPT ![w] = [t \in Tasks |-> NoModels]]
    BY DEF Crash
  <2>4. [t \in Tasks |-> NoModels] \in [Tasks -> Tables]
    OBVIOUS
  <2>5. /\ queue' \in [Workers -> Seq(Notes)]
        /\ tpc' \in [Workers -> [Tasks -> {"off", "idle", "row", "full", "rows"}]]
    BY <2>1, <2>2, <2>3 DEF TasksOK
  <2>6. rows' \in [Workers -> [Tasks -> Tables]]
    BY <2>3, <2>4 DEF TasksOK
  <2>7. ASSUME NEW v \in Workers PROVE Handles(v)'
    BY <2>1, <2>3 DEF TasksOK, Handles
  <2> QED BY <2>5, <2>6, <2>7 DEF TasksOK
<1>4. Rest'
  BY DEF Crash, Fault, Rest
<1> QED BY <1>1, <1>2, <1>3, <1>4

(* Every step keeps the invariant. *)
LEMMA StepKeeps == IInv /\ [Next]_vars => IInv'
<1> SUFFICES ASSUME IInv, [Next]_vars PROVE IInv'
  OBVIOUS
<1>1. ASSUME NEW c \in Clients, Arrive(c) \/ Proceed(c) PROVE IInv'
  BY <1>1, ArriveKeeps, ProceedKeeps
<1>2. ASSUME NEW w \in Workers,
             CacheProcessor(w) \/ \E k \in Keys : Recheck(w, k) \/ Evict(w, k)
      PROVE  IInv'
  BY <1>2, CacheKeeps
<1>3. ASSUME NEW w \in Workers, Listen(w) \/ Poll(w) PROVE IInv'
  BY <1>3, ListenKeeps, PeriodicSyncKeeps, GetAllKeeps, FullSyncKeeps DEF Poll
<1>4. CASE Failure
  BY <1>4, InsertFailedKeeps, DeleteFailedKeeps, GetAllFailedKeeps, ListenKeeps,
     DisconnectKeeps, CrashKeeps DEF Failure
<1>5. CASE UNCHANGED vars
  <2>1. ClientsOK' /\ ModelsOK' /\ TasksOK'
    BY <1>5, Parts, SameClients, SameModels, SameTasks DEF vars, clientVars, taskVars
  <2>2. Rest'
    BY <1>5, Parts DEF vars, Rest
  <2> QED BY <2>1, <2>2, PartsNext
<1> QED BY <1>1, <1>2, <1>3, <1>4, <1>5 DEF Next

(* The inductive invariant holds in every reachable state. *)
LEMMA Invariance == Spec => []IInv
BY InitEstablishes, StepKeeps, PTL DEF Spec

(* The table, each worker's copy of it, the messages and what the tasks    *)
(* and the requests hold keep their types, whatever fails: the listener    *)
(* never takes the head of an empty queue, and never stores a row that was *)
(* not there.                                                              *)
THEOREM TypeCorrect == Spec => []TypeOK
<1>1. IInv => TypeOK
  BY DEF IInv
<1> QED BY <1>1, Invariance, PTL

(* A removal takes the Processor with the entry. *)
LEMMA ForgetMakesNone ==
  ASSUME ModelsOK, NEW v \in Workers, NEW l \in Keys, Forget(v, l),
         NEW w \in Workers, NEW k \in Keys, Orphan(w, k)'
  PROVE  Orphan(w, k)
BY DEF ModelsOK, Forget, Orphan

(* What is stored under a key is a config. *)
LEMMA StoreMakesNone ==
  ASSUME ModelsOK, NEW v \in Workers, NEW l \in Keys, NEW x \in Configs,
         dyn' = [dyn EXCEPT ![v][l] = x], proc' = proc,
         NEW w \in Workers, NEW k \in Keys, Orphan(w, k)'
  PROVE  Orphan(w, k)
BY DEF ModelsOK, Orphan

(* The steps of the HTTP requests make no orphan. *)
LEMMA RequestsMakeNone ==
  ASSUME IInv, NEW c \in Clients, Arrive(c) \/ Proceed(c) \/ InsertFailed(c) \/ DeleteFailed(c),
         NEW w \in Workers, NEW k \in Keys, Orphan(w, k)'
  PROVE  Orphan(w, k)
<1>1. ModelsOK /\ Carries(c)
  BY Parts DEF IInv
<1>2. ASSUME UNCHANGED <<dyn, proc>> PROVE Orphan(w, k)
  BY <1>2 DEF Orphan
<1>3. ASSUME NEW v \in Workers, NEW l \in Keys,
             Unregister(c, v, l) \/ FallbackRead(c, v, l)
      PROVE  Orphan(w, k)
  BY <1>1, <1>2, <1>3, ForgetMakesNone DEF Unregister, FallbackRead
<1>4. ASSUME NEW v \in Workers, NEW l \in Keys, NEW x \in Requested, Register(c, v, l, x)
      PROVE  Orphan(w, k)
  BY <1>1, <1>4, StoreMakesNone DEF Register
<1>5. CASE InsertCommitted(c) \/ DeleteCommitted(c) \/ DeleteFailed(c)
  BY <1>2, <1>5 DEF InsertCommitted, DeleteCommitted, DeleteFailed
<1>6. CASE FallbackStore(c)
  <2>1. at[c] \in Workers /\ ckey[c] \in Keys /\ ccfg[c] \in Configs
    BY <1>1, <1>6 DEF FallbackStore, Carries
  <2> QED BY <1>1, <1>6, <2>1, StoreMakesNone DEF FallbackStore
<1>7. CASE InsertFailed(c)
  <2>1. at[c] \in Workers /\ ckey[c] \in Keys
    BY <1>1, <1>7 DEF InsertFailed, Carries
  <2>2. Forget(at[c], ckey[c]) \/ UNCHANGED <<dyn, proc>>
    BY <1>7 DEF InsertFailed
  <2> QED BY <1>1, <1>2, <2>1, <2>2, ForgetMakesNone
<1> QED BY <1>3, <1>4, <1>5, <1>6, <1>7 DEF Arrive, Proceed

(* A full sync makes none either: where the table has no row, the          *)
(* Processor goes with the entry.                                          *)
LEMMA FullSyncMakesNone ==
  ASSUME IInv, NEW v \in Workers, NEW t \in Tasks, FullSync(v, t),
         NEW w \in Workers, NEW k \in Keys, Orphan(w, k)'
  PROVE  Orphan(w, k)
<1>1. /\ dyn' = [dyn EXCEPT ![v] = rows[v][t]]
      /\ proc' = [proc EXCEPT ![v] = [l \in Keys |->
                    IF dyn[v][l] \notin {None, rows[v][t][l]} THEN None ELSE proc[v][l]]]
  BY DEF FullSync
<1>2. dyn \in [Workers -> Tables] /\ proc \in [Workers -> Tables]
  BY DEF IInv, TypeOK
<1> HIDE DEF Tasks
<1> QED BY <1>1, <1>2 DEF Orphan

(* The steps of the listener make none: the row it stores is one it read.  *)
LEMMA ListenMakesNone ==
  ASSUME IInv, NEW v \in Workers, Listen(v),
         NEW w \in Workers, NEW k \in Keys, Orphan(w, k)'
  PROVE  Orphan(w, k)
<1>1. /\ dyn \in [Workers -> Tables] /\ proc \in [Workers -> Tables]
      /\ Handles(v)
  BY DEF IInv, TypeOK
<1>2. CASE UNCHANGED <<dyn, proc>>
  BY <1>2 DEF Orphan
<1>3. CASE RegisterFromConfig(v)
  <2> DEFINE l == Head(queue[v]).key
  <2>1. /\ dyn' = [dyn EXCEPT ![v][l] = rows[v]["listener"][l]] /\ proc' = proc
        /\ rows[v]["listener"][l] # None
    BY <1>1, <1>3 DEF RegisterFromConfig, Handles
  <2> HIDE DEF l
  <2> QED BY <1>1, <2>1 DEF Orphan
<1>4. CASE UnregisterByKey(v)
  <2>1. Forget(v, Head(queue[v]).key)
    BY <1>4 DEF UnregisterByKey
  <2> QED BY <1>1, <2>1 DEF Forget, Orphan
<1> QED BY <1>2, <1>3, <1>4, FullSyncMakesNone
    DEF Listen, Connect, GetByKey, RowMissing, GetAll

(* Only the store of a Processor whose model has gone makes an orphan. *)
LEMMA StepMakesNone ==
  ASSUME IInv, [Next]_vars, NEW w \in Workers, NEW k \in Keys, Orphan(w, k)'
  PROVE  Orphan(w, k) \/ Raced(w, k)
<1>1. /\ dyn \in [Workers -> Tables] /\ proc \in [Workers -> Tables]
      /\ loading \in [Workers -> Loads \union {None}]
  BY DEF IInv, TypeOK
<1>2. ASSUME UNCHANGED <<dyn, proc>> PROVE Orphan(w, k)
  BY <1>2 DEF Orphan
<1>3. ASSUME NEW c \in Clients, Arrive(c) \/ Proceed(c) PROVE Orphan(w, k)
  BY <1>3, RequestsMakeNone
<1>4. ASSUME NEW v \in Workers, NEW l \in Keys, Recheck(v, l) \/ Evict(v, l)
      PROVE  Orphan(w, k)
  <2>1. CASE Recheck(v, l)
    BY <1>2, <2>1 DEF Recheck
  <2>2. CASE Evict(v, l)
    BY <1>1, <2>2 DEF Evict, Orphan
  <2> QED BY <1>4, <2>1, <2>2
<1>5. ASSUME NEW v \in Workers, CacheProcessor(v) PROVE Orphan(w, k) \/ Raced(w, k)
  <2>1. /\ loading[v] \in Loads /\ loading[v] # None /\ dyn' = dyn
        /\ proc' = [proc EXCEPT ![v][loading[v].key] = loading[v].cfg]
    BY <1>1, <1>5 DEF CacheProcessor
  <2>2. CASE v = w /\ loading[v].key = k
    BY <2>1, <2>2 DEF Orphan, Raced, HttpFree
  <2>3. CASE v # w \/ loading[v].key # k
    BY <1>1, <2>1, <2>3 DEF Orphan
  <2> QED BY <2>2, <2>3
<1>6. ASSUME NEW v \in Workers, Listen(v) \/ Poll(v) PROVE Orphan(w, k)
  BY <1>2, <1>6, ListenMakesNone, FullSyncMakesNone DEF Poll, PeriodicSync, GetAll
<1>7. CASE Failure
  <2>1. ASSUME NEW c \in Clients, InsertFailed(c) \/ DeleteFailed(c) PROVE Orphan(w, k)
    BY <2>1, RequestsMakeNone
  <2>2. ASSUME NEW v \in Workers, Crash(v) PROVE Orphan(w, k)
    BY <1>1, <2>2 DEF Crash, Orphan
  <2>3. ASSUME NEW v \in Workers,
               (\E t \in Tasks : GetAllFailed(v, t)) \/ GetByKeyFailed(v) \/ Disconnect(v)
        PROVE  Orphan(w, k)
    BY <1>2, <2>3 DEF GetAllFailed, GetByKeyFailed, Disconnect
  <2> QED BY <1>7, <2>1, <2>2, <2>3 DEF Failure
<1>8. CASE UNCHANGED vars
  BY <1>2, <1>8 DEF vars
<1> QED BY <1>3, <1>4, <1>5, <1>6, <1>7, <1>8 DEF Next

(* With any number of workers, models, requests and faults, a worker comes *)
(* to a Processor of a model it does not have in one way only: the actor's *)
(* thread removes the model after _load_processor has checked that it is   *)
(* there and before it stores the Processor.                               *)
THEOREM OrphanOnlyByRaceAlways == Spec => OrphanOnlyByRace
<1>1. IInv /\ [Next]_vars =>
        [\A w \in Workers, k \in Keys :
           Orphan(w, k)' => Orphan(w, k) \/ Raced(w, k)]_vars
  BY StepMakesNone
<1> QED BY <1>1, Invariance, PTL DEF Spec, OrphanOnlyByRace
-----------------------------------------------------------------------------
(* The notifications are enough when nothing fails, the workers have       *)
(* started and neither the periodic sync nor the fallback interferes.      *)

(* A notification about k is at position i of q or behind it.              *)
NotedFrom(q, i, k) == \E j \in i .. Len(q) : q[j].key = k

(* A request on w is about to change the row of k. *)
Pending(w, k, label) == \E c \in Clients : cpc[c] = label /\ at[c] = w /\ ckey[c] = k

(* A removal that is announced has happened, or something happened since.  *)
RemovalsTrue(w) ==
  \A i \in 1 .. Len(queue[w]) : LET k == queue[w][i].key IN
    queue[w][i].action = "unregister" => db[k] = None \/ NotedFrom(queue[w], i + 1, k)

(* What the listener has read is up to date, or a notification follows.    *)
ReadsTrue(w) ==
  tpc[w]["listener"] \in {"row", "rows"} =>
    \A k \in Keys : rows[w]["listener"][k] = db[k] \/ NotedFrom(queue[w], 2, k)

(* Memory has what the table has, or the worker will be told otherwise: a  *)
(* notification is in its queue, or the request that made the difference   *)
(* has not committed.                                                      *)
WillBeTold(w, k) ==
  \/ dyn[w][k] = db[k]
  \/ NotedFrom(queue[w], 1, k)
  \/ Pending(w, k, "insert")
  \/ dyn[w][k] = None /\ Pending(w, k, "delete")

(* No other channel is at work. *)
Calm ==
  /\ \A w \in Workers :
       listening[w] /\ tpc[w]["periodic"] = "idle" /\ tpc[w]["listener"] # "off"
  /\ \A c \in Clients : cpc[c] # "store"

Told(w) == RemovalsTrue(w) /\ ReadsTrue(w) /\ \A k \in Keys : WillBeTold(w, k)

NInv == Calm /\ \A w \in Workers : Told(w)

(* A notification at the end of the queue is behind all the others. *)
LEMMA AppendNoted ==
  ASSUME NEW q \in Seq(Notes), NEW n \in Notes
  PROVE  /\ \A i \in 1 .. Len(q) + 1 : NotedFrom(Append(q, n), i, n.key)
         /\ \A i \in Nat \ {0}, k \in Keys : NotedFrom(q, i, k) => NotedFrom(Append(q, n), i, k)
         /\ \A i \in 1 .. Len(q) : Append(q, n)[i] = q[i]
         /\ Append(q, n)[Len(q) + 1] = n /\ Len(Append(q, n)) = Len(q) + 1 /\ Len(q) \in Nat
<1> DEFINE p == Append(q, n)
<1>1. /\ Len(p) = Len(q) + 1
      /\ \A i \in 1 .. Len(q) : p[i] = q[i]
      /\ p[Len(q) + 1] = n
  BY ONLY AppendProperties
<1>2. Len(q) \in Nat
  BY ONLY LenProperties
<1> HIDE DEF p
<1>3. ASSUME NEW i \in 1 .. Len(q) + 1 PROVE NotedFrom(p, i, n.key)
  BY ONLY <1>1, <1>2 DEF NotedFrom
<1>4. ASSUME NEW i \in Nat \ {0}, NEW k \in Keys, NotedFrom(q, i, k) PROVE NotedFrom(p, i, k)
  <2>1. PICK j \in i .. Len(q) : q[j].key = k
    BY <1>4 DEF NotedFrom
  <2>2. j \in 1 .. Len(q) /\ j \in i .. Len(p)
    BY ONLY <1>1, <1>2, <2>1, i \in Nat \ {0}
  <2> QED BY <1>1, <2>1, <2>2 DEF NotedFrom
<1> QED BY <1>1, <1>2, <1>3, <1>4 DEF p

(* When the first has been handled the others move up. *)
LEMMA TailNoted ==
  ASSUME NEW q \in Seq(Notes), q # << >>
  PROVE  /\ \A i \in Nat \ {0}, k \in Keys : NotedFrom(q, i + 1, k) => NotedFrom(Tail(q), i, k)
         /\ \A k \in Keys : NotedFrom(q, 1, k) => Head(q).key = k \/ NotedFrom(q, 2, k)
         /\ \A i \in 1 .. Len(Tail(q)) : Tail(q)[i] = q[i + 1] /\ i + 1 \in 1 .. Len(q)
         /\ 1 \in 1 .. Len(q) /\ Head(q) = q[1]
<1> DEFINE p == Tail(q)
<1>1. /\ Len(p) = Len(q) - 1
      /\ \A i \in 1 .. Len(p) : p[i] = q[i + 1]
  BY ONLY q # << >>, HeadTailProperties
<1>2. Len(q) \in Nat \ {0}
  BY ONLY q # << >>, EmptySeq
<1>3. Head(q) = q[1]
  BY q # << >>
<1> HIDE DEF p
<1>4. ASSUME NEW i \in Nat \ {0}, NEW k \in Keys, NotedFrom(q, i + 1, k)
      PROVE  NotedFrom(p, i, k)
  <2>1. PICK j \in i + 1 .. Len(q) : q[j].key = k
    BY <1>4 DEF NotedFrom
  <2>2. j - 1 \in 1 .. Len(p) /\ j - 1 \in i .. Len(p) /\ (j - 1) + 1 = j
    BY ONLY <1>1, <1>2, <2>1, i \in Nat \ {0}
  <2>3. p[j - 1] = q[j]
    BY ONLY <1>1, <2>2
  <2> QED BY ONLY <2>1, <2>2, <2>3 DEF NotedFrom
<1>5. ASSUME NEW k \in Keys, NotedFrom(q, 1, k) PROVE Head(q).key = k \/ NotedFrom(q, 2, k)
  <2>1. PICK j \in 1 .. Len(q) : q[j].key = k
    BY <1>5 DEF NotedFrom
  <2>2. j = 1 \/ j \in 2 .. Len(q)
    BY ONLY <1>2, <2>1
  <2> QED BY ONLY <1>3, <2>1, <2>2 DEF NotedFrom
<1>6. \A i \in 1 .. Len(p) : i + 1 \in 1 .. Len(q)
  BY ONLY <1>1, <1>2
<1>7. 1 \in 1 .. Len(q)
  BY ONLY <1>2
<1> QED BY <1>1, <1>3, <1>4, <1>5, <1>6, <1>7 DEF p

(* A request that commits a change of the row of k tells every worker.     *)
LEMMA CommitTells ==
  ASSUME IInv, NInv, NEW c \in Clients, NEW k \in Keys, ckey[c] = k, Answer(c),
         NEW action \in {"register", "unregister"}, Notify(action, k),
         action = "unregister" => db'[k] = None,
         \A l \in Keys \ {k} : db'[l] = db[l],
         UNCHANGED <<dyn, listening, taskVars>>
  PROVE  NInv'
<1> DEFINE n == [action |-> action, key |-> k]
<1>1. n \in Notes /\ n.key = k /\ n.action = action
  OBVIOUS
<1>2. Calm'
  BY DEF NInv, Calm, Answer, taskVars, IInv, TypeOK
<1>3. ASSUME NEW v \in Workers PROVE Told(v)'
  <2> DEFINE q == queue[v]
             p == Append(q, n)
  <2>1. q \in Seq(Notes) /\ (tpc[v]["listener"] \in {"row", "rows"} => q # << >>)
    BY DEF IInv, TypeOK, Handles
  <2>2. queue'[v] = p
    BY DEF NInv, Calm, Notify, IInv, TypeOK
  <2>3. Told(v)
    BY DEF NInv
  <2>4. /\ \A i \in 1 .. Len(q) + 1 : NotedFrom(p, i, k)
        /\ \A i \in Nat \ {0}, l \in Keys : NotedFrom(q, i, l) => NotedFrom(p, i, l)
        /\ \A i \in 1 .. Len(q) : p[i] = q[i]
        /\ p[Len(q) + 1] = n /\ Len(p) = Len(q) + 1 /\ Len(q) \in Nat
    BY ONLY <1>1, <2>1, AppendNoted
  <2>5. \A i \in 1 .. Len(q) : q[i] \in Notes
    BY ONLY <2>1, ElementOfSeq
  <2> HIDE DEF n, p
  <2>6. RemovalsTrue(v)'
    <3> SUFFICES ASSUME NEW i \in 1 .. Len(p), p[i].action = "unregister"
                 PROVE  db'[p[i].key] = None \/ NotedFrom(p, i + 1, p[i].key)
      BY <2>2 DEF RemovalsTrue
    <3>1. CASE i = Len(q) + 1
      BY <1>1, <2>4, <3>1
    <3>2. CASE i # Len(q) + 1
      <4>1. i \in 1 .. Len(q) /\ i + 1 \in 1 .. Len(q) + 1 /\ i + 1 \in Nat \ {0}
        BY ONLY <2>4, <3>2, i \in 1 .. Len(p)
      <4>2. p[i] = q[i] /\ q[i].key \in Keys
        BY <2>4, <2>5, <4>1
      <4>3. CASE q[i].key = k
        BY <2>4, <4>1, <4>2, <4>3
      <4>4. CASE q[i].key # k
        <5>1. db[q[i].key] = None \/ NotedFrom(q, i + 1, q[i].key)
          BY <2>3, <4>1, <4>2 DEF Told, RemovalsTrue
        <5> QED BY <2>4, <4>1, <4>2, <4>4, <5>1
      <4> QED BY <4>3, <4>4
    <3> QED BY <3>1, <3>2
  <2>7. ReadsTrue(v)'
    <3> SUFFICES ASSUME tpc[v]["listener"] \in {"row", "rows"}, NEW l \in Keys
                 PROVE  rows[v]["listener"][l] = db'[l] \/ NotedFrom(p, 2, l)
      BY <2>2 DEF ReadsTrue, taskVars
    <3>1. CASE l = k
      <4>1. Len(q) \in Nat \ {0}
        BY ONLY <2>1, tpc[v]["listener"] \in {"row", "rows"}, EmptySeq
      <4>2. 2 \in 1 .. Len(q) + 1
        BY ONLY <4>1
      <4> QED BY <2>4, <3>1, <4>2
    <3>2. CASE l # k
      BY <2>3, <2>4, <3>2 DEF Told, ReadsTrue
    <3> QED BY <3>1, <3>2
  <2>8. ASSUME NEW l \in Keys PROVE WillBeTold(v, l)'
    <3>1. CASE l = k
      <4>1. 1 \in 1 .. Len(q) + 1
        BY ONLY <2>4
      <4> QED BY <2>2, <2>4, <3>1, <4>1 DEF WillBeTold
    <3>2. CASE l # k
      <4>1. WillBeTold(v, l)
        BY <2>3 DEF Told
      <4>2. \A label \in {"insert", "delete"} : Pending(v, l, label) => Pending(v, l, label)'
        BY <3>2 DEF Pending, Answer
      <4> QED BY <2>2, <2>4, <3>2, <4>1, <4>2 DEF WillBeTold
    <3> QED BY <3>1, <3>2
  <2> QED BY <2>6, <2>7, <2>8 DEF Told
<1> QED BY <1>2, <1>3 DEF NInv

(* A request that begins leaves its trace: what it changed in memory is    *)
(* pending.                                                                *)
LEMMA ArriveTells ==
  ASSUME IInv, NInv, Features = {}, NEW c \in Clients, Arrive(c)
  PROVE  NInv'
<1>1. PICK w \in Workers, k \in Keys, x \in MaybeConfig, label \in {"insert", "delete"} :
        /\ Begin(c, w, k, x, label)
        /\ \E y \in MaybeConfig : dyn' = [dyn EXCEPT ![w][k] = y] /\ (label = "delete" => y = None)
        /\ UNCHANGED <<db, listening, queue, taskVars>>
  BY DEF Arrive, Unregister, Register, FallbackRead, Forget
<1>2. PICK y \in MaybeConfig :
        dyn' = [dyn EXCEPT ![w][k] = y] /\ (label = "delete" => y = None)
  BY <1>1
<1>3. Calm'
  BY <1>1 DEF NInv, Calm, Begin, taskVars, IInv, TypeOK
<1>4. ASSUME NEW v \in Workers PROVE Told(v)'
  <2>1. Told(v)
    BY DEF NInv
  <2>2. RemovalsTrue(v)' /\ ReadsTrue(v)'
    BY <1>1, <2>1 DEF Told, RemovalsTrue, ReadsTrue, NotedFrom, taskVars
  <2>3. ASSUME NEW l \in Keys PROVE WillBeTold(v, l)'
    <3>1. CASE v = w /\ l = k
      <4>1. Pending(w, k, label)'
        BY <1>1 DEF Begin, Pending, IInv, TypeOK
      <4>2. dyn'[w][k] = y
        BY <1>2 DEF IInv, TypeOK
      <4> QED BY <1>2, <3>1, <4>1, <4>2 DEF WillBeTold
    <3>2. CASE v # w \/ l # k
      <4>1. dyn'[v][l] = dyn[v][l]
        BY <1>2, <3>2 DEF IInv, TypeOK
      <4>2. \A b \in {"insert", "delete"} : Pending(v, l, b) => Pending(v, l, b)'
        BY <1>1 DEF Begin, Pending
      <4> QED BY <1>1, <2>1, <4>1, <4>2 DEF Told, WillBeTold, NotedFrom
    <3> QED BY <3>1, <3>2
  <2> QED BY <2>2, <2>3 DEF Told
<1> QED BY <1>3, <1>4 DEF NInv

(* A removal that finds no row tells nobody, and nobody has to be told.    *)
LEMMA ProceedTells ==
  ASSUME IInv, NInv, NEW c \in Clients, Proceed(c)
  PROVE  NInv'
<1>1. CASE InsertCommitted(c)
  <2>1. ckey[c] \in Keys /\ ccfg[c] \in Configs
    BY <1>1 DEF InsertCommitted, IInv, Carries
  <2>2. \A l \in Keys \ {ckey[c]} : db'[l] = db[l]
    BY <1>1 DEF InsertCommitted, Upsert, IInv, TypeOK
  <2> QED BY <1>1, <2>1, <2>2, CommitTells DEF InsertCommitted, Upsert
<1>2. CASE DeleteCommitted(c)
  <2>1. ckey[c] \in Keys /\ cpc[c] = "delete"
    BY <1>2 DEF DeleteCommitted, IInv, Carries
  <2>2. /\ \A l \in Keys \ {ckey[c]} : db'[l] = db[l]
        /\ db'[ckey[c]] = None
    BY <1>2, <2>1 DEF DeleteCommitted, Delete, IInv, TypeOK
  <2>3. CASE Notify("unregister", ckey[c])
    BY <1>2, <2>1, <2>2, <2>3, CommitTells DEF DeleteCommitted
  <2>4. CASE db[ckey[c]] = None /\ UNCHANGED queue
    <3>1. \A l \in Keys : db'[l] = db[l]
      BY <2>2, <2>4
    <3>2. /\ Answer(c)
          /\ UNCHANGED <<dyn, listening, queue, taskVars>>
      BY <1>2, <2>4 DEF DeleteCommitted
    <3>3. Calm'
      BY <3>2 DEF NInv, Calm, Answer, taskVars, IInv, TypeOK
    <3>4. ASSUME NEW v \in Workers PROVE Told(v)'
      <4>1. Told(v)
        BY DEF NInv
      <4>2. RemovalsTrue(v)'
        <5>1. \A i \in 1 .. Len(queue[v]) : queue[v][i].key \in Keys
          <6>1. queue[v] \in Seq(Notes)
            BY DEF IInv, TypeOK
          <6>2. \A i \in 1 .. Len(queue[v]) : queue[v][i] \in Notes
            BY ONLY <6>1, ElementOfSeq
          <6> QED BY <6>2
        <5> QED BY <3>1, <3>2, <4>1, <5>1 DEF Told, RemovalsTrue, NotedFrom
      <4>3. ReadsTrue(v)'
        BY <3>1, <3>2, <4>1 DEF Told, ReadsTrue, NotedFrom, taskVars
      <4>4. ASSUME NEW l \in Keys PROVE WillBeTold(v, l)'
        <5>1. WillBeTold(v, l)
          BY <4>1 DEF Told
        <5>2. Pending(v, l, "insert") => Pending(v, l, "insert")'
          BY <2>1, <3>2 DEF Pending, Answer
        <5>3. Pending(v, l, "delete") => Pending(v, l, "delete")' \/ l = ckey[c]
          BY <3>2 DEF Pending, Answer
        <5> QED BY <2>4, <3>1, <3>2, <5>1, <5>2, <5>3 DEF WillBeTold, NotedFrom
      <4> QED BY <4>2, <4>3, <4>4 DEF Told
    <3> QED BY <3>3, <3>4 DEF NInv
  <2> QED BY <1>2, <2>3, <2>4 DEF DeleteCommitted, Delete
<1>3. ~FallbackStore(c)
  BY DEF FallbackStore, NInv, Calm
<1> QED BY <1>1, <1>2, <1>3 DEF Proceed

(* The listener reads the table, or sets out to. *)
LEMMA ReadTells ==
  ASSUME IInv, NInv, NEW w \in Workers,
         GetByKey(w) \/ RowMissing(w) \/ GetAll(w, "listener")
  PROVE  NInv'
<1> DEFINE Moves(label) ==
             /\ Goto(w, "listener", label)
             /\ \/ rows' = [rows EXCEPT ![w]["listener"] = db]
                \/ label = "full" /\ rows' = rows
             /\ UNCHANGED <<db, dyn, listening, queue, clientVars>>
<1>1. PICK label \in {"row", "full", "rows"} : Moves(label)
  <2>1. GetByKey(w) => Moves("row")
    BY DEF GetByKey
  <2>2. RowMissing(w) => Moves("full")
    BY DEF RowMissing
  <2>3. GetAll(w, "listener") => Moves("rows")
    BY DEF GetAll
  <2> HIDE DEF Moves
  <2> QED BY <2>1, <2>2, <2>3
<1>2. tpc'[w]["listener"] = label
  BY <1>1 DEF Goto, IInv, TypeOK
<1>3. /\ tpc'[w]["periodic"] = tpc[w]["periodic"]
      /\ \A v \in Workers \ {w} : tpc'[v] = tpc[v] /\ rows'[v] = rows[v]
  BY <1>1 DEF Goto, IInv, TypeOK
<1>4. Calm'
  BY <1>1, <1>2, <1>3 DEF NInv, Calm, clientVars
<1>5. ASSUME NEW v \in Workers PROVE Told(v)'
  <2>1. Told(v)
    BY DEF NInv
  <2>2. RemovalsTrue(v)' /\ \A k \in Keys : WillBeTold(v, k)'
    BY <1>1, <2>1 DEF Told, RemovalsTrue, WillBeTold, NotedFrom, Pending, clientVars
  <2>3. ReadsTrue(v)'
    <3>1. CASE v # w
      BY <1>1, <1>3, <2>1, <3>1 DEF Told, ReadsTrue, NotedFrom
    <3>2. CASE v = w
      <4>1. label # "full" => rows'[w]["listener"] = db
        BY <1>1 DEF IInv, TypeOK
      <4> QED BY <1>1, <1>2, <3>2, <4>1 DEF ReadsTrue
    <3> QED BY <3>1, <3>2
  <2> QED BY <2>2, <2>3 DEF Told
<1> QED BY <1>4, <1>5 DEF NInv

(* The listener has handled a notification: what it stores is what the     *)
(* table has, or another notification follows; the model it leaves alone   *)
(* is not the one it was told about.                                       *)
LEMMA HandledTells ==
  ASSUME IInv, NInv, NEW w \in Workers, queue[w] # << >>, TaskDone(w, "listener"),
         UNCHANGED <<db, listening, clientVars>>,
         \A v \in Workers \ {w} : dyn'[v] = dyn[v],
         \A l \in Keys : \/ dyn'[w][l] = db[l] \/ NotedFrom(queue[w], 2, l)
                         \/ dyn'[w][l] = dyn[w][l] /\ l # Head(queue[w]).key
  PROVE  NInv'
<1> DEFINE q == queue[w]
           p == Tail(q)
<1>1. q \in Seq(Notes)
  BY DEF IInv, TypeOK
<1>2. /\ \A i \in Nat \ {0}, k \in Keys : NotedFrom(q, i + 1, k) => NotedFrom(p, i, k)
      /\ \A k \in Keys : NotedFrom(q, 1, k) => Head(q).key = k \/ NotedFrom(q, 2, k)
      /\ \A i \in 1 .. Len(p) : p[i] = q[i + 1] /\ i + 1 \in 1 .. Len(q)
  BY ONLY <1>1, queue[w] # << >>, TailNoted
<1>3. queue'[w] = p /\ \A v \in Workers \ {w} : queue'[v] = queue[v]
  BY DEF TaskDone, IInv, TypeOK
<1>4. /\ tpc'[w]["listener"] = "idle" /\ tpc'[w]["periodic"] = tpc[w]["periodic"]
      /\ \A v \in Workers \ {w} : tpc'[v] = tpc[v] /\ rows'[v] = rows[v]
  BY DEF TaskDone, IInv, TypeOK
<1>5. \A i \in 1 .. Len(q) : q[i].key \in Keys
  <2>1. \A i \in 1 .. Len(q) : q[i] \in Notes
    BY ONLY <1>1, ElementOfSeq
  <2> QED BY <2>1
<1>6. \A k \in Keys : NotedFrom(q, 2, k) => NotedFrom(p, 1, k)
  <2>1. 1 \in Nat \ {0} /\ 1 + 1 = 2
    OBVIOUS
  <2> QED BY ONLY <1>2, <2>1
<1> HIDE DEF p
<1>7. Calm'
  BY <1>4 DEF NInv, Calm, clientVars
<1>8. ASSUME NEW v \in Workers, v # w PROVE Told(v)'
  BY <1>3, <1>4, <1>8 DEF NInv, Told, RemovalsTrue, ReadsTrue, WillBeTold, NotedFrom, Pending,
     clientVars
<1>9. Told(w)
  BY DEF NInv
<1>10. RemovalsTrue(w)'
  <2> SUFFICES ASSUME NEW i \in 1 .. Len(p), p[i].action = "unregister"
               PROVE  db[p[i].key] = None \/ NotedFrom(p, i + 1, p[i].key)
    BY <1>3 DEF RemovalsTrue
  <2>1. /\ p[i] = q[i + 1] /\ i + 1 \in 1 .. Len(q) /\ p[i].key \in Keys
    BY <1>2, <1>5
  <2>2. db[p[i].key] = None \/ NotedFrom(q, (i + 1) + 1, p[i].key)
    BY <1>9, <2>1 DEF Told, RemovalsTrue
  <2>3. i + 1 \in Nat \ {0}
    OBVIOUS
  <2> QED BY <1>2, <2>1, <2>2, <2>3
<1>11. ReadsTrue(w)'
  BY <1>4 DEF ReadsTrue
<1>12. ASSUME NEW l \in Keys PROVE WillBeTold(w, l)'
  <2>1. CASE dyn'[w][l] = db[l] \/ NotedFrom(q, 2, l)
    BY <1>3, <1>6, <2>1 DEF WillBeTold
  <2>2. CASE dyn'[w][l] = dyn[w][l] /\ l # Head(q).key
    <3>1. WillBeTold(w, l)
      BY <1>9 DEF Told
    <3>2. NotedFrom(q, 1, l) => NotedFrom(p, 1, l)
      BY <1>2, <1>6, <2>2
    <3> QED BY <1>3, <2>2, <3>1, <3>2 DEF WillBeTold, Pending, clientVars
  <2> QED BY <2>1, <2>2
<1> QED BY <1>7, <1>8, <1>9, <1>10, <1>11, <1>12 DEF NInv, Told

(* The steps of the listener without failures. *)
LEMMA ListenTells ==
  ASSUME IInv, NInv, NEW w \in Workers, Listen(w)
  PROVE  NInv'
<1>1. ~Connect(w)
  BY DEF Connect, NInv, Calm
<1>2. Told(w)
  BY DEF NInv
<1>3. queue[w] # << >> => Head(queue[w]).key \in Keys
  BY Parts, NoteTyped
<1>4. CASE RegisterFromConfig(w)
  <2> DEFINE k == Head(queue[w]).key
  <2>1. queue[w] # << >> /\ k \in Keys
    BY <1>3, <1>4 DEF RegisterFromConfig, IInv, Handles
  <2>2. dyn' = [dyn EXCEPT ![w][k] = rows[w]["listener"][k]]
    BY <1>4 DEF RegisterFromConfig
  <2> HIDE DEF k
  <2>3. /\ \A v \in Workers \ {w} : dyn'[v] = dyn[v]
        /\ \A l \in Keys \ {k} : dyn'[w][l] = dyn[w][l]
        /\ dyn'[w][k] = rows[w]["listener"][k]
    BY <2>1, <2>2 DEF IInv, TypeOK
  <2>4. rows[w]["listener"][k] = db[k] \/ NotedFrom(queue[w], 2, k)
    BY <1>2, <1>4, <2>1 DEF RegisterFromConfig, Told, ReadsTrue
  <2>5. \A l \in Keys : \/ dyn'[w][l] = db[l] \/ NotedFrom(queue[w], 2, l)
                        \/ dyn'[w][l] = dyn[w][l] /\ l # k
    BY <2>3, <2>4
  <2> QED BY <1>4, <2>1, <2>3, <2>5, HandledTells DEF RegisterFromConfig, k
<1>5. CASE UnregisterByKey(w)
  <2> DEFINE k == Head(queue[w]).key
  <2>1. queue[w] # << >> /\ Head(queue[w]).action = "unregister" /\ k \in Keys
    BY <1>3, <1>5 DEF UnregisterByKey, Handling
  <2>2. dyn' = [dyn EXCEPT ![w][k] = None]
    BY <1>5 DEF UnregisterByKey, Forget
  <2>3. db[k] = None \/ NotedFrom(queue[w], 2, k)
    <3>1. queue[w] \in Seq(Notes)
      BY DEF IInv, TypeOK
    <3>2. 1 \in 1 .. Len(queue[w]) /\ Head(queue[w]) = queue[w][1]
      BY ONLY <2>1, <3>1, TailNoted
    <3>3. db[k] = None \/ NotedFrom(queue[w], 1 + 1, k)
      BY <1>2, <2>1, <3>2 DEF Told, RemovalsTrue
    <3>4. 1 + 1 = 2
      OBVIOUS
    <3> QED BY <3>3, <3>4
  <2> HIDE DEF k
  <2>4. /\ \A v \in Workers \ {w} : dyn'[v] = dyn[v]
        /\ \A l \in Keys \ {k} : dyn'[w][l] = dyn[w][l]
        /\ dyn'[w][k] = None
    BY <2>1, <2>2 DEF IInv, TypeOK
  <2>5. \A l \in Keys : \/ dyn'[w][l] = db[l] \/ NotedFrom(queue[w], 2, l)
                        \/ dyn'[w][l] = dyn[w][l] /\ l # k
    BY <2>3, <2>4
  <2> QED BY <1>5, <2>1, <2>4, <2>5, HandledTells DEF UnregisterByKey, k
<1>6. CASE FullSync(w, "listener")
  <2>1. queue[w] # << >> /\ tpc[w]["listener"] = "rows"
    BY <1>6 DEF FullSync, IInv, Handles
  <2>2. dyn' = [dyn EXCEPT ![w] = rows[w]["listener"]]
    BY <1>6 DEF FullSync
  <2>3. /\ \A v \in Workers \ {w} : dyn'[v] = dyn[v]
        /\ dyn'[w] = rows[w]["listener"]
    BY <2>2 DEF IInv, TypeOK
  <2>4. \A l \in Keys : dyn'[w][l] = db[l] \/ NotedFrom(queue[w], 2, l)
    BY <1>2, <2>1, <2>3 DEF Told, ReadsTrue
  <2> QED BY <1>6, <2>1, <2>3, <2>4, HandledTells DEF FullSync
<1> QED BY <1>1, <1>4, <1>5, <1>6, ReadTells DEF Listen

(* Without failures every step keeps the second invariant. *)
LEMMA StepTells ==
  ASSUME Features = {}
  PROVE  IInv /\ NInv /\ [Next]_vars => NInv'
<1> SUFFICES ASSUME IInv, NInv, [Next]_vars PROVE NInv'
  OBVIOUS
<1>1. ASSUME NEW c \in Clients, Arrive(c) \/ Proceed(c) PROVE NInv'
  BY <1>1, Features = {}, ArriveTells, ProceedTells
<1>2. ASSUME UNCHANGED <<db, dyn, listening, queue, taskVars, clientVars>> PROVE NInv'
  BY <1>2 DEF NInv, Calm, Told, RemovalsTrue, ReadsTrue, WillBeTold, NotedFrom, Pending,
     taskVars, clientVars
<1>3. ASSUME NEW w \in Workers,
             CacheProcessor(w) \/ \E k \in Keys : Recheck(w, k) \/ Evict(w, k)
      PROVE  NInv'
  BY <1>2, <1>3 DEF CacheProcessor, Recheck, Evict
<1>4. ASSUME NEW w \in Workers, Listen(w) PROVE NInv'
  BY <1>4, ListenTells
<1>5. ASSUME NEW w \in Workers PROVE ~Poll(w)
  BY Features = {} DEF Poll, PeriodicSync, GetAll, FullSync, NInv, Calm
<1>6. ~Failure
  BY Features = {} DEF Failure, Fault, InsertFailed, DeleteFailed, GetAllFailed,
     GetByKeyFailed, Disconnect, Crash
<1>7. CASE UNCHANGED vars
  BY <1>2, <1>7 DEF vars, taskVars, clientVars
<1> QED BY <1>1, <1>3, <1>4, <1>5, <1>6, <1>7 DEF Next

(* It holds when every worker has started. *)
LEMMA InitTells ==
  ASSUME Booted = Workers
  PROVE  Init => NInv
<1> SUFFICES ASSUME Init PROVE NInv
  OBVIOUS
<1>1. /\ listening = [w \in Workers |-> TRUE]
      /\ tpc = [w \in Workers |-> [t \in Tasks |-> "idle"]]
      /\ cpc = [c \in Clients |-> "idle"]
      /\ queue = [w \in Workers |-> << >>]
      /\ db = NoModels /\ dyn = [w \in Workers |-> NoModels]
  BY Booted = Workers DEF Init
<1> QED BY <1>1 DEF NInv, Calm, Told, RemovalsTrue, ReadsTrue, WillBeTold

(* When nothing is pending, every worker has the table. *)
LEMMA ToldSuffices == IInv /\ NInv => NotifySuffices
<1> SUFFICES ASSUME IInv, NInv, Quiet, NEW w \in Workers PROVE dyn[w] = db
  BY DEF NotifySuffices
<1>1. ASSUME NEW k \in Keys PROVE dyn[w][k] = db[k]
  <2>1. queue[w] = << >> /\ Len(<< >>) = 0
    BY DEF Quiet
  <2>2. ~NotedFrom(queue[w], 1, k)
    BY <2>1 DEF NotedFrom
  <2>3. ~Pending(w, k, "insert") /\ ~Pending(w, k, "delete")
    BY DEF Quiet, Pending
  <2> QED BY <2>2, <2>3 DEF NInv, Told, WillBeTold
<1> QED BY <1>1 DEF IInv, TypeOK

(* The main channel is enough by itself: among workers that have started,  *)
(* while no fault happens and neither the periodic sync nor the fallback   *)
(* read interferes, every worker has the table whenever all notifications  *)
(* are handled and no request is in flight, however many workers, models   *)
(* and requests there are and however their steps interleave.              *)
THEOREM NotifySufficesAlways ==
  ASSUME Booted = Workers, Features = {}
  PROVE  Spec => []NotifySuffices
<1>1. Init => NInv
  BY Booted = Workers, InitTells
<1>2. IInv /\ NInv /\ [Next]_vars => NInv'
  BY Features = {}, StepTells
<1> QED BY <1>1, <1>2, ToldSuffices, Invariance, PTL DEF Spec
=============================================================================
