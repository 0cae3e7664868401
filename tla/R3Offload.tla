----------------------------- MODULE R3Offload -----------------------------
(***************************************************************************)
(* Offloading of the routed experts: the repository decorator that moves   *)
(* them out of a record into a blob, the reference rows, the upload tasks  *)
(* in the background, the blob store with its cached authentication, and   *)
(* the endpoint that reads a blob back.                                    *)
(*                                                                         *)
(* A step is what a coroutine does between two awaits.  The experts of a   *)
(* request are abstracted to where they are: in a context or a record they *)
(* are absent, the data itself, or the marker that refers to the blob.     *)
(***************************************************************************)
EXTENDS Naturals, FiniteSets

CONSTANTS
  Req,          \* requests whose response is to be stored
  Fetch,        \* calls of the route_experts endpoint
  Server,       \* file servers of the CSB gateway
  Backends,     \* storage backends considered: "csb", "local"
  Absent,       \* no server, nobody
  MaxFaults     \* bound: the bucket moves, or the worker dies and comes back

ASSUME R3Assumption ==
  /\ IsFiniteSet(Req) /\ IsFiniteSet(Fetch)
  /\ Req \cap Fetch = {}
  /\ Absent \notin Req \cup Fetch \cup Server
  /\ Server # {}
  /\ Backends \subseteq {"csb", "local"}
  /\ MaxFaults \in Nat

VARIABLES
  pc,        \* where the insertion of each request's record is
  gone,      \* the client left: the insertion was cancelled
  experts,   \* routed_experts in the context: none, data, marker
  record,    \* the stored record: none, plain (no experts), data, marker
  ref,       \* row of r3_blob_refs: none, uploading, ready
  blob,      \* the object: none, partial, data, marker
  upload,    \* the background task of the request
  payload,   \* what it uploads: the bytes serialised by insert
  backend,   \* configured storage
  op,        \* storage call of an upload or a fetch
  target,    \* server the call is sent to
  server,    \* _file_server
  lock,      \* holder of _auth_lock
  home,      \* the server that has the bucket
  fetch,     \* where each fetch is
  of,        \* the request it asks for
  handle,    \* its stream handle: none, open, closed, cut (marked, not closed)
  served,    \* what its client got
  faults

taskvars == <<upload, payload>>
insertvars == <<pc, gone, experts, record>>
storagevars == <<op, target, server, lock>>
fetchvars == <<fetch, of, handle, served>>
envvars == <<backend, home, faults>>
vars == <<insertvars, ref, blob, taskvars, storagevars, fetchvars, envvars>>

Actor == Req \cup Fetch

(* Mutation of Entry: a marker is taken for the experts. *)
EntryAnyExperts(found) == IF found # "none" THEN "serialize" ELSE "plain"

(* Where insert goes with what _extract found in the context: the marker   *)
(* of an earlier insertion is no experts.                                  *)
Entry(found) == IF found = "data" THEN "serialize" ELSE "plain"

Init ==
  /\ gone = [r \in Req |-> FALSE]
  /\ experts \in [Req -> {"none", "data"}]
  /\ pc = [r \in Req |-> Entry(experts[r])]
  /\ record = [r \in Req |-> "none"]
  /\ ref = [r \in Req |-> "none"]
  /\ blob = [r \in Req |-> "none"]
  /\ upload = [r \in Req |-> "none"]
  /\ payload = [r \in Req |-> "none"]
  /\ backend \in Backends
  /\ op = [a \in Actor |-> "none"]
  /\ target = [a \in Actor |-> Absent]
  /\ server = Absent
  /\ lock = Absent
  /\ home \in Server
  /\ fetch = [f \in Fetch |-> "idle"]
  /\ of \in [Fetch -> Req]
  /\ handle = [f \in Fetch |-> "none"]
  /\ served = [f \in Fetch |-> "none"]
  /\ faults = 0

-----------------------------------------------------------------------------
(* OffloadingRepository.insert *)

Goto(r, label) == pc' = [pc EXCEPT ![r] = label]

(* The JSON is built in a thread; too large or not serialisable: the       *)
(* record keeps the experts.                                               *)
Serialize(r) ==
  /\ pc[r] = "serialize"
  /\ \E label \in {"ref", "oversize", "degrade"} : Goto(r, label)
  /\ UNCHANGED <<gone, experts, record, ref, blob, taskvars, storagevars, fetchvars, envvars>>

(* insert_ref: ON CONFLICT DO NOTHING.  done says whether the transaction  *)
(* was committed.                                                          *)
RefInserted(r, done) ==
  ref' = IF done /\ ref[r] = "none" THEN [ref EXCEPT ![r] = "uploading"] ELSE ref

(* _replace_with_marker: the marker names the blob by the request's key. *)
Marked(r) == experts' = [experts EXCEPT ![r] = "marker"]

(* The reference is in: the upload starts and the marker takes the place   *)
(* of the experts, without an await between them.                          *)
InsertRef(r) ==
  /\ pc[r] = "ref"
  /\ RefInserted(r, TRUE)
  /\ upload' = [upload EXCEPT ![r] = "start"]
  /\ payload' = [payload EXCEPT ![r] = experts[r]]
  /\ Marked(r)
  /\ Goto(r, "insert")
  /\ UNCHANGED <<gone, record, blob, storagevars, fetchvars, envvars>>

(* Mutation of InsertRefFails: the experts are stripped all the same. *)
InsertRefFailsStripped(r) ==
  /\ pc[r] = "ref"
  /\ experts' = [experts EXCEPT ![r] = "marker"]
  /\ Goto(r, "degrade")
  /\ UNCHANGED <<gone, record, ref, blob, taskvars, storagevars, fetchvars, envvars>>

InsertRefFails(r) ==
  /\ pc[r] = "ref"
  /\ \E done \in BOOLEAN : RefInserted(r, done)
  /\ Goto(r, "degrade")
  /\ UNCHANGED <<gone, experts, record, blob, taskvars, storagevars, fetchvars, envvars>>

Inserting == {"plain", "oversize", "degrade", "insert"}

(* RequestRepository.insert: one transaction, unique_id is unique. *)
Inserted(r, done) ==
  record' = IF done /\ record[r] = "none"
              THEN [record EXCEPT ![r] = IF experts[r] = "none" THEN "plain" ELSE experts[r]]
              ELSE record

Insert(r) ==
  /\ pc[r] \in Inserting /\ record[r] = "none"
  /\ Inserted(r, TRUE)
  /\ Goto(r, "stored")
  /\ UNCHANGED <<gone, experts, ref, blob, taskvars, storagevars, fetchvars, envvars>>

(* _restore_route_experts *)
Restored(r) ==
  experts' = IF pc[r] = "insert" THEN [experts EXCEPT ![r] = "data"] ELSE experts

(* The transaction fails (a failing commit may have happened).  The        *)
(* insertion of oversized experts runs inside the try and is repeated.     *)
InsertFails(r) ==
  /\ pc[r] \in Inserting
  /\ \E done \in BOOLEAN : Inserted(r, done)
  /\ Restored(r)
  /\ Goto(r, IF pc[r] = "oversize" THEN "degrade" ELSE "failed")
  /\ UNCHANGED <<gone, ref, blob, taskvars, storagevars, fetchvars, envvars>>

(* The client leaves during an await: CancelledError passes every except   *)
(* Exception, the context stays as it is.                                  *)
Cancel(r) ==
  /\ pc[r] \in {"serialize", "ref"} \cup Inserting /\ ~gone[r]
  /\ \E done \in BOOLEAN :
       /\ IF pc[r] = "ref" THEN RefInserted(r, done) ELSE UNCHANGED ref
       /\ IF pc[r] \in Inserting THEN Inserted(r, done) ELSE UNCHANGED record
  /\ gone' = [gone EXCEPT ![r] = TRUE]
  /\ Goto(r, "cancelled")
  /\ UNCHANGED <<experts, blob, taskvars, storagevars, fetchvars, envvars>>

(* The token pipeline finalises a cancelled stream: it inserts again.      *)
FinalizeCancelled(r) ==
  /\ pc[r] = "cancelled"
  /\ Goto(r, Entry(experts[r]))
  /\ UNCHANGED <<gone, experts, record, ref, blob, taskvars, storagevars, fetchvars, envvars>>

(* The direct pipeline raises while it filters the response, whose experts *)
(* it has removed by then, and inserts again.                              *)
FilterRaises(r) ==
  /\ pc[r] \in {"stored", "failed"} /\ ~gone[r] /\ experts[r] # "none"
  /\ experts' = [experts EXCEPT ![r] = "none"]
  /\ Goto(r, Entry("none"))
  /\ UNCHANGED <<gone, record, ref, blob, taskvars, storagevars, fetchvars, envvars>>

-----------------------------------------------------------------------------
(* The blob store.  A call authenticates if no server is cached, and is    *)
(* sent to the cached server.                                              *)

Call(a) == op' = [op EXCEPT ![a] = "auth"]

(* Nothing to authenticate, or the double check under the lock.            *)
Authenticated(a) ==
  /\ op[a] = "auth" /\ (backend = "local" \/ server # Absent)
  /\ op' = [op EXCEPT ![a] = "send"]
  /\ target' = [target EXCEPT ![a] = IF backend = "local" THEN Absent ELSE server]
  /\ UNCHANGED <<server, lock, insertvars, ref, blob, taskvars, fetchvars, envvars>>

(* _ensure_authenticated under the lock resolves the endpoint ... *)
ResolveEndpoint(a) ==
  /\ op[a] = "auth" /\ backend = "csb" /\ server = Absent /\ lock = Absent
  /\ lock' = a
  /\ op' = [op EXCEPT ![a] = "bucket"]
  /\ target' = [target EXCEPT ![a] = home]
  /\ UNCHANGED <<server, insertvars, ref, blob, taskvars, fetchvars, envvars>>

(* ... and asks that server for the bucket; it is cached only when both    *)
(* succeeded.                                                              *)
BucketAuth(a) ==
  /\ op[a] = "bucket"
  /\ lock' = Absent
  /\ \/ /\ target[a] = home
        /\ server' = target[a]
        /\ op' = [op EXCEPT ![a] = "send"]
        /\ UNCHANGED target
     \/ /\ op' = [op EXCEPT ![a] = "error"]
        /\ target' = [target EXCEPT ![a] = Absent]
        /\ UNCHANGED server
  /\ UNCHANGED <<insertvars, ref, blob, taskvars, fetchvars, envvars>>

(* _invalidate_auth_on_failure, for a response 401, 403 or 5xx. *)
InvalidateAuth == server' = Absent

(* The call fails: an HTTP error status, which may clear the cached        *)
(* server, no answer at all, which does not, or an OSError.                *)
SendFails(a) ==
  /\ op[a] = "send"
  /\ op' = [op EXCEPT ![a] = "error"]
  /\ target' = [target EXCEPT ![a] = Absent]
  /\ \/ UNCHANGED server
     \/ backend = "csb" /\ InvalidateAuth
  /\ \/ UNCHANGED blob
     \/ a \in Req /\ backend = "local" /\ blob' = [blob EXCEPT ![a] = "partial"]
  /\ UNCHANGED <<lock, insertvars, ref, taskvars, fetchvars, envvars>>

Reachable(a) == backend = "local" \/ target[a] = home

-----------------------------------------------------------------------------
(* _upload_and_mark_ready *)

StartUpload(r) ==
  /\ upload[r] = "start"
  /\ upload' = [upload EXCEPT ![r] = "put"]
  /\ Call(r)
  /\ UNCHANGED <<insertvars, ref, blob, target, server, lock, fetchvars, envvars, payload>>

(* A local file is written in place: it is there before it is complete. *)
WriteBegins(r) ==
  /\ backend = "local" /\ op[r] = "send" /\ blob[r] = "none"
  /\ blob' = [blob EXCEPT ![r] = "partial"]
  /\ UNCHANGED <<insertvars, ref, taskvars, storagevars, fetchvars, envvars>>

PutOk(r) ==
  /\ op[r] = "send" /\ Reachable(r)
  /\ backend = "local" => blob[r] # "none"
  /\ op' = [op EXCEPT ![r] = "none"]
  /\ target' = [target EXCEPT ![r] = Absent]
  /\ blob' = [blob EXCEPT ![r] = payload[r]]
  /\ upload' = [upload EXCEPT ![r] = "mark"]
  /\ UNCHANGED <<insertvars, ref, server, lock, fetchvars, envvars, payload>>

PutFailed(r) ==
  /\ op[r] = "error"
  /\ op' = [op EXCEPT ![r] = "none"]
  /\ upload' = [upload EXCEPT ![r] = "failed"]
  /\ UNCHANGED <<insertvars, ref, blob, target, server, lock, fetchvars, envvars, payload>>

(* Mutation of MarkReady: the UPDATE matches no row. *)
MarkReadyNoRow(r) ==
  /\ upload[r] = "mark"
  /\ upload' = [upload EXCEPT ![r] = "done"]
  /\ UNCHANGED <<insertvars, ref, blob, storagevars, fetchvars, envvars, payload>>

(* UPDATE ... WHERE status = 'uploading' *)
MarkReady(r) ==
  /\ upload[r] = "mark"
  /\ ref' = IF ref[r] = "uploading" THEN [ref EXCEPT ![r] = "ready"] ELSE ref
  /\ upload' = [upload EXCEPT ![r] = "done"]
  /\ UNCHANGED <<insertvars, blob, storagevars, fetchvars, envvars, payload>>

MarkReadyFails(r) ==
  /\ upload[r] = "mark"
  /\ upload' = [upload EXCEPT ![r] = "failed"]
  /\ UNCHANGED <<insertvars, ref, blob, storagevars, fetchvars, envvars, payload>>

-----------------------------------------------------------------------------
(* The route_experts endpoint and TrajectoryProvider.get_route_experts *)

Answer(f, what) ==
  /\ fetch' = [fetch EXCEPT ![f] = "done"]
  /\ served' = [served EXCEPT ![f] = what]

(* Mutation of Lookup: a reference that is uploading is served as well. *)
LookupUploading(f) ==
  IF ref[of[f]] = "none" THEN "not found" ELSE "ready"

Lookup(f) ==
  CASE ref[of[f]] = "none" -> "not found"
    [] ref[of[f]] = "uploading" -> "retry later"
    [] ref[of[f]] = "ready" -> "ready"

(* get_for_fetch; a wrong session finds no row, and the query may fail. *)
FetchRef(f) ==
  /\ fetch[f] = "idle"
  /\ \/ Answer(f, "not found") /\ UNCHANGED op
     \/ Answer(f, "failed") /\ UNCHANGED op
     \/ Lookup(f) # "ready" /\ Answer(f, Lookup(f)) /\ UNCHANGED op
     \/ /\ Lookup(f) = "ready"
        /\ fetch' = [fetch EXCEPT ![f] = "open"]
        /\ Call(f)
        /\ UNCHANGED served
  /\ UNCHANGED <<of, handle, insertvars, ref, blob, taskvars, target, server, lock, envvars>>

OpenOk(f) ==
  /\ op[f] = "send" /\ Reachable(f) /\ blob[of[f]] # "none"
  /\ op' = [op EXCEPT ![f] = "none"]
  /\ target' = [target EXCEPT ![f] = Absent]
  /\ handle' = [handle EXCEPT ![f] = "open"]
  /\ fetch' = [fetch EXCEPT ![f] = "response"]
  /\ UNCHANGED <<of, served, insertvars, ref, blob, taskvars, server, lock, envvars>>

OpenFailed(f) ==
  /\ op[f] = "error"
  /\ op' = [op EXCEPT ![f] = "none"]
  /\ Answer(f, "failed")
  /\ UNCHANGED <<of, handle, insertvars, ref, blob, taskvars, target, server, lock, envvars>>

(* Mutation of FetchTimeOut: the cancelled call keeps the lock. *)
FetchTimeOutLocked(f) ==
  /\ fetch[f] = "open"
  /\ op' = [op EXCEPT ![f] = "none"]
  /\ target' = [target EXCEPT ![f] = Absent]
  /\ Answer(f, "failed")
  /\ UNCHANGED <<of, handle, insertvars, ref, blob, taskvars, server, lock, envvars>>

(* wait_for cancels the provider: the lock is left by its async with. *)
FetchTimeOut(f) ==
  /\ fetch[f] = "open"
  /\ op' = [op EXCEPT ![f] = "none"]
  /\ target' = [target EXCEPT ![f] = Absent]
  /\ lock' = IF lock = f THEN Absent ELSE lock
  /\ Answer(f, "failed")
  /\ UNCHANGED <<of, handle, insertvars, ref, blob, taskvars, server, envvars>>

(* The response iterates over its generator, which reads a chunk and is    *)
(* suspended while the chunk is sent.                                      *)
ReadChunk(f) ==
  /\ fetch[f] = "response"
  /\ fetch' = [fetch EXCEPT ![f] = "reading"]
  /\ UNCHANGED <<of, handle, served, insertvars, ref, blob, taskvars, storagevars, envvars>>

SendChunk(f) ==
  /\ fetch[f] = "reading"
  /\ fetch' = [fetch EXCEPT ![f] = "response"]
  /\ served' = [served EXCEPT ![f] = blob[of[f]]]
  /\ UNCHANGED <<of, handle, insertvars, ref, blob, taskvars, storagevars, envvars>>

(* The blob is read to its end, or reading fails. *)
ReadOver(f) ==
  /\ fetch[f] = "reading"
  /\ fetch' = [fetch EXCEPT ![f] = "finally"]
  /\ served' = [served EXCEPT ![f] = IF served[f] = "none" THEN "broken" ELSE @]
  /\ UNCHANGED <<of, handle, insertvars, ref, blob, taskvars, storagevars, envvars>>

(* The client leaves: the awaiting generator is cancelled into its         *)
(* finally; one that never started or is suspended at its yield does not   *)
(* run again, which the background task of the response is for.            *)
LeaveFetch(f) ==
  /\ fetch[f] \in {"response", "reading"}
  /\ fetch' = [fetch EXCEPT ![f] = IF fetch[f] = "reading" THEN "cancelled" ELSE "background"]
  /\ served' = [served EXCEPT ![f] = "gone"]
  /\ UNCHANGED <<of, handle, insertvars, ref, blob, taskvars, storagevars, envvars>>

(* StreamHandle.close does nothing for a handle marked closed. *)
Close(f, result) ==
  handle' = IF handle[f] = "open" THEN [handle EXCEPT ![f] = result] ELSE handle

(* In a cancelled generator close marks the handle and may be cut off at   *)
(* its await, before the file or the connection is closed: the handle is   *)
(* cut, and every later close returns at once.                             *)
Finally(f) ==
  /\ \/ fetch[f] = "finally" /\ Close(f, "closed")
     \/ fetch[f] = "cancelled" /\ \E result \in {"closed", "cut"} : Close(f, result)
  /\ fetch' = [fetch EXCEPT ![f] = "background"]
  /\ UNCHANGED <<of, served, insertvars, ref, blob, taskvars, storagevars, envvars>>

(* Mutation of Background: the response has no background task. *)
BackgroundMissing(f) ==
  /\ fetch[f] = "background"
  /\ fetch' = [fetch EXCEPT ![f] = "done"]
  /\ UNCHANGED <<of, handle, served, insertvars, ref, blob, taskvars, storagevars, envvars>>

Background(f) ==
  /\ fetch[f] = "background"
  /\ Close(f, "closed")
  /\ fetch' = [fetch EXCEPT ![f] = "done"]
  /\ UNCHANGED <<of, served, insertvars, ref, blob, taskvars, storagevars, envvars>>

-----------------------------------------------------------------------------
(* The surroundings. *)

Failover ==
  /\ backend = "csb" /\ faults < MaxFaults
  /\ home' \in Server \ {home}
  /\ faults' = faults + 1
  /\ UNCHANGED <<insertvars, ref, blob, taskvars, storagevars, fetchvars, backend>>

Running == {"start", "put", "mark"}

(* The process dies with everything it keeps in memory, and its restarted  *)
(* successor knows nothing of it.                                          *)
Crash ==
  /\ faults < MaxFaults
  /\ faults' = faults + 1
  /\ pc' = [r \in Req |-> IF pc[r] \in {"stored", "failed"} THEN pc[r] ELSE "dead"]
  /\ upload' = [r \in Req |-> IF upload[r] \in Running THEN "lost" ELSE upload[r]]
  /\ op' = [a \in Actor |-> "none"]
  /\ target' = [a \in Actor |-> Absent]
  /\ server' = Absent /\ lock' = Absent
  /\ fetch' = [f \in Fetch |-> IF fetch[f] = "idle" THEN "idle" ELSE "done"]
  /\ handle' = [f \in Fetch |-> IF handle[f] = "open" THEN "closed" ELSE handle[f]]
  /\ UNCHANGED <<gone, experts, record, ref, blob, payload, of, served,
                 backend, home>>

InsertStep(r) ==
  \/ Serialize(r) \/ InsertRef(r) \/ InsertRefFails(r)
  \/ Insert(r) \/ InsertFails(r) \/ FinalizeCancelled(r)

CallStep(a) ==
  Authenticated(a) \/ ResolveEndpoint(a) \/ BucketAuth(a) \/ SendFails(a)

UploadStep(r) ==
  \/ StartUpload(r) \/ CallStep(r) \/ WriteBegins(r) \/ PutOk(r) \/ PutFailed(r)
  \/ MarkReady(r) \/ MarkReadyFails(r)

FetchStep(f) ==
  \/ CallStep(f) \/ OpenOk(f) \/ OpenFailed(f) \/ FetchTimeOut(f)
  \/ ReadChunk(f) \/ SendChunk(f) \/ ReadOver(f) \/ Finally(f) \/ Background(f)

Next ==
  \/ \E r \in Req : InsertStep(r) \/ UploadStep(r) \/ Cancel(r) \/ FilterRaises(r)
  \/ \E f \in Fetch : FetchRef(f) \/ FetchStep(f) \/ LeaveFetch(f)
  \/ Failover \/ Crash

(* The event loop runs what is ready, every await has its time-out, and a  *)
(* blob has an end.                                                        *)
Spec ==
  /\ Init /\ [][Next]_vars
  /\ \A r \in Req : WF_vars(InsertStep(r)) /\ WF_vars(UploadStep(r))
  /\ \A f \in Fetch : WF_vars(FetchStep(f)) /\ SF_vars(ReadOver(f))

-----------------------------------------------------------------------------
(* Properties *)

Labels == {"serialize", "ref", "stored", "failed", "cancelled", "dead"} \cup Inserting
Ops == {"none", "auth", "bucket", "send", "error"}
Fetching == {"open", "response", "reading", "finally", "cancelled", "background"}

(* Types of the variables; and the authentication lock is with a call that *)
(* authenticates, however its caller ended (async with in                  *)
(* _ensure_authenticated, cancelled by the time-out of the endpoint).      *)
TypeOK ==
  /\ pc \in [Req -> Labels] /\ gone \in [Req -> BOOLEAN]
  /\ experts \in [Req -> {"none", "data", "marker"}]
  /\ record \in [Req -> {"none", "plain", "data", "marker"}]
  /\ ref \in [Req -> {"none", "uploading", "ready"}]
  /\ blob \in [Req -> {"none", "partial", "data", "marker"}]
  /\ upload \in [Req -> {"none", "done", "failed", "lost"} \cup Running]
  /\ payload \in [Req -> {"none", "data", "marker"}]
  /\ backend \in Backends /\ home \in Server
  /\ op \in [Actor -> Ops]
  /\ target \in [Actor -> Server \cup {Absent}]
  /\ server \in Server \cup {Absent}
  /\ lock \in {Absent} \cup {a \in Actor : op[a] = "bucket"}
  /\ fetch \in [Fetch -> {"idle", "done"} \cup Fetching]
  /\ of \in [Fetch -> Req]
  /\ handle \in [Fetch -> {"none", "open", "closed", "cut"}]
  /\ served \in [Fetch -> {"none", "not found", "retry later", "failed", "broken", "gone", "data", "partial", "marker"}]
  /\ faults \in 0..MaxFaults

(* A reference that says ready belongs to a complete blob that holds the   *)
(* experts: never one that is being written, and never the marker of an    *)
(* earlier insertion of the same record (_extract, _upload_and_mark_ready).*)
ReadyHasBlob == \A r \in Req : ref[r] = "ready" => blob[r] = "data"

(* A record with a marker has a reference, and its experts are in the blob *)
(* or an upload is under way, unless the upload failed or died with its    *)
(* process.  And as long as the client is there, a record that could not   *)
(* be stored leaves the context without a marker (the roll-back in insert),*)
(* so that the experts are never lost for the one who stores them again.   *)
ExpertsKept ==
  /\ \A r \in Req : record[r] = "marker" =>
       /\ ref[r] # "none" /\ payload[r] = "data"
       /\ upload[r] = "done" => ref[r] = "ready"
       /\ upload[r] \in Running \cup {"done", "failed", "lost"}
  /\ \A r \in Req : pc[r] = "failed" /\ ~gone[r] => experts[r] # "marker"

(* The endpoint never hands out a blob that is incomplete or is not the    *)
(* experts, although it checks the status and opens the blob in two steps. *)
ServesExperts == \A f \in Fetch : served[f] \notin {"partial", "marker"}

(* A stream handle is released at the end of its response, by a reading    *)
(* error, or when its client leaves before or between two reads (the       *)
(* generator's finally and the BackgroundTask).  The exception is a client *)
(* that leaves during a read: the close of the cancelled generator may set *)
(* _closed and be cut off at its await.  The BackgroundTask, which the     *)
(* comment at routes.py:1145 counts on, is a no-op then, and no code of    *)
(* the repository releases the handle.                                     *)
HandleReleased ==
  \A f \in Fetch :
    handle[f] = "open" ~> \/ handle[f] = "closed"
                          \/ handle[f] = "cut" /\ served[f] = "gone"

(* Every upload ends, and an upload that did not fail makes the blob       *)
(* available: no call waits for ever for the lock of the authentication.   *)
UploadsEnd ==
  \A r \in Req : upload[r] = "start" ~> ref[r] = "ready" \/ upload[r] \in {"failed", "lost"}
=============================================================================
