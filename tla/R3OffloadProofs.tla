-------------------------- MODULE R3OffloadProofs --------------------------
(***************************************************************************)
(* Proofs about R3Offload, for any number of requests, fetches, servers    *)
(* and faults: its safety invariants.                                      *)
(*                                                                         *)
(* IInv adds to TypeOK, for every request, how the insertion, its upload,  *)
(* the reference and the blob go together (Kept), and, for every fetch,    *)
(* that what it reads is ready (Reads).                                    *)
(***************************************************************************)
EXTENDS R3Offload, FiniteSetTheorems, TLAPS

(* While the experts are in the context no upload of them was started; one *)
(* that was started has the bytes of the experts and a reference, and only *)
(* a finished one made it ready.  A marker in the context or the record    *)
(* comes with an upload; one in the context of a request that is to be     *)
(* stored again, or could not be stored, belongs to a client that left.    *)
Kept(r) ==
  /\ pc[r] \in {"serialize", "ref", "oversize", "degrade"} =>
       experts[r] = "data" /\ upload[r] = "none"
  /\ pc[r] = "insert" => experts[r] = "marker"
  /\ pc[r] = "plain" => experts[r] # "data"
  /\ pc[r] = "cancelled" => gone[r] /\ (experts[r] = "data" => upload[r] = "none")
  /\ pc[r] \in {"plain", "failed"} /\ experts[r] = "marker" => gone[r]
  /\ experts[r] = "marker" \/ record[r] = "marker" => upload[r] # "none"
  /\ upload[r] # "none" => ref[r] # "none" /\ payload[r] = "data"
  /\ op[r] # "none" => upload[r] = "put"
  /\ upload[r] \in {"mark", "done"} => blob[r] = "data"
  /\ upload[r] = "done" <=> ref[r] = "ready"

(* A fetch calls the storage while it opens the blob, and what it opens    *)
(* and reads is ready.                                                     *)
Reads(f) ==
  /\ op[f] # "none" => fetch[f] = "open"
  /\ fetch[f] \in {"open", "response", "reading"} => ref[of[f]] = "ready"
  /\ served[f] \notin {"partial", "marker"}

IInv ==
  /\ TypeOK
  /\ \A r \in Req : Kept(r)
  /\ \A f \in Fetch : Reads(f)
-----------------------------------------------------------------------------
USE R3Assumption

(* A step of request r leaves the other requests and the fetches alone. *)
Frame(r) ==
  /\ \A q \in Req \ {r} :
       /\ pc'[q] = pc[q] /\ gone'[q] = gone[q] /\ experts'[q] = experts[q] /\ record'[q] = record[q]
       /\ ref'[q] = ref[q] /\ blob'[q] = blob[q] /\ upload'[q] = upload[q]
       /\ payload'[q] = payload[q] /\ op'[q] = op[q]
  /\ \A f \in Fetch : op'[f] = op[f] /\ fetch'[f] = fetch[f] /\ served'[f] = served[f]
  /\ of' = of
  /\ ref[r] = "ready" => ref'[r] = "ready"

(* Such a step keeps the invariant if it keeps that of its request. *)
LEMMA Preserved ==
  ASSUME IInv, NEW r \in Req, TypeOK', Frame(r), Kept(r)'
  PROVE  IInv'
<1>1. \A q \in Req : Kept(q) => q = r \/ Kept(q)'
  BY DEF Frame, Kept
<1>2. of \in [Fetch -> Req]
  BY DEF IInv, TypeOK
<1>3. ASSUME NEW f \in Fetch PROVE Reads(f)'
  <2>1. Reads(f) /\ of[f] \in Req
    BY <1>2 DEF IInv
  <2>2. ref[of[f]] = "ready" => ref'[of[f]] = "ready"
    BY <2>1 DEF Frame
  <2> QED BY <2>1, <2>2 DEF Frame, Reads
<1> QED BY <1>1, <1>3 DEF IInv

(* The experts are serialised, or stay in the record. *)
LEMMA SerializeKeeps ==
  ASSUME IInv, NEW r \in Req, Serialize(r)
  PROVE  IInv'
<1>1. TypeOK /\ Kept(r)
  BY DEF IInv
<1>2. /\ pc[r] = "serialize"
      /\ \E l \in {"ref", "oversize", "degrade"} : pc' = [pc EXCEPT ![r] = l]
      /\ UNCHANGED <<gone, experts, record, ref, blob, upload, payload, op, target, server,
                     lock, fetch, of, handle, served, backend, home, faults>>
  BY DEF Serialize, Goto, insertvars, taskvars, storagevars, fetchvars, envvars
<1>3. /\ pc \in [Req -> Labels]
  BY <1>1 DEF TypeOK
<1>4. /\ pc' \in [Req -> Labels]
  BY <1>1, <1>2, <1>3 DEF Labels, Inserting, Running, Ops, Actor, Kept
<1>6. TypeOK'
  BY <1>1, <1>2, <1>4 DEF TypeOK
<1>7. Frame(r)
  BY <1>2, <1>3 DEF Frame, Actor
<1>8. Kept(r)'
  BY <1>1, <1>2, <1>3 DEF Kept, Inserting, Actor
<1> QED BY <1>6, <1>7, <1>8, Preserved

(* The marker replaces the experts together with the start of the upload. *)
LEMMA InsertRefKeeps ==
  ASSUME IInv, NEW r \in Req, InsertRef(r)
  PROVE  IInv'
<1>1. TypeOK /\ Kept(r)
  BY DEF IInv
<1>2. /\ pc[r] = "ref"
      /\ ref' = IF ref[r] = "none" THEN [ref EXCEPT ![r] = "uploading"] ELSE ref
      /\ upload' = [upload EXCEPT ![r] = "start"]
      /\ payload' = [payload EXCEPT ![r] = experts[r]]
      /\ experts' = [experts EXCEPT ![r] = "marker"]
      /\ pc' = [pc EXCEPT ![r] = "insert"]
      /\ UNCHANGED <<gone, record, blob, op, target, server, lock, fetch, of, handle, served,
                     backend, home, faults>>
  BY DEF InsertRef, Goto, RefInserted, Marked, insertvars, taskvars, storagevars, fetchvars,
         envvars
<1>3. /\ pc \in [Req -> Labels]
      /\ experts \in [Req -> {"none", "data", "marker"}]
      /\ ref \in [Req -> {"none", "uploading", "ready"}]
      /\ upload \in [Req -> {"none", "done", "failed", "lost"} \cup Running]
      /\ payload \in [Req -> {"none", "data", "marker"}]
  BY <1>1 DEF TypeOK
<1>4. /\ pc' \in [Req -> Labels]
      /\ experts' \in [Req -> {"none", "data", "marker"}]
      /\ ref' \in [Req -> {"none", "uploading", "ready"}]
      /\ upload' \in [Req -> {"none", "done", "failed", "lost"} \cup Running]
      /\ payload' \in [Req -> {"none", "data", "marker"}]
  BY <1>1, <1>2, <1>3 DEF Labels, Inserting, Running, Ops, Actor, Kept
<1>6. TypeOK'
  BY <1>1, <1>2, <1>4 DEF TypeOK
<1>7. Frame(r)
  BY <1>2, <1>3 DEF Frame, Actor
<1>8. Kept(r)'
  BY <1>1, <1>2, <1>3 DEF Kept, Inserting, Actor
<1> QED BY <1>6, <1>7, <1>8, Preserved

(* Without a reference the experts stay. *)
LEMMA InsertRefFailsKeeps ==
  ASSUME IInv, NEW r \in Req, InsertRefFails(r)
  PROVE  IInv'
<1>1. TypeOK /\ Kept(r)
  BY DEF IInv
<1>2. /\ pc[r] = "ref"
      /\ ref' = ref \/ (ref[r] = "none" /\ ref' = [ref EXCEPT ![r] = "uploading"])
      /\ pc' = [pc EXCEPT ![r] = "degrade"]
      /\ UNCHANGED <<gone, experts, record, blob, upload, payload, op, target, server, lock,
                     fetch, of, handle, served, backend, home, faults>>
  BY DEF InsertRefFails, Goto, RefInserted, insertvars, taskvars, storagevars, fetchvars,
         envvars
<1>3. /\ pc \in [Req -> Labels]
      /\ ref \in [Req -> {"none", "uploading", "ready"}]
  BY <1>1 DEF TypeOK
<1>4. /\ pc' \in [Req -> Labels]
      /\ ref' \in [Req -> {"none", "uploading", "ready"}]
  BY <1>1, <1>2, <1>3 DEF Labels, Inserting, Running, Ops, Actor, Kept
<1>6. TypeOK'
  BY <1>1, <1>2, <1>4 DEF TypeOK
<1>7. Frame(r)
  BY <1>2, <1>3 DEF Frame, Actor
<1>8. Kept(r)'
  BY <1>1, <1>2, <1>3 DEF Kept, Inserting, Actor
<1> QED BY <1>6, <1>7, <1>8, Preserved

(* The record is stored. *)
LEMMA InsertKeeps ==
  ASSUME IInv, NEW r \in Req, Insert(r)
  PROVE  IInv'
<1>1. TypeOK /\ Kept(r)
  BY DEF IInv
<1>2. /\ pc[r] \in Inserting
      /\ record' = [record EXCEPT ![r] = IF experts[r] = "none" THEN "plain" ELSE experts[r]]
      /\ pc' = [pc EXCEPT ![r] = "stored"]
      /\ UNCHANGED <<gone, experts, ref, blob, upload, payload, op, target, server, lock, fetch,
                     of, handle, served, backend, home, faults>>
  BY DEF Insert, Goto, Inserted, insertvars, taskvars, storagevars, fetchvars, envvars
<1>3. /\ pc \in [Req -> Labels]
      /\ record \in [Req -> {"none", "plain", "data", "marker"}]
      /\ experts[r] \in {"none", "data", "marker"}
  BY <1>1 DEF TypeOK
<1>4. /\ pc' \in [Req -> Labels]
      /\ record' \in [Req -> {"none", "plain", "data", "marker"}]
  BY <1>1, <1>2, <1>3 DEF Labels, Inserting, Running, Ops, Actor, Kept
<1>6. TypeOK'
  BY <1>1, <1>2, <1>4 DEF TypeOK
<1>7. Frame(r)
  BY <1>2, <1>3 DEF Frame, Actor
<1>8. Kept(r)'
  BY <1>1, <1>2, <1>3 DEF Kept, Inserting, Actor
<1> QED BY <1>6, <1>7, <1>8, Preserved

(* The record is not stored, or nobody knows. *)
LEMMA InsertFailsKeeps ==
  ASSUME IInv, NEW r \in Req, InsertFails(r)
  PROVE  IInv'
<1>1. TypeOK /\ Kept(r)
  BY DEF IInv
<1>2. /\ pc[r] \in Inserting
      /\ \/ record' = record
         \/ record' = [record EXCEPT ![r] = IF experts[r] = "none" THEN "plain" ELSE experts[r]]
      /\ experts' = IF pc[r] = "insert" THEN [experts EXCEPT ![r] = "data"] ELSE experts
      /\ pc' = [pc EXCEPT ![r] = IF pc[r] = "oversize" THEN "degrade" ELSE "failed"]
      /\ UNCHANGED <<gone, ref, blob, upload, payload, op, target, server, lock, fetch, of,
                     handle, served, backend, home, faults>>
  BY DEF InsertFails, Goto, Inserted, Restored, insertvars, taskvars, storagevars, fetchvars,
         envvars
<1>3. /\ pc \in [Req -> Labels]
      /\ experts \in [Req -> {"none", "data", "marker"}]
      /\ record \in [Req -> {"none", "plain", "data", "marker"}]
      /\ experts[r] \in {"none", "data", "marker"}
  BY <1>1 DEF TypeOK
<1>4. /\ pc' \in [Req -> Labels]
      /\ experts' \in [Req -> {"none", "data", "marker"}]
      /\ record' \in [Req -> {"none", "plain", "data", "marker"}]
  BY <1>1, <1>2, <1>3 DEF Labels, Inserting, Running, Ops, Actor, Kept
<1>6. TypeOK'
  BY <1>1, <1>2, <1>4 DEF TypeOK
<1>7. Frame(r)
  BY <1>2, <1>3 DEF Frame, Actor
<1>8. Kept(r)'
  BY <1>1, <1>2, <1>3 DEF Kept, Inserting, Actor
<1> QED BY <1>6, <1>7, <1>8, Preserved

(* The client leaves. *)
LEMMA CancelKeeps ==
  ASSUME IInv, NEW r \in Req, Cancel(r)
  PROVE  IInv'
<1>1. TypeOK /\ Kept(r)
  BY DEF IInv
<1>2. /\ pc[r] \in {"serialize", "ref"} \cup Inserting
      /\ ref' = ref \/ (ref[r] = "none" /\ ref' = [ref EXCEPT ![r] = "uploading"])
      /\ \/ record' = record
         \/ record' = [record EXCEPT ![r] = IF experts[r] = "none" THEN "plain" ELSE experts[r]]
      /\ gone' = [gone EXCEPT ![r] = TRUE]
      /\ pc' = [pc EXCEPT ![r] = "cancelled"]
      /\ UNCHANGED <<experts, blob, upload, payload, op, target, server, lock, fetch, of,
                     handle, served, backend, home, faults>>
  BY DEF Cancel, Goto, Inserted, RefInserted, insertvars, taskvars, storagevars, fetchvars,
         envvars
<1>3. /\ pc \in [Req -> Labels]
      /\ gone \in [Req -> BOOLEAN]
      /\ record \in [Req -> {"none", "plain", "data", "marker"}]
      /\ experts[r] \in {"none", "data", "marker"}
      /\ ref \in [Req -> {"none", "uploading", "ready"}]
  BY <1>1 DEF TypeOK
<1>4. /\ pc' \in [Req -> Labels]
      /\ gone' \in [Req -> BOOLEAN]
      /\ record' \in [Req -> {"none", "plain", "data", "marker"}]
      /\ ref' \in [Req -> {"none", "uploading", "ready"}]
  BY <1>1, <1>2, <1>3 DEF Labels, Inserting, Running, Ops, Actor, Kept
<1>6. TypeOK'
  BY <1>1, <1>2, <1>4 DEF TypeOK
<1>7. Frame(r)
  BY <1>2, <1>3 DEF Frame, Actor
<1>8. Kept(r)'
  BY <1>1, <1>2, <1>3 DEF Kept, Inserting, Actor
<1> QED BY <1>6, <1>7, <1>8, Preserved

(* A cancelled stream is stored with what its context has by then. *)
LEMMA FinalizeCancelledKeeps ==
  ASSUME IInv, NEW r \in Req, FinalizeCancelled(r)
  PROVE  IInv'
<1>1. TypeOK /\ Kept(r)
  BY DEF IInv
<1>2. /\ pc[r] = "cancelled"
      /\ pc' = [pc EXCEPT ![r] = IF experts[r] = "data" THEN "serialize" ELSE "plain"]
      /\ UNCHANGED <<gone, experts, record, ref, blob, upload, payload, op, target, server,
                     lock, fetch, of, handle, served, backend, home, faults>>
  BY DEF FinalizeCancelled, Goto, Entry, insertvars, taskvars, storagevars, fetchvars, envvars
<1>3. /\ pc \in [Req -> Labels]
  BY <1>1 DEF TypeOK
<1>4. /\ pc' \in [Req -> Labels]
  BY <1>1, <1>2, <1>3 DEF Labels, Inserting, Running, Ops, Actor, Kept
<1>6. TypeOK'
  BY <1>1, <1>2, <1>4 DEF TypeOK
<1>7. Frame(r)
  BY <1>2, <1>3 DEF Frame, Actor
<1>8. Kept(r)'
  BY <1>1, <1>2, <1>3 DEF Kept, Inserting, Actor
<1> QED BY <1>6, <1>7, <1>8, Preserved

(* A response without its experts is stored again. *)
LEMMA FilterRaisesKeeps ==
  ASSUME IInv, NEW r \in Req, FilterRaises(r)
  PROVE  IInv'
<1>1. TypeOK /\ Kept(r)
  BY DEF IInv
<1>2. /\ pc[r] \in {"stored", "failed"}
      /\ experts' = [experts EXCEPT ![r] = "none"]
      /\ pc' = [pc EXCEPT ![r] = "plain"]
      /\ UNCHANGED <<gone, record, ref, blob, upload, payload, op, target, server, lock, fetch,
                     of, handle, served, backend, home, faults>>
  BY DEF FilterRaises, Goto, Entry, insertvars, taskvars, storagevars, fetchvars, envvars
<1>3. /\ pc \in [Req -> Labels]
      /\ experts \in [Req -> {"none", "data", "marker"}]
  BY <1>1 DEF TypeOK
<1>4. /\ pc' \in [Req -> Labels]
      /\ experts' \in [Req -> {"none", "data", "marker"}]
  BY <1>1, <1>2, <1>3 DEF Labels, Inserting, Running, Ops, Actor, Kept
<1>6. TypeOK'
  BY <1>1, <1>2, <1>4 DEF TypeOK
<1>7. Frame(r)
  BY <1>2, <1>3 DEF Frame, Actor
<1>8. Kept(r)'
  BY <1>1, <1>2, <1>3 DEF Kept, Inserting, Actor
<1> QED BY <1>6, <1>7, <1>8, Preserved

(* An upload begins. *)
LEMMA StartUploadKeeps ==
  ASSUME IInv, NEW r \in Req, StartUpload(r)
  PROVE  IInv'
<1>1. TypeOK /\ Kept(r)
  BY DEF IInv
<1>2. /\ upload[r] = "start"
      /\ upload' = [upload EXCEPT ![r] = "put"]
      /\ op' = [op EXCEPT ![r] = "auth"]
      /\ UNCHANGED <<pc, gone, experts, record, ref, blob, payload, target, server, lock, fetch,
                     of, handle, served, backend, home, faults>>
  BY DEF StartUpload, Call, insertvars, taskvars, storagevars, fetchvars, envvars
<1>3. /\ upload \in [Req -> {"none", "done", "failed", "lost"} \cup Running]
      /\ op \in [Actor -> Ops]
  BY <1>1 DEF TypeOK
<1>4. /\ upload' \in [Req -> {"none", "done", "failed", "lost"} \cup Running]
      /\ op' \in [Actor -> Ops]
  BY <1>1, <1>2, <1>3 DEF Labels, Inserting, Running, Ops, Actor, Kept
<1>5. lock' \in {Absent} \cup {a \in Actor : op'[a] = "bucket"}
  BY <1>1, <1>2, <1>3 DEF TypeOK, Kept, Actor
<1>6. TypeOK'
  BY <1>1, <1>2, <1>4, <1>5 DEF TypeOK
<1>7. Frame(r)
  BY <1>2, <1>3 DEF Frame, Actor
<1>8. Kept(r)'
  BY <1>1, <1>2, <1>3 DEF Kept, Inserting, Actor
<1> QED BY <1>6, <1>7, <1>8, Preserved

(* A local file is there before it is complete. *)
LEMMA WriteBeginsKeeps ==
  ASSUME IInv, NEW r \in Req, WriteBegins(r)
  PROVE  IInv'
<1>1. TypeOK /\ Kept(r)
  BY DEF IInv
<1>2. /\ op[r] = "send" /\ blob[r] = "none"
      /\ blob' = [blob EXCEPT ![r] = "partial"]
      /\ UNCHANGED <<pc, gone, experts, record, ref, upload, payload, op, target, server, lock,
                     fetch, of, handle, served, backend, home, faults>>
  BY DEF WriteBegins, insertvars, taskvars, storagevars, fetchvars, envvars
<1>3. /\ blob \in [Req -> {"none", "partial", "data", "marker"}]
  BY <1>1 DEF TypeOK
<1>4. /\ blob' \in [Req -> {"none", "partial", "data", "marker"}]
  BY <1>1, <1>2, <1>3 DEF Labels, Inserting, Running, Ops, Actor, Kept
<1>6. TypeOK'
  BY <1>1, <1>2, <1>4 DEF TypeOK
<1>7. Frame(r)
  BY <1>2, <1>3 DEF Frame, Actor
<1>8. Kept(r)'
  BY <1>1, <1>2, <1>3 DEF Kept, Inserting, Actor
<1> QED BY <1>6, <1>7, <1>8, Preserved

(* The blob is complete. *)
LEMMA PutOkKeeps ==
  ASSUME IInv, NEW r \in Req, PutOk(r)
  PROVE  IInv'
<1>1. TypeOK /\ Kept(r)
  BY DEF IInv
<1>2. /\ op[r] = "send"
      /\ op' = [op EXCEPT ![r] = "none"]
      /\ target' = [target EXCEPT ![r] = Absent]
      /\ blob' = [blob EXCEPT ![r] = payload[r]]
      /\ upload' = [upload EXCEPT ![r] = "mark"]
      /\ UNCHANGED <<pc, gone, experts, record, ref, payload, server, lock, fetch, of, handle,
                     served, backend, home, faults>>
  BY DEF PutOk, insertvars, taskvars, storagevars, fetchvars, envvars
<1>3. /\ blob \in [Req -> {"none", "partial", "data", "marker"}]
      /\ upload \in [Req -> {"none", "done", "failed", "lost"} \cup Running]
      /\ op \in [Actor -> Ops]
      /\ target \in [Actor -> Server \cup {Absent}]
  BY <1>1 DEF TypeOK
<1>4. /\ blob' \in [Req -> {"none", "partial", "data", "marker"}]
      /\ upload' \in [Req -> {"none", "done", "failed", "lost"} \cup Running]
      /\ op' \in [Actor -> Ops]
      /\ target' \in [Actor -> Server \cup {Absent}]
  BY <1>1, <1>2, <1>3 DEF Labels, Inserting, Running, Ops, Actor, Kept
<1>5. lock' \in {Absent} \cup {a \in Actor : op'[a] = "bucket"}
  BY <1>1, <1>2, <1>3 DEF TypeOK, Kept, Actor
<1>6. TypeOK'
  BY <1>1, <1>2, <1>4, <1>5 DEF TypeOK
<1>7. Frame(r)
  BY <1>2, <1>3 DEF Frame, Actor
<1>8. Kept(r)'
  BY <1>1, <1>2, <1>3 DEF Kept, Inserting, Actor
<1> QED BY <1>6, <1>7, <1>8, Preserved

(* The blob is not stored, and its reference never ready. *)
LEMMA PutFailedKeeps ==
  ASSUME IInv, NEW r \in Req, PutFailed(r)
  PROVE  IInv'
<1>1. TypeOK /\ Kept(r)
  BY DEF IInv
<1>2. /\ op[r] = "error"
      /\ op' = [op EXCEPT ![r] = "none"]
      /\ upload' = [upload EXCEPT ![r] = "failed"]
      /\ UNCHANGED <<pc, gone, experts, record, ref, blob, payload, target, server, lock, fetch,
                     of, handle, served, backend, home, faults>>
  BY DEF PutFailed, insertvars, taskvars, storagevars, fetchvars, envvars
<1>3. /\ upload \in [Req -> {"none", "done", "failed", "lost"} \cup Running]
      /\ op \in [Actor -> Ops]
  BY <1>1 DEF TypeOK
<1>4. /\ upload' \in [Req -> {"none", "done", "failed", "lost"} \cup Running]
      /\ op' \in [Actor -> Ops]
  BY <1>1, <1>2, <1>3 DEF Labels, Inserting, Running, Ops, Actor, Kept
<1>5. lock' \in {Absent} \cup {a \in Actor : op'[a] = "bucket"}
  BY <1>1, <1>2, <1>3 DEF TypeOK, Kept, Actor
<1>6. TypeOK'
  BY <1>1, <1>2, <1>4, <1>5 DEF TypeOK
<1>7. Frame(r)
  BY <1>2, <1>3 DEF Frame, Actor
<1>8. Kept(r)'
  BY <1>1, <1>2, <1>3 DEF Kept, Inserting, Actor
<1> QED BY <1>6, <1>7, <1>8, Preserved

(* A reference becomes ready after its blob. *)
LEMMA MarkReadyKeeps ==
  ASSUME IInv, NEW r \in Req, MarkReady(r)
  PROVE  IInv'
<1>1. TypeOK /\ Kept(r)
  BY DEF IInv
<1>2. /\ upload[r] = "mark"
      /\ ref' = IF ref[r] = "uploading" THEN [ref EXCEPT ![r] = "ready"] ELSE ref
      /\ upload' = [upload EXCEPT ![r] = "done"]
      /\ UNCHANGED <<pc, gone, experts, record, blob, payload, op, target, server, lock, fetch,
                     of, handle, served, backend, home, faults>>
  BY DEF MarkReady, insertvars, taskvars, storagevars, fetchvars, envvars
<1>3. /\ ref \in [Req -> {"none", "uploading", "ready"}]
      /\ upload \in [Req -> {"none", "done", "failed", "lost"} \cup Running]
  BY <1>1 DEF TypeOK
<1>4. /\ ref' \in [Req -> {"none", "uploading", "ready"}]
      /\ upload' \in [Req -> {"none", "done", "failed", "lost"} \cup Running]
  BY <1>1, <1>2, <1>3 DEF Labels, Inserting, Running, Ops, Actor, Kept
<1>6. TypeOK'
  BY <1>1, <1>2, <1>4 DEF TypeOK
<1>7. Frame(r)
  BY <1>2, <1>3 DEF Frame, Actor
<1>8. Kept(r)'
  BY <1>1, <1>2, <1>3 DEF Kept, Inserting, Actor
<1> QED BY <1>6, <1>7, <1>8, Preserved

(* The reference stays as it is, or nobody knows. *)
LEMMA MarkReadyFailsKeeps ==
  ASSUME IInv, NEW r \in Req, MarkReadyFails(r)
  PROVE  IInv'
<1>1. TypeOK /\ Kept(r)
  BY DEF IInv
<1>2. /\ upload[r] = "mark"
      /\ upload' = [upload EXCEPT ![r] = "failed"]
      /\ UNCHANGED <<pc, gone, experts, record, ref, blob, payload, op, target, server, lock,
                     fetch, of, handle, served, backend, home, faults>>
  BY DEF MarkReadyFails, insertvars, taskvars, storagevars, fetchvars, envvars
<1>3. /\ upload \in [Req -> {"none", "done", "failed", "lost"} \cup Running]
  BY <1>1 DEF TypeOK
<1>4. /\ upload' \in [Req -> {"none", "done", "failed", "lost"} \cup Running]
  BY <1>1, <1>2, <1>3 DEF Labels, Inserting, Running, Ops, Actor, Kept
<1>6. TypeOK'
  BY <1>1, <1>2, <1>4 DEF TypeOK
<1>7. Frame(r)
  BY <1>2, <1>3 DEF Frame, Actor
<1>8. Kept(r)'
  BY <1>1, <1>2, <1>3 DEF Kept, Inserting, Actor
<1> QED BY <1>6, <1>7, <1>8, Preserved

-----------------------------------------------------------------------------
(* Calls of the storage, by an upload or a fetch *)

(* The authentication and the sending of a call. *)
LEMMA CallKeeps ==
  ASSUME IInv, NEW a \in Actor, CallStep(a)
  PROVE  IInv'
<1>1. TypeOK
  BY DEF IInv
<1>2. /\ op[a] \in {"auth", "bucket", "send"}
      /\ \E l \in {"send", "bucket", "error"} :
           /\ op' = [op EXCEPT ![a] = l]
           /\ lock' = Absent \/ lock' = lock \/ (lock' = a /\ l = "bucket")
           /\ lock' = lock => op[a] # "bucket" \/ lock = Absent
      /\ \E s \in Server \cup {Absent} : target' = [target EXCEPT ![a] = s] \/ target' = target
      /\ server' \in Server \cup {Absent}
      /\ blob' = blob \/ (a \in Req /\ op[a] = "send" /\ blob' = [blob EXCEPT ![a] = "partial"])
      /\ UNCHANGED <<insertvars, ref, taskvars, fetchvars, envvars>>
  <2>1. /\ home \in Server /\ server \in Server \cup {Absent}
        /\ target \in [Actor -> Server \cup {Absent}]
    BY <1>1 DEF TypeOK
  <2>2. CASE Authenticated(a)
    BY <2>1, <2>2 DEF Authenticated
  <2>3. CASE ResolveEndpoint(a)
    BY <2>1, <2>3 DEF ResolveEndpoint
  <2>4. CASE BucketAuth(a)
    BY <2>1, <2>4 DEF BucketAuth
  <2>5. CASE SendFails(a)
    BY <2>1, <2>5 DEF SendFails, InvalidateAuth
  <2> QED BY <2>2, <2>3, <2>4, <2>5 DEF CallStep
<1>3. PICK l \in {"send", "bucket", "error"} :
        /\ op' = [op EXCEPT ![a] = l]
        /\ lock' = Absent \/ lock' = lock \/ (lock' = a /\ l = "bucket")
        /\ lock' = lock => op[a] # "bucket" \/ lock = Absent
  BY <1>2
<1>4. op \in [Actor -> Ops] /\ blob \in [Req -> {"none", "partial", "data", "marker"}]
      /\ target \in [Actor -> Server \cup {Absent}]
  BY <1>1 DEF TypeOK
<1>5. op' \in [Actor -> Ops] /\ blob' \in [Req -> {"none", "partial", "data", "marker"}]
      /\ target' \in [Actor -> Server \cup {Absent}]
  BY <1>2, <1>3, <1>4 DEF Ops
<1>6. lock' \in {Absent} \cup {b \in Actor : op'[b] = "bucket"}
  <2>1. lock = Absent \/ (lock \in Actor /\ op[lock] = "bucket")
    BY <1>1 DEF TypeOK
  <2>2. CASE lock' = lock /\ lock # Absent
    BY <1>3, <1>4, <2>1, <2>2
  <2>3. CASE lock' = a /\ l = "bucket"
    BY <1>3, <1>4, <2>3
  <2> QED BY <1>3, <2>2, <2>3
<1>7. TypeOK'
  BY <1>1, <1>2, <1>5, <1>6 DEF TypeOK, insertvars, taskvars, fetchvars, envvars
<1>8. \A b \in Actor : op'[b] # "none" => op[b] # "none"
  BY <1>2, <1>3, <1>4
<1>9. \A r \in Req : Kept(r) => Kept(r)'
  <2>1. \A r \in Req : blob'[r] = blob[r] \/ op[r] # "none"
    BY <1>2, <1>4
  <2> QED BY <1>2, <1>8, <2>1 DEF Kept, insertvars, taskvars, Actor
<1>10. \A f \in Fetch : Reads(f) => Reads(f)'
  BY <1>2, <1>8 DEF Reads, fetchvars, Actor
<1> QED BY <1>7, <1>9, <1>10 DEF IInv

-----------------------------------------------------------------------------
(* The endpoint *)

Results == {"none", "not found", "retry later", "failed", "broken", "gone", "data", "partial",
            "marker"}

(* A step of fetch f leaves the requests and the other fetches alone. *)
FetchFrame(f) ==
  /\ UNCHANGED <<insertvars, ref, blob, taskvars, envvars, of>>
  /\ \A a \in Actor \ {f} : op'[a] = op[a]
  /\ \A g \in Fetch \ {f} : fetch'[g] = fetch[g] /\ served'[g] = served[g]

(* Such a step keeps the invariant if it keeps that of its fetch. *)
LEMMA FetchPreserved ==
  ASSUME IInv, NEW f \in Fetch, TypeOK', FetchFrame(f), Reads(f)'
  PROVE  IInv'
<1>1. \A r \in Req : op'[r] = op[r]
  BY DEF FetchFrame, Actor
<1>2. \A r \in Req : Kept(r) => Kept(r)'
  BY <1>1 DEF FetchFrame, Kept, insertvars, taskvars
<1>3. \A g \in Fetch : Reads(g) => g = f \/ Reads(g)'
  BY DEF FetchFrame, Reads, Actor
<1> QED BY <1>2, <1>3 DEF IInv

(* A fetch goes on only with a reference that is ready. *)
LEMMA FetchRefKeeps ==
  ASSUME IInv, NEW f \in Fetch, FetchRef(f)
  PROVE  IInv'
<1>1. TypeOK /\ Reads(f)
  BY DEF IInv
<1>2. /\ fetch[f] = "idle"
      /\ \/ /\ fetch' = [fetch EXCEPT ![f] = "done"] /\ op' = op
            /\ \E what \in {"not found", "retry later", "failed"} :
                 served' = [served EXCEPT ![f] = what]
         \/ /\ fetch' = [fetch EXCEPT ![f] = "open"] /\ ref[of[f]] = "ready"
            /\ op' = [op EXCEPT ![f] = "auth"] /\ served' = served
      /\ UNCHANGED <<pc, gone, experts, record, ref, blob, upload, payload, target, server,
                     lock, of, handle, backend, home, faults>>
  <2>1. Lookup(f) \in {"not found", "retry later", "ready"}
        /\ (Lookup(f) = "ready" => ref[of[f]] = "ready")
    <3>1. ref[of[f]] \in {"none", "uploading", "ready"}
      BY <1>1 DEF TypeOK
    <3> QED BY <3>1 DEF Lookup
  <2>2. UNCHANGED <<pc, gone, experts, record, ref, blob, upload, payload, target, server,
                    lock, of, handle, backend, home, faults>>
    BY DEF FetchRef, insertvars, taskvars, envvars
  <2> HIDE DEF Lookup
  <2> QED BY <2>1, <2>2 DEF FetchRef, Answer, Call
<1>3. /\ fetch \in [Fetch -> {"idle", "done"} \cup Fetching]
      /\ served \in [Fetch -> Results]
      /\ op \in [Actor -> Ops]
      /\ of[f] \in Req /\ Kept(of[f])
  BY <1>1 DEF IInv, TypeOK, Results
<1>4. /\ fetch' \in [Fetch -> {"idle", "done"} \cup Fetching]
      /\ served' \in [Fetch -> Results]
      /\ op' \in [Actor -> Ops]
  <2>1. \A l \in {"done", "open"} :
          [fetch EXCEPT ![f] = l] \in [Fetch -> {"idle", "done"} \cup Fetching]
    BY <1>3 DEF Fetching
  <2>2. \A what \in {"not found", "retry later", "failed"} :
          [served EXCEPT ![f] = what] \in [Fetch -> Results]
    BY <1>3 DEF Results
  <2>3. [op EXCEPT ![f] = "auth"] \in [Actor -> Ops]
    BY <1>3 DEF Ops, Actor
  <2>4. CASE fetch' = [fetch EXCEPT ![f] = "done"] /\ op' = op
    BY ONLY <1>2, <1>3, <2>1, <2>2, <2>4
  <2>5. CASE op' = [op EXCEPT ![f] = "auth"] /\ served' = served
    BY ONLY <1>2, <1>3, <2>1, <2>3, <2>5
  <2> QED BY ONLY <1>2, <2>4, <2>5
<1>5. lock' \in {Absent} \cup {a \in Actor : op'[a] = "bucket"}
  BY <1>1, <1>2, <1>3 DEF TypeOK, Reads, Actor
<1>6. TypeOK'
  BY <1>1, <1>2, <1>4, <1>5 DEF TypeOK, Results
<1>7. FetchFrame(f)
  BY <1>2, <1>3 DEF FetchFrame, insertvars, taskvars, envvars
<1>8. Reads(f)'
  BY <1>1, <1>2, <1>3 DEF Reads, Kept, Actor
<1> QED BY <1>6, <1>7, <1>8, FetchPreserved

(* The blob is open. *)
LEMMA OpenOkKeeps ==
  ASSUME IInv, NEW f \in Fetch, OpenOk(f)
  PROVE  IInv'
<1>1. TypeOK /\ Reads(f)
  BY DEF IInv
<1>2. /\ op[f] = "send"
      /\ op' = [op EXCEPT ![f] = "none"]
      /\ target' = [target EXCEPT ![f] = Absent]
      /\ handle' = [handle EXCEPT ![f] = "open"]
      /\ fetch' = [fetch EXCEPT ![f] = "response"]
      /\ UNCHANGED <<pc, gone, experts, record, ref, blob, upload, payload, server, lock, of,
                     served, backend, home, faults>>
  BY DEF OpenOk, insertvars, taskvars, storagevars, fetchvars, envvars
<1>3. /\ fetch \in [Fetch -> {"idle", "done"} \cup Fetching]
      /\ handle \in [Fetch -> {"none", "open", "closed", "cut"}]
      /\ op \in [Actor -> Ops]
      /\ target \in [Actor -> Server \cup {Absent}]
      /\ of[f] \in Req /\ Kept(of[f])
  BY <1>1 DEF IInv, TypeOK, Results
<1>4. /\ fetch' \in [Fetch -> {"idle", "done"} \cup Fetching]
      /\ handle' \in [Fetch -> {"none", "open", "closed", "cut"}]
      /\ op' \in [Actor -> Ops]
      /\ target' \in [Actor -> Server \cup {Absent}]
  BY <1>1, <1>2, <1>3 DEF Fetching, Ops, Results, Actor
<1>5. lock' \in {Absent} \cup {a \in Actor : op'[a] = "bucket"}
  BY <1>1, <1>2, <1>3 DEF TypeOK, Reads, Actor
<1>6. TypeOK'
  BY <1>1, <1>2, <1>4, <1>5 DEF TypeOK, Results
<1>7. FetchFrame(f)
  BY <1>2, <1>3 DEF FetchFrame, insertvars, taskvars, envvars
<1>8. Reads(f)'
  BY <1>1, <1>2, <1>3 DEF Reads, Kept, Actor
<1> QED BY <1>6, <1>7, <1>8, FetchPreserved

(* The blob cannot be opened. *)
LEMMA OpenFailedKeeps ==
  ASSUME IInv, NEW f \in Fetch, OpenFailed(f)
  PROVE  IInv'
<1>1. TypeOK /\ Reads(f)
  BY DEF IInv
<1>2. /\ op[f] = "error"
      /\ op' = [op EXCEPT ![f] = "none"]
      /\ fetch' = [fetch EXCEPT ![f] = "done"]
      /\ served' = [served EXCEPT ![f] = "failed"]
      /\ UNCHANGED <<pc, gone, experts, record, ref, blob, upload, payload, target, server,
                     lock, of, handle, backend, home, faults>>
  BY DEF OpenFailed, Answer, insertvars, taskvars, storagevars, fetchvars, envvars
<1>3. /\ fetch \in [Fetch -> {"idle", "done"} \cup Fetching]
      /\ served \in [Fetch -> Results]
      /\ op \in [Actor -> Ops]
      /\ of[f] \in Req /\ Kept(of[f])
  BY <1>1 DEF IInv, TypeOK, Results
<1>4. /\ fetch' \in [Fetch -> {"idle", "done"} \cup Fetching]
      /\ served' \in [Fetch -> Results]
      /\ op' \in [Actor -> Ops]
  BY <1>1, <1>2, <1>3 DEF Fetching, Ops, Results, Actor
<1>5. lock' \in {Absent} \cup {a \in Actor : op'[a] = "bucket"}
  BY <1>1, <1>2, <1>3 DEF TypeOK, Reads, Actor
<1>6. TypeOK'
  BY <1>1, <1>2, <1>4, <1>5 DEF TypeOK, Results
<1>7. FetchFrame(f)
  BY <1>2, <1>3 DEF FetchFrame, insertvars, taskvars, envvars
<1>8. Reads(f)'
  BY <1>1, <1>2, <1>3 DEF Reads, Kept, Actor
<1> QED BY <1>6, <1>7, <1>8, FetchPreserved

(* The endpoint gives up, wherever its call is. *)
LEMMA FetchTimeOutKeeps ==
  ASSUME IInv, NEW f \in Fetch, FetchTimeOut(f)
  PROVE  IInv'
<1>1. TypeOK /\ Reads(f)
  BY DEF IInv
<1>2. /\ fetch[f] = "open"
      /\ op' = [op EXCEPT ![f] = "none"]
      /\ target' = [target EXCEPT ![f] = Absent]
      /\ lock' = IF lock = f THEN Absent ELSE lock
      /\ fetch' = [fetch EXCEPT ![f] = "done"]
      /\ served' = [served EXCEPT ![f] = "failed"]
      /\ UNCHANGED <<pc, gone, experts, record, ref, blob, upload, payload, server, of, handle,
                     backend, home, faults>>
  BY DEF FetchTimeOut, Answer, insertvars, taskvars, storagevars, fetchvars, envvars
<1>3. /\ fetch \in [Fetch -> {"idle", "done"} \cup Fetching]
      /\ served \in [Fetch -> Results]
      /\ op \in [Actor -> Ops]
      /\ target \in [Actor -> Server \cup {Absent}]
      /\ of[f] \in Req /\ Kept(of[f])
  BY <1>1 DEF IInv, TypeOK, Results
<1>4. /\ fetch' \in [Fetch -> {"idle", "done"} \cup Fetching]
      /\ served' \in [Fetch -> Results]
      /\ op' \in [Actor -> Ops]
      /\ target' \in [Actor -> Server \cup {Absent}]
  BY <1>1, <1>2, <1>3 DEF Fetching, Ops, Results, Actor
<1>5. lock' \in {Absent} \cup {a \in Actor : op'[a] = "bucket"}
  BY <1>1, <1>2, <1>3 DEF TypeOK, Reads, Actor
<1>6. TypeOK'
  BY <1>1, <1>2, <1>4, <1>5 DEF TypeOK, Results
<1>7. FetchFrame(f)
  BY <1>2, <1>3 DEF FetchFrame, insertvars, taskvars, envvars
<1>8. Reads(f)'
  BY <1>1, <1>2, <1>3 DEF Reads, Kept, Actor
<1> QED BY <1>6, <1>7, <1>8, FetchPreserved

(* A chunk is read. *)
LEMMA ReadChunkKeeps ==
  ASSUME IInv, NEW f \in Fetch, ReadChunk(f)
  PROVE  IInv'
<1>1. TypeOK /\ Reads(f)
  BY DEF IInv
<1>2. /\ fetch[f] = "response"
      /\ fetch' = [fetch EXCEPT ![f] = "reading"]
      /\ UNCHANGED <<pc, gone, experts, record, ref, blob, upload, payload, op, target, server,
                     lock, of, handle, served, backend, home, faults>>
  BY DEF ReadChunk, insertvars, taskvars, storagevars, fetchvars, envvars
<1>3. /\ fetch \in [Fetch -> {"idle", "done"} \cup Fetching]
      /\ of[f] \in Req /\ Kept(of[f])
  BY <1>1 DEF IInv, TypeOK, Results
<1>4. /\ fetch' \in [Fetch -> {"idle", "done"} \cup Fetching]
  BY <1>1, <1>2, <1>3 DEF Fetching, Ops, Results, Actor
<1>6. TypeOK'
  BY <1>1, <1>2, <1>4 DEF TypeOK, Results
<1>7. FetchFrame(f)
  BY <1>2, <1>3 DEF FetchFrame, insertvars, taskvars, envvars
<1>8. Reads(f)'
  BY <1>1, <1>2, <1>3 DEF Reads, Kept, Actor
<1> QED BY <1>6, <1>7, <1>8, FetchPreserved

(* A chunk is sent. *)
LEMMA SendChunkKeeps ==
  ASSUME IInv, NEW f \in Fetch, SendChunk(f)
  PROVE  IInv'
<1>1. TypeOK /\ Reads(f)
  BY DEF IInv
<1>2. /\ fetch[f] = "reading"
      /\ fetch' = [fetch EXCEPT ![f] = "response"]
      /\ served' = [served EXCEPT ![f] = blob[of[f]]]
      /\ UNCHANGED <<pc, gone, experts, record, ref, blob, upload, payload, op, target, server,
                     lock, of, handle, backend, home, faults>>
  BY DEF SendChunk, insertvars, taskvars, storagevars, fetchvars, envvars
<1>3. /\ fetch \in [Fetch -> {"idle", "done"} \cup Fetching]
      /\ served \in [Fetch -> Results]
      /\ of[f] \in Req /\ Kept(of[f])
      /\ blob[of[f]] \in {"none", "partial", "data", "marker"}
  BY <1>1 DEF IInv, TypeOK, Results
<1>4. /\ fetch' \in [Fetch -> {"idle", "done"} \cup Fetching]
      /\ served' \in [Fetch -> Results]
  BY <1>1, <1>2, <1>3 DEF Fetching, Ops, Results, Actor
<1>6. TypeOK'
  BY <1>1, <1>2, <1>4 DEF TypeOK, Results
<1>7. FetchFrame(f)
  BY <1>2, <1>3 DEF FetchFrame, insertvars, taskvars, envvars
<1>8. Reads(f)'
  BY <1>1, <1>2, <1>3 DEF Reads, Kept, Actor
<1> QED BY <1>6, <1>7, <1>8, FetchPreserved

(* The blob is read to its end, or breaks off. *)
LEMMA ReadOverKeeps ==
  ASSUME IInv, NEW f \in Fetch, ReadOver(f)
  PROVE  IInv'
<1>1. TypeOK /\ Reads(f)
  BY DEF IInv
<1>2. /\ fetch[f] = "reading"
      /\ fetch' = [fetch EXCEPT ![f] = "finally"]
      /\ served' = [served EXCEPT ![f] = IF served[f] = "none" THEN "broken" ELSE served[f]]
      /\ UNCHANGED <<pc, gone, experts, record, ref, blob, upload, payload, op, target, server,
                     lock, of, handle, backend, home, faults>>
  BY DEF ReadOver, insertvars, taskvars, storagevars, fetchvars, envvars
<1>3. /\ fetch \in [Fetch -> {"idle", "done"} \cup Fetching]
      /\ served \in [Fetch -> Results]
      /\ of[f] \in Req /\ Kept(of[f])
  BY <1>1 DEF IInv, TypeOK, Results
<1>4. /\ fetch' \in [Fetch -> {"idle", "done"} \cup Fetching]
      /\ served' \in [Fetch -> Results]
  BY <1>1, <1>2, <1>3 DEF Fetching, Ops, Results, Actor
<1>6. TypeOK'
  BY <1>1, <1>2, <1>4 DEF TypeOK, Results
<1>7. FetchFrame(f)
  BY <1>2, <1>3 DEF FetchFrame, insertvars, taskvars, envvars
<1>8. Reads(f)'
  BY <1>1, <1>2, <1>3 DEF Reads, Kept, Actor
<1> QED BY <1>6, <1>7, <1>8, FetchPreserved

(* The client of a fetch leaves. *)
LEMMA LeaveFetchKeeps ==
  ASSUME IInv, NEW f \in Fetch, LeaveFetch(f)
  PROVE  IInv'
<1>1. TypeOK /\ Reads(f)
  BY DEF IInv
<1>2. /\ fetch[f] \in {"response", "reading"}
      /\ \E l \in {"cancelled", "background"} : fetch' = [fetch EXCEPT ![f] = l]
      /\ served' = [served EXCEPT ![f] = "gone"]
      /\ UNCHANGED <<pc, gone, experts, record, ref, blob, upload, payload, op, target, server,
                     lock, of, handle, backend, home, faults>>
  BY DEF LeaveFetch, insertvars, taskvars, storagevars, fetchvars, envvars
<1>3. /\ fetch \in [Fetch -> {"idle", "done"} \cup Fetching]
      /\ served \in [Fetch -> Results]
      /\ of[f] \in Req /\ Kept(of[f])
  BY <1>1 DEF IInv, TypeOK, Results
<1>4. /\ fetch' \in [Fetch -> {"idle", "done"} \cup Fetching]
      /\ served' \in [Fetch -> Results]
  BY <1>1, <1>2, <1>3 DEF Fetching, Ops, Results, Actor
<1>6. TypeOK'
  BY <1>1, <1>2, <1>4 DEF TypeOK, Results
<1>7. FetchFrame(f)
  BY <1>2, <1>3 DEF FetchFrame, insertvars, taskvars, envvars
<1>8. Reads(f)'
  BY <1>1, <1>2, <1>3 DEF Reads, Kept, Actor
<1> QED BY <1>6, <1>7, <1>8, FetchPreserved

(* The generator closes the handle. *)
LEMMA FinallyKeeps ==
  ASSUME IInv, NEW f \in Fetch, Finally(f)
  PROVE  IInv'
<1>1. TypeOK /\ Reads(f)
  BY DEF IInv
<1>2. /\ fetch[f] \in {"finally", "cancelled"}
      /\ fetch' = [fetch EXCEPT ![f] = "background"]
      /\ handle' = handle \/ \E h \in {"closed", "cut"} : handle' = [handle EXCEPT ![f] = h]
      /\ UNCHANGED <<pc, gone, experts, record, ref, blob, upload, payload, op, target, server,
                     lock, of, served, backend, home, faults>>
  BY DEF Finally, Close, insertvars, taskvars, storagevars, fetchvars, envvars
<1>3. /\ fetch \in [Fetch -> {"idle", "done"} \cup Fetching]
      /\ handle \in [Fetch -> {"none", "open", "closed", "cut"}]
      /\ of[f] \in Req /\ Kept(of[f])
  BY <1>1 DEF IInv, TypeOK, Results
<1>4. /\ fetch' \in [Fetch -> {"idle", "done"} \cup Fetching]
      /\ handle' \in [Fetch -> {"none", "open", "closed", "cut"}]
  BY <1>1, <1>2, <1>3 DEF Fetching, Ops, Results, Actor
<1>6. TypeOK'
  BY <1>1, <1>2, <1>4 DEF TypeOK, Results
<1>7. FetchFrame(f)
  BY <1>2, <1>3 DEF FetchFrame, insertvars, taskvars, envvars
<1>8. Reads(f)'
  BY <1>1, <1>2, <1>3 DEF Reads, Kept, Actor
<1> QED BY <1>6, <1>7, <1>8, FetchPreserved

(* The background task closes the handle. *)
LEMMA BackgroundKeeps ==
  ASSUME IInv, NEW f \in Fetch, Background(f)
  PROVE  IInv'
<1>1. TypeOK /\ Reads(f)
  BY DEF IInv
<1>2. /\ fetch[f] = "background" /\ fetch' = [fetch EXCEPT ![f] = "done"]
      /\ handle' = handle \/ handle' = [handle EXCEPT ![f] = "closed"]
      /\ UNCHANGED <<pc, gone, experts, record, ref, blob, upload, payload, op, target, server,
                     lock, of, served, backend, home, faults>>
  BY DEF Background, Close, insertvars, taskvars, storagevars, fetchvars, envvars
<1>3. /\ fetch \in [Fetch -> {"idle", "done"} \cup Fetching]
      /\ handle \in [Fetch -> {"none", "open", "closed", "cut"}]
      /\ of[f] \in Req /\ Kept(of[f])
  BY <1>1 DEF IInv, TypeOK, Results
<1>4. /\ fetch' \in [Fetch -> {"idle", "done"} \cup Fetching]
      /\ handle' \in [Fetch -> {"none", "open", "closed", "cut"}]
  BY <1>1, <1>2, <1>3 DEF Fetching, Ops, Results, Actor
<1>6. TypeOK'
  BY <1>1, <1>2, <1>4 DEF TypeOK, Results
<1>7. FetchFrame(f)
  BY <1>2, <1>3 DEF FetchFrame, insertvars, taskvars, envvars
<1>8. Reads(f)'
  BY <1>1, <1>2, <1>3 DEF Reads, Kept, Actor
<1> QED BY <1>6, <1>7, <1>8, FetchPreserved

-----------------------------------------------------------------------------
(* The surroundings *)

(* The process dies with its uploads and fetches. *)
LEMMA CrashKeeps == IInv /\ Crash => IInv'
<1> SUFFICES ASSUME IInv, Crash PROVE IInv'
  OBVIOUS
<1>1. TypeOK /\ \A r \in Req : Kept(r)
  BY DEF IInv
<1>2. /\ faults < MaxFaults /\ faults' = faults + 1
      /\ pc' = [r \in Req |-> IF pc[r] \in {"stored", "failed"} THEN pc[r] ELSE "dead"]
      /\ upload' = [r \in Req |-> IF upload[r] \in Running THEN "lost" ELSE upload[r]]
      /\ op' = [a \in Actor |-> "none"] /\ target' = [a \in Actor |-> Absent]
      /\ server' = Absent /\ lock' = Absent
      /\ fetch' = [f \in Fetch |-> IF fetch[f] = "idle" THEN "idle" ELSE "done"]
      /\ handle' = [f \in Fetch |-> IF handle[f] = "open" THEN "closed" ELSE handle[f]]
      /\ UNCHANGED <<gone, experts, record, ref, blob, payload, of, served, backend, home>>
  BY DEF Crash
<1>3. pc' \in [Req -> Labels] /\ op' \in [Actor -> Ops]
      /\ upload' \in [Req -> {"none", "done", "failed", "lost"} \cup Running]
  BY <1>1, <1>2 DEF TypeOK, Labels, Ops, Running
<1>4. /\ target' \in [Actor -> Server \cup {Absent}]
      /\ fetch' \in [Fetch -> {"idle", "done"} \cup Fetching]
      /\ handle' \in [Fetch -> {"none", "open", "closed", "cut"}]
      /\ faults' \in 0..MaxFaults
  <2>1. faults \in 0..MaxFaults /\ MaxFaults \in Nat
    BY <1>1 DEF TypeOK, R3Assumption
  <2>2. faults' \in 0..MaxFaults
    BY <1>2, <2>1
  <2> QED BY <1>1, <1>2, <2>2 DEF TypeOK
<1>5. TypeOK'
  BY <1>1, <1>2, <1>3, <1>4 DEF TypeOK
<1>6. \A r \in Req : Kept(r)'
  BY <1>1, <1>2 DEF Kept, Running, Actor
<1>7. \A f \in Fetch : Reads(f)'
  BY <1>2 DEF IInv, Reads, Actor
<1> QED BY <1>5, <1>6, <1>7 DEF IInv

(* The bucket moves to another server. *)
LEMMA FailoverKeeps == IInv /\ Failover => IInv'
<1> SUFFICES ASSUME IInv, Failover PROVE IInv'
  OBVIOUS
<1>1. faults' \in 0..MaxFaults /\ home' \in Server
  <2>1. faults \in 0..MaxFaults /\ MaxFaults \in Nat
    BY DEF IInv, TypeOK, R3Assumption
  <2> QED BY <2>1 DEF Failover
<1>2. UNCHANGED <<insertvars, ref, blob, taskvars, storagevars, fetchvars, backend>>
  BY DEF Failover
<1>3. TypeOK'
  BY <1>1, <1>2 DEF IInv, TypeOK, insertvars, taskvars, storagevars, fetchvars
<1> QED BY <1>2, <1>3 DEF IInv, Kept, Reads, insertvars, taskvars, storagevars, fetchvars

-----------------------------------------------------------------------------
(* The invariants *)

(* The invariant holds at the start. *)
LEMMA InitIInv == Init => IInv
<1> SUFFICES ASSUME Init PROVE IInv
  OBVIOUS
<1>1. TypeOK
  BY DEF Init, TypeOK, Entry, Labels, Inserting, Ops
<1>2. \A r \in Req : Kept(r)
  BY DEF Init, Kept, Entry, Actor
<1>3. \A f \in Fetch : Reads(f)
  BY DEF Init, Reads, Actor
<1> QED BY <1>1, <1>2, <1>3 DEF IInv

(* Every step keeps the invariant. *)
LEMMA NextIInv == IInv /\ [Next]_vars => IInv'
<1> SUFFICES ASSUME IInv, [Next]_vars PROVE IInv'
  OBVIOUS
<1>1. CASE UNCHANGED vars
  BY <1>1 DEF vars, insertvars, taskvars, storagevars, fetchvars, envvars, IInv, TypeOK, Kept, Reads
<1>2. ASSUME NEW r \in Req, InsertStep(r) \/ Cancel(r) \/ FilterRaises(r) PROVE IInv'
  BY <1>2, SerializeKeeps, InsertRefKeeps, InsertRefFailsKeeps, InsertKeeps, InsertFailsKeeps,
     CancelKeeps, FinalizeCancelledKeeps, FilterRaisesKeeps DEF InsertStep
<1>3. ASSUME NEW r \in Req, UploadStep(r) PROVE IInv'
  BY <1>3, CallKeeps, StartUploadKeeps, WriteBeginsKeeps, PutOkKeeps, PutFailedKeeps,
     MarkReadyKeeps, MarkReadyFailsKeeps DEF UploadStep, Actor
<1>4. ASSUME NEW f \in Fetch, FetchRef(f) \/ FetchStep(f) \/ LeaveFetch(f) PROVE IInv'
  BY <1>4, CallKeeps, FetchRefKeeps, OpenOkKeeps, OpenFailedKeeps, FetchTimeOutKeeps,
     ReadChunkKeeps, SendChunkKeeps, ReadOverKeeps, FinallyKeeps, BackgroundKeeps,
     LeaveFetchKeeps DEF FetchStep, Actor
<1> QED BY <1>1, <1>2, <1>3, <1>4, CrashKeeps, FailoverKeeps DEF Next

(* The inductive invariant holds in every reachable state. *)
LEMMA Invariant == Spec => []IInv
<1> QED BY InitIInv, NextIInv, PTL DEF Spec

(* Every reachable state is well typed, and the lock of the authentication *)
(* is free or with a call that authenticates: a fetch that is cancelled by *)
(* its time-out, or a process that dies, never leaves it taken.            *)
THEOREM TypeCorrect == Spec => []TypeOK
<1>1. IInv => TypeOK
  BY DEF IInv
<1> QED BY <1>1, Invariant, PTL

(* A reference that says ready belongs to a complete blob with the         *)
(* experts, for any number of repeated insertions, cancellations, failed   *)
(* transactions, moved buckets and crashes.                                *)
THEOREM ReadyHasBlobAlways == Spec => []ReadyHasBlob
<1>1. IInv => ReadyHasBlob
  BY DEF IInv, ReadyHasBlob, Kept
<1> QED BY <1>1, Invariant, PTL

(* A record with a marker has a reference and its experts in the blob or   *)
(* in an upload that runs, failed or died with its process; and a record   *)
(* that could not be stored leaves no marker behind for a client that      *)
(* stayed.                                                                 *)
THEOREM ExpertsKeptAlways == Spec => []ExpertsKept
<1>1. IInv => ExpertsKept
  <2> SUFFICES ASSUME IInv PROVE ExpertsKept
    OBVIOUS
  <2>1. \A r \in Req : upload[r] \in {"none", "done", "failed", "lost"} \cup Running
    BY DEF IInv, TypeOK
  <2>2. \A r \in Req : Kept(r)
    BY DEF IInv
  <2> QED BY <2>1, <2>2 DEF ExpertsKept, Kept
<1> QED BY <1>1, Invariant, PTL

(* The endpoint never hands out an incomplete blob or a marker, although   *)
(* the status of the reference may change between its check and the        *)
(* reading.                                                                *)
THEOREM ServesExpertsAlways == Spec => []ServesExperts
<1>1. IInv => ServesExperts
  BY DEF IInv, ServesExperts, Reads
<1> QED BY <1>1, Invariant, PTL
=============================================================================
