---------------------------- MODULE ChatRequest ----------------------------
(***************************************************************************)
(* The life of requests in one worker: the semaphore with its              *)
(* time-out, the handler, the two pipelines with and without streaming,    *)
(* the retries of the inference client, the storing of the trajectory and  *)
(* the client that may leave at any time.                                  *)
(*                                                                         *)
(* The handlers are coroutines of one event loop: a step is what a         *)
(* coroutine does between two awaits or yields.  Contents of prompts and   *)
(* answers are abstracted away; a streamed chunk is named by the attempt   *)
(* that produced it and its position in it.                                *)
(***************************************************************************)
EXTENDS Naturals, Sequences, FiniteSets

CONSTANTS
  Req,         \* the requests
  Permits,     \* max_concurrent_requests
  MaxRetries,  \* max_retries of the inference client
  MaxChunks,   \* bound: chunks of one streamed answer
  Leaving      \* where a client may leave: "unstarted", "yield", "await"

ASSUME ChatAssumption ==
  /\ IsFiniteSet(Req)
  /\ Permits \in Nat \ {0}
  /\ MaxRetries \in Nat
  /\ MaxChunks \in Nat
  /\ Leaving \subseteq {"unstarted", "yield", "await"}

VARIABLES
  pc,        \* where each request's coroutine is
  kind,      \* pipeline (direct or tito) and stream flag of the request
  free,      \* value of the semaphore
  waiters,   \* its queue
  attempt,   \* attempt of the inference client, from 0
  position,  \* chunks received in this attempt
  yielded,   \* has_yielded
  finished,  \* stream_finished
  sent,      \* chunks handed to the client
  answer,    \* what the client got in the end
  record,    \* the request's rows in the database
  storeErr,  \* an insertion of the request's record failed or was cut off
  active,    \* gauge of active requests
  archived,  \* the requests whose record was archived
  known,     \* a query: the answered requests it asks for, when it came
  seen       \* a query: the requests whose rows it read

semvars == <<free, waiters>>
infervars == <<attempt, position, yielded, finished, sent>>
storevars == <<record, storeErr>>
askvars == <<kind, archived, known, seen>>
vars == <<pc, askvars, semvars, infervars, answer, storevars, active>>

Queries == {"legacy", "detail", "records", "record"}

Kinds == [mode : {"direct", "tito"}, stream : BOOLEAN]
           \cup [mode : Queries, stream : {FALSE}]

Query(r) == kind[r].mode \in Queries

Init ==
  /\ pc = [r \in Req |-> "idle"]
  /\ kind \in [Req -> Kinds]
  /\ free = Permits
  /\ waiters = <<>>
  /\ attempt = [r \in Req |-> 0]
  /\ position = [r \in Req |-> 0]
  /\ yielded = [r \in Req |-> FALSE]
  /\ finished = [r \in Req |-> FALSE]
  /\ sent = [r \in Req |-> <<>>]
  /\ answer = [r \in Req |-> "none"]
  /\ record = [r \in Req |-> "none"]
  /\ storeErr = [r \in Req |-> FALSE]
  /\ active = 0
  /\ archived = {}
  /\ known = [r \in Req |-> {}]
  /\ seen = [r \in Req |-> {}]

Goto(r, label) == pc' = [pc EXCEPT ![r] = label]

-----------------------------------------------------------------------------
(* The semaphore (asyncio).  A release hands the permit to the first       *)
(* waiter, whose coroutine has still to run.                               *)

(* Mutation of Release: the permit is handed over and counted as free. *)
ReleaseTwice(r, label) ==
  /\ free' = free + 1
  /\ IF waiters = <<>>
       THEN Goto(r, label) /\ UNCHANGED waiters
       ELSE /\ pc' = [pc EXCEPT ![r] = label, ![Head(waiters)] = "granted"]
            /\ waiters' = Tail(waiters)

Release(r, label) ==
  IF waiters = <<>>
    THEN /\ free' = free + 1
         /\ Goto(r, label)
         /\ UNCHANGED waiters
    ELSE /\ pc' = [pc EXCEPT ![r] = label, ![Head(waiters)] = "granted"]
         /\ waiters' = Tail(waiters)
         /\ UNCHANGED free

(* Where a request goes on with its permit. *)
Entry(r) == IF Query(r) THEN "qread" ELSE "load"

Arrive(r) ==
  /\ pc[r] = "idle"
  /\ IF free > 0 /\ waiters = <<>>
       THEN free' = free - 1 /\ Goto(r, Entry(r)) /\ UNCHANGED waiters
       ELSE waiters' = Append(waiters, r) /\ Goto(r, "wait") /\ UNCHANGED free
  /\ known' = [known EXCEPT ![r] = IF Query(r) THEN {t \in Req : answer[t] = "ok" /\ ~Query(t)}
                                               ELSE {}]
  /\ UNCHANGED <<kind, archived, seen, infervars, answer, storevars, active>>

Acquired(r) ==
  /\ pc[r] = "granted"
  /\ Goto(r, Entry(r))
  /\ UNCHANGED <<askvars, semvars, infervars, answer, storevars, active>>

(* wait_for gives up: the request is answered 429. *)
TimeOut(r) ==
  /\ pc[r] = "wait"
  /\ \E i \in DOMAIN waiters :
       /\ waiters[i] = r
       /\ waiters' = SubSeq(waiters, 1, i - 1) \o SubSeq(waiters, i + 1, Len(waiters))
  /\ Goto(r, "done")
  /\ answer' = [answer EXCEPT ![r] = "busy"]
  /\ UNCHANGED <<askvars, free, infervars, storevars, active>>

(* Mutation of LateTimeOut: the permit of the cancelled acquire is lost. *)
LateTimeOutLosesPermit(r) ==
  /\ pc[r] = "granted"
  /\ Goto(r, "done")
  /\ answer' = [answer EXCEPT ![r] = "busy"]
  /\ UNCHANGED <<askvars, semvars, infervars, storevars, active>>

(* The timer fires after the permit was handed over and before the         *)
(* coroutine runs: the cancelled acquire gives the permit on.              *)
LateTimeOut(r) ==
  /\ pc[r] = "granted"
  /\ Release(r, "done")
  /\ answer' = [answer EXCEPT ![r] = "busy"]
  /\ UNCHANGED <<askvars, infervars, storevars, active>>

-----------------------------------------------------------------------------
(* The handler, until the pipeline starts. *)

(* Bad body, invalid or unknown model, or an error while it is loaded. *)
Refuse(r) ==
  /\ pc[r] = "load"
  /\ Release(r, "done")
  /\ answer' = [answer EXCEPT ![r] = "error"]
  /\ UNCHANGED <<askvars, infervars, storevars, active>>

StartPlain(r) ==
  /\ pc[r] = "load" /\ ~kind[r].stream
  /\ active' = active + 1
  /\ Goto(r, IF kind[r].mode = "tito" THEN "prep" ELSE "infer")
  /\ UNCHANGED <<askvars, semvars, infervars, answer, storevars>>

(* streaming_handled: from here the generator has to give the permit back. *)
HandOver(r) ==
  /\ pc[r] = "load" /\ kind[r].stream
  /\ Goto(r, "response")
  /\ UNCHANGED <<askvars, semvars, infervars, answer, storevars, active>>

StartStream(r) ==
  /\ pc[r] = "response"
  /\ active' = active + 1
  /\ Goto(r, IF kind[r].mode = "tito" THEN "sprep" ELSE "sinfer")
  /\ UNCHANGED <<askvars, semvars, infervars, answer, storevars>>

-----------------------------------------------------------------------------
(* The inference client. *)

(* Mutation of MayRetry: a broken stream is retried as well. *)
MayRetryBroken(r) == attempt[r] < MaxRetries

MayRetry(r) == attempt[r] < MaxRetries /\ ~yielded[r]

(* Mutation of Retry: the attempts are not counted. *)
RetryForEver(r) ==
  /\ pc[r] \in {"infer", "sinfer"} /\ MayRetry(r)
  /\ position' = [position EXCEPT ![r] = 1 - @]
  /\ UNCHANGED <<pc, askvars, semvars, attempt, yielded, finished, sent, answer, storevars, active>>

Retry(r) ==
  /\ pc[r] \in {"infer", "sinfer"} /\ MayRetry(r)
  /\ attempt' = [attempt EXCEPT ![r] = @ + 1]
  /\ position' = [position EXCEPT ![r] = 0]
  /\ UNCHANGED <<pc, askvars, semvars, yielded, finished, sent, answer, storevars, active>>

(* A chunk arrives; last says that it carries a finish reason. *)
Received(r, last) ==
  /\ position[r] < MaxChunks
  /\ position' = [position EXCEPT ![r] = @ + 1]
  /\ yielded' = [yielded EXCEPT ![r] = TRUE]
  /\ finished' = [finished EXCEPT ![r] = @ \/ last]
  /\ UNCHANGED <<askvars, semvars, attempt, answer, storevars, active>>

Forward(r) ==
  /\ sent' = [sent EXCEPT ![r] = Append(@, <<attempt[r], position[r] + 1>>)]
  /\ Goto(r, "syield")

(* The direct pipeline adds the chunk to its context and yields it. *)
DirectChunk(r) ==
  /\ pc[r] = "sinfer" /\ kind[r].mode = "direct"
  /\ \E last \in BOOLEAN : Received(r, last)
  /\ Forward(r)

(* The token pipeline swallows a chunk for which its parser has nothing to *)
(* send, unless it is the first or the last.                               *)
TokenChunk(r) ==
  /\ pc[r] = "sinfer" /\ kind[r].mode = "tito"
  /\ \E last \in BOOLEAN :
       /\ Received(r, last)
       /\ \/ Forward(r)
          \/ ~last /\ sent[r] # <<>> /\ UNCHANGED <<pc, sent>>

(* The client took the chunk: the token pipeline stops at the last one,    *)
(* the direct one reads on until the stream ends.                          *)
Resume(r) ==
  /\ pc[r] = "syield"
  /\ Goto(r, IF kind[r].mode = "tito" /\ finished[r] THEN "sfinal" ELSE "sinfer")
  /\ UNCHANGED <<askvars, semvars, infervars, answer, storevars, active>>

-----------------------------------------------------------------------------
(* The pipelines. *)

(* The token pipeline has rendered and encoded the prompt. *)
Encode(r) ==
  /\ pc[r] \in {"prep", "sprep"}
  /\ Goto(r, IF pc[r] = "prep" THEN "infer" ELSE "sinfer")
  /\ UNCHANGED <<askvars, semvars, infervars, answer, storevars, active>>

(* The answer of a plain request came and was taken into the context. *)
DirectAnswered(r) ==
  /\ pc[r] = "infer" /\ kind[r].mode = "direct"
  /\ Goto(r, "store")
  /\ UNCHANGED <<askvars, semvars, infervars, answer, storevars, active>>

(* It came, was decoded and parsed, and the response was built from it. *)
TokenAnswered(r) ==
  /\ pc[r] = "infer" /\ kind[r].mode = "tito"
  /\ Goto(r, "store")
  /\ UNCHANGED <<askvars, semvars, infervars, answer, storevars, active>>

(* [DONE], or the end of the response. *)
StreamOver(r) ==
  /\ pc[r] = "sinfer"
  /\ Goto(r, "sfinal")
  /\ UNCHANGED <<askvars, semvars, infervars, answer, storevars, active>>

(* Mutation of DirectFail: nothing is stored for a failed request. *)
DirectFailUnrecorded(r) ==
  /\ pc[r] \in {"infer", "stored"} /\ kind[r].mode = "direct"
  /\ Goto(r, "failed")
  /\ UNCHANGED <<askvars, semvars, infervars, answer, storevars, active>>

(* An exception in a plain request: the inference service (a permanent     *)
(* error or the last attempt), the handling of its answer, or, when the    *)
(* record is stored, the filtering of the response.                        *)
DirectFail(r) ==
  /\ pc[r] \in {"infer", "stored"} /\ kind[r].mode = "direct"
  /\ Goto(r, "errstore")
  /\ UNCHANGED <<askvars, semvars, infervars, answer, storevars, active>>

(* The same in the token pipeline, where nothing follows the storing. *)
TokenFail(r) ==
  /\ pc[r] \in {"prep", "infer"} /\ kind[r].mode = "tito"
  /\ Goto(r, "errstore")
  /\ UNCHANGED <<askvars, semvars, infervars, answer, storevars, active>>

(* An exception in a stream: nothing is stored, the generator of the       *)
(* handler sends an error event.                                           *)
StreamFail(r) ==
  /\ pc[r] \in {"sprep", "sinfer", "sfinal"}
  /\ active' = active - 1
  /\ Goto(r, "serror")
  /\ UNCHANGED <<askvars, semvars, infervars, answer, storevars>>

(* Mutation of Insert: a second insertion replaces the record. *)
InsertOrReplace(r, what) ==
  /\ record' = [record EXCEPT ![r] = what]
  /\ UNCHANGED storeErr

(* One transaction; unique_id is unique, so a second one fails.  A failing *)
(* commit may have happened.  The error is kept in the context.            *)
Insert(r, what) ==
  \E outcome \in {"ok", "fail", "unknown"} :
    /\ outcome = "ok" => record[r] = "none"
    /\ record' = IF record[r] = "none" /\ outcome # "fail"
                   THEN [record EXCEPT ![r] = what] ELSE record
    /\ storeErr' = [storeErr EXCEPT ![r] = @ \/ outcome # "ok"]

Store(r) ==
  /\ pc[r] \in {"store", "errstore"}
  /\ Insert(r, IF pc[r] = "store" THEN "ok" ELSE "error")
  /\ Goto(r, IF pc[r] = "store" THEN "stored" ELSE "failed")
  /\ UNCHANGED <<askvars, semvars, infervars, answer, active>>

(* _finalize_stream: the response is built from the chunks and stored. *)
Finalize(r) ==
  /\ pc[r] \in {"sfinal", "scancel"}
  /\ Insert(r, "ok")
  /\ Goto(r, IF pc[r] = "sfinal" THEN "sstored" ELSE "scancelled")
  /\ UNCHANGED <<askvars, semvars, infervars, answer, active>>

(* The plain request is over: the gauge, the answer and the permit. *)
Return(r) ==
  /\ pc[r] \in {"stored", "failed"}
  /\ active' = active - 1
  /\ answer' = [answer EXCEPT ![r] = IF pc[r] = "stored" THEN "ok" ELSE "error"]
  /\ Release(r, "done")
  /\ UNCHANGED <<askvars, infervars, storevars>>

(* Behind the stored stream: the token pipeline may yield a usage chunk,   *)
(* then the gauge, then the handler's generator yields its end mark.       *)
StreamStored(r) ==
  /\ pc[r] \in {"sstored", "susage"}
  /\ \/ /\ pc[r] = "sstored" /\ kind[r].mode = "tito"
        /\ Goto(r, "susage")
        /\ UNCHANGED active
     \/ /\ Goto(r, "sdone")
        /\ active' = active - 1
  /\ UNCHANGED <<askvars, semvars, infervars, answer, storevars>>

ErrorSent(r) ==
  /\ pc[r] = "serror"
  /\ Goto(r, "sdoneerr")
  /\ UNCHANGED <<askvars, semvars, infervars, answer, storevars, active>>

(* The generator of the handler ends, its finally gives the permit back. *)
StreamEnd(r) ==
  /\ pc[r] \in {"sdone", "sdoneerr"}
  /\ answer' = [answer EXCEPT ![r] = IF pc[r] = "sdone" THEN "ok" ELSE "error"]
  /\ Release(r, "done")
  /\ UNCHANGED <<askvars, infervars, storevars, active>>

-----------------------------------------------------------------------------
(* The client of a stream leaves. *)

(* Before the generator was first asked for a chunk: its body, and with it *)
(* its finally, never runs, and the permit stays with it.                  *)
LeaveUnstarted(r) ==
  /\ "unstarted" \in Leaving /\ pc[r] = "response"
  /\ Goto(r, "lost")
  /\ UNCHANGED <<askvars, semvars, infervars, answer, storevars, active>>

(* While a chunk is being sent: the generators are closed at their yield,  *)
(* the handler's first.  GeneratorExit is no CancelledError: nothing is    *)
(* stored.                                                                 *)
LeaveAtYield(r) ==
  /\ "yield" \in Leaving
  /\ pc[r] \in {"syield", "susage", "serror", "sdone", "sdoneerr"}
  /\ answer' = [answer EXCEPT ![r] = "gone"]
  /\ Release(r, IF pc[r] \in {"syield", "susage"} THEN "sclose" ELSE "done")
  /\ UNCHANGED <<askvars, infervars, storevars, active>>

Closed(r) ==
  /\ pc[r] = "sclose"
  /\ active' = active - 1
  /\ Goto(r, "done")
  /\ UNCHANGED <<askvars, semvars, infervars, answer, storevars>>

(* An insertion that is cut off may have been committed. *)
CutOff(r) ==
  \/ UNCHANGED storevars
  \/ /\ pc[r] \in {"sfinal", "scancel"} /\ record[r] = "none"
     /\ record' = [record EXCEPT ![r] = "ok"]
     /\ UNCHANGED storeErr

(* While the coroutine awaits something: the direct pipeline does not      *)
(* catch the cancellation, the token pipeline finalises the stream.        *)
LeaveAtAwait(r) ==
  /\ "await" \in Leaving
  /\ pc[r] \in {"sprep", "sinfer", "sfinal"}
  /\ CutOff(r)
  /\ Goto(r, IF kind[r].mode = "tito" THEN "scancel" ELSE "scancelled")
  /\ UNCHANGED <<askvars, semvars, infervars, answer, active>>

(* The finalisation raises before its insertion, or the task group cancels *)
(* it once more.                                                           *)
FinalizeCutOff(r) ==
  /\ pc[r] = "scancel"
  /\ CutOff(r)
  /\ Goto(r, "scancelled")
  /\ UNCHANGED <<askvars, semvars, infervars, answer, active>>

(* Mutation of Cancelled: completion is reported for exceptions only. *)
CancelledUnreported(r) ==
  /\ pc[r] = "scancelled"
  /\ answer' = [answer EXCEPT ![r] = "gone"]
  /\ Release(r, "done")
  /\ UNCHANGED <<askvars, infervars, storevars, active>>

(* CancelledError passes every except clause; the two finally clauses      *)
(* report the completion and give the permit back.                         *)
Cancelled(r) ==
  /\ pc[r] = "scancelled"
  /\ active' = active - 1
  /\ answer' = [answer EXCEPT ![r] = "gone"]
  /\ Release(r, "done")
  /\ UNCHANGED <<askvars, infervars, storevars>>

-----------------------------------------------------------------------------
(* Queries of the stored trajectories, which take a permit like chat       *)
(* requests.  All requests are of one session; a query's limit is at least *)
(* the number of its rows, as the default is meant to be.                  *)

(* The archiver moves a record's details away and marks its metadata in    *)
(* one transaction, long after the request ended.                          *)
Archive(r) ==
  /\ pc[r] = "done" /\ record[r] # "none" /\ r \notin archived
  /\ archived' = archived \cup {r}
  /\ UNCHANGED <<pc, kind, known, seen, semvars, infervars, answer, storevars, active>>

(* get_all_by_session: metadata joined with the details. *)
SessionRows == {t \in Req : record[t] # "none" /\ t \notin archived}

(* Mutation of MetadataRows: only the active rows. *)
MetadataRowsActive == SessionRows

(* get_metadata_by_session: archived rows too. *)
MetadataRows == {t \in Req : record[t] # "none"}

(* get_record_detail: one row, archived or not. *)
RecordRow(t) == {t} \cap MetadataRows

(* A comma in the request id is refused before a permit is asked for;      *)
(* validate_session_id accepts every session id.                           *)
Invalid(r) ==
  /\ pc[r] = "idle"
  /\ Goto(r, "done")
  /\ answer' = [answer EXCEPT ![r] = "error"]
  /\ UNCHANGED <<askvars, semvars, infervars, storevars, active>>

(* The rows are read in one statement, then serialised in a thread. *)
Queried(r, rows, asked) ==
  /\ pc[r] = "qread"
  /\ seen' = [seen EXCEPT ![r] = rows]
  /\ known' = [known EXCEPT ![r] = @ \cap asked]
  /\ Goto(r, "qser")
  /\ UNCHANGED <<kind, archived, semvars, infervars, answer, storevars, active>>

(* No such record: 404. *)
Missing(r, t) ==
  /\ pc[r] = "qread" /\ RecordRow(t) = {}
  /\ known' = [known EXCEPT ![r] = @ \cap {t}]
  /\ answer' = [answer EXCEPT ![r] = "missing"]
  /\ Release(r, "done")
  /\ UNCHANGED <<kind, archived, seen, infervars, storevars, active>>

Serialized(r) ==
  /\ pc[r] = "qser"
  /\ answer' = [answer EXCEPT ![r] = "ok"]
  /\ Release(r, "done")
  /\ UNCHANGED <<askvars, infervars, storevars, active>>

(* The database or the serialisation fails or exceeds its time-out. *)
QueryFailed(r) ==
  /\ pc[r] \in {"qread", "qser"}
  /\ answer' = [answer EXCEPT ![r] = "error"]
  /\ Release(r, "done")
  /\ UNCHANGED <<askvars, infervars, storevars, active>>

GetTrajectory(r) ==
  /\ kind[r].mode = "legacy"
  /\ Queried(r, SessionRows, Req) \/ Serialized(r) \/ QueryFailed(r)

GetTrajectoryDetail(r) ==
  /\ kind[r].mode = "detail"
  /\ Queried(r, SessionRows, Req) \/ Serialized(r) \/ QueryFailed(r)

ListSessionRecords(r) ==
  /\ kind[r].mode = "records"
  /\ Queried(r, MetadataRows, Req) \/ Serialized(r) \/ QueryFailed(r)

GetSessionRecord(r) ==
  /\ kind[r].mode = "record"
  /\ \/ Invalid(r)
     \/ \E t \in Req \ {r} :
          Missing(r, t) \/ (RecordRow(t) # {} /\ Queried(r, RecordRow(t), {t}))
     \/ Serialized(r)
     \/ QueryFailed(r)

-----------------------------------------------------------------------------
(* What the event loop, the timers and the peers bring forward. *)
Step(r) ==
  \/ Acquired(r) \/ TimeOut(r) \/ LateTimeOut(r)
  \/ Refuse(r) \/ StartPlain(r) \/ HandOver(r) \/ StartStream(r)
  \/ Retry(r) \/ DirectChunk(r) \/ TokenChunk(r) \/ Resume(r) \/ StreamOver(r)
  \/ Encode(r) \/ DirectAnswered(r) \/ TokenAnswered(r)
  \/ DirectFail(r) \/ TokenFail(r) \/ StreamFail(r)
  \/ Store(r) \/ Finalize(r) \/ Return(r)
  \/ StreamStored(r) \/ ErrorSent(r) \/ StreamEnd(r)
  \/ Closed(r) \/ FinalizeCutOff(r) \/ Cancelled(r)
  \/ GetTrajectory(r) \/ GetTrajectoryDetail(r)
  \/ ListSessionRecords(r) \/ GetSessionRecord(r)

Leave(r) == LeaveUnstarted(r) \/ LeaveAtYield(r) \/ LeaveAtAwait(r)

Next == \E r \in Req : Arrive(r) \/ Step(r) \/ Leave(r) \/ Archive(r)

Spec == Init /\ [][Next]_vars /\ \A r \in Req : WF_vars(Step(r))

-----------------------------------------------------------------------------
(* Properties *)

Waiting == {"idle", "wait"}
Finished == {"done", "sclose"}
Started == {"prep", "infer", "store", "stored", "errstore", "failed",
            "sprep", "sinfer", "syield", "sfinal", "sstored", "susage",
            "scancel", "scancelled", "sclose"}
Labels == Waiting \cup Finished \cup Started \cup
          {"granted", "qread", "qser", "load", "response", "serror", "sdone", "sdoneerr", "lost"}

(* The requests that hold a permit, or to which one was handed. *)
Serving == {r \in Req : pc[r] \notin Waiting \cup Finished}

(* Types of the variables. *)
TypeOK ==
  /\ pc \in [Req -> Labels]
  /\ kind \in [Req -> Kinds]
  /\ free \in 0..Permits
  /\ waiters \in Seq(Req)
  /\ attempt \in [Req -> 0..MaxRetries]
  /\ position \in [Req -> 0..MaxChunks]
  /\ yielded \in [Req -> BOOLEAN]
  /\ finished \in [Req -> BOOLEAN]
  /\ sent \in [Req -> Seq((0..MaxRetries) \X (1..MaxChunks))]
  /\ answer \in [Req -> {"none", "busy", "ok", "missing", "error", "gone"}]
  /\ record \in [Req -> {"none", "ok", "error"}]
  /\ storeErr \in [Req -> BOOLEAN]
  /\ active \in 0..Cardinality(Req)
  /\ archived \in SUBSET Req
  /\ known \in [Req -> SUBSET Req]
  /\ seen \in [Req -> SUBSET Req]

(* Every permit is free or with exactly one request that has not ended:    *)
(* none is given back twice or forgotten, whichever way a request ends     *)
(* (the finally clauses of chat_completions and generate_stream, and a     *)
(* time-out that meets the hand-over).  A stream that never starts keeps   *)
(* its permit.                                                             *)
PermitsConserved == free + Cardinality(Serving) = Permits

(* The gauge of active requests counts the requests between the start and  *)
(* the completion event of the Processor, also for clients that left.      *)
GaugeExact == active = Cardinality({r \in Req : pc[r] \in Started})

(* What a client receives is the beginning of one attempt's stream: a      *)
(* retry never repeats or mixes chunks (_handle_stream_request).  Only the *)
(* token pipeline leaves chunks out.                                       *)
OneAttemptPerStream ==
  \A r \in Req : \A i, j \in DOMAIN sent[r] : i < j =>
    /\ sent[r][i][1] = sent[r][j][1]
    /\ sent[r][i][2] < sent[r][j][2]
    /\ kind[r].mode = "direct" => sent[r][j][2] = sent[r][i][2] + (j - i)

(* A request that was answered, or a plain one that failed in its          *)
(* pipeline, has its record, unless the insertion failed; and a record     *)
(* that says error belongs to a client that was told so.                   *)
AnsweredIsRecorded ==
  \A r \in Req : pc[r] \in {"done", "failed"} =>
    /\ ~Query(r) /\ (answer[r] = "ok" \/ pc[r] = "failed") => record[r] # "none" \/ storeErr[r]
    /\ record[r] = "error" /\ pc[r] = "done" => answer[r] = "error"

(* A query finds every trajectory whose client had its answer before the   *)
(* query came, because the pipelines store before they answer and the      *)
(* query reads in one statement; excepted are trajectories whose insertion *)
(* failed and, in the two queries with details, archived ones.             *)
QueriesFindAnswered ==
  \A r \in Req : Query(r) /\ answer[r] \in {"ok", "missing"} =>
    \A t \in known[r] \ seen[r] :
      storeErr[t] \/ (t \in archived /\ kind[r].mode \in {"legacy", "detail"})

(* Every request ends: with an answer, rejected, or because its client     *)
(* left; nobody waits for ever for a permit, even when streams that never  *)
(* started keep them all.                                                  *)
RequestsEnd == \A r \in Req : pc[r] # "idle" ~> pc[r] \in {"done", "lost"}

(* The abstract worker, whose requests in service are those with a permit. *)
Promise == INSTANCE ChatPromise WITH N <- Permits, serving <- Serving

(* The worker keeps the promise of ChatPromise: no more than Permits       *)
(* requests at a time, one answer each, one unchanging record each.        *)
KeepsPromise == Promise!PSpec
=============================================================================
