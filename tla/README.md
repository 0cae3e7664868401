# TLA+ models of TrajProxy

TrajProxy is an LLM gateway: it accepts OpenAI-style chat requests, forwards
them to inference services, and records every request as a trajectory in
PostgreSQL. Several worker processes (Ray actors) serve HTTP; an archiver moves
old trajectories to files. This directory holds TLA+ modules of its core, the
TLC instances that check them, and TLAPS proofs. Paths below are relative to the
repository (`src/` in `PROJECT.json`).

## 1. Inventory

| Component | State | Operations | Interacts through |
|---|---|---|---|
| ProcessorManager, TokenizerCache (`traj_proxy/proxy_core/processor_manager.py`, `tokenizer_cache.py`) | static and dynamic configs, LRU cache of Processors, access times, load lock, tokenizer reference counts | look up and lazily load, database fallback, register, unregister, full sync, idle eviction | called by the HTTP thread and, through callbacks, by the actor's own thread |
| Model synchronisation (`store/model_synchronizer.py`, `notification_listener.py`, `model_repository.py`) | `model_registry` table, LISTEN connection, two tasks per worker | upsert and delete with NOTIFY, handle a notification, periodic and initial full sync, reconnect | PostgreSQL, callbacks into ProcessorManager |
| Archiver (`traj_archiver/archiver.py`, `session_worker.py`, `storage.py`) | pending, active, failed and successful sessions, rebuild and retry counters, temporary and stored files, two tables | find expired runs, hand out sessions, collect, rebuild workers, export, upload, clean up | Ray actors, PostgreSQL, storage; the proxy inserts concurrently |
| Archive scheduler (`traj_archiver/scheduler.py`) | `_executing`, worker list | loop, trigger_now, stop | calls the archiver |
| Chat requests (`serve/routes.py`, `proxy_core/pipeline/*`) | request semaphore, stream, process context | acquire, process, stream, store, release | ProcessorManager, inference client, request repository |
| Inference client (`proxy_core/infer_client.py`) | shared HTTP client, attempt counter | request and stream with retries | inference service |
| Route-experts offloading (`store/decorators/offloading_repository.py`, `r3_ref_repository.py`, `blob_storage.py`) | reference rows, blobs, background tasks | insert, upload, mark ready, restore, fetch | PostgreSQL, blob store |
| Worker management (`workers/manager.py`, `worker.py`) | initialised flags, server thread | initialise with retries, health monitor, kill | Ray |
| Prefix cache (`proxy_core/cache/prefix_cache.py`) | none of its own | longest stored prefix of a prompt | request repository |
| Request repository, queries (`store/request_repository.py`, `provider.py`) | two tables | transactional insert, reads | PostgreSQL |
| Parsers, builders, converters; observability; configuration | no shared state the others depend on | | |

What is hard here: two OS threads share unlocked dictionaries in each worker;
workers agree on the models only through lossy notifications and a periodic
snapshot; the archiver deletes rows on the strength of files that other
processes wrote, while workers die and records arrive; a chat request passes
through a semaphore, retries, a stream and an insertion and its client may leave
at every await of them; experts are replaced by a marker before the blob it
refers to exists; a streamed answer is parsed in pieces and has to come out like
the whole. The `hazards` list of `PROJECT.json` names each such place with the
property that watches it.

What makes the parts correct: a Processor lives exactly as long as its model,
its tokenizer and its access time say; the cache keeps its limit; requests end.
Every worker converges to the table, deleted models stop being served unless a
removal overtook a load. No row is
marked archived that is not in a file, no session is lost or handed out twice,
a run ends. Permits are conserved, an answered request is recorded once and
found again. A reference that is ready has its blob. Streaming and plain
requests give the same message. Workers that failed serve again.

## 2. Plan

Done, in this order: `ProcessorManager` with its first proofs, `ModelSync`,
`ArchiveRun`, `ChatPromise` and `ChatRequest` (requests, the inference client's
retries, queries), `R3Offload`, `TokenStream` and `CoderStream` over `Texts`,
`WorkerRecovery` with its proofs; then the proofs about `ChatRequest` and its
refinement of `ChatPromise`, `R3Offload`, `ModelSync`, `ArchiveRun`, and
`NoOrphan` of `ProcessorManager`; then the decoder of `TokenStream` and the parser
of `CoderStream`. Every safety invariant of a passing run is now a theorem but
`StreamAgrees` and `NothingTakenBack` (section 5).

To prove next: these two; `FileIsComplete` for runs that begin while tasks of an
aborted one still work, in the form that remains true then.

Worth modelling later: the qwen3xml and deepseekv4 parsers, the prefix cache
against a reference definition, the archiver's month partitions.

## 3. Modules

`ProcessorManager.tla` models one worker. Variables are named after the fields
(`static`, `dyn`, `cache`, `stamps`, `refs`, `lock`); `newer` is the order of the
OrderedDict. A Processor or config is the config's content; `same` says whether
the object a load read at its start still is the entry (the code compares with
`is`). Coroutines of the HTTP loop interleave only where they suspend (`loop` is
the running one); the actor's thread (`Sync`) interleaves between any two calls.
CPython switches threads at calls and loop edges, so a step is what a thread does
without a call between its dictionary accesses. Which access times are old, what
a row contains and whether a build, tokenizer load or statement fails is left
open. `leaked` is a history variable: references whose constructor failed.
`clear_cache` and `shutdown`, which nothing calls while requests are served, are
left out.

`ModelSync.tla` composes the table, its notifications and every worker's
registry. A step is what a task does between two awaits on the database, so rows
that were read can be stale when applied (`rows`, `ccfg`). `DbForm` is the change
a config undergoes in the table: without a tokenizer the local object has `None`
and the row the empty string, so the first full sync after a registration sees a
difference. `Features` selects the parts of the environment an instance explores.
A failing statement may have committed. The end of a load is two steps, the check
that the config is still there (`Recheck`) and the store of the Processor
(`CacheProcessor`); in between, the HTTP thread of the worker does nothing else
(`HttpFree`), but the tasks of the actor's thread, the other workers and the
database go on. What else happens inside one worker's dictionaries is
ProcessorManager's. `Loaders` are the workers on which Processors are loaded.

`ArchiveRun.tla` models the coordinator, the workers' tasks and the tables for one
run over any number of cycles. A session is listed, waits in `pending`, runs as a
future in `active`, and ends in `failed` or `succeeded`; `dropped` and `stray`
are the sessions and tasks an aborted round forgets. Opening the temporary file,
which empties it, writing it and moving it to the storage are separate steps.
The clean-up's DELETE and UPDATE each see what is committed when they start
(READ COMMITTED). `Path` stands for `_safe_path`. The upload is a single step: a
rename, or one PUT; a storage directory on another file system would copy.
`None` and the empty session id are one session here. The health check at the
start of a cycle only replaces dead workers and is not a step of its own, as any
assignment may meet a dead or a live worker.

`ChatPromise.tla` is what a worker promises about its requests: at most N at a
time, one answer each, a record at most once and never changed. `ChatRequest.tla`
implements it (`KeepsPromise`: `serving` is the set of requests that hold a
permit, `answer` and `record` are the same; several steps stutter). It follows a
request through `chat_completions`, the Processor, one of the pipelines
(`direct`, `tito`) with or without streaming, `InferClient` and the repository.
`pc` names the await or yield the coroutine is at; the semaphore is `free` and
`waiters` with asyncio's hand-over to the first waiter, so that a time-out can meet a
permit already handed to it (`LateTimeOut`). A chunk is the pair of attempt and
position. A client leaves before its stream was started, at a yield (the
generator is closed) or at an await (the task is cancelled): the three differ in
what is stored. Requests may also be the four trajectory queries that take a
permit; `known` is what was recorded when the query came, `seen` the rows it read,
`archived` the records whose details the archiver has taken.

`R3Offload.tla` models the repository decorator, the reference rows, the
background upload, the local and the CSB storage with its cached authentication
and lock, and the endpoint that streams a blob back. The experts are `data`, a
`marker` or absent. The environment moves the bucket to another file server or
kills the worker (`MaxFaults`).

`TokenStream.tla` models one answer of the token pipeline: `decode_streaming` with
its overlap window and checkpoints, `parse_delta` with the qwen3 and deepseek_r1
reasoning parsers and the hermes tool parser, the building of the stored message
and of the answer to a plain request. Texts are sequences of symbols (`Texts.tla`
has their find, split and strip); a tag is two symbols, a character may be two
tokens, a piece of JSON is a symbol. `CoderStream.tla` does the same for the
Qwen3-Coder tool parser, which needs its own module because its streaming half
shares nothing with hermes; parameters are converted by the type that the
request's tools give them. The answers are of the documented format: line breaks may
stand between any two tags (as the chat template puts them), `>` may be part of
texts and values, and a parameter may come twice. The stream then sends both pieces,
while `_parse_xml_function_call` collects a dictionary that keeps the last value
(`Dict`); so the properties compare what was sent with the calls as they are written
(`Written`), and what a client reads of it as JSON (`Read`) with what a plain request
is given (`Whole`).

`WorkerRecovery.tla` models the manager, its workers as Ray actors and the calls
between them. A call may be lost with its process and repeated by Ray
(`max_task_retries`); a process that ends is started again with fresh state
(`max_restarts`); an initialisation that fails half-way leaves its server thread
behind, which the next attempt finds and the health loop answers with a kill.

`MC*.tla` give the constants that a cfg cannot write and the symmetry sets.

Definitions named in a comment "Mutation of X" are deliberately wrong variants of
X; `PROJECT.json` says which property each must break. No specification uses them.

## 4. Runs

Passing runs:

| Run | Instance | Shows |
|---|---|---|
| `pm_fullsync` | 1 coroutine against everything the actor's thread does, 2 keys, 2 configs, no failing builds (those are in `pm_live`) | `TypeOK` (no count becomes negative) and `RefsExact` between any two steps |
| `pm_live` | 2 coroutines, a second thread that only registers, cache of 1, fairness | `RequestsEnd`, `CacheBounded`; `NoOrphan`: the TOCTOU check is enough against coroutines |
| `ms_notify` | 2 workers, no failures, no periodic sync | `NotifySuffices`, `TypeOK` |
| `ms_converge` | every feature, 2 changes, 1 failure, Processors on one worker, the other still starting | `Converges`, `DeletedModelsStop`, `OrphanOnlyByRace` |
| `ar_run` | 3 workers, 2 sessions (one may arrive late), unbounded deaths and errors, 1 crash, failing clean-up or re-executed task, fairness | `FileIsComplete`, `SessionsAccounted`, `OneSessionPerWorker`, `RunEnds`, `TypeOK` |
| `chat` | 2 requests of any kind on 1 permit, 1 retry, 2 chunks, leaving anywhere, fairness | `PermitsConserved`, `GaugeExact`, `OneAttemptPerStream`, `AnsweredIsRecorded`, `QueriesFindAnswered`, `RequestsEnd`; `KeepsPromise`, the refinement of `ChatPromise` |
| `r3` | 1 record, 2 fetches, both storages, 2 file servers, 1 fault, fairness | `ReadyHasBlob`, `ExpertsKept`, `ServesExperts`, `HandleReleased`, `UploadsEnd` |
| `stream` | 16 configurations, 3 prompts, 81 answers, chunks of up to 3 tokens | `DecodedExactly`, `StreamAgrees`, `NothingTakenBack` |
| `coder` | answers with up to 2 calls and 3 parameters each, with and without line breaks between the tags, one with a repeated parameter, deltas of up to 6 tokens | `CallsBegin`, `ContentBegins`, `TokensSuffice` |
| `workers` | 2 workers, 3 faults each, 2 restarts, fairness | `OneServer`, `RestartsArePaid`, `Recovers`, `StartEnds` |

Each also checks the `TypeOK` of its module, except `pm_live` and `ms_converge`; the two
stream modules have none, since their properties say more of every variable.

Violation runs, each a disagreement between the code and its own documentation
(quoted under `findings`):

| Run | Shows |
|---|---|
| `pm_orphan` | against the second thread the TOCTOU check is not enough: a cached Processor without a model |
| `ar_late` | a record inserted between export and clean-up is deleted without being in a file |

`StreamAgrees` and `NothingTakenBack` are about the answers on which the two ways
are meant to agree (`Regular`): ids on the wire, no character cut by a chunk,
markers in order, whole calls, `tool_choice` auto. `DecodedExactly` has no such
restriction. What happens outside is listed below.

Two properties state an exception that the code makes. `DeletedModelsStop` speaks of
a model on a worker where no load was overtaken (`Raced`): `pm_orphan` is the race,
and the orphan it leaves is worse than the comment at `processor_manager.py:281`
says, since it has no config, `full_sync` does not see it
(`local_model_keys - db_model_keys`), and `get_processor_async` (line 609) serves the
deleted model from the cache until it is evicted. Without the exception
TLC finds this behaviour in the instance of `ms_converge`, ending in a cycle of full
syncs. `OrphanOnlyByRace` says
that no other step makes an orphan. `HandleReleased` excepts a handle whose `close`
has set `_closed` and was cancelled at its await (`blob_storage.py:149`, `179`), which
happens when the client leaves during a read. The BackgroundTask, meant for the rest
(`routes.py:1145`), returns at once then: what releases the file or the connection is
the thread that was already closing it, or the garbage collector.

Observations from the same models, without a run of their own:

Models and archive:

- When the other thread evicts a key between the membership test and the access,
  `get_processor_async` raises KeyError instead of returning None
  (`RaiseKeyError`, label `keyerror`).
- A reload between the two pops of the idle eviction (or of `_evict_one`) leaves a
  cached Processor without an access time; the idle scan does not see it until it
  is used again.
- Two session ids that differ only in `,`, `/` and `_` have one file name; with a
  `PathOf` that is not injective `FileIsComplete` fails at once.
- A round of assignments that stops at the rebuild limit leaves its started tasks
  in `active`, neither awaited nor cancelled; when an earlier session succeeded
  the clean-up follows while they work.
- The Processor constructor that raises after the tokenizer was acquired leaves a
  reference that nobody releases (`processor_manager.py:274`); the model counts it
  in `leaked`.
- A roll-back that finds its entry gone raises KeyError before it cleans the cache
  (`processor_manager.py:530`).
- A config replaced by a notification keeps the Processor built from the old one,
  and the periodic sync, which finds config and row equal, never rebuilds it
  (`processor_manager.py:313`), although `docs/design/modules/store.md:248`
  expects that.
- A task that an aborted round has left running may empty the temporary file of
  the session's next archiving (`archiver.py:531`); with `MaxStray = 1` and three
  sessions on two workers `FileIsComplete` fails.
- A session whose retries are used up in a round, and which another worker of the
  same round starts once more, is recorded as failed even if it is then archived
  (`RoundDone`, and the last conjunct of `SessionsAccounted`).

Requests and queries:

- A stream whose client leaves before it starts keeps its permit (`routes.py:328`):
  label `lost`.
- A client that leaves while a chunk is being sent closes the generator at its
  yield; the branch for cancelled streams (`token_pipeline.py:349`) does not run,
  and nothing is stored. A stream's error is not stored either, a plain one is.
- An error in the direct pipeline after its record was stored leads to a second
  insertion, which the unique id refuses.
- `limit=0` means no records for the old endpoint and all for the detailed one.

Offloading:

- A failed upload leaves its reference `uploading` for ever; nothing calls the
  operations that would clean up. An HTTP error does not invalidate the cached
  file server.
- The insertion of an oversized record runs inside the `try`; when it fails it is
  repeated.

Streams:

- With `tool_choice` required and hermes nothing is streamed to the client,
  while the record has the calls; a named choice is treated like auto.
- A chunk that cuts a character sends a replacement character to the client; the
  buffer, and so the record, is exact.
- A half tag held back at the end of the stream is never sent; a truncated call is
  partly sent but text in the record; a call before the end of the reasoning comes
  out differently in the two ways; `deepseek_r1` leaks `<think>` when a first delta
  has several tokens.
- The stored finish reason is `stop` or `tool_calls` also where the client saw `length`.
- Qwen3-Coder: with coarse deltas the rest of a call can stay unsent at the end.
  The comment at `qwen3coder_tool_parser.py:384` leaves it to the serving layer,
  where nothing reads `streamed_args_for_tool`. The record is built without the
  request's tools, so its arguments can have other types than the client's. Of a
  repeated parameter the stream sends both values, the record has the last.

Workers:

- A start-up retry never helps after a failed component: the server thread is
  still there, the second attempt raises RuntimeError and the start is aborted
  (`manager.py:261` expects the retries to help).
- Between the start of the server thread and the end of the initialisation,
  requests are served without a limit (`worker.py:510`). A thread that cannot bind
  its port is not noticed. A re-initialisation is awaited without a time-out, and
  the health loop with it.

Bounds. In `ms_converge` only one worker loads Processors: what a worker has
cached matters to no other. Two keys tell a model from another, two configs a new content from an
old; a cache of one makes every load of the other key evict. Two coroutines are
needed for the lock and for every race between a load and a removal; the third
process is the actor's loop. `MaxFailedBuilds`, `MaxChanges` and `MaxFaults` count
the failures and changes explored, one or two of each being enough for every
order of a change, a failure and a repair. Worker deaths and task errors are not
bounded in `ArchiveRun`, the code's counters end them; two sessions on three
workers give retries, rebuilds and a round that is aborted with a task running
(with two workers the rebuilds of two sessions come in pairs, and the limit is met
only when nothing runs; a clean-up while such a task works needs a third session).
`MaxFaults` counts the tasks that Ray repeats, too. `MaxStray` says how many
tasks of earlier runs may still work when the next begins: none in the runs.
`MaxSessionRetries` is the code's 3; `MaxTaskRetries` is 1 in `ar_run` (the
default setting is 2) and 0 in `ar_late`. In `chat` two requests on one permit are
enough to wait, time out and be handed the permit, one retry for a second
attempt, two chunks for a stream that breaks after its first. In `r3` records
share nothing but the authentication, for which one upload and two fetches
contend. In `stream` the window is 1 and the interval 3 (4 and 32 in the code), so
that chunks of up to three tokens meet both; a character of two tokens is longer
than the window. In `workers` three faults exceed two restarts, so that a worker can be
lost; the setting -1 (no limit) is a limit above the faults.
Symmetry is used only where no liveness property is checked. Deadlock is not
checked where the system may rest: no more changes or failures to explore, or
nothing left to archive.

Fairness. `ProcessorManager`: both threads run (weak fairness of the running
coroutine and of the actor's callbacks), and a coroutine whose await keeps
completing is resumed (strong fairness, because it competes for the loop and the
lock): asyncio's ready queue and the waiters of its Lock are first in, first out.
The start of new requests is not fair. `ModelSync`: the database answers, the
HTTP thread stores what it has checked, the listener reads and reconnects, the periodic task goes on - its body catches every
exception. Failures and new requests are not fair. `ArchiveRun`: the coordinator
runs, and so do the workers as a whole (which of their tasks goes on is left
open: each has finitely many steps); deaths and errors are not fair.
`ChatRequest`: every coroutine goes on (the service, the database and the
semaphore answer or time out; all are awaited with time-outs); arriving and
leaving are not fair. `R3Offload`: the insertions, uploads and fetches go on, and a
blob is not read for ever (strong fairness of its end). `WorkerRecovery`: the
manager's loop and Ray go on, an initialisation ends one way or another, and an
actor that is asked again and again answers in time at last (strong fairness);
faults are not fair. `TokenStream` and `CoderStream` have no liveness property.

## 5. Proofs

`ProcessorManagerProofs.tla` proves for every number of keys, configs,
coroutines and tokenizers, from `ConstantsAssumption` only (finite sets of keys
and coroutines, `None` distinct, a positive limit):

- `TypeCorrect`: `Spec => []TypeOK`
- `CacheBoundedAlways`: `Spec => []CacheBounded`
- `RefsExactAlways`: `Spec => []RefsExact`

None of the properties is inductive. The invariant used is the conjunction of
`TypeInv` (types, and which local variables are set at which label), `LockInv`
(the holder of the lock is the one coroutine between `locked` and `stamp`),
`BoundInv` (the cache limit, with room for one more while the holder is between
its length check and its insertion), `HeldInv` (who has a Processor in a local
variable), `FreshInv` (the key being inserted is not cached, so the insertion
overwrites nothing) and `CountInv` (`RefsExact`, and that a tokenizer being loaded
has no reference yet, because loads are serialised by the lock and every user
keeps its reference). `LockInv` is needed for `BoundInv` and `FreshInv`: only the
lock keeps a second insertion out of the gap between check and store; `FreshInv`
and the loading part for `CountInv`. Two lemmas classify what a step can do to the
cache (insert by the holder, removals otherwise) and to the loading coroutine, so
that the invariants are proved per kind of step; the cardinality lemmas follow
from `FiniteSetTheorems`.

`WorkerRecoveryProofs.tla` proves for every number of workers, faults, restarts
and retries, from `WorkerAssumption` only (numbers, at least one worker and one
attempt):

- `Typed`: `Spec => []TypeOK`
- `OneServerAlways`: `Spec => []OneServer`
- `RestartsArePaidAlways`: `Spec => []RestartsArePaid`

The invariant adds to these three `UnderWay` (an initialisation under way has a
living process with one server and no components), `Gone` (a process that ended
has neither) and `Unpaid`: a server without components, and the RuntimeError it
causes, come from a fault no restart was used for yet. Without `Unpaid` the kill
that follows such an error might be a restart too many; without `UnderWay` a
second server could start beside the first. One lemma per group of actions, one
step per action.

`ChatRequestProofs.tla` proves for every number of requests, permits, retries and
chunks and every choice of `Leaving`, from `ChatAssumption` only:

- `TypeCorrect`, `PermitsConservedAlways`, `GaugeExactAlways`,
  `OneAttemptPerStreamAlways`, `AnsweredIsRecordedAlways`,
  `QueriesFindAnsweredAlways`: `Spec => []P` for the invariant each is named after
- `Implements`: `Spec => KeepsPromise`, the refinement of `ChatPromise`

The invariant `IInv` is `Shape` (types; the bounds of `free` and `active` follow
from counting), `Queue` (who is in the semaphore's queue waits, once),
`PermitsConserved`, `GaugeExact`, and per request `Answered` (an answer and a final
label go together), `Stored` (which labels and answers imply a record or a failed
insertion, and at which nothing is stored yet), `Streamed` (what was sent is of the
attempt under way, in the order of reception; after the first chunk there is no
other attempt) and `Known` (a query knows answered requests only, and has read
their rows). `Queue` is needed because the hand-over wakes the head of the queue: a
head that did not wait would be given a second permit. The proof goes over what a
step does to one request and its permit (nothing, takes one, gives it back to the
semaphore or to the first waiter), not action by action for every conjunct; each
action is shown to be one of these. The refinement uses the same classification:
giving back a permit is `Answer` or `Withdraw`, whose new holder is a request of
the queue, and `Shape` with `PermitsConserved` gives the room `Admit` asks for.

`R3OffloadProofs.tla` proves for every number of records, fetches and file servers
and both storages, from `R3Assumption` only: `TypeCorrect`, `ReadyHasBlobAlways`,
`ExpertsKeptAlways`, `ServesExpertsAlways`. The invariant adds to the types `Kept`
per record (an upload that was started has the bytes of the experts and a
reference, only a finished one made it ready, and a marker comes with an upload)
and `Reads` per fetch (what it opens and reads is ready). The hard part of `Kept`
is a record that is inserted again: a marker left in the context by an insertion
that failed would be serialized as if it were the experts; the roll-back and, for
a cancelled insertion, `gone` exclude it.

`ModelSyncProofs.tla` proves for every number of workers, keys, configs, clients,
changes and faults:

- `TypeCorrect`: `Spec => []TypeOK`, and `OrphanOnlyByRaceAlways`:
  `Spec => OrphanOnlyByRace`, an action property, from `SyncAssumption` only, with
  every feature of the environment
- `NotifySufficesAlways`: `Spec => []NotifySuffices`, if the workers have started
  (`Booted = Workers`) and `Features = {}`. Both are needed: a worker that is still starting
  has not read the table, and with a lost connection, a failed statement or the
  periodic sync's stale rows only `Converges` holds - that is what the periodic
  sync is for.

The first two need that requests and listener carry a row over their await
(`Carries`, `Handles`). `NotifySuffices` needs `Told`: for each worker and key,
memory and table agree, or a notification is in the queue, or the request that made
the difference has not committed (`WillBeTold`); a queued removal is true or
followed by a later notification (`RemovalsTrue`); rows the listener has read are
current or followed by one (`ReadsTrue`). The last two are what makes stale reads
and overtaken removals harmless. `Calm` says that no other channel is at work.

`ArchiveRunProofs.tla` proves for every number of workers, sessions, records,
retries and faults, with tasks of earlier runs (`MaxStray`) and any `PathOf`, from
`ArchiveAssumption` only: `TypeCorrect`, `SessionsAccountedAlways`,
`OneSessionPerWorkerAlways`. The invariant restates the place of a session one by
one (`Account`), no session is queued twice, futures have different workers and
sessions (`Alone`), a run begins with empty queues (`Begun`), the workers a round
has still to visit are free and no failed session runs before the round is over
(`Round`), and an abort is final: `rebuilds` stays at its limit (`Aborted`), without
which a second abort could overwrite `dropped`.

The second half of the module is about the files:

- `FileIsCompleteAlways`: `Spec => []FileIsComplete` under `Careful`: `PathOf` is
  injective, a late record is alone in its session, and a run begins only when no
  task of an earlier one works (`MaxStray = 0`).

None of the three is given by the code: they are the conditions under which
archiving loses nothing. Without the second `ar_late` is the counterexample;
without the first, two sessions write one file; without the third, a forgotten
task empties the temporary file that the next run is about to move (with
`MaxStray = 1` and three sessions TLC finds this sequence). Deaths, re-executed tasks, aborts, crashes and
failing clean-ups remain in full. The invariant adds `TablesAgree` (archived is
what has no details, and the details of a session go together), `Undone` (a session
that is listed or worked on by a forgotten task still has its details: nothing is
archived twice, which would replace its file by an empty one) and `FilesOK` (how far
each task has come with its file, and the files of archived records).

`ProcessorManagerProofs.tla` also has

- `NoOrphanAlways`: `Spec => []NoOrphan`, if the actor's thread removes no model
  (`SyncRemovesNothing`; it may register, replace and evict).

This is what the TOCTOU check after the build is worth: a coroutine that has passed
it runs on to its insertion without a suspension, and its model stays registered
until then (`Passed`). `pm_orphan` shows that the assumption is needed.

`TokenStreamProofs.tla` proves about `decode_streaming`, for all parsers, prompts,
answers, chunkings, windows and intervals, from `StreamAssumption` only (tokens are
strings, sizes are positive):

- `DecodedExactlyAlways`: `Spec => []DecodedExactly`

The invariant `IInv` says that the checkpoint stands at the end of the ids and the
text is theirs (`Decoded`), and that the answer is made of tokens. Three facts about
texts carry it. Where no character is cut in two (`Cut`), the texts of both halves
are the text of the whole, so what was decoded before may be kept (`DecodeUncut`).
Where one is cut, the text of the first half ends in a replacement character and is
not how the whole begins (`DecodeCut`): the comparison of the overlap sees it, and
everything is decoded again. And later tokens do not depend on where the decoding
starts, if one earlier token is with them (`SameAfter`): that is why a window of one
is enough. Without the comparison the property fails, which is the mutant of the
run.

`CoderStreamProofs.tla` proves for every set of answers and every size of the
deltas, from `CoderAssumption` only (each answer is a text of the format the model
is trained for, `WellFormed`):

- `CallsBeginAlways`: `Spec => []CallsBegin`
- `ContentBeginsAlways`: `Spec => []ContentBegins`
- `TokensSufficeAlways`: `Spec => []TokensSuffice`

The parser looks at counts of tags, at the n-th occurrence of one, and at the first
of several; the proof is about where these are. From the stages of the format
follow the counts of the tags before any place (`Level`), hence where the k-th call
and the m-th parameter begin and end and what lies between (`Call`, `Parameter`).
With that the calls of the whole text are computed as they are written
(`WrittenCall` for the k-th, each parameter a `Piece`; the dictionary of the whole
text's reading is `Read` of these), and what the parser sees of a call of which a
part was received. `IInv` then says that parser and client agree with the text
received: the parser is at a call that has begun, its flags are in order and its count is of
parameters of that call (`ParserOK`), and the client has the calls before that one
whole, and of that one exactly what the flags and the count say (`ClientOK`).
`CInv` adds the content: the text before the calls as far as it was received, then
line breaks only. `TInv` adds where the flags are if every delta was one token: at
the place the text has reached, except that a call without parameters is closed
one token late because its brace had taken one (`TokenOK`). That exception is the
reason why `TokensSuffice` is close to failing: the late piece goes with the tag
that ends the call, the last token it can go with.

The format is an assumption about the model, not about the code: of a text with
torn or nested tags neither half of the parser says what its calls are, and the two
differ. An answer that was cut off is a beginning of one that was not, so the
theorems speak of it before the end of its stream. `MCCoderStream` has the
instances.

Induction. The library's induction theorems are out of the provers' reach, because
they take an operator as a parameter. Both modules prove instead that a set with 0
and the successor of each of its numbers has all of Nat (`Induct`; for a number n it
lacked, adding one would put the members up to n injectively into a smaller set),
and use it with the set of the numbers for which a statement holds. The recursive
searches of the models are written as functions for that.

Each inductive invariant was model-checked on the instances of the runs before it
was proved. Every proof has a lemma per action or group of actions, and under it a
step per conjunct that the actions can disturb.

Only model-checked: the liveness properties (outside the prover's reach; the
refinement of `ChatPromise` states none), and `StreamAgrees` and `NothingTakenBack`
of `TokenStream`. These two compare three reasoning parsers, two orders of parsing and
the searches of the hermes parser for half tags and incomplete JSON on every text;
their invariant would have to describe each of these texts, which is future work.

## 6. Not modelled

- Archive scheduler: a loop that calls the archiver and sleeps; `_executing` is
  tested and set without an await in between.
- Prefix match cache: a read-only lookup without state of its own; it only decides
  how many tokens are computed again.
- The qwen3xml and deepseekv4 parsers, message converters and prompt templates:
  text transformations of the same kind as the modelled ones, without shared state.
- Observability and configuration decide nothing; nginx, Docker and scripts.
- `list_trajectories`, `list_sessions` and the status calls only read. Operations
  that nothing calls are named in `PROJECT.json`.

Prompt and response contents, HTTP headers, SQL text and log messages are
abstracted away.
