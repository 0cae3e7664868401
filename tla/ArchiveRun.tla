----------------------------- MODULE ArchiveRun -----------------------------
(***************************************************************************)
(* Archiving one expired run: the coordinator _archive_run hands sessions  *)
(* to the SessionArchiveWorker actors one by one, replaces the actors that *)
(* die, and at the end deletes from the database what the successful       *)
(* sessions held.  The proxy may still insert records of the run.          *)
(*                                                                         *)
(* How often workers die or tasks fail is not bounded: the coordinator's   *)
(* own counters end the run.  An upload is one step: a move within the     *)
(* file system, or one PUT.                                                *)
(***************************************************************************)
EXTENDS Naturals, FiniteSets, SequencesExt

CONSTANTS
    Slots,       \* positions in the worker list
    Sessions,    \* the session ids of the run, NULL included
    Records,     \* unique ids
    SessionOf,   \* the session of a record
    Late,        \* the records the proxy inserts while we look
    Paths,       \* names of temporary files and of storage keys
    PathOf,      \* _safe_path of the session's display name
    MaxSessionRetries, \* MAX_SESSION_RETRIES
    MaxTaskRetries, \* max_task_retries, kept by Ray
    MaxFaults,   \* bound: coordinator crashes, failing clean-ups, tasks Ray repeats
    MaxStray     \* bound: tasks of earlier runs still working when one begins

ASSUME ArchiveAssumption ==
    /\ Slots \subseteq Nat /\ IsFiniteSet(Slots) /\ Slots # {}
    /\ IsFiniteSet(Sessions)
    /\ SessionOf \in [Records -> Sessions] /\ Late \subseteq Records
    /\ PathOf \in [Sessions -> Paths]
    /\ MaxSessionRetries \in Nat \ {0}
    /\ MaxTaskRetries \in Nat /\ MaxFaults \in Nat /\ MaxStray \in Nat

\* max_consecutive_rebuilds
MaxRebuilds == Cardinality(Slots) * 3

VARIABLES
    known,     \* rows of request_metadata
    details,   \* rows of request_details_active
    fresh,     \* the records younger than the retention time
    archived,  \* rows with an archive_location
    temp,      \* the workers' temporary directory
    stored,    \* the storage back end
    phase,     \* where the coordinator is
    listed,    \* the sessions _get_run_sessions returned
    pending, active, failed, succeeded, \* where each of them is
    dropped,   \* those the coordinator has lost sight of
    stray,     \* the futures nobody waits for any more
    toFill,    \* the workers a round of assignments still has to visit
    rebuilds,  \* consecutive_rebuilds
    fails,     \* session_fail_counts
    deleting,  \* what the clean-up's DELETE has selected
    faults

dbVars == <<known, details, fresh, archived>>
fileVars == <<temp, stored>>
sessionVars == <<pending, active, failed, succeeded, dropped, stray>>
vars == <<known, details, fresh, archived, temp, stored, phase, listed, pending,
          active, failed, succeeded, dropped, stray, toFill, rebuilds, fails, deleting, faults>>

Phases == {"idle", "list", "fill", "loop", "refill", "cleanup", "commit"}
Working == {"started", "writing", "exported"}
Stages == Working \union {"done", "error", "dead"}
\* A future: the actor is a position of the worker list, and `current' says
\* whether it still is the actor at that position.  `rows' is what the cursor
\* found, `tries' how often Ray has started the task again.
Futures == [slot : Slots, session : Sessions, stage : Stages, current : BOOLEAN,
            rows : SUBSET Records, tries : 0 .. MaxTaskRetries]
\* No file, or the records that can be read from it.
NoFile == << >>
File(c) == <<c>>
Files == [Paths -> {NoFile} \union {File(c) : c \in SUBSET Records}]
NoFiles == [p \in Paths |-> NoFile]

\* The types of the tables, files and queues; the tables agree (details and
\* archive marks belong to known records).
TypeOK ==
    /\ known \subseteq Records /\ details \subseteq known /\ fresh \subseteq known
    /\ archived \subseteq known
    /\ temp \in Files /\ stored \in Files
    /\ phase \in Phases
    /\ listed \subseteq Sessions /\ pending \in Seq(Sessions)
    /\ active \subseteq Futures /\ stray \subseteq Futures
    /\ failed \subseteq Sessions /\ succeeded \subseteq Sessions
    /\ dropped \subseteq Sessions
    /\ toFill \subseteq Slots /\ rebuilds \in Nat
    /\ fails \in [Sessions -> Nat]
    /\ deleting \subseteq Records /\ faults \in 0 .. MaxFaults

Init ==
    /\ known = Records \ Late /\ details = Records \ Late
    /\ fresh = {} /\ archived = {}
    /\ temp = NoFiles /\ stored = NoFiles
    /\ phase = "idle" /\ listed = {}
    /\ pending = << >> /\ active = {} /\ failed = {} /\ succeeded = {}
    /\ dropped = {} /\ stray = {} /\ toFill = {} /\ rebuilds = 0 /\ fails = [s \in Sessions |-> 0]
    /\ deleting = {} /\ faults = 0

-----------------------------------------------------------------------------
(* The proxy and the clock.                                                 *)

\* RequestRepository.insert: metadata and details in one transaction.
Insert(r) ==
    /\ r \in Late \ known
    /\ known' = known \union {r} /\ details' = details \union {r}
    /\ fresh' = fresh \union {r}
    /\ UNCHANGED <<archived, fileVars, phase, listed, sessionVars, toFill, rebuilds,
                   fails, deleting, faults>>

Expire ==
    /\ fresh # {} /\ fresh' = {}
    /\ UNCHANGED <<known, details, archived, fileVars, phase, listed, sessionVars,
                   toFill, rebuilds, fails, deleting, faults>>

-----------------------------------------------------------------------------
(* SessionArchiveWorker.archive.                                            *)

\* x becomes y; a future that nobody waits for disappears when it ends.
Becomes(x, y) ==
    \/ x \in active /\ active' = (active \ {x}) \union {y} /\ UNCHANGED stray
    \/ /\ x \in stray
       /\ stray' = (stray \ {x}) \union {z \in {y} : z.stage \in Working}
       /\ UNCHANGED active

Ends(x, stage) == Becomes(x, [x EXCEPT !.stage = stage, !.rows = {}])

WorkerUnchanged ==
    UNCHANGED <<dbVars, phase, listed, pending, failed, succeeded, dropped, toFill,
                rebuilds, fails, deleting>>

Path(x) == PathOf[x.session]

\* An actor runs its calls in the order they were made: a new one waits for what
\* an earlier run left there.
OnTurn(x) == x \in stray \/ \A y \in stray : y.slot = x.slot => ~y.current

\* _export_session declares the cursor and opens the file, which empties it; a
\* session without rows has no file and is done.
Open(x) ==
    /\ OnTurn(x) /\ x.stage = "started"
    /\ LET found == {r \in details : SessionOf[r] = x.session} IN
       \/ /\ found # {} /\ temp' = [temp EXCEPT ![Path(x)] = File({})]
          /\ Becomes(x, [x EXCEPT !.stage = "writing", !.rows = found])
       \/ found = {} /\ temp' = [temp EXCEPT ![Path(x)] = NoFile] /\ Ends(x, "done")
    /\ UNCHANGED <<stored, faults>> /\ WorkerUnchanged

\* The rows are written and the file is closed.  A file that somebody removed
\* stays away, one that somebody else has written meanwhile becomes unreadable.
Write(x) ==
    /\ x.stage = "writing"
    /\ temp' = [temp EXCEPT ![Path(x)] =
                  CASE @ = NoFile -> NoFile [] @ = File({}) -> File(x.rows) [] OTHER -> File({})]
    /\ Becomes(x, [x EXCEPT !.stage = "exported", !.rows = {}])
    /\ UNCHANGED <<stored, faults>> /\ WorkerUnchanged

\* storage.upload, and the removal of the temporary file; a file somebody else
\* removed is an error.
Upload(x) ==
    /\ x.stage = "exported"
    /\ \/ /\ temp[Path(x)] # NoFile /\ Ends(x, "done")
          /\ stored' = [stored EXCEPT ![Path(x)] = temp[Path(x)]]
       \/ temp[Path(x)] = NoFile /\ Ends(x, "error") /\ UNCHANGED stored
    /\ temp' = [temp EXCEPT ![Path(x)] = NoFile]
    /\ UNCHANGED faults /\ WorkerUnchanged

\* archive() raises: a database error, a failing upload, a directory that
\* another worker's rmdir took away.
TaskError(x) ==
    /\ OnTurn(x) /\ x.stage \in Working
    /\ Ends(x, "error")
    /\ temp' = [temp EXCEPT ![Path(x)] = NoFile]
    /\ UNCHANGED <<stored, faults>> /\ WorkerUnchanged

\* Mutation of Die: the task is started again without end.
DieForEver(x) ==
    /\ x.stage \in Working \union {"done"}
    /\ Becomes(x, [x EXCEPT !.stage = "started", !.rows = {}, !.tries = @ + 1])
    /\ UNCHANGED <<fileVars, faults>> /\ WorkerUnchanged

\* The actor dies at any moment, also after the upload, and Ray starts it and
\* the task again, or gives up.  A result that cannot be fetched in time counts
\* as a death.
Die(x) ==
    /\ x.stage \in Working \union {"done"}
    /\ \/ /\ x.tries < MaxTaskRetries /\ faults < MaxFaults /\ faults' = faults + 1
          /\ Becomes(x, [x EXCEPT !.stage = "started", !.rows = {}, !.tries = @ + 1])
       \/ Ends(x, "dead") /\ UNCHANGED faults
    /\ UNCHANGED fileVars /\ WorkerUnchanged

-----------------------------------------------------------------------------
(* The coordinator.                                                         *)

Reset ==
    /\ phase' = "idle" /\ listed' = {}
    /\ pending' = << >> /\ active' = {} /\ failed' = {} /\ succeeded' = {}
    /\ dropped' = {} /\ toFill' = {} /\ rebuilds' = 0 /\ fails' = [s \in Sessions |-> 0]
    /\ deleting' = {}

\* _archive_run raises: archive_details keeps the worker list from before the
\* run.  Which of its actors were replaced meanwhile, so that a task left on the
\* replacement belongs to no worker of the list, is left open.
Raise ==
    /\ Reset
    /\ \E lost \in SUBSET Slots :
         stray' = {[x EXCEPT !.current = @ /\ x.slot \notin lost] : x \in stray}

\* _find_expired_runs: the run has details, and none of them is young.
FindExpired ==
    /\ phase = "idle" /\ details # {} /\ details \intersect fresh = {}
    /\ Cardinality(stray) <= MaxStray
    /\ phase' = "list"
    /\ UNCHANGED <<dbVars, fileVars, listed, sessionVars, toFill, rebuilds, fails,
                   deleting, faults>>

\* _get_run_sessions, and the first round of assignments begins.
ListSessions ==
    /\ phase = "list"
    /\ listed' = {SessionOf[r] : r \in details}
    /\ \E order \in SetToSeqs(listed') : pending' = order
    /\ toFill' = Slots /\ phase' = "fill"
    /\ UNCHANGED <<dbVars, fileVars, active, failed, succeeded, dropped, stray, rebuilds,
                   fails, deleting, faults>>

Started(w, s) ==
    [slot |-> w, session |-> s, stage |-> "started", current |-> TRUE, rows |-> {}, tries |-> 0]

\* _rebuild_worker_in_list: the old actor is killed, and futures of it that
\* remain belong to no worker of the list.
Rebuild(w, fs) ==
    /\ active' = {IF x.slot = w THEN [x EXCEPT !.current = FALSE] ELSE x : x \in fs}
    /\ stray' = {x \in stray : x.slot = w => ~x.current}

\* The session that was taken from the front goes to the end.
PutBack == Append(Tail(pending), Head(pending))

\* A round of assignments goes through the workers in the order of the list.
Visited(w) == w \in toFill /\ \A v \in toFill : w <= v

Assign(w) ==
    /\ phase \in {"fill", "refill"} /\ Visited(w) /\ pending # << >>
    /\ active' = active \union {Started(w, Head(pending))} /\ pending' = Tail(pending)
    /\ toFill' = toFill \ {w}
    /\ UNCHANGED <<dbVars, fileVars, phase, listed, failed, succeeded, dropped, stray,
                   rebuilds, fails, deleting, faults>>

\* .remote() raises RayActorError: the worker is rebuilt and the session put
\* back.  Only later rounds count it against the session.
AssignToDead(w) ==
    /\ phase \in {"fill", "refill"} /\ Visited(w) /\ pending # << >>
    /\ rebuilds + 1 < MaxRebuilds /\ rebuilds' = rebuilds + 1
    /\ Rebuild(w, active) /\ toFill' = toFill \ {w}
    /\ fails' = IF phase = "refill" THEN [fails EXCEPT ![Head(pending)] = @ + 1] ELSE fails
    /\ pending' = PutBack
    /\ UNCHANGED <<dbVars, fileVars, phase, listed, failed, succeeded, dropped,
                   deleting, faults>>

\* At the limit (which the first round, one rebuild per worker, cannot reach)
\* the loop is left at once, also by the futures this round has started.
AssignAtLimit(w) ==
    /\ phase = "refill" /\ Visited(w) /\ pending # << >>
    /\ rebuilds + 1 >= MaxRebuilds /\ rebuilds' = rebuilds + 1
    /\ dropped' = {x.session : x \in active}
    /\ stray' = stray \union {x \in active : x.stage \in Working}
    /\ active' = {} /\ toFill' = {} /\ phase' = "loop"
    /\ pending' = PutBack
    /\ UNCHANGED <<dbVars, fileVars, listed, failed, succeeded, fails,
                   deleting, faults>>

\* The round is over; a later round drops the sessions that failed too often,
\* and records each of them as failed: also one that this very round, after
\* another failure, has started once more.
RoundDone ==
    /\ phase \in {"fill", "refill"} /\ (toFill = {} \/ pending = << >>)
    /\ LET within(s) == phase = "fill" \/ fails[s] < MaxSessionRetries
           kept == {i \in DOMAIN pending : within(pending[i])} IN
       /\ \E order \in SetToSeqs(kept) :
            /\ \A i, j \in DOMAIN order : i < j => order[i] < order[j]
            /\ pending' = [i \in DOMAIN order |-> pending[order[i]]]
       /\ failed' = failed \union {s \in listed : ~within(s)}
    /\ phase' = "loop" /\ toFill' = {}
    /\ UNCHANGED <<dbVars, fileVars, listed, active, succeeded, dropped, stray, rebuilds,
                   fails, deleting, faults>>

\* Mutation of Refill: idle workers are given sessions while others still work.
RefillEarly ==
    /\ phase = "loop" /\ pending # << >> /\ rebuilds < MaxRebuilds
    /\ phase' = "refill" /\ toFill' = Slots
    /\ UNCHANGED <<dbVars, fileVars, listed, sessionVars, rebuilds, fails, deleting,
                   faults>>

\* Nothing runs and something waits: a new round.
Refill ==
    /\ phase = "loop" /\ active = {} /\ pending # << >> /\ rebuilds < MaxRebuilds
    /\ phase' = "refill" /\ toFill' = Slots
    /\ UNCHANGED <<dbVars, fileVars, listed, sessionVars, rebuilds, fails, deleting,
                   faults>>

CollectUnchanged ==
    UNCHANGED <<dbVars, fileVars, phase, listed, dropped, toFill, deleting, faults>>

\* Mutation of CollectResult: the next session is started but stays in the queue.
CollectResultKeepsNext(x) ==
    /\ phase = "loop" /\ x \in active /\ x.stage = "done"
    /\ succeeded' = succeeded \union {x.session} /\ rebuilds' = 0
    /\ \/ pending = << >> /\ active' = active \ {x}
       \/ /\ pending # << >>
          /\ active' = (active \ {x}) \union {Started(x.slot, Head(pending))}
    /\ UNCHANGED <<pending, failed, fails, stray>> /\ CollectUnchanged

\* A session is archived: its worker gets the next one, if there is one.
CollectResult(x) ==
    /\ phase = "loop" /\ x \in active /\ x.stage = "done"
    /\ succeeded' = succeeded \union {x.session} /\ rebuilds' = 0
    /\ \/ pending = << >> /\ active' = active \ {x} /\ UNCHANGED pending
       \/ /\ pending # << >>
          /\ active' = (active \ {x}) \union {Started(x.slot, Head(pending))}
          /\ pending' = Tail(pending)
    /\ UNCHANGED <<failed, fails, stray>> /\ CollectUnchanged

\* A session whose worker died goes to the end of `queue', or is given up after
\* MAX_SESSION_RETRIES.
Retry(s, queue) ==
    /\ fails' = [fails EXCEPT ![s] = @ + 1]
    /\ \/ /\ fails[s] + 1 < MaxSessionRetries
          /\ pending' = Append(queue, s) /\ UNCHANGED failed
       \/ /\ fails[s] + 1 >= MaxSessionRetries
          /\ pending' = queue /\ failed' = failed \union {s}

\* The worker of an archived session dies before it can be given the next one
\* (its rebuild is the first since a success, so the limit is not reached).
CollectResultThenDead(x) ==
    /\ phase = "loop" /\ x \in active /\ x.stage = "done" /\ pending # << >>
    /\ succeeded' = succeeded \union {x.session} /\ rebuilds' = 1
    /\ Rebuild(x.slot, active \ {x})
    /\ Retry(Head(pending), Tail(pending))
    /\ CollectUnchanged

CollectError(x) ==
    /\ phase = "loop" /\ x \in active /\ x.stage = "error"
    /\ active' = active \ {x} /\ failed' = failed \union {x.session}
    /\ UNCHANGED <<pending, succeeded, rebuilds, fails, stray>> /\ CollectUnchanged

\* Mutation of CollectDeath: neither counter is touched.
CollectDeathUncounted(x) ==
    /\ phase = "loop" /\ x \in active /\ x.stage = "dead"
    /\ Rebuild(x.slot, active \ {x})
    /\ pending' = Append(pending, x.session)
    /\ UNCHANGED <<failed, succeeded, rebuilds, fails>> /\ CollectUnchanged

\* A worker died: it is rebuilt and its session retried; at the limit it is left
\* alone and the session has failed.  (That the worker has no other future, which
\* the code would cancel, is OneSessionPerWorker.)
CollectDeath(x) ==
    /\ phase = "loop" /\ x \in active /\ x.stage = "dead"
    /\ rebuilds' = rebuilds + 1
    /\ \/ /\ rebuilds' < MaxRebuilds
          /\ Rebuild(x.slot, active \ {x})
          /\ Retry(x.session, pending)
       \/ /\ rebuilds' >= MaxRebuilds
          /\ active' = active \ {x} /\ failed' = failed \union {x.session}
          /\ fails' = [fails EXCEPT ![x.session] = @ + 1]
          /\ UNCHANGED <<pending, stray>>
    /\ UNCHANGED succeeded /\ CollectUnchanged

\* The loop ends; what still waits has failed.  A run without a success is an
\* error and nothing is cleaned up.
LoopEnd ==
    /\ phase = "loop" /\ active = {} /\ (pending = << >> \/ rebuilds >= MaxRebuilds)
    /\ \/ succeeded = {} /\ Raise
       \/ /\ succeeded # {} /\ phase' = "cleanup"
          /\ failed' = failed \union ToSet(pending) /\ pending' = << >>
          /\ UNCHANGED <<listed, active, succeeded, dropped, stray, toFill, rebuilds, fails,
                         deleting>>
    /\ UNCHANGED <<dbVars, fileVars, faults>>

\* Mutation of Cleaned: the whole run is cleaned up.
CleanedRun == listed

\* successful_session_ids
Cleaned == succeeded

\* _cleanup_run, one transaction of two statements: the DELETE sees the rows
\* that are committed by then, the UPDATE those committed by its own time.
CleanupDelete ==
    /\ phase = "cleanup" /\ phase' = "commit"
    /\ deleting' = {r \in details : SessionOf[r] \in Cleaned}
    /\ UNCHANGED <<dbVars, fileVars, listed, sessionVars, toFill, rebuilds, fails,
                   faults>>

CleanupCommit ==
    /\ phase = "commit"
    /\ details' = details \ deleting
    /\ archived' = archived \union {r \in known : SessionOf[r] \in Cleaned}
    /\ Reset
    /\ UNCHANGED <<known, fresh, fileVars, stray, faults>>

\* The clean-up raises and is rolled back; the next cycle tries again.
CleanupFailed ==
    /\ phase \in {"cleanup", "commit"} /\ faults < MaxFaults /\ faults' = faults + 1
    /\ Raise
    /\ UNCHANGED <<dbVars, fileVars>>

\* The archiver process dies with its workers: the next one starts from the
\* database and the files that are there.
Crash ==
    /\ faults < MaxFaults /\ faults' = faults + 1
    /\ Reset /\ stray' = {}
    /\ UNCHANGED <<dbVars, fileVars>>

-----------------------------------------------------------------------------
Worker(w) == \E x \in active \union stray : x.slot = w /\ (Open(x) \/ Write(x) \/ Upload(x))

Coordinator ==
    \/ FindExpired \/ ListSessions \/ RoundDone \/ Refill \/ LoopEnd
    \/ CleanupDelete \/ CleanupCommit
    \/ \E w \in Slots : Assign(w) \/ AssignToDead(w) \/ AssignAtLimit(w)
    \/ \E x \in active :
         \/ CollectResult(x) \/ CollectResultThenDead(x)
         \/ CollectError(x) \/ CollectDeath(x)

Next ==
    \/ \E r \in Records : Insert(r)
    \/ Expire
    \/ \E w \in Slots : Worker(w)
    \/ \E x \in active \union stray : TaskError(x) \/ Die(x)
    \/ Coordinator
    \/ CleanupFailed \/ Crash

Spec == Init /\ [][Next]_vars

\* The coordinator keeps running, and tasks go on: which of them is left open.
Fairness == WF_vars(Coordinator) /\ WF_vars(\E w \in Slots : Worker(w))

FairSpec == Spec /\ Fairness

-----------------------------------------------------------------------------
(* Properties.                                                              *)

\* A record that the database says is archived can be read from the file of its
\* session: whatever crashed, was retried or failed half-way in between.
FileIsComplete ==
    \A r \in archived : r \in UNION ToSet(stored[PathOf[SessionOf[r]]])

Waiting == ToSet(pending)
Running == {x.session : x \in active}

\* No session is handed out twice: through every retry, rebuild and abort each
\* listed one waits, is being worked on, has failed, has succeeded, or was
\* dropped by the abort of a round, and it is in one of these places only.  The
\* one exception is a session that has used up its retries (see RoundDone).
SessionsAccounted ==
    /\ listed = Waiting \union Running \union failed \union succeeded \union dropped
    /\ IsInjective(pending)
    /\ Waiting \intersect (Running \union failed \union succeeded \union dropped) = {}
    /\ Running \intersect (succeeded \union dropped) = {}
    /\ dropped \intersect (failed \union succeeded) = {}
    /\ \A x, y \in active : x.session = y.session => x = y
    /\ \A s \in failed \intersect (Running \union succeeded) : fails[s] >= MaxSessionRetries

\* A worker has one session at a time, and every worker that is waited for is in
\* the list: _rebuild_worker_in_list always finds the one that died (otherwise
\* it would assign beyond the end of the list).
OneSessionPerWorker ==
    \A x, y \in active : x.current /\ (x.slot = y.slot => x = y)

\* The archiving of a run comes to an end, however often workers die: this is
\* what the rebuild and retry limits are for.
RunEnds == phase # "idle" ~> phase = "idle"
=============================================================================
