--------------------------- MODULE WorkerRecovery ---------------------------
(***************************************************************************)
(* The manager of the worker processes and its workers, which are Ray      *)
(* actors: the start with its retries, the health loop that initialises    *)
(* restarted workers again, and the killing of workers whose server thread *)
(* outlived a failed initialisation.                                       *)
(*                                                                         *)
(* The manager runs in one event loop and calls the actors' method         *)
(* initialize; the process of an actor may die at any time.  Ray starts it *)
(* again, with a fresh state, as long as max_restarts allows, and repeats  *)
(* the call that was lost as long as max_task_retries allows.              *)
(***************************************************************************)
EXTENDS Naturals

CONSTANTS
  N,               \* number of workers
  MaxRestarts,     \* max_restarts of the actors
  MaxTaskRetries,  \* max_task_retries of the actors
  MaxInitRetries,  \* max_init_retries of the manager
  MaxFaults        \* bound: crashes and failed initialisations of a worker

ASSUME WorkerAssumption ==
  /\ N \in Nat \ {0}
  /\ MaxRestarts \in Nat /\ MaxTaskRetries \in Nat
  /\ MaxInitRetries \in Nat \ {0}
  /\ MaxFaults \in Nat

VARIABLES
  phase,        \* of the manager: "starting", "running", "aborted", "stopped"
  at,           \* the worker its health loop is at, 0 while it sleeps
  started,      \* how the start of each worker went: "init", "up", "failed"
  attempt,      \* attempts to initialise it at the start
  actor,        \* "alive", "restarting" or "dead"
  restarts,     \* restarts it has had
  faults,       \* crashes and failures it has had
  servers,      \* server threads in its process
  initialized,  \* _initialized
  call,         \* the manager's call of initialize, or its outcome
  retries       \* repetitions Ray has left for that call

managervars == <<phase, at, started, attempt>>
actorvars == <<actor, restarts, servers, initialized>>
callvars == <<call, retries>>
vars == <<managervars, actorvars, faults, callvars>>

Workers == 1..N

Init ==
  /\ phase = "starting" /\ at = 0
  /\ started = [i \in Workers |-> "init"]
  /\ attempt = [i \in Workers |-> 1]
  /\ actor = [i \in Workers |-> "alive"]
  /\ restarts = [i \in Workers |-> 0]
  /\ faults = [i \in Workers |-> 0]
  /\ servers = [i \in Workers |-> 0]
  /\ initialized = [i \in Workers |-> FALSE]
  /\ call = [i \in Workers |-> "none"]
  /\ retries = [i \in Workers |-> 0]

-----------------------------------------------------------------------------
(* The actor *)

(* Mutation of Initialize: the thread of an earlier attempt is not looked  *)
(* for.                                                                    *)
InitializeUnchecked(i) ==
  /\ call[i] = "sent" /\ actor[i] = "alive"
  /\ IF initialized[i]
       THEN call' = [call EXCEPT ![i] = "ok"] /\ UNCHANGED servers
       ELSE /\ call' = [call EXCEPT ![i] = "running"]
            /\ servers' = [servers EXCEPT ![i] = @ + 1]
  /\ UNCHANGED <<managervars, actor, restarts, initialized, faults, retries>>

(* initialize, until it awaits the initialisation of its components: it    *)
(* raises a RuntimeError if the server of a failed attempt still runs.     *)
Initialize(i) ==
  /\ call[i] = "sent" /\ actor[i] = "alive"
  /\ IF initialized[i]
       THEN call' = [call EXCEPT ![i] = "ok"] /\ UNCHANGED servers
     ELSE IF servers[i] > 0
       THEN call' = [call EXCEPT ![i] = "runtime"] /\ UNCHANGED servers
       ELSE /\ call' = [call EXCEPT ![i] = "running"]
            /\ servers' = [servers EXCEPT ![i] = @ + 1]
  /\ UNCHANGED <<managervars, actor, restarts, initialized, faults, retries>>

(* ProxyWorker.initialize: pool, repositories, model synchronisation. *)
ComponentsReady(i) ==
  /\ call[i] = "running"
  /\ initialized' = [initialized EXCEPT ![i] = TRUE]
  /\ call' = [call EXCEPT ![i] = "ok"]
  /\ UNCHANGED <<managervars, actor, restarts, servers, faults, retries>>

(* One of them fails; the thread with the server stays. *)
ComponentFails(i) ==
  /\ call[i] = "running" /\ faults[i] < MaxFaults
  /\ faults' = [faults EXCEPT ![i] = @ + 1]
  /\ \E error \in {"failed", "runtime"} : call' = [call EXCEPT ![i] = error]
  /\ UNCHANGED <<managervars, actorvars, retries>>

(* The process of an actor ends, and with it its threads.  A call that was *)
(* not answered is repeated or fails with a RayActorError.                 *)
ProcessEnds(i) ==
  LET again == restarts[i] < MaxRestarts IN
    /\ actor' = [actor EXCEPT ![i] = IF again THEN "restarting" ELSE "dead"]
    /\ restarts' = [restarts EXCEPT ![i] = IF again THEN @ + 1 ELSE @]
    /\ servers' = [servers EXCEPT ![i] = 0]
    /\ initialized' = [initialized EXCEPT ![i] = FALSE]

Crash(i) ==
  /\ phase \in {"starting", "running"}
  /\ actor[i] = "alive" /\ faults[i] < MaxFaults
  /\ ProcessEnds(i)
  /\ faults' = [faults EXCEPT ![i] = @ + 1]
  /\ IF call[i] \notin {"sent", "running"} THEN UNCHANGED callvars
     ELSE IF restarts[i] < MaxRestarts /\ retries[i] > 0
       THEN /\ call' = [call EXCEPT ![i] = "sent"]
            /\ retries' = [retries EXCEPT ![i] = @ - 1]
       ELSE call' = [call EXCEPT ![i] = "died"] /\ UNCHANGED retries
  /\ UNCHANGED managervars

(* __init__ runs in the new process; initialize does not. *)
Restart(i) ==
  /\ actor[i] = "restarting"
  /\ actor' = [actor EXCEPT ![i] = "alive"]
  /\ UNCHANGED <<managervars, restarts, servers, initialized, faults, callvars>>

(* A call of an actor without a process fails. *)
CallOfTheDead(i) ==
  /\ call[i] = "sent" /\ actor[i] = "dead"
  /\ call' = [call EXCEPT ![i] = "died"]
  /\ UNCHANGED <<managervars, actorvars, faults, retries>>

-----------------------------------------------------------------------------
(* The start *)

Submit(i) ==
  /\ call' = [call EXCEPT ![i] = "sent"]
  /\ retries' = [retries EXCEPT ![i] = MaxTaskRetries]

Start(i) ==
  /\ phase = "starting" /\ started[i] = "init" /\ call[i] = "none"
  /\ Submit(i)
  /\ UNCHANGED <<managervars, actorvars, faults>>

StartUp(i) ==
  /\ phase = "starting" /\ call[i] = "ok"
  /\ started' = [started EXCEPT ![i] = "up"]
  /\ call' = [call EXCEPT ![i] = "none"]
  /\ UNCHANGED <<phase, at, attempt, actorvars, faults, retries>>

(* Mutation of StartRetry: one attempt too many. *)
StartRetryTooOften(i) ==
  /\ phase = "starting" /\ call[i] \in {"failed", "died"}
  /\ attempt[i] <= MaxInitRetries
  /\ attempt' = [attempt EXCEPT ![i] = @ + 1]
  /\ call' = [call EXCEPT ![i] = "none"]
  /\ UNCHANGED <<phase, at, started, actorvars, faults, retries>>

(* Another attempt, unless the error is a RuntimeError. *)
StartRetry(i) ==
  /\ phase = "starting" /\ call[i] \in {"failed", "died"}
  /\ attempt[i] < MaxInitRetries
  /\ attempt' = [attempt EXCEPT ![i] = @ + 1]
  /\ call' = [call EXCEPT ![i] = "none"]
  /\ UNCHANGED <<phase, at, started, actorvars, faults, retries>>

(* Mutation of StartFails: a RuntimeError is not passed on. *)
StartFailsQuietly(i) ==
  /\ phase = "starting"
  /\ call[i] \in {"failed", "died"} /\ attempt[i] = MaxInitRetries
  /\ started' = [started EXCEPT ![i] = "failed"]
  /\ call' = [call EXCEPT ![i] = "none"]
  /\ UNCHANGED <<phase, at, attempt, actorvars, faults, retries>>

(* A RuntimeError, or the last attempt failed. *)
StartFails(i) ==
  /\ phase = "starting"
  /\ \/ call[i] = "runtime"
     \/ call[i] \in {"failed", "died"} /\ attempt[i] = MaxInitRetries
  /\ started' = [started EXCEPT ![i] = "failed"]
  /\ call' = [call EXCEPT ![i] = "none"]
  /\ UNCHANGED <<phase, at, attempt, actorvars, faults, retries>>

(* All are up: the health loop begins. *)
AllStarted ==
  /\ phase = "starting" /\ \A i \in Workers : started[i] = "up"
  /\ phase' = "running"
  /\ UNCHANGED <<at, started, attempt, actorvars, faults, callvars>>

(* Ray ends with the manager's process. *)
Ends(how) ==
  /\ phase' = how
  /\ at' = 0
  /\ actor' = [i \in Workers |-> "dead"]
  /\ servers' = [i \in Workers |-> 0]
  /\ initialized' = [i \in Workers |-> FALSE]
  /\ call' = [i \in Workers |-> "none"]
  /\ UNCHANGED <<started, attempt, restarts, faults, retries>>

(* gather passes the first error on and the process ends. *)
Abort ==
  /\ phase = "starting" /\ \E i \in Workers : started[i] = "failed"
  /\ Ends("aborted")

Shutdown == phase = "running" /\ Ends("stopped")

-----------------------------------------------------------------------------
(* The health loop *)

GoOn == at' = IF at = N THEN 0 ELSE at + 1

Wake ==
  /\ phase = "running" /\ at = 0
  /\ at' = 1
  /\ UNCHANGED <<phase, started, attempt, actorvars, faults, callvars>>

Checking(i) == phase = "running" /\ at = i /\ call[i] = "none"

(* The actor says whether it is initialised. *)
Answers(i) ==
  /\ Checking(i) /\ actor[i] = "alive"
  /\ IF initialized[i]
       THEN GoOn /\ UNCHANGED callvars
       ELSE Submit(i) /\ UNCHANGED at
  /\ UNCHANGED <<phase, started, attempt, actorvars, faults>>

(* Mutation of AnswersLate: the worker is killed. *)
AnswersLateIsKilled(i) ==
  /\ Checking(i) /\ actor[i] # "dead"
  /\ GoOn
  /\ ProcessEnds(i)
  /\ UNCHANGED <<phase, started, attempt, faults, callvars>>

(* It does not answer in time: the next round asks again. *)
AnswersLate(i) ==
  /\ Checking(i) /\ actor[i] # "dead"
  /\ GoOn
  /\ UNCHANGED <<phase, started, attempt, actorvars, faults, callvars>>

(* It is dead: that is logged. *)
IsDead(i) ==
  /\ Checking(i) /\ actor[i] = "dead"
  /\ GoOn
  /\ UNCHANGED <<phase, started, attempt, actorvars, faults, callvars>>

(* The new initialisation succeeded, or the next round has to see to it. *)
Reinitialized(i) ==
  /\ phase = "running" /\ at = i /\ call[i] \in {"ok", "died", "failed"}
  /\ call' = [call EXCEPT ![i] = "none"]
  /\ GoOn
  /\ UNCHANGED <<phase, started, attempt, actorvars, faults, retries>>

(* Mutation of Zombie: the error is logged like the others. *)
ZombieStays(i) ==
  /\ phase = "running" /\ at = i /\ call[i] = "runtime"
  /\ call' = [call EXCEPT ![i] = "none"]
  /\ GoOn
  /\ UNCHANGED <<phase, started, attempt, actorvars, faults, retries>>

(* A RuntimeError: ray.kill ends the process so that Ray starts a new one, *)
(* whose port is free.                                                     *)
Zombie(i) ==
  /\ phase = "running" /\ at = i /\ call[i] = "runtime"
  /\ call' = [call EXCEPT ![i] = "none"]
  /\ GoOn
  /\ IF actor[i] = "alive" THEN ProcessEnds(i) ELSE UNCHANGED actorvars
  /\ UNCHANGED <<phase, started, attempt, faults, retries>>

-----------------------------------------------------------------------------
ActorStep(i) ==
  Initialize(i) \/ ComponentsReady(i) \/ Restart(i) \/ CallOfTheDead(i)
StartStep(i) == Start(i) \/ StartUp(i) \/ StartRetry(i) \/ StartFails(i)
HealthStep(i) ==
  Answers(i) \/ AnswersLate(i) \/ IsDead(i) \/ Reinitialized(i) \/ Zombie(i)
Fault(i) == ComponentFails(i) \/ Crash(i)

Next ==
  \/ \E i \in Workers : ActorStep(i) \/ StartStep(i) \/ HealthStep(i) \/ Fault(i)
  \/ AllStarted \/ Abort \/ Wake \/ Shutdown

Spec == Init /\ [][Next]_vars

(* The event loop and Ray go on, and an actor that is asked again and      *)
(* again answers in time at last.                                          *)
FairSpec ==
  /\ Spec
  /\ WF_vars(AllStarted) /\ WF_vars(Abort) /\ WF_vars(Wake)
  /\ \A i \in Workers : /\ WF_vars(ActorStep(i)) /\ WF_vars(StartStep(i))
                        /\ WF_vars(HealthStep(i)) /\ SF_vars(Answers(i))

-----------------------------------------------------------------------------
(* Properties *)

(* Types of the variables; a worker is tried MaxInitRetries times.         *)
TypeOK ==
  /\ phase \in {"starting", "running", "aborted", "stopped"}
  /\ at \in 0..N
  /\ started \in [Workers -> {"init", "up", "failed"}]
  /\ attempt \in [Workers -> 1..MaxInitRetries]
  /\ actor \in [Workers -> {"alive", "restarting", "dead"}]
  /\ restarts \in [Workers -> 0..MaxRestarts]
  /\ faults \in [Workers -> 0..MaxFaults]
  /\ servers \in [Workers -> Nat]
  /\ initialized \in [Workers -> BOOLEAN]
  /\ call \in [Workers -> {"none", "sent", "running", "ok", "runtime", "failed", "died"}]
  /\ retries \in [Workers -> 0..MaxTaskRetries]

(* A process never starts a second server on its port, however its         *)
(* initialisations fail and are repeated (initialize is idempotent); and   *)
(* an initialised worker has its server.                                   *)
OneServer ==
  \A i \in Workers : servers[i] <= 1 /\ (initialized[i] => servers[i] = 1)

(* Every restart is paid for by a fault of its own: the killing of workers *)
(* whose initialisation failed does not use up max_restarts by itself, so  *)
(* that a worker is lost only after more than MaxRestarts faults.          *)
RestartsArePaid ==
  \A i \in Workers :
    /\ restarts[i] <= faults[i]
    /\ actor[i] = "dead" /\ phase \in {"starting", "running"} => faults[i] > MaxRestarts

(* While the manager runs, a worker that does not serve does so again      *)
(* later, whatever failed and in whichever order, unless Ray gave it up.   *)
Recovers ==
  \A i \in Workers :
    phase = "running" ~> initialized[i] \/ actor[i] = "dead" \/ phase = "stopped"

(* The start ends, with all workers up or with the end of the process,     *)
(* even when a worker dies for good during it.                             *)
StartEnds == <>(phase # "starting")
=============================================================================
