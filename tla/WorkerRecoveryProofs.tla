------------------------ MODULE WorkerRecoveryProofs ------------------------
(***************************************************************************)
(* Proofs about WorkerRecovery, for any number of workers, any limits and  *)
(* any number of faults: types, one server per process, and that every     *)
(* restart is paid for by a fault.                                         *)
(*                                                                         *)
(* OneServer is not inductive: it needs that an initialisation under way   *)
(* has a living process with one server.  RestartsArePaid needs that the   *)
(* error which makes the manager kill a worker, and the server that causes *)
(* this error, are traces of a fault for which no restart was used yet.    *)
(***************************************************************************)
EXTENDS WorkerRecovery, TLAPS

(* An initialisation under way. *)
UnderWay ==
  \A i \in Workers : call[i] = "running" =>
    actor[i] = "alive" /\ servers[i] = 1 /\ ~initialized[i]

(* A process that ended has neither server nor components. *)
Gone ==
  \A i \in Workers : actor[i] # "alive" => servers[i] = 0 /\ ~initialized[i]

(* A server without components, and the error it causes, come from a fault *)
(* that has not been followed by a restart.                                *)
Unpaid ==
  \A i \in Workers :
    /\ call[i] = "runtime" => restarts[i] < faults[i]
    /\ servers[i] > 0 /\ ~initialized[i] /\ call[i] # "running" => restarts[i] < faults[i]

IInv == TypeOK /\ OneServer /\ UnderWay /\ Gone /\ Unpaid /\ RestartsArePaid

USE WorkerAssumption

(* The initial states satisfy the inductive invariant. *)
LEMMA InitIInv == Init => IInv
  BY DEF Init, IInv, TypeOK, OneServer, UnderWay, Gone, Unpaid, RestartsArePaid, Workers

(* The steps of an actor: initialize, its components, the new process. *)
LEMMA ActorStepIInv ==
  ASSUME NEW i \in Workers, IInv, ActorStep(i)
  PROVE  IInv'
<1> USE DEF IInv, actorvars, managervars, callvars
<1>1. CASE Initialize(i)
  BY <1>1 DEF Initialize, TypeOK, OneServer, UnderWay, Gone, Unpaid, RestartsArePaid
<1>2. CASE ComponentsReady(i)
  BY <1>2 DEF ComponentsReady, TypeOK, OneServer, UnderWay, Gone, Unpaid, RestartsArePaid
<1>3. CASE Restart(i)
  BY <1>3 DEF Restart, TypeOK, OneServer, UnderWay, Gone, Unpaid, RestartsArePaid
<1>4. CASE CallOfTheDead(i)
  BY <1>4 DEF CallOfTheDead, TypeOK, OneServer, UnderWay, Gone, Unpaid, RestartsArePaid
<1> QED BY <1>1, <1>2, <1>3, <1>4 DEF ActorStep

(* A fault: a component that fails or a process that ends. *)
LEMMA FaultIInv ==
  ASSUME NEW i \in Workers, IInv, Fault(i)
  PROVE  IInv'
<1> USE DEF IInv, actorvars, managervars, callvars
<1>1. CASE ComponentFails(i)
  BY <1>1 DEF ComponentFails, TypeOK, OneServer, UnderWay, Gone, Unpaid, RestartsArePaid
<1>2. CASE Crash(i)
  <2> USE <1>2 DEF Crash, ProcessEnds
  <2>1. TypeOK'
    BY DEF TypeOK
  <2>2. OneServer' /\ UnderWay' /\ Gone'
    BY DEF TypeOK, OneServer, UnderWay, Gone
  <2>3. Unpaid' /\ RestartsArePaid'
    BY DEF TypeOK, Unpaid, RestartsArePaid
  <2> QED BY <2>1, <2>2, <2>3
<1> QED BY <1>1, <1>2 DEF Fault

(* The start of the workers touches no process. *)
LEMMA StartStepIInv ==
  ASSUME NEW i \in Workers, IInv, StartStep(i)
  PROVE  IInv'
<1> USE DEF IInv, actorvars, managervars, callvars
<1>1. CASE Start(i)
  BY <1>1 DEF Start, Submit, TypeOK, OneServer, UnderWay, Gone, Unpaid, RestartsArePaid
<1>2. CASE StartUp(i)
  BY <1>2 DEF StartUp, TypeOK, OneServer, UnderWay, Gone, Unpaid, RestartsArePaid
<1>3. CASE StartRetry(i)
  BY <1>3 DEF StartRetry, TypeOK, OneServer, UnderWay, Gone, Unpaid, RestartsArePaid
<1>4. CASE StartFails(i)
  BY <1>4 DEF StartFails, TypeOK, OneServer, UnderWay, Gone, Unpaid, RestartsArePaid
<1> QED BY <1>1, <1>2, <1>3, <1>4 DEF StartStep

(* The health loop stays among the workers. *)
LEMMA GoOnType == TypeOK /\ GoOn => at' \in 0..N
  BY DEF TypeOK, GoOn

(* The health loop: the kill spends the restart its RuntimeError paid for. *)
LEMMA HealthStepIInv ==
  ASSUME NEW i \in Workers, IInv, HealthStep(i)
  PROVE  IInv'
<1> USE DEF IInv, actorvars, managervars, callvars
<1>1. CASE Answers(i)
  BY <1>1, GoOnType DEF Answers, Checking, Submit, TypeOK, OneServer, UnderWay, Gone,
     Unpaid, RestartsArePaid
<1>2. CASE AnswersLate(i)
  BY <1>2, GoOnType DEF AnswersLate, Checking, TypeOK, OneServer, UnderWay, Gone,
     Unpaid, RestartsArePaid
<1>3. CASE IsDead(i)
  BY <1>3, GoOnType DEF IsDead, Checking, TypeOK, OneServer, UnderWay, Gone, Unpaid, RestartsArePaid
<1>4. CASE Reinitialized(i)
  BY <1>4, GoOnType DEF Reinitialized, TypeOK, OneServer, UnderWay, Gone, Unpaid, RestartsArePaid
<1>5. CASE Zombie(i)
  <2> USE <1>5 DEF Zombie, ProcessEnds
  <2>1. TypeOK'
    <3>1. at' \in 0..N
      BY GoOnType
    <3>2. CASE actor[i] = "alive"
      <4>1. restarts' \in [Workers -> 0..MaxRestarts]
        BY <3>2 DEF TypeOK
      <4>2. /\ actor' \in [Workers -> {"alive", "restarting", "dead"}]
            /\ servers' \in [Workers -> Nat]
        BY <3>2 DEF TypeOK
      <4>3. initialized' \in [Workers -> BOOLEAN]
        BY <3>2 DEF TypeOK
      <4>4. call' \in [Workers -> {"none", "sent", "running", "ok", "runtime", "failed", "died"}]
        BY DEF TypeOK
      <4> QED BY <3>1, <4>1, <4>2, <4>3, <4>4 DEF TypeOK
    <3>3. CASE actor[i] # "alive"
      BY <3>1, <3>3 DEF TypeOK
    <3> QED BY <3>2, <3>3
  <2>2. OneServer' /\ UnderWay' /\ Gone'
    BY DEF TypeOK, OneServer, UnderWay, Gone
  <2>3. Unpaid' /\ RestartsArePaid'
    BY DEF TypeOK, Gone, Unpaid, RestartsArePaid
  <2> QED BY <2>1, <2>2, <2>3
<1> QED BY <1>1, <1>2, <1>3, <1>4, <1>5 DEF HealthStep

(* The steps of the manager that concern no single worker. *)
LEMMA ManagerIInv ==
  ASSUME IInv, AllStarted \/ Abort \/ Wake \/ Shutdown
  PROVE  IInv'
<1> USE DEF IInv, actorvars, managervars, callvars
<1>1. CASE AllStarted
  BY <1>1 DEF AllStarted, TypeOK, OneServer, UnderWay, Gone, Unpaid, RestartsArePaid
<1>2. CASE Wake
  BY <1>2 DEF Wake, TypeOK, OneServer, UnderWay, Gone, Unpaid, RestartsArePaid
<1>3. CASE Abort
  BY <1>3 DEF Abort, Ends, TypeOK, OneServer, UnderWay, Gone, Unpaid, RestartsArePaid
<1>4. CASE Shutdown
  BY <1>4 DEF Shutdown, Ends, TypeOK, OneServer, UnderWay, Gone, Unpaid, RestartsArePaid
<1> QED BY <1>1, <1>2, <1>3, <1>4

(* The inductive invariant holds in every reachable state. *)
THEOREM Inductive == Spec => []IInv
<1>1. ASSUME IInv, [Next]_vars
      PROVE  IInv'
  <2>1. CASE Next
    BY <1>1, <2>1, ActorStepIInv, FaultIInv, StartStepIInv, HealthStepIInv, ManagerIInv DEF Next
  <2>2. CASE UNCHANGED vars
    BY <1>1, <2>2 DEF IInv, TypeOK, OneServer, UnderWay, Gone, Unpaid, RestartsArePaid, Workers,
                      vars, actorvars, managervars, callvars
  <2> QED BY <1>1, <2>1, <2>2
<1> QED BY InitIInv, <1>1, PTL DEF Spec

(* Types are kept: in particular no worker is tried more than             *)
(* MaxInitRetries times at the start.                                      *)
THEOREM Typed == Spec => []TypeOK
  BY Inductive, PTL DEF IInv

(* No process ever runs two servers, and an initialised worker has one.    *)
THEOREM OneServerAlways == Spec => []OneServer
  BY Inductive, PTL DEF IInv

(* Killing workers whose initialisation failed never uses up max_restarts: *)
(* a worker is given up only after more than MaxRestarts faults of its own.*)
THEOREM RestartsArePaidAlways == Spec => []RestartsArePaid
  BY Inductive, PTL DEF IInv
=============================================================================
