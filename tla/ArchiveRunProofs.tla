-------------------------- MODULE ArchiveRunProofs --------------------------
(***************************************************************************)
(* Proofs about ArchiveRun, for any number of workers, sessions, records   *)
(* and retries: its types, that the coordinator loses sight of no session  *)
(* and hands none out twice, that a worker has one session at a time, and  *)
(* that no record is lost.                                                 *)
(***************************************************************************)
EXTENDS ArchiveRun, FiniteSetTheorems, SequenceTheorems, TLAPS

USE ArchiveAssumption
-----------------------------------------------------------------------------
(* Queues of distinct sessions.                                            *)

(* Nothing waits in an empty queue. *)
LEMMA EmptyQueue == ToSet(<< >>) = {} /\ IsInjective(<< >>)
BY DEF ToSet, IsInjective

(* The first of the queue is not among the others. *)
LEMMA TakeFirst ==
  ASSUME NEW q \in Seq(Sessions), q # << >>, IsInjective(q)
  PROVE  /\ Head(q) \in Sessions /\ Tail(q) \in Seq(Sessions) /\ IsInjective(Tail(q))
         /\ Head(q) \notin ToSet(Tail(q))
         /\ \A s : s \in ToSet(q) <=> s = Head(q) \/ s \in ToSet(Tail(q))
<1> DEFINE p == Tail(q)
           h == Head(q)
<1>1. /\ h \in Sessions /\ p \in Seq(Sessions) /\ Len(p) = Len(q) - 1
      /\ \A i \in 1 .. Len(p) : p[i] = q[i + 1]
  BY ONLY q # << >>, HeadTailProperties
<1>2. Len(q) \in Nat \ {0}
  BY ONLY q # << >>, EmptySeq
<1>3. h = q[1]
  BY q # << >>
<1>4. DOMAIN q = 1 .. Len(q) /\ DOMAIN p = 1 .. Len(p)
  BY <1>1
<1> HIDE DEF p, h
<1>5. IsInjective(p) /\ h \notin ToSet(p)
  <2>1. \A i \in 1 .. Len(p) : i + 1 \in 1 .. Len(q) /\ i + 1 # 1 /\ 1 \in 1 .. Len(q)
    BY ONLY <1>1, <1>2
  <2>2. \A i, j \in 1 .. Len(p) : i + 1 = j + 1 => i = j
    BY ONLY <1>1, <1>2
  <2>3. \A i, j \in 1 .. Len(q) : q[i] = q[j] => i = j
    BY ONLY <1>4, IsInjective(q) DEF IsInjective
  <2>4. IsInjective(p)
    <3> SUFFICES ASSUME NEW i \in 1 .. Len(p), NEW j \in 1 .. Len(p), p[i] = p[j] PROVE i = j
      BY <1>4 DEF IsInjective
    <3>1. q[i + 1] = q[j + 1]
      BY <1>1
    <3> QED BY <2>1, <2>2, <2>3, <3>1
  <2>5. \A i \in 1 .. Len(p) : p[i] # h
    BY ONLY <1>1, <1>3, <2>1, <2>3
  <2> QED BY ONLY <1>4, <2>4, <2>5 DEF ToSet
<1>6. ASSUME NEW s PROVE s \in ToSet(q) <=> s = h \/ s \in ToSet(p)
  <2>1. ASSUME NEW i \in 1 .. Len(q), q[i] = s PROVE s = h \/ s \in ToSet(p)
    <3>1. CASE i = 1
      BY ONLY <1>3, <2>1, <3>1
    <3>2. CASE i # 1
      <4>1. i - 1 \in 1 .. Len(p) /\ (i - 1) + 1 = i
        BY ONLY <1>1, <1>2, <3>2, i \in 1 .. Len(q)
      <4>2. p[i - 1] = s
        BY ONLY <1>1, <2>1, <4>1
      <4> QED BY ONLY <1>4, <4>1, <4>2 DEF ToSet
    <3> QED BY <3>1, <3>2
  <2>2. 1 \in 1 .. Len(q) /\ \A i \in 1 .. Len(p) : i + 1 \in 1 .. Len(q)
    BY ONLY <1>1, <1>2
  <2>3. h \in ToSet(q)
    BY ONLY <1>3, <1>4, <2>2 DEF ToSet
  <2>4. ASSUME s \in ToSet(p) PROVE s \in ToSet(q)
    BY ONLY <1>1, <1>4, <2>2, <2>4 DEF ToSet
  <2>5. s \in ToSet(q) => s = h \/ s \in ToSet(p)
    BY ONLY <1>4, <2>1 DEF ToSet
  <2> QED BY ONLY <2>3, <2>4, <2>5
<1> QED BY <1>1, <1>5, <1>6 DEF p, h

(* A session that does not wait yet goes to the end. *)
LEMMA PutLast ==
  ASSUME NEW q \in Seq(Sessions), IsInjective(q), NEW s \in Sessions, s \notin ToSet(q)
  PROVE  /\ Append(q, s) \in Seq(Sessions) /\ IsInjective(Append(q, s))
         /\ \A t : t \in ToSet(Append(q, s)) <=> t = s \/ t \in ToSet(q)
<1> DEFINE p == Append(q, s)
<1>1. /\ p \in Seq(Sessions) /\ Len(p) = Len(q) + 1
      /\ \A i \in 1 .. Len(q) : p[i] = q[i]
      /\ p[Len(q) + 1] = s
  BY ONLY AppendProperties
<1>2. Len(q) \in Nat
  BY ONLY LenProperties
<1>3. DOMAIN q = 1 .. Len(q) /\ DOMAIN p = 1 .. Len(p)
  BY <1>1
<1> HIDE DEF p
<1>4. \A i : i \in 1 .. Len(p) <=> i = Len(q) + 1 \/ i \in 1 .. Len(q)
  BY ONLY <1>1, <1>2
<1>5. \A t : t \in ToSet(p) <=> t = s \/ t \in ToSet(q)
  BY ONLY <1>1, <1>3, <1>4 DEF ToSet
<1>6. \A i \in 1 .. Len(q) : q[i] # s
  BY ONLY <1>3, s \notin ToSet(q) DEF ToSet
<1>7. IsInjective(p)
  BY ONLY <1>1, <1>3, <1>4, <1>6, IsInjective(q) DEF IsInjective
<1> QED BY <1>1, <1>5, <1>7 DEF p

(* An enumeration of a finite set has each of its elements once.           *)
LEMMA Enumeration ==
  ASSUME NEW S, IsFiniteSet(S), NEW f \in SetToSeqs(S)
  PROVE  /\ f \in Seq(S) /\ IsInjective(f) /\ ToSet(f) = S
         /\ DOMAIN f = 1 .. Cardinality(S) /\ Cardinality(S) \in Nat
<1> DEFINE n == Cardinality(S)
           D == 1 .. n
<1>1. n \in Nat
  BY ONLY IsFiniteSet(S), FS_CardinalityType
<1>2. f \in [D -> S] /\ \A i, j \in D : i # j => f[i] # f[j]
  BY DEF SetToSeqs
<1>3. IsInjective(f)
  BY <1>2 DEF IsInjective
<1>4. f \in Seq(S)
  BY <1>1, <1>2
<1>5. IsFiniteSet(D) /\ Cardinality(D) = n
  <2>1. IsFiniteSet(D) /\ Cardinality(D) = IF 1 > n THEN 0 ELSE n - 1 + 1
    BY ONLY <1>1, FS_Interval
  <2> QED BY ONLY <1>1, <2>1
<1> HIDE DEF D, n
<1>6. ToSet(f) \subseteq S /\ f \in [D -> ToSet(f)]
  BY <1>2 DEF ToSet
<1>7. f \in Bijection(D, ToSet(f))
  <2>1. f \in Injection(D, ToSet(f))
    BY <1>3, <1>6 DEF Injection
  <2>2. f \in Surjection(D, ToSet(f))
    BY <1>2, <1>6 DEF Surjection, ToSet
  <2> QED BY <2>1, <2>2 DEF Bijection
<1>8. ExistsBijection(D, ToSet(f))
  BY <1>7 DEF ExistsBijection
<1>9. IsFiniteSet(ToSet(f)) /\ Cardinality(ToSet(f)) = n
  BY ONLY <1>5, <1>8, FS_Bijection
<1>10. ToSet(f) = S
  BY ONLY <1>6, <1>9, IsFiniteSet(S), FS_Subset DEF n
<1> QED BY <1>1, <1>2, <1>3, <1>4, <1>10 DEF D, n

(* The queue without the sessions that are not kept. *)
LEMMA Keep ==
  ASSUME NEW q \in Seq(Sessions), IsInjective(q), NEW kept \in SUBSET DOMAIN q,
         NEW order \in SetToSeqs(kept)
  PROVE  /\ [i \in DOMAIN order |-> q[order[i]]] \in Seq(Sessions)
         /\ IsInjective([i \in DOMAIN order |-> q[order[i]]])
         /\ \A s : s \in ToSet([i \in DOMAIN order |-> q[order[i]]])
                     <=> \E i \in kept : q[i] = s
<1> DEFINE p == [i \in DOMAIN order |-> q[order[i]]]
<1>1. Len(q) \in Nat /\ DOMAIN q = 1 .. Len(q) /\ \A i \in 1 .. Len(q) : q[i] \in Sessions
  BY ONLY LenProperties, ElementOfSeq
<1>2. IsFiniteSet(kept)
  <2>1. IsFiniteSet(1 .. Len(q))
    BY ONLY <1>1, FS_Interval
  <2> QED BY ONLY <1>1, <2>1, FS_Subset
<1>3. /\ order \in Seq(kept) /\ IsInjective(order) /\ ToSet(order) = kept
      /\ DOMAIN order = 1 .. Cardinality(kept) /\ Cardinality(kept) \in Nat
  BY ONLY <1>2, order \in SetToSeqs(kept), Enumeration
<1>4. DOMAIN p = DOMAIN order /\ \A i \in DOMAIN order : p[i] = q[order[i]] /\ order[i] \in kept
  BY <1>3 DEF ToSet
<1>5. p \in Seq(Sessions)
  <2> DEFINE n == Cardinality(kept)
  <2>1. n \in Nat
    BY <1>3
  <2>2. p \in [1 .. n -> Sessions]
    BY <1>1, <1>3, <1>4
  <2> HIDE DEF p, n
  <2> QED BY ONLY <2>1, <2>2
<1> HIDE DEF p
<1>6. IsInjective(p)
  <2> SUFFICES ASSUME NEW i \in DOMAIN order, NEW j \in DOMAIN order, p[i] = p[j] PROVE i = j
    BY <1>4 DEF IsInjective
  <2>1. q[order[i]] = q[order[j]] /\ order[i] \in DOMAIN q /\ order[j] \in DOMAIN q
    BY <1>4
  <2>2. order[i] = order[j]
    BY ONLY <2>1, IsInjective(q) DEF IsInjective
  <2>3. IsInjective(order)
    BY <1>3
  <2> QED BY ONLY <2>2, <2>3, i \in DOMAIN order, j \in DOMAIN order DEF IsInjective
<1>7. \A s : s \in ToSet(p) <=> \E i \in kept : q[i] = s
  <2>1. \A i \in kept : \E j \in DOMAIN order : order[j] = i
    BY ONLY <1>3 DEF ToSet
  <2> QED BY ONLY <1>4, <2>1 DEF ToSet
<1> QED BY <1>5, <1>6, <1>7 DEF p

-----------------------------------------------------------------------------
(* The futures that are waited for.                                        *)

SessionsOf(a) == {x.session : x \in a}

(* They belong to different workers of the list and different sessions.    *)
Alone(a) ==
  \A x \in a : /\ x.current
               /\ \A y \in a : x.slot = y.slot \/ x.session = y.session => x = y

(* The fields of a future. *)
LEMMA FutureFields ==
  ASSUME NEW x \in Futures
  PROVE  /\ x.slot \in Slots /\ x.session \in Sessions /\ x.stage \in Stages
         /\ x.rows \in SUBSET Records /\ x.tries \in 0 .. MaxTaskRetries
BY DEF Futures

(* A future that was just started. *)
LEMMA StartedFuture ==
  ASSUME NEW w \in Slots, NEW s \in Sessions
  PROVE  /\ Started(w, s) \in Futures /\ Started(w, s).current
         /\ Started(w, s).slot = w /\ Started(w, s).session = s
BY DEF Started, Futures, Stages, Working

(* One future less, and its session is free. *)
LEMMA Without ==
  ASSUME NEW a, Alone(a), NEW x \in a
  PROVE  /\ Alone(a \ {x}) /\ \A y \in a \ {x} : y.slot # x.slot /\ y.session # x.session
         /\ \A s : s \in SessionsOf(a \ {x}) <=> s \in SessionsOf(a) /\ s # x.session
         /\ x.session \in SessionsOf(a)
BY DEF Alone, SessionsOf

(* One more future, of a worker and a session that have none. *)
LEMMA With ==
  ASSUME NEW a, Alone(a), NEW y, y.current,
         \A x \in a : x.slot # y.slot /\ x.session # y.session
  PROVE  /\ Alone(a \union {y})
         /\ \A s : s \in SessionsOf(a \union {y}) <=> s \in SessionsOf(a) \/ s = y.session
BY DEF Alone, SessionsOf

(* A worker without a future is rebuilt: no future is affected. *)
LEMMA RebuildAlone ==
  ASSUME NEW w, NEW a, \A x \in a : x.slot # w, Rebuild(w, a)
  PROVE  active' = a /\ stray' \subseteq stray
BY DEF Rebuild

-----------------------------------------------------------------------------
(* The inductive invariant.                                                *)

(* The place of one session: SessionsAccounted, session by session.        *)
Account(s) ==
  /\ \/ s \in listed /\ \/ s \in Waiting \/ s \in Running
                        \/ s \in failed \/ s \in succeeded \/ s \in dropped
     \/ s \notin listed /\ s \notin Waiting /\ s \notin Running
        /\ s \notin failed /\ s \notin succeeded /\ s \notin dropped
  /\ s \in Waiting => s \notin Running /\ s \notin failed /\ s \notin succeeded /\ s \notin dropped
  /\ s \in Running => s \notin succeeded /\ s \notin dropped
  /\ s \in dropped => s \notin failed /\ s \notin succeeded
  /\ s \in failed /\ (s \in Running \/ s \in succeeded) => fails[s] >= MaxSessionRetries

(* A run begins with empty queues. *)
Begun ==
  phase \in {"idle", "list"} =>
    pending = << >> /\ active = {} /\ failed = {} /\ succeeded = {} /\ dropped = {}

(* While a round is handed out, the workers it still has to visit have no  *)
(* session, and no session that runs has failed: the exception appears     *)
(* when the round is over.                                                 *)
Round ==
  phase \in {"fill", "refill"} =>
    /\ \A x \in active : x.slot \notin toFill
    /\ \A s \in Sessions : s \in failed => s \notin Running

(* An aborted round was the last one: nothing runs, and the counter that   *)
(* only a success resets stays at its limit, so that the sessions dropped  *)
(* are never overwritten by those of another abort.                        *)
Aborted ==
  dropped # {} =>
    phase \in {"loop", "cleanup", "commit"} /\ active = {} /\ rebuilds >= MaxRebuilds

SessionTypes ==
  /\ phase \in Phases /\ listed \subseteq Sessions /\ pending \in Seq(Sessions)
  /\ active \subseteq Futures /\ stray \subseteq Futures
  /\ failed \subseteq Sessions /\ succeeded \subseteq Sessions /\ dropped \subseteq Sessions
  /\ toFill \subseteq Slots /\ rebuilds \in Nat
  /\ fails \in [Sessions -> Nat]

SessionOK ==
  /\ SessionTypes
  /\ IsInjective(pending) /\ Alone(active)
  /\ \A s \in Sessions : Account(s)
  /\ Begun /\ Round /\ Aborted

StorageOK ==
  /\ known \subseteq Records /\ details \subseteq known /\ fresh \subseteq known
  /\ archived \subseteq known
  /\ temp \in Files /\ stored \in Files
  /\ deleting \subseteq Records /\ faults \in 0 .. MaxFaults

IInv == StorageOK /\ SessionOK

(* The invariant implies the properties. *)
LEMMA Consequences ==
  IInv => TypeOK /\ SessionsAccounted /\ OneSessionPerWorker
<1> SUFFICES ASSUME IInv PROVE TypeOK /\ SessionsAccounted /\ OneSessionPerWorker
  OBVIOUS
<1>1. TypeOK
  BY DEF IInv, StorageOK, SessionOK, SessionTypes, TypeOK
<1>2. SessionTypes /\ Alone(active) /\ \A s \in Sessions : Account(s)
  BY DEF IInv, SessionOK
<1>3. Waiting \subseteq Sessions
  BY <1>2, ElementOfSeq DEF SessionTypes, Waiting, ToSet
<1>4. Running \subseteq Sessions
  BY <1>2, FutureFields DEF SessionTypes, Running
<1>5. listed = Waiting \union Running \union failed \union succeeded \union dropped
  BY <1>2, <1>3, <1>4 DEF SessionTypes, Account
<1>6. Waiting \intersect (Running \union failed \union succeeded \union dropped) = {}
  BY <1>2, <1>3 DEF Account
<1>7. Running \intersect (succeeded \union dropped) = {}
  BY <1>2, <1>4 DEF Account
<1>8. dropped \intersect (failed \union succeeded) = {}
  BY <1>2 DEF SessionTypes, Account
<1>9. \A x, y \in active : x.session = y.session => x = y
  BY <1>2 DEF Alone
<1>10. \A s \in failed \intersect (Running \union succeeded) : fails[s] >= MaxSessionRetries
  BY <1>2 DEF SessionTypes, Account
<1>11. SessionsAccounted
  BY <1>5, <1>6, <1>7, <1>8, <1>9, <1>10 DEF SessionsAccounted, IInv, SessionOK
<1>12. OneSessionPerWorker
  BY <1>2 DEF Alone, OneSessionPerWorker
<1> QED BY <1>1, <1>11, <1>12

sessionState == <<phase, listed, sessionVars, toFill, rebuilds, fails>>
storageState == <<dbVars, fileVars, deleting, faults>>

(* Steps that leave the sessions alone. *)
LEMMA SameSessions == ASSUME SessionOK, UNCHANGED sessionState PROVE SessionOK'
BY DEF SessionOK, SessionTypes, Alone, Account, Waiting, Running, Begun, Round, Aborted,
   sessionState, sessionVars

(* Steps that leave the tables and files alone. *)
LEMMA SameStorage == ASSUME StorageOK, UNCHANGED storageState PROVE StorageOK'
BY DEF StorageOK, storageState, dbVars, fileVars

(* The run ends, and what is left of it are futures nobody waits for. *)
LEMMA ResetKeeps ==
  ASSUME SessionOK, Reset, stray' \subseteq Futures
  PROVE  SessionOK'
<1>1. SessionTypes'
  BY DEF Reset, SessionTypes, Phases
<1>2. Waiting' = {} /\ IsInjective(pending')
  BY EmptyQueue DEF Reset, Waiting
<1>3. Running' = {} /\ Alone(active')
  BY DEF Reset, Running, Alone
<1>4. \A s \in Sessions : Account(s)'
  BY <1>2, <1>3 DEF Reset, Account
<1>5. Begun' /\ Round' /\ Aborted'
  BY DEF Reset, Begun, Round, Aborted
<1> QED BY <1>1, <1>2, <1>3, <1>4, <1>5 DEF SessionOK

(* The invariant holds at the start. *)
LEMMA InitEstablishes == Init => IInv
<1> SUFFICES ASSUME Init PROVE IInv
  OBVIOUS
<1>1. StorageOK
  BY DEF Init, StorageOK, Files, NoFiles
<1>2. SessionTypes
  BY DEF Init, SessionTypes, Phases
<1>3. Waiting = {} /\ IsInjective(pending) /\ Running = {} /\ Alone(active)
  BY EmptyQueue DEF Init, Waiting, Running, Alone
<1>4. \A s \in Sessions : Account(s)
  BY <1>3 DEF Init, Account
<1>5. Begun /\ Round /\ Aborted
  BY DEF Init, Begun, Round, Aborted
<1> QED BY <1>1, <1>2, <1>3, <1>4, <1>5 DEF IInv, SessionOK

-----------------------------------------------------------------------------
(* The proxy, the clock and the workers.                                   *)

(* Insertions and the clock do not concern the sessions. *)
LEMMA ProxyKeeps ==
  ASSUME IInv, (\E r \in Records : Insert(r)) \/ Expire
  PROVE  IInv'
<1>1. UNCHANGED sessionState
  BY DEF Insert, Expire, sessionState
<1>2. StorageOK'
  BY DEF IInv, StorageOK, Insert, Expire, fileVars
<1> QED BY <1>1, <1>2, SameSessions DEF IInv

(* A future goes on: its worker and its session stay the same.             *)
Moves(x, y) ==
  /\ x \in active \union stray
  /\ y \in Futures /\ y.slot = x.slot /\ y.session = x.session /\ y.current = x.current
  /\ Becomes(x, y)

(* A future that goes on keeps its place among the others. *)
LEMMA WorkerKeeps ==
  ASSUME IInv, NEW x, NEW y, Moves(x, y), temp' \in Files, stored' \in Files, WorkerUnchanged,
         faults' \in 0 .. MaxFaults
  PROVE  IInv'
<1>1. StorageOK'
  BY DEF IInv, StorageOK, WorkerUnchanged, dbVars
<1>2. UNCHANGED <<phase, listed, pending, failed, succeeded, dropped, toFill, rebuilds, fails>>
  BY DEF WorkerUnchanged
<1>3. SessionTypes /\ Alone(active) /\ \A s \in Sessions : Account(s)
  BY DEF IInv, SessionOK
<1>4. CASE UNCHANGED active /\ stray' \subseteq stray \union {y}
  <2>1. SessionTypes'
    BY <1>2, <1>3, <1>4 DEF SessionTypes, Moves
  <2> QED BY <1>1, <1>2, <1>4, <2>1 DEF IInv, SessionOK, Account, Waiting, Running, Alone,
          Begun, Round, Aborted
<1>5. CASE x \in active /\ active' = (active \ {x}) \union {y} /\ UNCHANGED stray
  <2>1. SessionTypes'
    BY <1>2, <1>3, <1>5 DEF SessionTypes, Moves
  <2>2. x.current
    BY <1>3, <1>5 DEF Alone
  <2>3. /\ Alone(active \ {x}) /\ \A z \in active \ {x} : z.slot # x.slot /\ z.session # x.session
        /\ \A s : s \in SessionsOf(active \ {x}) <=> s \in SessionsOf(active) /\ s # x.session
        /\ x.session \in SessionsOf(active)
    BY ONLY <1>3, <1>5, Without
  <2>4. y.slot = x.slot /\ y.session = x.session /\ y.current
    BY <2>2 DEF Moves
  <2>5. /\ Alone(active')
        /\ \A s : s \in SessionsOf(active') <=> s \in SessionsOf(active \ {x}) \/ s = y.session
    BY ONLY <1>5, <2>3, <2>4, With
  <2>6. \A s : s \in Running' <=> s \in Running
    BY <2>3, <2>4, <2>5 DEF Running, SessionsOf
  <2>7. \A s \in Sessions : Account(s)'
    BY <1>2, <1>3, <2>6 DEF Account, Waiting
  <2>8. Begun' /\ Aborted'
    BY <1>2, <1>5 DEF IInv, SessionOK, Begun, Aborted
  <2>9. Round'
    BY <1>2, <1>5, <2>4, <2>6 DEF IInv, SessionOK, Round
  <2> QED BY <1>1, <1>2, <2>1, <2>5, <2>7, <2>8, <2>9 DEF IInv, SessionOK
<1> QED BY <1>4, <1>5 DEF Moves, Becomes

(* A future keeps its worker and session when its stage changes. *)
LEMMA NextStage ==
  ASSUME NEW x \in Futures, NEW stage \in Stages, NEW found \in SUBSET Records
  PROVE  LET y == [x EXCEPT !.stage = stage, !.rows = found] IN
         y \in Futures /\ y.slot = x.slot /\ y.session = x.session /\ y.current = x.current
BY DEF Futures

(* So does one that Ray starts again, within its retries. *)
LEMMA Restart ==
  ASSUME NEW x \in Futures, x.tries < MaxTaskRetries
  PROVE  LET y == [x EXCEPT !.stage = "started", !.rows = {}, !.tries = @ + 1] IN
         y \in Futures /\ y.slot = x.slot /\ y.session = x.session /\ y.current = x.current
<1>1. x.tries + 1 \in 0 .. MaxTaskRetries
  BY FutureFields
<1> QED BY <1>1 DEF Futures, Stages, Working

(* A file that is written, removed or copied. *)
LEMMA FileChange ==
  ASSUME NEW fs \in Files, NEW p \in Paths, NEW c \in SUBSET Records
  PROVE  /\ [fs EXCEPT ![p] = NoFile] \in Files
         /\ [fs EXCEPT ![p] = File(c)] \in Files
         /\ \A gs \in Files : [fs EXCEPT ![p] = gs[p]] \in Files
BY DEF Files

(* Every step of a worker is a future that goes on. *)
LEMMA WorkersKeep ==
  ASSUME IInv, NEW x \in active \union stray,
         Open(x) \/ Write(x) \/ Upload(x) \/ TaskError(x) \/ Die(x)
  PROVE  IInv'
<1> DEFINE Ended(stage) == [x EXCEPT !.stage = stage, !.rows = {}]
<1>1. /\ x \in Futures /\ temp \in Files /\ stored \in Files
      /\ details \subseteq Records
  BY DEF IInv, SessionOK, SessionTypes, StorageOK
<1>2. Path(x) \in Paths
  BY <1>1, FutureFields DEF Path
<1>3. /\ {"done", "error", "dead", "writing", "exported"} \subseteq Stages
      /\ {} \in SUBSET Records
  BY DEF Stages, Working
<1>0. faults' \in 0 .. MaxFaults
  <2>1. faults \in 0 .. MaxFaults
    BY DEF IInv, StorageOK
  <2>2. faults' = faults \/ (faults < MaxFaults /\ faults' = faults + 1)
    BY DEF Open, Write, Upload, TaskError, Die
  <2> QED BY <2>1, <2>2
<1>4. ASSUME NEW stage \in {"done", "error", "dead", "exported"}, Becomes(x, Ended(stage))
      PROVE  Moves(x, Ended(stage))
  <2> DEFINE y == Ended(stage)
  <2>1. stage \in Stages /\ {} \in SUBSET Records
    BY <1>3
  <2>2. y \in Futures /\ y.slot = x.slot /\ y.session = x.session /\ y.current = x.current
    BY ONLY <1>1, <2>1, NextStage
  <2> HIDE DEF y
  <2>3. Becomes(x, y) => Moves(x, y)
    BY <2>2 DEF Moves
  <2> QED BY <1>4, <2>3 DEF y
<1>5. CASE Open(x)
  <2> DEFINE found == {r \in details : SessionOf[r] = x.session}
             y == [x EXCEPT !.stage = "writing", !.rows = found]
  <2> HIDE DEF found
  <2>1. found \in SUBSET Records /\ "writing" \in Stages
    BY <1>1, <1>3 DEF found
  <2>2. y \in Futures /\ y.slot = x.slot /\ y.session = x.session /\ y.current = x.current
    BY ONLY <1>1, <2>1, NextStage
  <2>3. CASE Becomes(x, y) /\ temp' = [temp EXCEPT ![Path(x)] = File({})]
    <3>1. Moves(x, y)
      BY <2>2, <2>3 DEF Moves
    <3>2. temp' \in Files
      BY <1>1, <1>2, <1>3, <2>3, FileChange
    <3>3. UNCHANGED stored /\ WorkerUnchanged
      BY <1>5 DEF Open
    <3> HIDE DEF y
    <3> QED BY <1>1, <3>1, <3>2, <3>3, <1>0, WorkerKeeps
  <2>4. CASE Ends(x, "done") /\ temp' = [temp EXCEPT ![Path(x)] = NoFile]
    <3>1. Moves(x, Ended("done"))
      BY <1>4, <2>4 DEF Ends
    <3>2. temp' \in Files
      BY <1>1, <1>2, <1>3, <2>4, FileChange
    <3>3. UNCHANGED stored /\ WorkerUnchanged
      BY <1>5 DEF Open
    <3> HIDE DEF Ended
    <3> QED BY <1>1, <3>1, <3>2, <3>3, <1>0, WorkerKeeps
  <2> HIDE DEF y
  <2> QED BY <1>5, <2>3, <2>4 DEF Open, y, found
<1>6. CASE Write(x)
  <2>1. Moves(x, Ended("exported"))
    BY <1>4, <1>6 DEF Write
  <2>2. x.rows \in SUBSET Records
    BY <1>1, FutureFields
  <2>3. temp' \in Files
    <3> DEFINE cur == temp[Path(x)]
               new == CASE cur = NoFile -> NoFile [] cur = File({}) -> File(x.rows)
                        [] OTHER -> File({})
    <3>1. temp' = [temp EXCEPT ![Path(x)] = new]
      BY <1>6 DEF Write
    <3>2. new = NoFile \/ new = File(x.rows) \/ new = File({})
      OBVIOUS
    <3>3. /\ [temp EXCEPT ![Path(x)] = NoFile] \in Files
          /\ [temp EXCEPT ![Path(x)] = File(x.rows)] \in Files
          /\ [temp EXCEPT ![Path(x)] = File({})] \in Files
      BY <1>1, <1>2, <1>3, <2>2, FileChange
    <3> HIDE DEF new
    <3> QED BY ONLY <3>1, <3>2, <3>3
  <2>4. UNCHANGED stored /\ WorkerUnchanged
    BY <1>6 DEF Write
  <2> HIDE DEF Ended
  <2> QED BY <1>1, <2>1, <2>3, <2>4, <1>0, WorkerKeeps
<1>7. CASE Upload(x)
  <2>1. Moves(x, Ended("done")) \/ Moves(x, Ended("error"))
    BY <1>4, <1>7 DEF Upload, Ends
  <2>2. temp' \in Files
    BY <1>1, <1>2, <1>3, <1>7, FileChange DEF Upload
  <2>3. stored' \in Files
    <3>1. [stored EXCEPT ![Path(x)] = temp[Path(x)]] \in Files
      BY <1>1, <1>2, <1>3, FileChange
    <3>2. stored' = [stored EXCEPT ![Path(x)] = temp[Path(x)]] \/ stored' = stored
      BY <1>7 DEF Upload
    <3> QED BY <1>1, <3>1, <3>2
  <2>4. WorkerUnchanged
    BY <1>7 DEF Upload
  <2> HIDE DEF Ended
  <2> QED BY <2>1, <2>2, <2>3, <2>4, <1>0, WorkerKeeps
<1>8. CASE TaskError(x)
  <2>1. Moves(x, Ended("error"))
    BY <1>4, <1>8 DEF TaskError, Ends
  <2>2. temp' \in Files
    BY <1>1, <1>2, <1>3, <1>8, FileChange DEF TaskError
  <2>3. UNCHANGED stored /\ WorkerUnchanged
    BY <1>8 DEF TaskError
  <2> HIDE DEF Ended
  <2> QED BY <1>1, <2>1, <2>2, <2>3, <1>0, WorkerKeeps
<1>9. CASE Die(x)
  <2> DEFINE y == [x EXCEPT !.stage = "started", !.rows = {}, !.tries = @ + 1]
  <2>1. UNCHANGED <<temp, stored>> /\ WorkerUnchanged
    BY <1>9 DEF Die, fileVars
  <2>2. Moves(x, Ended("dead")) \/ Moves(x, y)
    <3>1. CASE Ends(x, "dead")
      BY <1>4, <3>1 DEF Ends
    <3>2. CASE x.tries < MaxTaskRetries /\ Becomes(x, y)
      <4>1. y \in Futures /\ y.slot = x.slot /\ y.session = x.session /\ y.current = x.current
        BY <1>1, <3>2, Restart
      <4> QED BY <3>2, <4>1 DEF Moves
    <3> QED BY <1>9, <3>1, <3>2 DEF Die
  <2> HIDE DEF Ended, y
  <2> QED BY <1>1, <2>1, <2>2, <1>0, WorkerKeeps
<1> QED BY <1>5, <1>6, <1>7, <1>8, <1>9

-----------------------------------------------------------------------------
(* The coordinator.                                                        *)

(* The limit of the rebuilds is a number. *)
LEMMA Limit == MaxRebuilds \in Nat
BY FS_CardinalityType DEF MaxRebuilds

(* The session at the head waits, and is nowhere else. *)
LEMMA Head1 ==
  ASSUME SessionOK, pending # << >>
  PROVE  /\ Head(pending) \in Sessions /\ Tail(pending) \in Seq(Sessions)
         /\ IsInjective(Tail(pending)) /\ Head(pending) \notin ToSet(Tail(pending))
         /\ \A s : s \in Waiting <=> s = Head(pending) \/ s \in ToSet(Tail(pending))
         /\ Head(pending) \in listed /\ Head(pending) \in Waiting
         /\ Head(pending) \notin Running /\ Head(pending) \notin failed
         /\ Head(pending) \notin succeeded /\ Head(pending) \notin dropped
         /\ \A x \in active : x.session # Head(pending)
<1>1. pending \in Seq(Sessions) /\ IsInjective(pending)
  BY DEF SessionOK, SessionTypes
<1>2. /\ Head(pending) \in Sessions /\ Tail(pending) \in Seq(Sessions)
      /\ IsInjective(Tail(pending)) /\ Head(pending) \notin ToSet(Tail(pending))
      /\ \A s : s \in ToSet(pending) <=> s = Head(pending) \/ s \in ToSet(Tail(pending))
  BY ONLY <1>1, pending # << >>, TakeFirst
<1> DEFINE h == Head(pending)
<1> HIDE DEF h
<1>3. h \in Sessions /\ h \in Waiting
  BY <1>2 DEF Waiting, h
<1>4. Account(h)
  BY <1>3 DEF SessionOK
<1>5. h \in listed /\ h \notin Running /\ h \notin failed /\ h \notin succeeded /\ h \notin dropped
  BY <1>3, <1>4 DEF Account
<1>6. \A x \in active : x.session # h
  BY <1>5 DEF Running
<1> QED BY <1>2, <1>3, <1>5, <1>6 DEF Waiting, h

(* The queue turns: the same sessions wait. *)
LEMMA Turned ==
  ASSUME SessionOK, pending # << >>
  PROVE  /\ PutBack \in Seq(Sessions) /\ IsInjective(PutBack)
         /\ \A s : s \in ToSet(PutBack) <=> s \in Waiting
<1> DEFINE h == Head(pending)
           q == Tail(pending)
<1>1. /\ h \in Sessions /\ q \in Seq(Sessions) /\ IsInjective(q) /\ h \notin ToSet(q)
      /\ \A s : s \in Waiting <=> s = h \/ s \in ToSet(q)
  BY Head1
<1> HIDE DEF h, q
<1>2. /\ Append(q, h) \in Seq(Sessions) /\ IsInjective(Append(q, h))
      /\ \A t : t \in ToSet(Append(q, h)) <=> t = h \/ t \in ToSet(q)
  BY ONLY <1>1, PutLast
<1> QED BY <1>1, <1>2 DEF PutBack, h, q

(* A run begins. *)
LEMMA FindExpiredKeeps == ASSUME SessionOK, FindExpired PROVE SessionOK'
<1>1. /\ phase = "idle" /\ phase' = "list"
      /\ UNCHANGED <<listed, pending, active, failed, succeeded, dropped, stray, toFill,
                     rebuilds, fails>>
  BY DEF FindExpired, sessionVars
<1> QED BY <1>1 DEF SessionOK, SessionTypes, Phases, Alone, Account, Waiting, Running, Begun,
        Round, Aborted

(* Every listed session waits, and only those. *)
LEMMA ListSessionsKeeps == ASSUME IInv, ListSessions PROVE SessionOK'
<1>1. SessionOK /\ SessionTypes
  BY DEF IInv, SessionOK
<1>2. /\ active = {} /\ failed = {} /\ succeeded = {} /\ dropped = {}
      /\ phase' = "fill" /\ toFill' = Slots
      /\ UNCHANGED <<active, failed, succeeded, dropped, stray, rebuilds, fails>>
  BY <1>1 DEF ListSessions, SessionOK, Begun
<1>3. listed' \subseteq Sessions
  BY DEF ListSessions, IInv, StorageOK
<1>4. IsFiniteSet(listed')
  BY ONLY <1>3, FS_Subset, ArchiveAssumption DEF ArchiveAssumption
<1>5. pending' \in SetToSeqs(listed')
  BY DEF ListSessions
<1>6. pending' \in Seq(listed') /\ IsInjective(pending') /\ ToSet(pending') = listed'
  BY ONLY <1>4, <1>5, Enumeration
<1>7. pending' \in Seq(Sessions)
  BY ONLY <1>3, <1>6, SeqMonotonic
<1>8. SessionTypes'
  BY <1>1, <1>2, <1>3, <1>7 DEF SessionTypes, Phases
<1>9. Waiting' = listed' /\ Running' = {} /\ Alone(active')
  BY <1>2, <1>6 DEF Waiting, Running, Alone
<1>10. \A s \in Sessions : Account(s)'
  BY <1>2, <1>9 DEF Account
<1>11. Begun' /\ Round' /\ Aborted'
  BY <1>2 DEF Begun, Round, Aborted
<1> QED BY <1>6, <1>8, <1>9, <1>10, <1>11 DEF SessionOK

(* The first session of the queue runs, on a worker that had none. *)
LEMMA AssignKeeps == ASSUME SessionOK, NEW w \in Slots, Assign(w) PROVE SessionOK'
<1> DEFINE h == Head(pending)
           y == Started(w, h)
<1>1. /\ phase \in {"fill", "refill"} /\ w \in toFill /\ pending # << >>
      /\ active' = active \union {y} /\ pending' = Tail(pending)
      /\ toFill' = toFill \ {w}
      /\ UNCHANGED <<phase, listed, failed, succeeded, dropped, stray, rebuilds, fails>>
  BY DEF Assign, Visited
<1>2. /\ h \in Sessions /\ Tail(pending) \in Seq(Sessions) /\ IsInjective(Tail(pending))
      /\ h \notin ToSet(Tail(pending))
      /\ \A s : s \in Waiting <=> s = h \/ s \in ToSet(Tail(pending))
      /\ h \notin Running /\ h \notin failed /\ h \notin succeeded /\ h \notin dropped
      /\ h \in listed
      /\ \A x \in active : x.session # h
  BY <1>1, Head1
<1>3. y \in Futures /\ y.current /\ y.slot = w /\ y.session = h
  BY <1>2, StartedFuture
<1> HIDE DEF h, y
<1>4. /\ SessionTypes /\ Alone(active) /\ \A s \in Sessions : Account(s)
      /\ Round /\ Aborted
  BY DEF SessionOK
<1>5. \A x \in active : x.slot # w
  BY <1>1, <1>4 DEF Round
<1>6. /\ Alone(active')
      /\ \A s : s \in SessionsOf(active') <=> s \in SessionsOf(active) \/ s = h
  BY <1>1, <1>2, <1>3, <1>4, <1>5, With
<1>7. \A s : s \in Running' <=> s \in Running \/ s = h
  BY <1>6 DEF Running, SessionsOf
<1>8. \A s : s \in Waiting' <=> s \in Waiting /\ s # h
  BY <1>1, <1>2 DEF Waiting
<1>9. SessionTypes'
  BY <1>1, <1>2, <1>3, <1>4 DEF SessionTypes
<1>10. \A s \in Sessions : Account(s)'
  BY <1>1, <1>2, <1>4, <1>7, <1>8 DEF Account
<1>11. Begun'
  BY <1>1 DEF Begun
<1>12. Round'
  BY <1>1, <1>2, <1>3, <1>4, <1>5, <1>7 DEF Round
<1>13. Aborted'
  BY <1>1, <1>4 DEF Aborted
<1> QED BY <1>1, <1>2, <1>6, <1>9, <1>10, <1>11, <1>12, <1>13 DEF SessionOK

(* A session that could not be handed out goes to the end of the queue. *)
LEMMA AssignToDeadKeeps == ASSUME SessionOK, NEW w \in Slots, AssignToDead(w) PROVE SessionOK'
<1>1. /\ phase \in {"fill", "refill"} /\ w \in toFill /\ pending # << >>
      /\ rebuilds' = rebuilds + 1
      /\ Rebuild(w, active) /\ toFill' = toFill \ {w} /\ pending' = PutBack
      /\ fails' = IF phase = "refill" THEN [fails EXCEPT ![Head(pending)] = @ + 1] ELSE fails
      /\ UNCHANGED <<phase, listed, failed, succeeded, dropped>>
  BY DEF AssignToDead, Visited
<1>2. /\ SessionTypes /\ Alone(active) /\ \A s \in Sessions : Account(s)
      /\ Round /\ Aborted
  BY DEF SessionOK
<1>3. \A x \in active : x.slot # w
  BY <1>1, <1>2 DEF Round
<1>4. active' = active /\ stray' \subseteq stray
  BY <1>1, <1>3, RebuildAlone
<1>5. /\ pending' \in Seq(Sessions) /\ IsInjective(pending')
      /\ \A s : s \in Waiting' <=> s \in Waiting
  BY <1>1, Turned DEF Waiting
<1>6. /\ fails' \in [Sessions -> Nat]
      /\ \A s \in Sessions : fails[s] >= MaxSessionRetries => fails'[s] >= MaxSessionRetries
  <2>1. fails \in [Sessions -> Nat] /\ MaxSessionRetries \in Nat /\ Head(pending) \in Sessions
    BY <1>1, <1>2, Head1 DEF SessionTypes
  <2> QED BY ONLY <1>1, <2>1
<1>7. SessionTypes'
  BY <1>1, <1>2, <1>4, <1>5, <1>6 DEF SessionTypes
<1>8. \A s : s \in Running' <=> s \in Running
  BY <1>4 DEF Running
<1>9. \A s \in Sessions : Account(s)'
  BY <1>1, <1>2, <1>5, <1>6, <1>8 DEF Account
<1>10. Begun' /\ Round' /\ Aborted'
  BY <1>1, <1>2, <1>4, <1>8 DEF Begun, Round, Aborted
<1> QED BY <1>2, <1>4, <1>5, <1>7, <1>9, <1>10 DEF SessionOK

(* At the limit the running sessions are dropped, and only those. *)
LEMMA AssignAtLimitKeeps ==
  ASSUME SessionOK, NEW w \in Slots, AssignAtLimit(w) PROVE SessionOK'
<1>1. /\ phase = "refill" /\ pending # << >>
      /\ rebuilds + 1 >= MaxRebuilds /\ rebuilds' = rebuilds + 1
      /\ dropped' = Running
      /\ stray' = stray \union {x \in active : x.stage \in Working}
      /\ active' = {} /\ toFill' = {} /\ phase' = "loop"
      /\ pending' = PutBack
      /\ UNCHANGED <<listed, failed, succeeded, fails>>
  BY DEF AssignAtLimit, Running
<1>2. /\ SessionTypes /\ \A s \in Sessions : Account(s)
      /\ Round /\ dropped = {}
  BY <1>1 DEF SessionOK, Aborted
<1>3. /\ pending' \in Seq(Sessions) /\ IsInjective(pending')
      /\ \A s : s \in Waiting' <=> s \in Waiting
  BY <1>1, Turned DEF Waiting
<1>4. Running \subseteq Sessions
  BY <1>2, FutureFields DEF SessionTypes, Running
<1>5. SessionTypes'
  BY <1>1, <1>2, <1>3, <1>4 DEF SessionTypes, Phases
<1>6. Running' = {} /\ Alone(active')
  BY <1>1 DEF Running, Alone
<1>7. \A s \in Sessions : s \in failed => s \notin Running
  BY <1>1, <1>2 DEF Round
<1>8. \A s \in Sessions : Account(s)'
  BY <1>1, <1>2, <1>3, <1>6, <1>7 DEF Account
<1>9. Begun' /\ Round' /\ Aborted'
  BY <1>1 DEF Begun, Round, Aborted
<1> QED BY <1>3, <1>5, <1>6, <1>8, <1>9 DEF SessionOK

(* The sessions a round takes out of the queue have failed. *)
LEMMA RoundDoneKeeps == ASSUME SessionOK, RoundDone PROVE SessionOK'
<1> DEFINE within(s) == phase = "fill" \/ fails[s] < MaxSessionRetries
           kept == {i \in DOMAIN pending : within(pending[i])}
<1>1. /\ phase \in {"fill", "refill"}
      /\ failed' = failed \union {s \in listed : ~within(s)}
      /\ phase' = "loop" /\ toFill' = {}
      /\ UNCHANGED <<listed, active, succeeded, dropped, stray, rebuilds, fails>>
  BY DEF RoundDone
<1>2. PICK order \in SetToSeqs(kept) : pending' = [i \in DOMAIN order |-> pending[order[i]]]
  BY DEF RoundDone
<1>3. /\ SessionTypes /\ IsInjective(pending) /\ Alone(active)
      /\ \A s \in Sessions : Account(s)
      /\ Round /\ dropped = {}
  BY <1>1 DEF SessionOK, Aborted
<1>4. /\ pending' \in Seq(Sessions) /\ IsInjective(pending')
      /\ \A s : s \in ToSet(pending') <=> \E i \in kept : pending[i] = s
  <2>1. pending \in Seq(Sessions) /\ kept \in SUBSET DOMAIN pending
    BY <1>3 DEF SessionTypes
  <2> HIDE DEF kept
  <2> QED BY ONLY <1>2, <1>3, <2>1, Keep
<1>5. \A s : s \in Waiting' <=> s \in Waiting /\ within(s)
  BY <1>4 DEF Waiting, ToSet
<1>6. \A s \in Sessions : ~within(s) => fails[s] >= MaxSessionRetries
  BY <1>3 DEF SessionTypes
<1> HIDE DEF within
<1>7. SessionTypes'
  BY <1>1, <1>3, <1>4 DEF SessionTypes, Phases
<1>8. \A s : s \in Running' <=> s \in Running
  BY <1>1 DEF Running
<1>9. \A s \in Sessions : Account(s)'
  BY <1>1, <1>3, <1>5, <1>6, <1>8 DEF Account
<1>10. Begun' /\ Round' /\ Aborted'
  BY <1>1, <1>3 DEF Begun, Round, Aborted
<1> QED BY <1>1, <1>3, <1>4, <1>7, <1>9, <1>10 DEF SessionOK

(* A new round begins when nothing runs. *)
LEMMA RefillKeeps == ASSUME SessionOK, Refill PROVE SessionOK'
<1>1. /\ active = {} /\ rebuilds < MaxRebuilds
      /\ phase' = "refill" /\ toFill' = Slots
      /\ UNCHANGED <<listed, pending, active, failed, succeeded, dropped, stray, rebuilds, fails>>
  BY DEF Refill, sessionVars
<1>2. SessionTypes /\ IsInjective(pending) /\ Alone(active) /\ \A s \in Sessions : Account(s)
  BY DEF SessionOK
<1>3. dropped = {}
  BY <1>1, Limit DEF SessionOK, Aborted, SessionTypes
<1>4. SessionTypes'
  BY <1>1, <1>2 DEF SessionTypes, Phases
<1>5. \A s \in Sessions : Account(s)'
  BY <1>1, <1>2 DEF Account, Waiting, Running
<1>6. Begun' /\ Round' /\ Aborted'
  BY <1>1, <1>3 DEF Begun, Round, Aborted, Running
<1> QED BY <1>1, <1>2, <1>4, <1>5, <1>6 DEF SessionOK, Alone

(* The future that is collected: its session runs, and is nowhere else     *)
(* unless it has used up its retries; nothing was dropped.                 *)
LEMMA Collected ==
  ASSUME SessionOK, NEW x \in active, phase = "loop"
  PROVE  /\ x.slot \in Slots /\ x.session \in Sessions
         /\ x.session \in listed /\ x.session \in Running
         /\ x.session \notin Waiting /\ x.session \notin succeeded
         /\ x.session \in failed => fails[x.session] >= MaxSessionRetries
         /\ dropped = {}
         /\ Alone(active \ {x})
         /\ \A y \in active \ {x} : y.slot # x.slot
         /\ \A s : s \in SessionsOf(active \ {x}) <=> s \in Running /\ s # x.session
<1>1. /\ SessionTypes /\ Alone(active) /\ \A s \in Sessions : Account(s)
      /\ Aborted
  BY DEF SessionOK
<1>2. x.slot \in Slots /\ x.session \in Sessions
  BY <1>1, FutureFields DEF SessionTypes
<1>3. Account(x.session) /\ x.session \in Running
  BY <1>1, <1>2 DEF Running
<1>4. /\ Alone(active \ {x}) /\ \A y \in active \ {x} : y.slot # x.slot
      /\ \A s : s \in SessionsOf(active \ {x}) <=> s \in SessionsOf(active) /\ s # x.session
  BY ONLY <1>1, x \in active, Without
<1>5. SessionsOf(active) = Running
  BY DEF SessionsOf, Running
<1> QED BY <1>1, <1>2, <1>3, <1>4, <1>5 DEF Account, Aborted

(* A done session succeeds and the next one takes its worker. *)
LEMMA CollectResultKeeps ==
  ASSUME SessionOK, NEW x \in active, CollectResult(x) PROVE SessionOK'
<1>1. /\ phase = "loop" /\ x.stage = "done"
      /\ succeeded' = succeeded \union {x.session} /\ rebuilds' = 0
      /\ UNCHANGED <<phase, listed, failed, dropped, stray, toFill, fails>>
  BY DEF CollectResult, CollectUnchanged
<1>2. /\ SessionTypes /\ IsInjective(pending) /\ Alone(active)
      /\ \A s \in Sessions : Account(s)
  BY DEF SessionOK
<1>3. /\ x.slot \in Slots /\ x.session \in Sessions
      /\ x.session \in listed /\ x.session \in Running
      /\ x.session \notin Waiting /\ x.session \notin succeeded
      /\ x.session \in failed => fails[x.session] >= MaxSessionRetries
      /\ dropped = {}
      /\ Alone(active \ {x})
      /\ \A y \in active \ {x} : y.slot # x.slot
      /\ \A s : s \in SessionsOf(active \ {x}) <=> s \in Running /\ s # x.session
  BY <1>1, Collected
<1>4. Begun' /\ Round' /\ Aborted'
  BY <1>1, <1>3 DEF Begun, Round, Aborted
<1>5. CASE active' = active \ {x} /\ UNCHANGED pending
  <2>1. \A s : s \in Running' <=> s \in Running /\ s # x.session
    BY <1>3, <1>5 DEF Running, SessionsOf
  <2>2. SessionTypes'
    BY <1>1, <1>2, <1>3, <1>5 DEF SessionTypes
  <2>3. \A s \in Sessions : Account(s)'
    BY <1>1, <1>2, <1>3, <1>5, <2>1 DEF Account, Waiting
  <2> QED BY <1>2, <1>3, <1>4, <1>5, <2>2, <2>3 DEF SessionOK
<1>6. CASE /\ pending # << >> /\ pending' = Tail(pending)
           /\ active' = (active \ {x}) \union {Started(x.slot, Head(pending))}
  <2> DEFINE h == Head(pending)
             y == Started(x.slot, h)
  <2>1. /\ h \in Sessions /\ Tail(pending) \in Seq(Sessions) /\ IsInjective(Tail(pending))
        /\ h \notin ToSet(Tail(pending))
        /\ \A s : s \in Waiting <=> s = h \/ s \in ToSet(Tail(pending))
        /\ h \notin Running /\ h \notin failed /\ h \notin succeeded /\ h \notin dropped
        /\ h \in listed
        /\ \A z \in active : z.session # h
    BY <1>6, Head1
  <2>2. y \in Futures /\ y.current /\ y.slot = x.slot /\ y.session = h
    BY <1>3, <2>1, StartedFuture
  <2> HIDE DEF h, y
  <2>3. active' = (active \ {x}) \union {y} /\ pending' = Tail(pending)
    BY <1>6 DEF h, y
  <2>4. /\ Alone(active')
        /\ \A s : s \in SessionsOf(active') <=> s \in SessionsOf(active \ {x}) \/ s = h
    BY <1>3, <2>1, <2>2, <2>3, With
  <2>5. \A s : s \in Running' <=> (s \in Running /\ s # x.session) \/ s = h
    BY <1>3, <2>4 DEF Running, SessionsOf
  <2>6. \A s : s \in Waiting' <=> s \in Waiting /\ s # h
    BY <2>1, <2>3 DEF Waiting
  <2>7. SessionTypes'
    BY <1>1, <1>2, <1>3, <2>1, <2>2, <2>3 DEF SessionTypes
  <2>8. \A s \in Sessions : Account(s)'
    BY <1>1, <1>2, <1>3, <2>1, <2>5, <2>6 DEF Account
  <2> QED BY <1>4, <2>1, <2>3, <2>4, <2>7, <2>8 DEF SessionOK
<1> QED BY <1>5, <1>6 DEF CollectResult

(* A session that runs or waits, and has not failed, is retried or has     *)
(* failed: then it is at exactly one of these places again.                *)
LEMMA Retried ==
  ASSUME SessionTypes, NEW q \in Seq(Sessions), IsInjective(q), NEW s \in Sessions,
         s \notin ToSet(q), Retry(s, q)
  PROVE  /\ fails' \in [Sessions -> Nat] /\ pending' \in Seq(Sessions) /\ IsInjective(pending')
         /\ failed' \subseteq Sessions
         /\ \A t \in Sessions : fails[t] >= MaxSessionRetries => fails'[t] >= MaxSessionRetries
         /\ \/ /\ \A t : t \in Waiting' <=> t = s \/ t \in ToSet(q)
               /\ failed' = failed /\ ~(fails[s] >= MaxSessionRetries)
            \/ /\ \A t : t \in Waiting' <=> t \in ToSet(q)
               /\ failed' = failed \union {s}
<1>1. /\ fails \in [Sessions -> Nat] /\ failed \subseteq Sessions
      /\ MaxSessionRetries \in Nat
  BY DEF SessionTypes
<1>2. fails' = [fails EXCEPT ![s] = @ + 1]
  BY DEF Retry
<1>3. /\ fails' \in [Sessions -> Nat]
      /\ \A t \in Sessions : fails[t] >= MaxSessionRetries => fails'[t] >= MaxSessionRetries
  BY ONLY <1>1, <1>2, s \in Sessions
<1>4. CASE fails[s] + 1 < MaxSessionRetries /\ pending' = Append(q, s) /\ UNCHANGED failed
  <2>1. /\ Append(q, s) \in Seq(Sessions) /\ IsInjective(Append(q, s))
        /\ \A t : t \in ToSet(Append(q, s)) <=> t = s \/ t \in ToSet(q)
    BY ONLY q \in Seq(Sessions), IsInjective(q), s \in Sessions, s \notin ToSet(q), PutLast
  <2>2. ~(fails[s] >= MaxSessionRetries)
    <3>1. fails[s] \in Nat
      BY <1>1
    <3> QED BY ONLY <1>1, <1>4, <3>1
  <2> QED BY <1>1, <1>3, <1>4, <2>1, <2>2 DEF Waiting
<1>5. CASE pending' = q /\ failed' = failed \union {s}
  BY <1>1, <1>3, <1>5 DEF Waiting
<1> QED BY <1>4, <1>5 DEF Retry

(* The same, with a worker that cannot take the next one. *)
LEMMA CollectResultThenDeadKeeps ==
  ASSUME SessionOK, NEW x \in active, CollectResultThenDead(x) PROVE SessionOK'
<1> DEFINE h == Head(pending)
           q == Tail(pending)
<1>1. /\ phase = "loop" /\ pending # << >>
      /\ succeeded' = succeeded \union {x.session} /\ rebuilds' = 1
      /\ Rebuild(x.slot, active \ {x}) /\ Retry(h, q)
      /\ UNCHANGED <<phase, listed, dropped, toFill>>
  BY DEF CollectResultThenDead, CollectUnchanged
<1>2. /\ SessionTypes /\ IsInjective(pending) /\ Alone(active)
      /\ \A s \in Sessions : Account(s)
  BY DEF SessionOK
<1>3. /\ x.slot \in Slots /\ x.session \in Sessions
      /\ x.session \in listed /\ x.session \in Running
      /\ x.session \notin Waiting /\ x.session \notin succeeded
      /\ x.session \in failed => fails[x.session] >= MaxSessionRetries
      /\ dropped = {}
      /\ Alone(active \ {x})
      /\ \A y \in active \ {x} : y.slot # x.slot
      /\ \A s : s \in SessionsOf(active \ {x}) <=> s \in Running /\ s # x.session
  BY <1>1, Collected
<1>4. /\ h \in Sessions /\ q \in Seq(Sessions) /\ IsInjective(q)
      /\ h \notin ToSet(q)
      /\ \A s : s \in Waiting <=> s = h \/ s \in ToSet(q)
      /\ h \notin Running /\ h \notin failed /\ h \notin succeeded /\ h \notin dropped
      /\ h \in listed
  BY <1>1, Head1
<1> HIDE DEF h, q
<1>5. active' = active \ {x} /\ stray' \subseteq stray
  BY <1>1, <1>3, RebuildAlone
<1>6. /\ fails' \in [Sessions -> Nat] /\ pending' \in Seq(Sessions) /\ IsInjective(pending')
      /\ failed' \subseteq Sessions
      /\ \A t \in Sessions : fails[t] >= MaxSessionRetries => fails'[t] >= MaxSessionRetries
      /\ \/ /\ \A t : t \in Waiting' <=> t = h \/ t \in ToSet(q)
            /\ failed' = failed /\ ~(fails[h] >= MaxSessionRetries)
         \/ /\ \A t : t \in Waiting' <=> t \in ToSet(q)
            /\ failed' = failed \union {h}
  BY ONLY <1>1, <1>2, <1>4, Retried
<1>7. \A s : s \in Running' <=> s \in Running /\ s # x.session
  BY <1>3, <1>5 DEF Running, SessionsOf
<1>8. SessionTypes'
  BY <1>1, <1>2, <1>3, <1>5, <1>6 DEF SessionTypes
<1>9. \A s \in Sessions : Account(s)'
  BY <1>1, <1>2, <1>3, <1>4, <1>6, <1>7 DEF Account
<1>10. Begun' /\ Round' /\ Aborted'
  BY <1>1, <1>3 DEF Begun, Round, Aborted
<1> QED BY <1>3, <1>5, <1>6, <1>8, <1>9, <1>10 DEF SessionOK

(* A session with an error has failed. *)
LEMMA CollectErrorKeeps ==
  ASSUME SessionOK, NEW x \in active, CollectError(x) PROVE SessionOK'
<1>1. /\ phase = "loop"
      /\ active' = active \ {x} /\ failed' = failed \union {x.session}
      /\ UNCHANGED <<phase, listed, pending, succeeded, dropped, stray, toFill, rebuilds, fails>>
  BY DEF CollectError, CollectUnchanged
<1>2. /\ SessionTypes /\ IsInjective(pending) /\ Alone(active)
      /\ \A s \in Sessions : Account(s)
  BY DEF SessionOK
<1>3. /\ x.session \in Sessions
      /\ x.session \in listed /\ x.session \in Running
      /\ x.session \notin Waiting /\ x.session \notin succeeded
      /\ dropped = {}
      /\ Alone(active \ {x})
      /\ \A s : s \in SessionsOf(active \ {x}) <=> s \in Running /\ s # x.session
  BY <1>1, Collected
<1>4. \A s : s \in Running' <=> s \in Running /\ s # x.session
  BY <1>1, <1>3 DEF Running, SessionsOf
<1>5. SessionTypes'
  BY <1>1, <1>2, <1>3 DEF SessionTypes
<1>6. \A s \in Sessions : Account(s)'
  BY <1>1, <1>2, <1>3, <1>4 DEF Account, Waiting
<1>7. Begun' /\ Round' /\ Aborted'
  BY <1>1, <1>3 DEF Begun, Round, Aborted
<1> QED BY <1>1, <1>2, <1>3, <1>5, <1>6, <1>7 DEF SessionOK

(* A session whose worker died waits again or has failed. *)
LEMMA CollectDeathKeeps ==
  ASSUME SessionOK, NEW x \in active, CollectDeath(x) PROVE SessionOK'
<1>1. /\ phase = "loop" /\ rebuilds' = rebuilds + 1
      /\ UNCHANGED <<phase, listed, succeeded, dropped, toFill>>
  BY DEF CollectDeath, CollectUnchanged
<1>2. /\ SessionTypes /\ IsInjective(pending) /\ Alone(active)
      /\ \A s \in Sessions : Account(s)
  BY DEF SessionOK
<1>3. /\ x.slot \in Slots /\ x.session \in Sessions
      /\ x.session \in listed /\ x.session \in Running
      /\ x.session \notin Waiting /\ x.session \notin succeeded
      /\ x.session \in failed => fails[x.session] >= MaxSessionRetries
      /\ dropped = {}
      /\ Alone(active \ {x})
      /\ \A y \in active \ {x} : y.slot # x.slot
      /\ \A s : s \in SessionsOf(active \ {x}) <=> s \in Running /\ s # x.session
  BY <1>1, Collected
<1>4. Begun' /\ Round' /\ Aborted'
  BY <1>1, <1>3 DEF Begun, Round, Aborted
<1>5. CASE Rebuild(x.slot, active \ {x}) /\ Retry(x.session, pending)
  <2>1. active' = active \ {x} /\ stray' \subseteq stray
    BY <1>3, <1>5, RebuildAlone
  <2>2. pending \in Seq(Sessions) /\ x.session \notin ToSet(pending)
    BY <1>2, <1>3 DEF SessionTypes, Waiting
  <2>3. /\ fails' \in [Sessions -> Nat] /\ pending' \in Seq(Sessions) /\ IsInjective(pending')
        /\ failed' \subseteq Sessions
        /\ \A t \in Sessions : fails[t] >= MaxSessionRetries => fails'[t] >= MaxSessionRetries
        /\ \/ /\ \A t : t \in Waiting' <=> t = x.session \/ t \in ToSet(pending)
              /\ failed' = failed /\ ~(fails[x.session] >= MaxSessionRetries)
           \/ /\ \A t : t \in Waiting' <=> t \in ToSet(pending)
              /\ failed' = failed \union {x.session}
    BY ONLY <1>2, <1>3, <1>5, <2>2, Retried
  <2>4. \A s : s \in Running' <=> s \in Running /\ s # x.session
    BY <1>3, <2>1 DEF Running, SessionsOf
  <2>5. SessionTypes'
    BY <1>1, <1>2, <2>1, <2>3 DEF SessionTypes
  <2>6. \A s \in Sessions : Account(s)'
    BY <1>1, <1>2, <1>3, <2>3, <2>4 DEF Account, Waiting
  <2> QED BY <1>3, <1>4, <2>1, <2>3, <2>5, <2>6 DEF SessionOK
<1>6. CASE /\ active' = active \ {x} /\ failed' = failed \union {x.session}
           /\ fails' = [fails EXCEPT ![x.session] = @ + 1]
           /\ UNCHANGED <<pending, stray>>
  <2>1. /\ fails' \in [Sessions -> Nat]
        /\ \A t \in Sessions : fails[t] >= MaxSessionRetries => fails'[t] >= MaxSessionRetries
    <3>1. fails \in [Sessions -> Nat] /\ MaxSessionRetries \in Nat
      BY <1>2 DEF SessionTypes
    <3> QED BY ONLY <1>3, <1>6, <3>1
  <2>2. \A s : s \in Running' <=> s \in Running /\ s # x.session
    BY <1>3, <1>6 DEF Running, SessionsOf
  <2>3. SessionTypes'
    BY <1>1, <1>2, <1>3, <1>6, <2>1 DEF SessionTypes
  <2>4. \A s \in Sessions : Account(s)'
    BY <1>1, <1>2, <1>3, <1>6, <2>1, <2>2 DEF Account, Waiting
  <2> QED BY <1>2, <1>3, <1>4, <1>6, <2>3, <2>4 DEF SessionOK
<1> QED BY <1>5, <1>6 DEF CollectDeath

(* A run that raises forgets its sessions. *)
LEMMA RaiseKeeps == ASSUME SessionOK, Raise PROVE SessionOK'
<1>1. stray' \subseteq Futures
  <2>1. PICK lost \in SUBSET Slots :
          stray' = {[x EXCEPT !.current = @ /\ x.slot \notin lost] : x \in stray}
    BY DEF Raise
  <2>2. ASSUME NEW x \in Futures, NEW b \in BOOLEAN PROVE [x EXCEPT !.current = b] \in Futures
    BY DEF Futures
  <2>3. \A x \in stray : x \in Futures /\ (x.current /\ x.slot \notin lost) \in BOOLEAN
    BY DEF SessionOK, SessionTypes
  <2> QED BY <2>1, <2>2, <2>3
<1> QED BY <1>1, ResetKeeps DEF Raise

(* What waits at the end of the loop has failed. *)
LEMMA LoopEndKeeps == ASSUME SessionOK, LoopEnd PROVE SessionOK'
<1>1. CASE Raise
  BY <1>1, RaiseKeeps
<1>2. CASE /\ phase' = "cleanup"
           /\ failed' = failed \union ToSet(pending) /\ pending' = << >>
           /\ UNCHANGED <<listed, active, succeeded, dropped, stray, toFill, rebuilds, fails>>
  <2>1. /\ SessionTypes /\ Alone(active) /\ \A s \in Sessions : Account(s)
        /\ Aborted /\ phase = "loop" /\ active = {}
    BY DEF SessionOK, LoopEnd
  <2>2. Waiting \subseteq Sessions
    BY <2>1, ElementOfSeq DEF SessionTypes, Waiting, ToSet
  <2>3. failed' = failed \union Waiting /\ Waiting' = {} /\ IsInjective(pending')
    BY <1>2, EmptyQueue DEF Waiting
  <2>4. SessionTypes'
    BY <1>2, <2>1, <2>2, <2>3 DEF SessionTypes, Phases
  <2>5. \A s \in Sessions : Account(s)'
    BY <1>2, <2>1, <2>3 DEF Account, Running
  <2>6. Begun' /\ Round' /\ Aborted'
    BY <1>2, <2>1 DEF Begun, Round, Aborted
  <2> QED BY <1>2, <2>1, <2>3, <2>4, <2>5, <2>6 DEF SessionOK
<1> QED BY <1>1, <1>2 DEF LoopEnd

(* The coordinator changes the tables only when the clean-up commits.      *)
LEMMA CoordinatorKeeps ==
  ASSUME IInv, Coordinator
  PROVE  IInv'
<1>1. SessionOK /\ StorageOK
  BY DEF IInv
<1>2. ASSUME UNCHANGED storageState, SessionOK' PROVE IInv'
  BY <1>1, <1>2, SameStorage DEF IInv
<1>3. CASE FindExpired
  BY <1>1, <1>2, <1>3, FindExpiredKeeps DEF FindExpired, storageState
<1>4. CASE ListSessions
  BY <1>2, <1>4, ListSessionsKeeps DEF ListSessions, storageState
<1>5. CASE RoundDone
  BY <1>1, <1>2, <1>5, RoundDoneKeeps DEF RoundDone, storageState
<1>6. CASE Refill
  BY <1>1, <1>2, <1>6, RefillKeeps DEF Refill, storageState
<1>7. CASE LoopEnd
  <2>1. SessionOK'
    BY <1>1, <1>7, LoopEndKeeps
  <2>2. deleting' = deleting \/ deleting' = {}
    BY <1>7 DEF LoopEnd, Raise, Reset
  <2>3. UNCHANGED <<dbVars, fileVars, faults>>
    BY <1>7 DEF LoopEnd
  <2>4. StorageOK'
    BY <1>1, <2>2, <2>3 DEF StorageOK, dbVars, fileVars
  <2> QED BY <2>1, <2>4 DEF IInv
<1>8. CASE CleanupDelete
  <2>1. /\ phase = "cleanup" /\ phase' = "commit"
        /\ UNCHANGED <<listed, pending, active, failed, succeeded, dropped, stray, toFill,
                       rebuilds, fails>>
    BY <1>8 DEF CleanupDelete, sessionVars
  <2>2. SessionOK'
    BY <1>1, <2>1 DEF SessionOK, SessionTypes, Phases, Alone, Account, Waiting, Running, Begun,
       Round, Aborted
  <2>3. StorageOK'
    BY <1>1, <1>8 DEF CleanupDelete, StorageOK, dbVars, fileVars
  <2> QED BY <2>2, <2>3 DEF IInv
<1>9. CASE CleanupCommit
  <2>1. SessionOK'
    <3>1. stray' \subseteq Futures
      BY <1>1, <1>9 DEF CleanupCommit, SessionOK, SessionTypes
    <3> QED BY <1>1, <1>9, <3>1, ResetKeeps DEF CleanupCommit
  <2>2. StorageOK'
    BY <1>1, <1>9 DEF CleanupCommit, Reset, StorageOK, fileVars
  <2> QED BY <2>1, <2>2 DEF IInv
<1>10. ASSUME NEW w \in Slots, Assign(w) PROVE IInv'
  BY <1>1, <1>2, <1>10, AssignKeeps DEF Assign, storageState
<1>11. ASSUME NEW w \in Slots, AssignToDead(w) PROVE IInv'
  BY <1>1, <1>2, <1>11, AssignToDeadKeeps DEF AssignToDead, storageState
<1>12. ASSUME NEW w \in Slots, AssignAtLimit(w) PROVE IInv'
  BY <1>1, <1>2, <1>12, AssignAtLimitKeeps DEF AssignAtLimit, storageState
<1>13. ASSUME CollectUnchanged PROVE UNCHANGED storageState
  BY <1>13 DEF CollectUnchanged, storageState
<1>14. ASSUME NEW x \in active, CollectResult(x) PROVE IInv'
  BY <1>1, <1>2, <1>13, <1>14, CollectResultKeeps DEF CollectResult
<1>15. ASSUME NEW x \in active, CollectResultThenDead(x) PROVE IInv'
  BY <1>1, <1>2, <1>13, <1>15, CollectResultThenDeadKeeps DEF CollectResultThenDead
<1>16. ASSUME NEW x \in active, CollectError(x) PROVE IInv'
  BY <1>1, <1>2, <1>13, <1>16, CollectErrorKeeps DEF CollectError
<1>17. ASSUME NEW x \in active, CollectDeath(x) PROVE IInv'
  BY <1>1, <1>2, <1>13, <1>17, CollectDeathKeeps DEF CollectDeath
<1> QED BY <1>3, <1>4, <1>5, <1>6, <1>7, <1>8, <1>9, <1>10, <1>11, <1>12, <1>14, <1>15, <1>16,
        <1>17 DEF Coordinator

(* A failing clean-up and a crash forget the sessions. *)
LEMMA FailuresKeep ==
  ASSUME IInv, CleanupFailed \/ Crash
  PROVE  IInv'
<1>1. SessionOK /\ StorageOK
  BY DEF IInv
<1>2. SessionOK'
  <2>1. CASE CleanupFailed
    BY <1>1, <2>1, RaiseKeeps DEF CleanupFailed
  <2>2. CASE Crash
    BY <1>1, <2>2, ResetKeeps DEF Crash
  <2> QED BY <2>1, <2>2
<1>3. /\ UNCHANGED <<dbVars, fileVars>> /\ deleting' = {}
      /\ faults < MaxFaults /\ faults' = faults + 1
  BY DEF CleanupFailed, Crash, Raise, Reset
<1>4. StorageOK'
  BY <1>1, <1>3 DEF StorageOK, dbVars, fileVars
<1> QED BY <1>2, <1>4 DEF IInv

(* Every step keeps the invariant. *)
LEMMA StepKeeps == IInv /\ [Next]_vars => IInv'
<1> SUFFICES ASSUME IInv, [Next]_vars PROVE IInv'
  OBVIOUS
<1>1. CASE (\E r \in Records : Insert(r)) \/ Expire
  BY <1>1, ProxyKeeps
<1>2. CASE \E w \in Slots : Worker(w)
  BY <1>2, WorkersKeep DEF Worker
<1>3. CASE \E x \in active \union stray : TaskError(x) \/ Die(x)
  BY <1>3, WorkersKeep
<1>4. CASE Coordinator
  BY <1>4, CoordinatorKeeps
<1>5. CASE CleanupFailed \/ Crash
  BY <1>5, FailuresKeep
<1>6. CASE UNCHANGED vars
  <2>1. UNCHANGED sessionState /\ UNCHANGED storageState
    BY <1>6 DEF vars, sessionState, storageState, sessionVars, dbVars, fileVars
  <2> QED BY <2>1, SameSessions, SameStorage DEF IInv
<1> QED BY <1>1, <1>2, <1>3, <1>4, <1>5, <1>6 DEF Next

(* The inductive invariant holds in every reachable state. *)
LEMMA Invariance == Spec => []IInv
BY InitEstablishes, StepKeeps, PTL DEF Spec

(* The tables, the files, the queues and the futures keep their types, and *)
(* the tables agree: details and archive marks belong to known records.    *)
THEOREM TypeCorrect == Spec => []TypeOK
BY Invariance, Consequences, PTL

(* Whatever dies, is retried, rebuilt or aborted, every session of the run *)
(* is at exactly one place, and none is handed out twice: the one          *)
(* exception is a session that has used up its retries.                    *)
THEOREM SessionsAccountedAlways == Spec => []SessionsAccounted
BY Invariance, Consequences, PTL

(* A worker has one session at a time, and the futures that are waited for *)
(* belong to workers of the list: _rebuild_worker_in_list always finds the *)
(* one that died.                                                          *)
THEOREM OneSessionPerWorkerAlways == Spec => []OneSessionPerWorker
BY Invariance, Consequences, PTL
-----------------------------------------------------------------------------
(* Archiving loses no record, for any number of workers, sessions, records *)
(* and retries, whatever crashes or fails half-way: FileIsComplete.  It    *)
(* needs what Careful says, which the code does not enforce.               *)

(* No two sessions share a file, no record arrives in a session that has   *)
(* others, and a run begins only when no task of an earlier one is left.   *)
Careful ==
  /\ \A s, t \in Sessions : PathOf[s] = PathOf[t] => s = t
  /\ \A r \in Late, q \in Records : SessionOf[r] = SessionOf[q] => r = q
  /\ MaxStray = 0

(* What an export of the session finds. *)
Rows(s) == {r \in details : SessionOf[r] = s}

(* A record is archived when its details have gone, and the details of a   *)
(* session go together.  What the clean-up is about to delete belongs to   *)
(* the sessions that succeeded.                                            *)
TablesAgree ==
  /\ Records \ Late \subseteq known
  /\ archived = known \ details
  /\ \A r, q \in known : SessionOf[r] = SessionOf[q] /\ r \in details => q \in details
  /\ phase = "commit" => deleting = {r \in details : SessionOf[r] \in succeeded}

(* A session that is listed, or that a task nobody waits for works on,     *)
(* still has its details.  Such tasks work on the sessions this run has    *)
(* dropped, each on its own.                                               *)
Undone ==
  /\ \A s \in listed : Rows(s) # {}
  /\ \A x \in stray : Rows(x.session) # {}
  /\ phase # "idle" => \A x \in stray : x.session \in dropped
  /\ \A x, y \in stray : x.session = y.session => x = y

(* What a worker that is waited for has done with its session so far. *)
Exported(x) ==
  /\ x.stage = "writing" => x.rows = Rows(x.session) /\ temp[Path(x)] = File({})
  /\ x.stage = "exported" => temp[Path(x)] = File(Rows(x.session))
  /\ x.stage = "done" => stored[Path(x)] = File(Rows(x.session))

Kept(r) == \E c \in SUBSET Records : stored[PathOf[SessionOf[r]]] = File(c) /\ r \in c

FilesOK ==
  /\ \A x \in active : Exported(x)
  /\ \A s \in succeeded : stored[PathOf[s]] = File(Rows(s))
  /\ \A r \in archived : Kept(r)

FInv == TablesAgree /\ Undone /\ FilesOK
-----------------------------------------------------------------------------
(* While anything is waited for, nothing else works. *)
LEMMA OneCrew ==
  ASSUME IInv, FInv, NEW x \in active
  PROVE  /\ stray = {} /\ phase \notin {"idle", "list"} /\ dropped = {}
         /\ x \in Futures /\ x.session \in Sessions /\ x.session \in listed
         /\ Rows(x.session) # {} /\ x.session \notin succeeded
<1>1. SessionTypes /\ Begun /\ Aborted
  BY DEF IInv, SessionOK
<1>2. phase \notin {"idle", "list"} /\ dropped = {}
  BY <1>1 DEF Begun, Aborted
<1>3. stray = {}
  BY <1>2 DEF FInv, Undone
<1>4. x \in Futures /\ x.session \in Sessions
  BY <1>1, FutureFields DEF SessionTypes
<1>5. x.session \in Running /\ Account(x.session)
  BY <1>4 DEF IInv, SessionOK, Running
<1>6. x.session \in listed /\ x.session \notin succeeded
  BY <1>5 DEF Account
<1> QED BY <1>2, <1>3, <1>4, <1>6 DEF FInv, Undone

(* The tasks nobody waits for are finitely many. *)
LEMMA FewStray ==
  ASSUME IInv, FInv
  PROVE  IsFiniteSet(stray)
<1> DEFINE f == [x \in stray |-> x.session]
<1>1. f \in Injection(stray, Sessions)
  BY FutureFields DEF FInv, Undone, IInv, SessionOK, SessionTypes, Injection, IsInjective
<1>2. IsFiniteSet(Sessions)
  BY DEF ArchiveAssumption
<1> HIDE DEF f
<1> QED BY ONLY <1>1, <1>2, FS_Injection

(* A step of the coordinator that leaves the tables and the files alone.   *)
LEMMA Quiet ==
  ASSUME FInv, UNCHANGED <<dbVars, fileVars>>, phase' # "commit",
         \A s \in listed' : Rows(s) # {},
         stray' \subseteq stray, dropped' = dropped,
         phase' # "idle" => phase # "idle" \/ stray = {},
         \A x \in active' : x \in active \/ x.stage = "started",
         \A s \in succeeded' : \/ s \in succeeded
                               \/ \E x \in active : x.stage = "done" /\ x.session = s
  PROVE  FInv'
<1>1. UNCHANGED <<known, details, archived, temp, stored>> /\ \A s : Rows(s)' = Rows(s)
  BY DEF dbVars, fileVars, Rows
<1>2. TablesAgree'
  BY <1>1 DEF FInv, TablesAgree
<1>3. Undone'
  BY <1>1 DEF FInv, Undone
<1>4. ASSUME NEW x \in active' PROVE Exported(x)'
  <2>1. CASE x \in active
    BY <1>1, <2>1 DEF FInv, FilesOK, Exported, Path
  <2>2. CASE x.stage = "started"
    BY <2>2 DEF Exported
  <2> QED BY <2>1, <2>2
<1>5. ASSUME NEW s \in succeeded' PROVE stored[PathOf[s]] = File(Rows(s))
  BY <1>5 DEF FInv, FilesOK, Exported, Path
<1>6. \A r \in archived' : Kept(r)'
  BY <1>1 DEF FInv, FilesOK, Kept
<1> QED BY <1>1, <1>2, <1>3, <1>4, <1>5, <1>6 DEF FInv, FilesOK

(* The run ends without a clean-up. *)
LEMMA Over ==
  ASSUME FInv, UNCHANGED <<dbVars, fileVars>>, Reset,
         \A x \in stray' : \E y \in stray : x.session = y.session,
         \A x, y \in stray' : x.session = y.session => x = y
  PROVE  FInv'
<1>1. /\ UNCHANGED <<known, details, archived, temp, stored>> /\ \A s : Rows(s)' = Rows(s)
      /\ phase' = "idle" /\ listed' = {} /\ active' = {} /\ succeeded' = {}
  BY DEF dbVars, fileVars, Rows, Reset
<1>2. TablesAgree'
  BY <1>1 DEF FInv, TablesAgree
<1>3. Undone'
  BY <1>1 DEF FInv, Undone
<1>4. FilesOK'
  BY <1>1 DEF FInv, FilesOK, Kept
<1> QED BY <1>2, <1>3, <1>4 DEF FInv

(* A run that raises leaves the tasks nobody waits for at their sessions. *)
LEMMA RaiseFiles ==
  ASSUME IInv, FInv, UNCHANGED <<dbVars, fileVars>>, Raise
  PROVE  FInv'
<1>1. PICK lost \in SUBSET Slots :
        stray' = {[x EXCEPT !.current = @ /\ x.slot \notin lost] : x \in stray}
  BY DEF Raise
<1> DEFINE f(x) == [x EXCEPT !.current = @ /\ x.slot \notin lost]
<1>2. \A x \in stray : f(x).session = x.session
  BY DEF IInv, SessionOK, SessionTypes, Futures
<1>3. stray' = {f(x) : x \in stray}
  BY <1>1
<1> HIDE DEF f
<1>4. \A x \in stray' : \E y \in stray : x = f(y) /\ x.session = y.session
  BY <1>2, <1>3
<1>5. \A x, y \in stray' : x.session = y.session => x = y
  BY <1>4 DEF FInv, Undone
<1>6. Reset
  BY DEF Raise
<1> QED BY <1>4, <1>5, <1>6, Over

-----------------------------------------------------------------------------
(* The proxy inserts: no session that is archived or was listed gains a    *)
(* record.                                                                 *)
LEMMA InsertFiles ==
  ASSUME Careful, IInv, FInv, NEW r \in Records, Insert(r)
  PROVE  FInv'
<1>1. /\ r \in Late /\ r \notin known
      /\ known' = known \union {r} /\ details' = details \union {r}
      /\ UNCHANGED <<archived, temp, stored, phase, listed, active, succeeded, dropped, stray,
                     deleting>>
  BY DEF Insert, fileVars, sessionVars
<1>2. known \subseteq Records /\ details \subseteq known /\ archived \subseteq known
  BY DEF IInv, StorageOK
<1>3. \A q \in known : SessionOf[q] # SessionOf[r]
  BY <1>1, <1>2 DEF Careful
<1>4. \A s : Rows(s) # {} => s # SessionOf[r]
  BY <1>2, <1>3 DEF Rows
<1>5. \A s : Rows(s) # {} => Rows(s)' = Rows(s)
  BY <1>1, <1>4 DEF Rows
<1>6. \A s \in listed : Rows(s) # {}
  BY DEF FInv, Undone
<1>7. ASSUME NEW s \in succeeded PROVE Rows(s) # {}
  <2>1. s \in Sessions /\ Account(s)
    BY DEF IInv, SessionOK, SessionTypes
  <2> QED BY <1>6, <2>1 DEF Account
<1>8. TablesAgree'
  <2>1. Records \ Late \subseteq known' /\ archived' = known' \ details'
    BY <1>1, <1>2 DEF FInv, TablesAgree
  <2>2. \A p, q \in known' : SessionOf[p] = SessionOf[q] /\ p \in details' => q \in details'
    BY <1>1, <1>3 DEF FInv, TablesAgree
  <2>3. SessionOf[r] \notin succeeded
    BY <1>4, <1>7
  <2>4. phase' = "commit" => deleting' = {p \in details' : SessionOf[p] \in succeeded'}
    BY <1>1, <2>3 DEF FInv, TablesAgree
  <2> QED BY <2>1, <2>2, <2>4 DEF TablesAgree
<1>9. Undone'
  BY <1>1, <1>5 DEF FInv, Undone
<1>10. FilesOK'
  <2>1. ASSUME NEW x \in active PROVE Exported(x)'
    <3>1. Exported(x) /\ Rows(x.session)' = Rows(x.session)
      BY <1>5, OneCrew DEF FInv, FilesOK
    <3> QED BY <1>1, <3>1 DEF Exported, Path
  <2>2. \A s \in succeeded : stored'[PathOf[s]] = File(Rows(s)')
    BY <1>1, <1>5, <1>7 DEF FInv, FilesOK
  <2>3. \A q \in archived : Kept(q)'
    BY <1>1 DEF FInv, FilesOK, Kept
  <2> QED BY <1>1, <2>1, <2>2, <2>3 DEF FilesOK
<1> QED BY <1>8, <1>9, <1>10 DEF FInv

-----------------------------------------------------------------------------
(* The workers.                                                            *)

(* A task nobody waits for writes only the file of its own session, which  *)
(* is not archived and has not succeeded.                                  *)
LEMMA StrayFiles ==
  ASSUME Careful, IInv, FInv, NEW x \in stray, NEW y, y.session = x.session,
         stray' \subseteq (stray \ {x}) \union {y}, UNCHANGED active, WorkerUnchanged,
         \A p \in Paths \ {Path(x)} : stored'[p] = stored[p]
  PROVE  FInv'
<1>1. /\ UNCHANGED <<known, details, archived, phase, listed, active, succeeded, dropped, deleting>>
      /\ \A s : Rows(s)' = Rows(s)
  BY DEF WorkerUnchanged, dbVars, Rows
<1>2. x \in Futures /\ x.session \in Sessions /\ Rows(x.session) # {}
  BY FutureFields DEF IInv, SessionOK, SessionTypes, FInv, Undone
<1>3. TablesAgree'
  BY <1>1 DEF FInv, TablesAgree
<1>4. Undone'
  BY <1>1 DEF FInv, Undone
<1>5. active = {}
  BY OneCrew
<1>6. \A s \in Sessions \ {x.session} : stored'[PathOf[s]] = stored[PathOf[s]]
  BY <1>2 DEF Careful, Path
<1>7. ASSUME NEW s \in succeeded PROVE s \in Sessions /\ s # x.session
  <2>1. s \in Sessions /\ Account(s)
    BY DEF IInv, SessionOK, SessionTypes
  <2>2. phase # "idle"
    BY DEF IInv, SessionOK, Begun
  <2>3. x.session \in dropped
    BY <2>2 DEF FInv, Undone
  <2> QED BY <2>1, <2>3 DEF Account
<1>8. ASSUME NEW r \in archived PROVE Kept(r)'
  <2>1. r \in known /\ r \notin details /\ SessionOf[r] \in Sessions
    BY DEF FInv, TablesAgree, IInv, StorageOK
  <2>2. SessionOf[r] # x.session
    BY <1>2, <2>1 DEF FInv, TablesAgree, Rows, IInv, StorageOK
  <2>3. stored'[PathOf[SessionOf[r]]] = stored[PathOf[SessionOf[r]]]
    BY <1>6, <2>1, <2>2
  <2> QED BY <2>3 DEF FInv, FilesOK, Kept
<1>9. FilesOK'
  BY <1>1, <1>5, <1>6, <1>7, <1>8 DEF FInv, FilesOK
<1> QED BY <1>3, <1>4, <1>9 DEF FInv

(* A worker that is waited for works alone on its session and its file.    *)
LEMMA ActiveFiles ==
  ASSUME Careful, IInv, FInv, NEW x \in active, NEW y, y.session = x.session,
         active' = (active \ {x}) \union {y}, UNCHANGED stray, WorkerUnchanged,
         \A p \in Paths \ {Path(x)} : temp'[p] = temp[p] /\ stored'[p] = stored[p],
         Exported(y)'
  PROVE  FInv'
<1>1. /\ UNCHANGED <<known, details, archived, phase, listed, succeeded, dropped, stray, deleting>>
      /\ \A s : Rows(s)' = Rows(s)
  BY DEF WorkerUnchanged, dbVars, Rows
<1>2. /\ x.session \in Sessions /\ Rows(x.session) # {} /\ x.session \notin succeeded
      /\ stray = {}
  BY OneCrew
<1>3. TablesAgree'
  BY <1>1 DEF FInv, TablesAgree
<1>4. Undone'
  BY <1>1 DEF FInv, Undone
<1>5. \A s \in Sessions \ {x.session} :
        temp'[PathOf[s]] = temp[PathOf[s]] /\ stored'[PathOf[s]] = stored[PathOf[s]]
  BY <1>2 DEF Careful, Path
<1>6. ASSUME NEW z \in active \ {x} PROVE Exported(z)'
  <2>1. z.session \in Sessions /\ z.session # x.session
    BY OneCrew DEF IInv, SessionOK, Alone
  <2>2. Exported(z)
    BY DEF FInv, FilesOK
  <2> QED BY <1>1, <1>5, <2>1, <2>2 DEF Exported, Path
<1>7. \A s \in succeeded : stored'[PathOf[s]] = File(Rows(s)')
  BY <1>1, <1>2, <1>5 DEF FInv, FilesOK, IInv, SessionOK, SessionTypes
<1>8. ASSUME NEW r \in archived PROVE Kept(r)'
  <2>1. r \in known /\ r \notin details /\ SessionOf[r] \in Sessions
    BY DEF FInv, TablesAgree, IInv, StorageOK
  <2>2. SessionOf[r] # x.session
    BY <1>2, <2>1 DEF FInv, TablesAgree, Rows, IInv, StorageOK
  <2>3. stored'[PathOf[SessionOf[r]]] = stored[PathOf[SessionOf[r]]]
    BY <1>5, <2>1, <2>2
  <2> QED BY <2>3 DEF FInv, FilesOK, Kept
<1>9. FilesOK'
  BY <1>1, <1>6, <1>7, <1>8 DEF FilesOK
<1> QED BY <1>3, <1>4, <1>9 DEF FInv

(* What a future becomes. *)
LEMMA Staged ==
  ASSUME NEW x \in Futures, NEW stage, NEW found
  PROVE  LET y == [x EXCEPT !.stage = stage, !.rows = found] IN
         y.session = x.session /\ y.stage = stage /\ y.rows = found
BY DEF Futures

(* What a future becomes that Ray starts again. *)
LEMMA Restarted ==
  ASSUME NEW x \in Futures
  PROVE  LET y == [x EXCEPT !.stage = "started", !.rows = {}, !.tries = @ + 1] IN
         y.session = x.session /\ y.stage = "started"
BY DEF Futures

(* The step of a worker, whoever waits for it: it changes its own files,   *)
(* and what it did with them is what its stage says.                       *)
LEMMA WorkFiles ==
  ASSUME Careful, IInv, FInv, NEW x \in active \union stray, NEW y, y.session = x.session,
         Becomes(x, y), WorkerUnchanged,
         \A p \in Paths \ {Path(x)} : temp'[p] = temp[p] /\ stored'[p] = stored[p],
         x \in active => Exported(y)'
  PROVE  FInv'
<1>1. CASE x \in active /\ active' = (active \ {x}) \union {y} /\ UNCHANGED stray
  BY <1>1, ActiveFiles
<1>2. CASE /\ x \in stray /\ UNCHANGED active
           /\ stray' = (stray \ {x}) \union {z \in {y} : z.stage \in Working}
  <2>1. stray' \subseteq (stray \ {x}) \union {y}
    BY <1>2
  <2> QED BY <1>2, <2>1, StrayFiles
<1> QED BY <1>1, <1>2 DEF Becomes

(* Every step of a worker keeps the invariant, also its failures. *)
LEMMA WorkersFiles ==
  ASSUME Careful, IInv, FInv, NEW x \in active \union stray,
         Open(x) \/ Write(x) \/ Upload(x) \/ TaskError(x) \/ Die(x)
  PROVE  FInv'
<1> DEFINE Stage(stage, found) == [x EXCEPT !.stage = stage, !.rows = found]
<1>1. x \in Futures /\ temp \in Files /\ stored \in Files
  BY DEF IInv, SessionOK, SessionTypes, StorageOK
<1>2. /\ x.session \in Sessions /\ Path(x) \in Paths
      /\ x \in active => Exported(x) /\ Rows(x.session) # {}
  BY <1>1, FutureFields, OneCrew DEF Path, FInv, FilesOK
<1>3. WorkerUnchanged /\ \A s : Rows(s)' = Rows(s)
  BY DEF Open, Write, Upload, TaskError, Die, WorkerUnchanged, dbVars, Rows
<1>4. ASSUME NEW stage, NEW found
      PROVE  /\ Stage(stage, found).session = x.session
             /\ Stage(stage, found).stage = stage
             /\ Stage(stage, found).rows = found
  BY <1>1, Staged
<1>5. ASSUME NEW y, y.session = x.session,
             y.stage = "writing" => y.rows = Rows(x.session) /\ temp'[Path(x)] = File({}),
             y.stage = "exported" => temp'[Path(x)] = File(Rows(x.session)),
             y.stage = "done" => stored'[Path(x)] = File(Rows(x.session))
      PROVE  Exported(y)'
  BY <1>3, <1>5 DEF Exported, Path
<1> HIDE DEF Stage
<1>6. CASE Open(x)
  <2>1. /\ UNCHANGED stored
        /\ \A p \in Paths \ {Path(x)} : temp'[p] = temp[p]
    BY <1>1, <1>6 DEF Open, Files
  <2>2. CASE /\ temp' = [temp EXCEPT ![Path(x)] = File({})]
             /\ Becomes(x, Stage("writing", Rows(x.session)))
    <3>1. PICK y : /\ y.session = x.session /\ y.stage = "writing" /\ y.rows = Rows(x.session)
                   /\ Becomes(x, y)
      BY <1>4, <2>2
    <3>2. temp'[Path(x)] = File({})
      BY <1>1, <1>2, <2>2 DEF Files
    <3>3. Exported(y)'
      BY <1>5, <3>1, <3>2
    <3> QED BY <1>3, <2>1, <3>1, <3>3, WorkFiles
  <2>3. CASE Rows(x.session) = {} /\ Becomes(x, Stage("done", {}))
    BY <1>2, <1>3, <1>4, <2>1, <2>3, WorkFiles
  <2> QED BY <1>6, <2>2, <2>3 DEF Open, Ends, Stage, Rows
<1>7. CASE Write(x)
  <2> DEFINE y == Stage("exported", {})
             cur == temp[Path(x)]
             new == CASE cur = NoFile -> NoFile [] cur = File({}) -> File(x.rows)
                      [] OTHER -> File({})
  <2>1. /\ UNCHANGED stored /\ Becomes(x, y) /\ x.stage = "writing"
        /\ temp' = [temp EXCEPT ![Path(x)] = new]
    BY <1>7 DEF Write, Stage
  <2>2. y.session = x.session /\ y.stage = "exported"
    BY <1>4
  <2>3. cur = File({}) => new = File(x.rows)
    BY DEF File, NoFile
  <2> HIDE DEF y, new
  <2>4. temp'[Path(x)] = new /\ \A p \in Paths \ {Path(x)} : temp'[p] = temp[p]
    BY <1>1, <1>2, <2>1 DEF Files
  <2>5. x \in active => temp'[Path(x)] = File(Rows(x.session))
    BY <1>2, <2>1, <2>3, <2>4 DEF Exported
  <2>6. x \in active => Exported(y)'
    BY <1>5, <2>2, <2>5
  <2> QED BY <1>3, <2>1, <2>2, <2>4, <2>6, WorkFiles
<1>8. CASE Upload(x)
  <2>1. /\ x.stage = "exported" /\ temp' = [temp EXCEPT ![Path(x)] = NoFile]
        /\ \/ /\ temp[Path(x)] # NoFile /\ Becomes(x, Stage("done", {}))
              /\ stored' = [stored EXCEPT ![Path(x)] = temp[Path(x)]]
           \/ Becomes(x, Stage("error", {})) /\ UNCHANGED stored
    BY <1>8 DEF Upload, Ends, Stage
  <2>2. \A p \in Paths \ {Path(x)} : temp'[p] = temp[p] /\ stored'[p] = stored[p]
    BY <1>1, <2>1 DEF Files
  <2>3. CASE /\ Becomes(x, Stage("done", {}))
             /\ stored' = [stored EXCEPT ![Path(x)] = temp[Path(x)]]
    <3> DEFINE y == Stage("done", {})
    <3>1. y.session = x.session /\ y.stage = "done"
      BY <1>4
    <3>2. x \in active => stored'[Path(x)] = File(Rows(x.session))
      BY <1>1, <1>2, <2>1, <2>3 DEF Files, Exported
    <3> HIDE DEF y
    <3>3. x \in active => Exported(y)'
      BY <1>5, <3>1, <3>2
    <3> QED BY <1>3, <2>2, <2>3, <3>1, <3>3, WorkFiles DEF y
  <2>4. CASE Becomes(x, Stage("error", {}))
    <3> DEFINE y == Stage("error", {})
    <3>1. y.session = x.session /\ y.stage = "error"
      BY <1>4
    <3> HIDE DEF y
    <3>2. Exported(y)'
      BY <1>5, <3>1
    <3> QED BY <1>3, <2>2, <2>4, <3>1, <3>2, WorkFiles DEF y
  <2> QED BY <2>1, <2>3, <2>4
<1>9. CASE TaskError(x)
  <2> DEFINE y == Stage("error", {})
  <2>1. /\ Becomes(x, y) /\ UNCHANGED stored
        /\ temp' = [temp EXCEPT ![Path(x)] = NoFile]
    BY <1>9 DEF TaskError, Ends, Stage
  <2>2. y.session = x.session /\ y.stage = "error"
    BY <1>4
  <2> HIDE DEF y
  <2>3. Exported(y)'
    BY <1>5, <2>2
  <2>4. \A p \in Paths \ {Path(x)} : temp'[p] = temp[p] /\ stored'[p] = stored[p]
    BY <1>1, <2>1 DEF Files
  <2> QED BY <1>3, <2>1, <2>2, <2>3, <2>4, WorkFiles
<1>10. CASE Die(x)
  <2>1. UNCHANGED <<temp, stored>>
    BY <1>10 DEF Die, fileVars
  <2>2. PICK y : y.session = x.session /\ y.stage \in {"dead", "started"} /\ Becomes(x, y)
    <3> DEFINE z == [x EXCEPT !.stage = "started", !.rows = {}, !.tries = @ + 1]
    <3>1. z.session = x.session /\ z.stage = "started"
      BY <1>1, Restarted
    <3>2. Stage("dead", {}).session = x.session /\ Stage("dead", {}).stage = "dead"
      BY <1>4
    <3>3. Becomes(x, z) \/ Becomes(x, Stage("dead", {}))
      BY <1>10 DEF Die, Ends, Stage
    <3> HIDE DEF z
    <3> QED BY <3>1, <3>2, <3>3
  <2>3. Exported(y)'
    BY <1>5, <2>2
  <2> QED BY <1>3, <2>1, <2>2, <2>3, WorkFiles
<1> QED BY <1>6, <1>7, <1>8, <1>9, <1>10

-----------------------------------------------------------------------------
(* The coordinator.                                                        *)

(* A step that collects a future, or hands a session out. *)
LEMMA Waits ==
  ASSUME FInv, UNCHANGED <<dbVars, fileVars, listed, dropped>>, phase # "idle",
         phase' \in {"fill", "refill", "loop"}, stray' \subseteq stray,
         \A x \in active' : x \in active \/ x.stage = "started",
         \A s \in succeeded' : \/ s \in succeeded
                               \/ \E x \in active : x.stage = "done" /\ x.session = s
  PROVE  FInv'
<1>1. \A s \in listed' : Rows(s) # {}
  BY DEF FInv, Undone
<1> QED BY <1>1, Quiet

(* A round of assignments touches no file; aborted, its tasks work on the  *)
(* sessions it drops.                                                      *)
LEMMA RoundFiles ==
  ASSUME IInv, FInv, NEW w \in Slots, Assign(w) \/ AssignToDead(w) \/ AssignAtLimit(w)
  PROVE  FInv'
<1>1. SessionTypes /\ Alone(active) /\ Round /\ Aborted
  BY DEF IInv, SessionOK
<1>2. phase \in {"fill", "refill"} /\ w \in toFill /\ UNCHANGED <<dbVars, fileVars, listed>>
  BY DEF Assign, AssignToDead, AssignAtLimit, Visited
<1>3. CASE Assign(w)
  <2>1. /\ active' = active \union {Started(w, Head(pending))}
        /\ UNCHANGED <<phase, dropped, stray, succeeded>>
    BY <1>3 DEF Assign
  <2>2. Started(w, Head(pending)).stage = "started"
    BY DEF Started
  <2> QED BY <1>2, <2>1, <2>2, Waits
<1>4. CASE AssignToDead(w)
  <2>1. \A x \in active : x.slot # w
    BY <1>1, <1>2 DEF Round
  <2>2. Rebuild(w, active) /\ UNCHANGED <<phase, dropped, succeeded>>
    BY <1>4 DEF AssignToDead
  <2>3. active' = active /\ stray' \subseteq stray
    BY <2>1, <2>2, RebuildAlone
  <2> QED BY <1>2, <2>2, <2>3, Waits
<1>5. CASE AssignAtLimit(w)
  <2>1. /\ dropped' = {x.session : x \in active}
        /\ stray' = stray \union {x \in active : x.stage \in Working}
        /\ active' = {} /\ phase' = "loop" /\ UNCHANGED succeeded
    BY <1>5 DEF AssignAtLimit
  <2>2. stray = {}
    BY <1>1, <1>2 DEF Aborted, FInv, Undone
  <2>3. /\ UNCHANGED <<known, details, archived, temp, stored>>
        /\ \A s : Rows(s)' = Rows(s)
    BY <1>2 DEF dbVars, fileVars, Rows
  <2>4. TablesAgree'
    BY <2>1, <2>3 DEF FInv, TablesAgree
  <2>5. Undone'
    <3>1. \A x \in stray' : x \in active /\ x.session \in dropped'
      BY <2>1, <2>2
    <3>2. \A x \in stray' : Rows(x.session) # {}
      BY <3>1, OneCrew
    <3>3. \A x, y \in stray' : x.session = y.session => x = y
      BY <1>1, <3>1 DEF Alone
    <3>4. \A s \in listed' : Rows(s) # {}
      BY <1>2 DEF FInv, Undone
    <3> QED BY <2>3, <3>1, <3>2, <3>3, <3>4 DEF Undone
  <2>6. FilesOK'
    BY <2>1, <2>3 DEF FInv, FilesOK, Kept
  <2> QED BY <2>4, <2>5, <2>6 DEF FInv
<1> QED BY <1>3, <1>4, <1>5

(* A session succeeds only with a future that is done, whose file is       *)
(* stored.                                                                 *)
LEMMA CollectFiles ==
  ASSUME IInv, FInv, NEW x \in active,
         CollectResult(x) \/ CollectResultThenDead(x) \/ CollectError(x) \/ CollectDeath(x)
  PROVE  FInv'
<1>1. Alone(active)
  BY DEF IInv, SessionOK
<1>2. phase = "loop" /\ UNCHANGED <<dbVars, fileVars, phase, listed, dropped>>
  BY DEF CollectResult, CollectResultThenDead, CollectError, CollectDeath, CollectUnchanged
<1>3. \A y \in active \ {x} : y.slot # x.slot
  BY <1>1 DEF Alone
<1>4. Rebuild(x.slot, active \ {x}) => active' = active \ {x} /\ stray' \subseteq stray
  BY <1>3, RebuildAlone
<1>5. \A w, s : Started(w, s).stage = "started"
  BY DEF Started
<1>6. stray' \subseteq stray
  BY <1>4 DEF CollectResult, CollectResultThenDead, CollectError, CollectDeath
<1>7. \A y \in active' : y \in active \/ y.stage = "started"
  BY <1>4, <1>5 DEF CollectResult, CollectResultThenDead, CollectError, CollectDeath
<1>8. \A s \in succeeded' : \/ s \in succeeded
                            \/ \E y \in active : y.stage = "done" /\ y.session = s
  BY DEF CollectResult, CollectResultThenDead, CollectError, CollectDeath
<1> QED BY <1>2, <1>6, <1>7, <1>8, Waits

(* The clean-up deletes what is in the files of the sessions it marks as   *)
(* archived, and nothing that another task still has to export.            *)
LEMMA CleanupFiles ==
  ASSUME IInv, FInv, CleanupCommit
  PROVE  FInv'
<1>1. /\ phase = "commit" /\ phase' = "idle" /\ details' = details \ deleting
      /\ archived' = archived \union {r \in known : SessionOf[r] \in succeeded}
      /\ listed' = {} /\ active' = {} /\ succeeded' = {}
      /\ UNCHANGED <<known, temp, stored, stray>>
  BY DEF CleanupCommit, Cleaned, Reset, fileVars
<1>2. details' = {r \in details : SessionOf[r] \notin succeeded}
  BY <1>1 DEF FInv, TablesAgree
<1>3. known \subseteq Records /\ details \subseteq known /\ archived = known \ details
  BY DEF IInv, StorageOK, FInv, TablesAgree
<1>4. TablesAgree'
  <2>1. archived' = known' \ details'
    BY <1>1, <1>2, <1>3
  <2>2. \A r, q \in known' : SessionOf[r] = SessionOf[q] /\ r \in details' => q \in details'
    BY <1>1, <1>2 DEF FInv, TablesAgree
  <2> QED BY <1>1, <2>1, <2>2 DEF FInv, TablesAgree
<1>5. Undone'
  <2>1. ASSUME NEW x \in stray PROVE Rows(x.session)' # {}
    <3>1. x.session \in Sessions /\ Account(x.session)
      BY FutureFields DEF IInv, SessionOK, SessionTypes
    <3>2. x.session \in dropped /\ Rows(x.session) # {}
      BY <1>1 DEF FInv, Undone
    <3>3. x.session \notin succeeded
      BY <3>1, <3>2 DEF Account
    <3> QED BY <1>1, <1>2, <3>2, <3>3 DEF Rows
  <2> QED BY <1>1, <2>1 DEF FInv, Undone
<1>6. ASSUME NEW r \in archived' PROVE Kept(r)'
  <2>1. CASE r \in archived
    BY <1>1, <2>1 DEF FInv, FilesOK, Kept
  <2>2. CASE r \in details /\ SessionOf[r] \in succeeded
    <3>1. /\ stored[PathOf[SessionOf[r]]] = File(Rows(SessionOf[r]))
          /\ r \in Rows(SessionOf[r]) /\ Rows(SessionOf[r]) \in SUBSET Records
      BY <1>3, <2>2 DEF FInv, FilesOK, Rows
    <3> QED BY <1>1, <3>1 DEF Kept
  <2> QED BY <1>1, <1>3, <1>6, <2>1, <2>2
<1>7. FilesOK'
  BY <1>1, <1>6 DEF FilesOK
<1> QED BY <1>4, <1>5, <1>7 DEF FInv

(* The steps of the coordinator: only the clean-up changes the tables. *)
LEMMA CoordinatorFiles ==
  ASSUME Careful, IInv, FInv, Coordinator
  PROVE  FInv'
<1>1. SessionTypes /\ Begun
  BY DEF IInv, SessionOK
<1>2. CASE FindExpired
  <2>1. stray = {}
    <3>1. IsFiniteSet(stray)
      BY FewStray
    <3>2. Cardinality(stray) <= 0
      BY <1>2 DEF FindExpired, Careful
    <3>3. Cardinality(stray) \in Nat
      BY ONLY <3>1, FS_CardinalityType
    <3>4. Cardinality(stray) = 0
      BY ONLY <3>2, <3>3
    <3> QED BY ONLY <3>1, <3>4, FS_EmptySet
  <2>2. \A s \in listed' : Rows(s) # {}
    BY <1>2 DEF FindExpired, FInv, Undone
  <2> QED BY <1>2, <2>1, <2>2, Quiet DEF FindExpired, sessionVars
<1>3. CASE ListSessions
  <2>1. /\ phase = "list" /\ phase' = "fill" /\ listed' = {SessionOf[r] : r \in details}
        /\ UNCHANGED <<dbVars, fileVars, active, succeeded, dropped, stray>>
    BY <1>3 DEF ListSessions
  <2>2. \A s \in listed' : Rows(s) # {}
    BY <2>1 DEF Rows
  <2> QED BY <2>1, <2>2, Quiet
<1>4. CASE RoundDone
  BY <1>4, Waits DEF RoundDone
<1>5. CASE Refill
  BY <1>5, Waits DEF Refill, sessionVars
<1>6. CASE LoopEnd
  <2>1. /\ phase = "loop" /\ UNCHANGED <<dbVars, fileVars>>
    BY <1>6 DEF LoopEnd
  <2>2. CASE Raise
    BY <2>1, <2>2, RaiseFiles
  <2>3. CASE phase' = "cleanup" /\ UNCHANGED <<listed, active, succeeded, dropped, stray>>
    <3>1. \A s \in listed' : Rows(s) # {}
      BY <2>3 DEF FInv, Undone
    <3> QED BY <2>1, <2>3, <3>1, Quiet
  <2> QED BY <1>6, <2>2, <2>3 DEF LoopEnd
<1>7. CASE CleanupDelete
  <2>1. /\ phase = "cleanup" /\ phase' = "commit"
        /\ deleting' = {r \in details : SessionOf[r] \in succeeded}
        /\ UNCHANGED <<known, details, archived, temp, stored, listed, active, succeeded,
                       dropped, stray>>
    BY <1>7 DEF CleanupDelete, Cleaned, dbVars, fileVars, sessionVars
  <2>2. \A s : Rows(s)' = Rows(s)
    BY <2>1 DEF Rows
  <2>3. TablesAgree'
    BY <2>1 DEF FInv, TablesAgree
  <2>4. Undone'
    BY <2>1, <2>2 DEF FInv, Undone
  <2>5. FilesOK'
    BY <2>1, <2>2 DEF FInv, FilesOK, Exported, Path, Kept
  <2> QED BY <2>3, <2>4, <2>5 DEF FInv
<1>8. CASE CleanupCommit
  BY <1>8, CleanupFiles
<1>9. CASE \E w \in Slots : Assign(w) \/ AssignToDead(w) \/ AssignAtLimit(w)
  BY <1>9, RoundFiles
<1>10. CASE \E x \in active : \/ CollectResult(x) \/ CollectResultThenDead(x)
                              \/ CollectError(x) \/ CollectDeath(x)
  BY <1>10, CollectFiles
<1> QED BY <1>2, <1>3, <1>4, <1>5, <1>6, <1>7, <1>8, <1>9, <1>10 DEF Coordinator

-----------------------------------------------------------------------------
(* At the start nothing is archived and nothing works. *)
LEMMA FilesInit == Init => FInv
<1> SUFFICES ASSUME Init PROVE FInv
  OBVIOUS
<1>1. TablesAgree
  BY DEF Init, TablesAgree
<1>2. Undone /\ FilesOK
  BY DEF Init, Undone, FilesOK
<1> QED BY <1>1, <1>2 DEF FInv

(* Every step keeps the invariant about the files. *)
LEMMA FilesStep ==
  ASSUME Careful
  PROVE  IInv /\ FInv /\ [Next]_vars => FInv'
<1> SUFFICES ASSUME IInv, FInv, [Next]_vars PROVE FInv'
  OBVIOUS
<1>1. CASE \E r \in Records : Insert(r)
  BY <1>1, InsertFiles
<1>2. ASSUME UNCHANGED <<known, details, archived, temp, stored, phase, listed, active,
                         succeeded, dropped, stray, deleting>>
      PROVE  FInv'
  <2>1. \A s : Rows(s)' = Rows(s)
    BY <1>2 DEF Rows
  <2>2. TablesAgree'
    BY <1>2 DEF FInv, TablesAgree
  <2>3. Undone'
    BY <1>2, <2>1 DEF FInv, Undone
  <2>4. FilesOK'
    BY <1>2, <2>1 DEF FInv, FilesOK, Exported, Path, Kept
  <2> QED BY <2>2, <2>3, <2>4 DEF FInv
<1>3. CASE Expire
  BY <1>2, <1>3 DEF Expire, fileVars, sessionVars
<1>4. CASE \E w \in Slots : Worker(w)
  BY <1>4, WorkersFiles DEF Worker
<1>5. CASE \E x \in active \union stray : TaskError(x) \/ Die(x)
  BY <1>5, WorkersFiles
<1>6. CASE Coordinator
  BY <1>6, CoordinatorFiles
<1>7. CASE CleanupFailed
  BY <1>7, RaiseFiles DEF CleanupFailed
<1>8. CASE Crash
  BY <1>8, Over DEF Crash
<1>9. CASE UNCHANGED vars
  BY <1>2, <1>9 DEF vars
<1> QED BY <1>1, <1>3, <1>4, <1>5, <1>6, <1>7, <1>8, <1>9 DEF Next

(* The file of an archived record has it: FileIsComplete. *)
LEMMA FilesComplete == FInv => FileIsComplete
<1> SUFFICES ASSUME FInv, NEW r \in archived
             PROVE  r \in UNION ToSet(stored[PathOf[SessionOf[r]]])
  BY DEF FileIsComplete
<1>1. PICK c \in SUBSET Records : stored[PathOf[SessionOf[r]]] = File(c) /\ r \in c
  BY DEF FInv, FilesOK, Kept
<1>2. ToSet(File(c)) = {c}
  BY DEF File, ToSet
<1> QED BY <1>1, <1>2

(* A record that the database says is archived is in the file of its       *)
(* session, whatever dies, is retried, rolled back or runs again, provided *)
(* that sessions do not share files, that no record arrives in a session   *)
(* that has others, and that no task of an earlier run is left when a run  *)
(* begins.                                                                 *)
THEOREM FileIsCompleteAlways ==
  ASSUME Careful
  PROVE  Spec => []FileIsComplete
<1>1. Init => FInv
  BY FilesInit
<1>2. IInv /\ FInv /\ [Next]_vars => FInv'
  BY FilesStep
<1>3. FInv => FileIsComplete
  BY FilesComplete
<1> QED BY <1>1, <1>2, <1>3, Invariance, PTL DEF Spec
=============================================================================
