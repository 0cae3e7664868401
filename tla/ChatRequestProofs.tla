------------------------- MODULE ChatRequestProofs -------------------------
(***************************************************************************)
(* Proofs about ChatRequest, for any number of requests, permits, retries  *)
(* and chunks: its safety invariants, and that it implements ChatPromise.  *)
(*                                                                         *)
(* None of the invariants is inductive by itself.  IInv adds the queue of  *)
(* the semaphore (who is in it waits, and waits once) and, for every       *)
(* request, what its label says of its answer, its record, its stream and  *)
(* the rows it read.                                                       *)
(***************************************************************************)
EXTENDS ChatRequest, FiniteSetTheorems, SequenceTheorems, TLAPS

Answers == {"none", "busy", "ok", "missing", "error", "gone"}

(* TypeOK without the bounds that follow from the counting invariants. *)
Shape ==
  /\ pc \in [Req -> Labels]
  /\ kind \in [Req -> Kinds]
  /\ free \in Nat
  /\ waiters \in Seq(Req)
  /\ attempt \in [Req -> 0..MaxRetries]
  /\ position \in [Req -> 0..MaxChunks]
  /\ yielded \in [Req -> BOOLEAN]
  /\ finished \in [Req -> BOOLEAN]
  /\ sent \in [Req -> Seq((0..MaxRetries) \X (1..MaxChunks))]
  /\ answer \in [Req -> Answers]
  /\ record \in [Req -> {"none", "ok", "error"}]
  /\ storeErr \in [Req -> BOOLEAN]
  /\ active \in Int
  /\ archived \in SUBSET Req
  /\ known \in [Req -> SUBSET Req]
  /\ seen \in [Req -> SUBSET Req]

(* Who is in the queue of the semaphore waits, and is there once. *)
Queue ==
  /\ \A i \in DOMAIN waiters : pc[waiters[i]] = "wait"
  /\ \A i, j \in DOMAIN waiters : waiters[i] = waiters[j] => i = j

(* The labels a query can be at, and those at which nothing is stored yet. *)
QueryLabels == {"idle", "wait", "granted", "qread", "qser", "done"}
Unrecorded == {"idle", "wait", "granted", "qread", "qser", "load", "response", "prep",
               "infer", "store", "sprep", "sinfer", "syield", "sfinal", "serror",
               "sdoneerr", "lost"}
Recorded == {"stored", "failed", "sstored", "susage", "sdone"}

(* Who was answered is done, or its stream is being closed. *)
Answered(r) ==
  /\ answer[r] # "none" <=> pc[r] \in Finished
  /\ pc[r] = "sclose" => answer[r] = "gone"

(* What label and answer say about the record. *)
Stored(r) ==
  /\ Query(r) => pc[r] \in QueryLabels
  /\ pc[r] \in Unrecorded => record[r] = "none"
  /\ ~Query(r) /\ (pc[r] \in Recorded \/ answer[r] = "ok") => record[r] # "none" \/ storeErr[r]
  /\ record[r] = "error" => pc[r] = "failed" \/ answer[r] = "error"

(* All that was sent is of the attempt under way, in the order in which it *)
(* was received; after the first chunk there is no other attempt.          *)
Streamed(r) ==
  /\ ~yielded[r] => sent[r] = <<>> /\ position[r] = 0
  /\ kind[r].mode = "direct" => Len(sent[r]) = position[r]
  /\ \A i \in DOMAIN sent[r] :
       /\ sent[r][i][1] = attempt[r] /\ sent[r][i][2] <= position[r]
       /\ kind[r].mode = "direct" => sent[r][i][2] = i
  /\ \A i, j \in DOMAIN sent[r] : i < j => sent[r][i][2] < sent[r][j][2]

(* A query knows of answered requests only, and has read their rows. *)
Known(r) ==
  /\ \A t \in known[r] : ~Query(t) /\ answer[t] = "ok"
  /\ Query(r) /\ (pc[r] = "qser" \/ answer[r] \in {"ok", "missing"}) =>
       \A t \in known[r] \ seen[r] :
         storeErr[t] \/ (t \in archived /\ kind[r].mode \in {"legacy", "detail"})

IInv ==
  /\ Shape /\ Queue /\ PermitsConserved /\ GaugeExact
  /\ \A r \in Req : Answered(r) /\ Stored(r) /\ Streamed(r) /\ Known(r)

USE ChatAssumption

-----------------------------------------------------------------------------
(* The semaphore *)

InService(label) == label \notin Waiting \cup Finished

(* What a step of r may do to the labels of the others: a waiting request  *)
(* is given the permit.                                                    *)
OthersWait(r) ==
  \A q \in Req \ {r} : pc'[q] = pc[q] \/ (pc[q] = "wait" /\ pc'[q] = "granted")

(* Taking one request out of a queue in which nobody is twice. *)
LEMMA Removed ==
  ASSUME NEW s \in Seq(Req), NEW i \in DOMAIN s,
         \A j, k \in DOMAIN s : s[j] = s[k] => j = k
  PROVE  LET t == SubSeq(s, 1, i - 1) \o SubSeq(s, i + 1, Len(s)) IN
         /\ t \in Seq(Req)
         /\ \A j \in DOMAIN t : t[j] # s[i] /\ \E k \in DOMAIN s : t[j] = s[k]
         /\ \A j, k \in DOMAIN t : t[j] = t[k] => j = k
<1> DEFINE a == SubSeq(s, 1, i - 1)
           b == SubSeq(s, i + 1, Len(s))
           t == a \o b
           Was(j) == IF j < i THEN j ELSE j + 1
<1>0. Len(s) \in Nat /\ i \in Nat /\ i >= 1 /\ i <= Len(s) /\ DOMAIN s = 1..Len(s)
  BY LenProperties
<1>e. \A k \in 1..Len(s) : s[k] \in Req
  BY LenProperties, ElementOfSeq
<1>1. a \in Seq(Req) /\ Len(a) = i - 1 /\ \A j \in 1..(i - 1) : a[j] = s[j]
  <2>1. /\ a \in Seq(Req)
        /\ Len(a) = IF 1 <= i - 1 THEN i - 1 - 1 + 1 ELSE 0
        /\ \A j \in 1..(i - 1 - 1 + 1) : a[j] = s[1 + j - 1]
    BY <1>0, <1>e, SubSeqProperties
  <2> QED BY <1>0, <2>1
<1>2. b \in Seq(Req) /\ Len(b) = Len(s) - i /\ \A j \in 1..(Len(s) - i) : b[j] = s[i + j]
  <2>1. /\ b \in Seq(Req)
        /\ Len(b) = IF i + 1 <= Len(s) THEN Len(s) - (i + 1) + 1 ELSE 0
        /\ \A j \in 1..(Len(s) - (i + 1) + 1) : b[j] = s[(i + 1) + j - 1]
    BY <1>0, <1>e, SubSeqProperties
  <2> QED BY <1>0, <2>1
<1> HIDE DEF a, b
<1>3. /\ t \in Seq(Req) /\ Len(t) = Len(a) + Len(b)
      /\ \A j \in 1..Len(a) + Len(b) : t[j] = IF j <= Len(a) THEN a[j] ELSE b[j - Len(a)]
  <2>1. a \in Seq(Req) /\ b \in Seq(Req)
    BY <1>1, <1>2
  <2> QED BY ONLY <2>1, ConcatProperties
<1> HIDE DEF t
<1>4. Len(t) = Len(s) - 1 /\ DOMAIN t = 1..(Len(s) - 1)
  <2>1. Len(t) = Len(s) - 1
    BY <1>0, <1>1, <1>2, <1>3
  <2> QED BY <1>3, <2>1, LenProperties
<1>5. \A j \in 1..(Len(s) - 1) : t[j] = s[Was(j)]
  <2> SUFFICES ASSUME NEW j \in 1..(Len(s) - 1) PROVE t[j] = s[Was(j)]
    OBVIOUS
  <2>0. j \in Int /\ j >= 1 /\ j <= Len(s) - 1
    BY <1>0
  <2>1. t[j] = IF j <= i - 1 THEN a[j] ELSE b[j - (i - 1)]
    <3>1. Len(a) + Len(b) = Len(s) - 1
      BY <1>0, <1>1, <1>2
    <3> QED BY <1>1, <1>3, <3>1
  <2>2. CASE j < i
    <3>1. j <= i - 1 /\ j \in 1..(i - 1)
      BY <1>0, <2>0, <2>2
    <3> QED BY <1>1, <2>1, <2>2, <3>1
  <2>3. CASE ~(j < i)
    <3>1. j - (i - 1) \in 1..(Len(s) - i) /\ i + (j - (i - 1)) = j + 1 /\ ~(j <= i - 1)
      BY <1>0, <2>0, <2>3
    <3>2. b[j - (i - 1)] = s[i + (j - (i - 1))]
      BY <1>2, <3>1
    <3> QED BY <2>1, <2>3, <3>1, <3>2
  <2> QED BY <2>2, <2>3
<1>6. \A j \in 1..(Len(s) - 1) : Was(j) \in 1..Len(s) /\ Was(j) # i
  BY <1>0
<1>7. \A j, k \in 1..(Len(s) - 1) : Was(j) = Was(k) => j = k
  BY <1>0
<1> HIDE DEF Was
<1>8. \A j \in DOMAIN t : t[j] # s[i] /\ \E k \in DOMAIN s : t[j] = s[k]
  BY <1>0, <1>4, <1>5, <1>6
<1>9. \A j, k \in DOMAIN t : t[j] = t[k] => j = k
  BY <1>0, <1>4, <1>5, <1>6, <1>7
<1> QED BY <1>3, <1>8, <1>9 DEF a, b, t

(* The head of the queue waits and the others stay in it.                  *)
LEMMA QueueHead ==
  ASSUME Shape, Queue, waiters # <<>>
  PROVE  /\ Head(waiters) \in Req /\ pc[Head(waiters)] = "wait"
         /\ Tail(waiters) \in Seq(Req)
         /\ \A i \in DOMAIN Tail(waiters) :
              /\ i + 1 \in DOMAIN waiters /\ Tail(waiters)[i] = waiters[i + 1]
              /\ Tail(waiters)[i] # Head(waiters)
<1>1. /\ Head(waiters) \in Req /\ Tail(waiters) \in Seq(Req)
      /\ Len(Tail(waiters)) = Len(waiters) - 1
      /\ \A i \in 1..Len(Tail(waiters)) : Tail(waiters)[i] = waiters[i + 1]
  BY HeadTailProperties DEF Shape
<1>2. Len(waiters) \in Nat \ {0} /\ DOMAIN waiters = 1..Len(waiters)
      /\ DOMAIN Tail(waiters) = 1..Len(Tail(waiters))
  BY <1>1, EmptySeq, LenProperties DEF Shape
<1>3. Head(waiters) = waiters[1]
  BY DEF Shape
<1>4. pc[Head(waiters)] = "wait"
  BY <1>2, <1>3 DEF Queue
<1>5. ASSUME NEW i \in DOMAIN Tail(waiters)
      PROVE  /\ i + 1 \in DOMAIN waiters /\ Tail(waiters)[i] = waiters[i + 1]
             /\ Tail(waiters)[i] # Head(waiters)
  <2>1. i + 1 \in DOMAIN waiters /\ 1 \in DOMAIN waiters /\ i + 1 # 1
    BY <1>1, <1>2
  <2>2. Tail(waiters)[i] = waiters[i + 1]
    BY <1>1, <1>2
  <2> QED BY <1>3, <2>1, <2>2 DEF Queue
<1> QED BY <1>1, <1>4, <1>5

(* What every step of r does to the semaphore and to the labels.           *)
Moved(r) ==
  /\ pc' \in [Req -> Labels] /\ OthersWait(r)
  /\ free' \in Nat /\ waiters' \in Seq(Req)
  /\ Queue' /\ PermitsConserved'

(* The permits in use can be counted. *)
LEMMA ServingFinite == IsFiniteSet(Serving) /\ Cardinality(Serving) \in Nat
<1>1. Serving \in SUBSET Req
  BY DEF Serving
<1> QED BY <1>1, FS_Subset, FS_CardinalityType DEF ChatAssumption

(* A step that neither takes nor gives a permit. *)
LEMMA Keeps ==
  ASSUME Shape, Queue, PermitsConserved, NEW r \in Req, NEW l \in Labels,
         pc' = [pc EXCEPT ![r] = l], UNCHANGED semvars,
         pc[r] # "wait", InService(pc[r]) <=> InService(l)
  PROVE  Moved(r)
<1>1. pc' \in [Req -> Labels] /\ OthersWait(r) /\ free' \in Nat /\ waiters' \in Seq(Req)
  BY DEF Shape, OthersWait, semvars
<1>2. Queue'
  <2>1. \A i \in DOMAIN waiters : waiters[i] \in Req /\ waiters[i] # r
    BY ElementOfSeq, LenProperties DEF Shape, Queue
  <2> QED BY <2>1 DEF Shape, Queue, semvars
<1>3. Serving' = Serving
  BY DEF Serving, InService, Shape
<1>4. PermitsConserved'
  BY <1>3 DEF PermitsConserved, semvars
<1> QED BY <1>1, <1>2, <1>4 DEF Moved

(* A step that gives the permit back, or hands it to the first waiter. *)
LEMMA Gives ==
  ASSUME Shape, Queue, PermitsConserved, NEW r \in Req, NEW l \in Finished,
         InService(pc[r]), Release(r, l)
  PROVE  Moved(r) /\ pc'[r] = l
<1>1. Serving \ {r} \in SUBSET Req /\ r \in Serving
  BY DEF Serving, InService
<1>2. /\ IsFiniteSet(Serving) /\ IsFiniteSet(Serving \ {r})
      /\ Cardinality(Serving) \in Nat /\ Cardinality(Serving \ {r}) = Cardinality(Serving) - 1
  BY <1>1, ServingFinite, FS_RemoveElement
<1>3. l \in Labels /\ ~InService(l) /\ l # "wait" /\ pc[r] # "wait"
  BY DEF Labels, Finished, InService, Waiting
<1>4. CASE waiters = <<>>
  <2>1. free' = free + 1 /\ pc' = [pc EXCEPT ![r] = l] /\ waiters' = waiters
    BY <1>4 DEF Release, Goto
  <2>2. Serving' = Serving \ {r}
    BY <1>3, <2>1 DEF Serving, Shape, InService
  <2>3. PermitsConserved'
    BY <1>2, <2>1, <2>2 DEF PermitsConserved, Shape
  <2>4. Queue'
    BY <1>4, <2>1 DEF Queue
  <2> QED BY <1>3, <2>1, <2>3, <2>4 DEF Moved, Shape, OthersWait
<1>5. CASE waiters # <<>>
  <2> DEFINE h == Head(waiters)
  <2>1. free' = free /\ waiters' = Tail(waiters)
        /\ pc' = [pc EXCEPT ![r] = l, ![h] = "granted"]
    BY <1>5 DEF Release
  <2>2. /\ h \in Req /\ pc[h] = "wait" /\ Tail(waiters) \in Seq(Req)
        /\ \A i \in DOMAIN Tail(waiters) :
             /\ i + 1 \in DOMAIN waiters /\ Tail(waiters)[i] = waiters[i + 1]
             /\ Tail(waiters)[i] # h
    BY <1>5, QueueHead
  <2>3. DOMAIN Tail(waiters) \subseteq Nat
    BY <2>2, LenProperties
  <2> HIDE DEF h
  <2>4. h # r /\ h \notin Serving /\ "granted" \in Labels
    BY <1>3, <2>2 DEF Serving, Waiting, Labels
  <2>5. pc' \in [Req -> Labels] /\ pc'[r] = l /\ pc'[h] = "granted"
        /\ \A q \in Req \ {r, h} : pc'[q] = pc[q]
    BY <1>3, <2>1, <2>2, <2>4 DEF Shape
  <2>6. Serving' = (Serving \ {r}) \cup {h}
    BY <1>3, <2>2, <2>4, <2>5 DEF Serving, InService, Waiting, Finished
  <2>7. Cardinality(Serving') = Cardinality(Serving)
    <3>1. Cardinality((Serving \ {r}) \cup {h}) = Cardinality(Serving \ {r}) + 1
      BY <1>2, <2>4, FS_AddElement
    <3> QED BY <1>2, <2>6, <3>1
  <2>8. PermitsConserved'
    BY <2>1, <2>7 DEF PermitsConserved
  <2>9. OthersWait(r)
    BY <2>2, <2>5 DEF OthersWait
  <2>10. Queue'
    <3>1. \A i \in DOMAIN Tail(waiters) :
            Tail(waiters)[i] \in Req \ {r, h} /\ pc[Tail(waiters)[i]] = "wait"
      <4>1. \A i \in DOMAIN Tail(waiters) : Tail(waiters)[i] \in Req
        BY <2>2, ElementOfSeq, LenProperties
      <4>2. \A i \in DOMAIN Tail(waiters) : pc[Tail(waiters)[i]] = "wait"
        BY <2>2 DEF Queue
      <4> QED BY <1>3, <2>2, <4>1, <4>2
    <3>2. \A i, j \in DOMAIN Tail(waiters) : Tail(waiters)[i] = Tail(waiters)[j] => i = j
      BY <2>2, <2>3 DEF Queue
    <3> QED BY <2>1, <2>5, <3>1, <3>2 DEF Queue
  <2> QED BY <2>1, <2>2, <2>5, <2>8, <2>9, <2>10 DEF Moved, Shape
<1> QED BY <1>4, <1>5

(* A request arrives: it takes a free permit, or queues up. *)
LEMMA Enters ==
  ASSUME Shape, Queue, PermitsConserved, NEW r \in Req, Arrive(r)
  PROVE  Moved(r)
<1>1. pc[r] = "idle" /\ r \notin Serving
  BY DEF Arrive, Serving, Waiting
<1>2. \A i \in DOMAIN waiters : waiters[i] \in Req /\ waiters[i] # r
  BY <1>1, ElementOfSeq, LenProperties DEF Shape, Queue
<1>3. CASE free > 0 /\ waiters = <<>>
  <2>1. free' = free - 1 /\ pc' = [pc EXCEPT ![r] = Entry(r)] /\ waiters' = waiters
    BY <1>3 DEF Arrive, Goto
  <2>2. Entry(r) \in Labels /\ InService(Entry(r))
    BY DEF Entry, Labels, InService, Waiting, Finished
  <2>3. Serving' = Serving \cup {r}
    BY <2>1, <2>2 DEF Serving, Shape, InService
  <2>4. Cardinality(Serving') = Cardinality(Serving) + 1
    BY <1>1, <2>3, ServingFinite, FS_AddElement
  <2>5. PermitsConserved'
    BY <1>3, <2>1, <2>4, ServingFinite DEF PermitsConserved, Shape
  <2>6. Queue'
    BY <1>3, <2>1 DEF Queue
  <2> QED BY <1>3, <2>1, <2>2, <2>5, <2>6 DEF Moved, Shape, OthersWait
<1>4. CASE ~(free > 0 /\ waiters = <<>>)
  <2>1. waiters' = Append(waiters, r) /\ pc' = [pc EXCEPT ![r] = "wait"] /\ free' = free
    BY <1>4 DEF Arrive, Goto
  <2>2. pc' \in [Req -> Labels] /\ pc'[r] = "wait" /\ \A q \in Req \ {r} : pc'[q] = pc[q]
    BY <2>1 DEF Shape, Labels, Waiting
  <2>3. Serving' = Serving
    BY <1>1, <2>2 DEF Serving, Waiting
  <2>4. PermitsConserved'
    BY <2>1, <2>3 DEF PermitsConserved
  <2>5. /\ waiters' \in Seq(Req) /\ DOMAIN waiters' = 1..(Len(waiters) + 1)
        /\ waiters'[Len(waiters) + 1] = r
        /\ \A i \in 1..Len(waiters) : waiters'[i] = waiters[i]
    BY <2>1, AppendProperties, LenProperties DEF Shape
  <2>6. Len(waiters) \in Nat /\ DOMAIN waiters = 1..Len(waiters)
    BY LenProperties DEF Shape
  <2>7. \A i \in DOMAIN waiters' : i \in DOMAIN waiters \/ i = Len(waiters) + 1
    BY <2>5, <2>6
  <2>8. \A i \in DOMAIN waiters' : pc'[waiters'[i]] = "wait"
    BY <1>2, <2>2, <2>5, <2>6, <2>7 DEF Queue
  <2>9. \A i, j \in DOMAIN waiters' : waiters'[i] = waiters'[j] => i = j
    BY <1>2, <2>5, <2>6, <2>7 DEF Queue
  <2> QED BY <2>1, <2>2, <2>4, <2>5, <2>8, <2>9 DEF Moved, Shape, OthersWait, Queue
<1> QED BY <1>3, <1>4

(* A waiting request gives up. *)
LEMMA Drops ==
  ASSUME Shape, Queue, PermitsConserved, NEW r \in Req, TimeOut(r)
  PROVE  Moved(r)
<1>1. pc[r] = "wait" /\ pc' = [pc EXCEPT ![r] = "done"] /\ free' = free
  BY DEF TimeOut, Goto
<1>2. pc' \in [Req -> Labels] /\ pc'[r] = "done" /\ \A q \in Req \ {r} : pc'[q] = pc[q]
  BY <1>1 DEF Shape, Labels, Finished
<1>3. PICK i \in DOMAIN waiters :
        /\ waiters[i] = r
        /\ waiters' = SubSeq(waiters, 1, i - 1) \o SubSeq(waiters, i + 1, Len(waiters))
  BY DEF TimeOut
<1>4. /\ waiters' \in Seq(Req)
      /\ \A j \in DOMAIN waiters' :
           waiters'[j] # r /\ \E k \in DOMAIN waiters : waiters'[j] = waiters[k]
      /\ \A j, k \in DOMAIN waiters' : waiters'[j] = waiters'[k] => j = k
  <2>1. waiters \in Seq(Req) /\ \A j, k \in DOMAIN waiters : waiters[j] = waiters[k] => j = k
    BY DEF Shape, Queue
  <2> DEFINE t == SubSeq(waiters, 1, i - 1) \o SubSeq(waiters, i + 1, Len(waiters))
  <2>2. /\ t \in Seq(Req)
        /\ \A j \in DOMAIN t : t[j] # waiters[i] /\ \E k \in DOMAIN waiters : t[j] = waiters[k]
        /\ \A j, k \in DOMAIN t : t[j] = t[k] => j = k
    BY <2>1, Removed, Zenon
  <2> HIDE DEF t
  <2>3. waiters' = t
    BY <1>3 DEF t
  <2> QED BY <1>3, <2>2, <2>3
<1>5. \A j \in DOMAIN waiters' : pc'[waiters'[j]] = "wait"
  <2>1. \A k \in DOMAIN waiters : waiters[k] \in Req /\ pc[waiters[k]] = "wait"
    BY ElementOfSeq, LenProperties DEF Shape, Queue
  <2> QED BY <1>2, <1>4, <2>1
<1>6. Serving' = Serving
  BY <1>1, <1>2 DEF Serving, Waiting, Finished
<1>7. PermitsConserved'
  BY <1>1, <1>6 DEF PermitsConserved
<1> QED BY <1>1, <1>2, <1>4, <1>5, <1>7 DEF Moved, Shape, OthersWait, Queue

-----------------------------------------------------------------------------
(* The effect of a step *)

(* The gauge of active requests goes with r's own label. *)
Counted(r) ==
  active' = active + (IF pc'[r] \in Started THEN 1 ELSE 0)
                   - (IF pc[r] \in Started THEN 1 ELSE 0)

(* The step writes r's own variables, and it takes back no answer, failed  *)
(* insertion or archiving.                                                 *)
Frame(r) ==
  /\ kind' = kind /\ archived \subseteq archived'
  /\ storeErr[r] => storeErr'[r]
  /\ answer[r] = "ok" => answer'[r] = "ok"
  /\ \A q \in Req \ {r} :
       /\ attempt'[q] = attempt[q] /\ position'[q] = position[q]
       /\ yielded'[q] = yielded[q] /\ sent'[q] = sent[q]
       /\ answer'[q] = answer[q] /\ record'[q] = record[q] /\ storeErr'[q] = storeErr[q]
       /\ known'[q] = known[q] /\ seen'[q] = seen[q]

(* The types of the variables that Moved and Counted say nothing about.    *)
Data ==
  /\ kind \in [Req -> Kinds]
  /\ attempt \in [Req -> 0..MaxRetries]
  /\ position \in [Req -> 0..MaxChunks]
  /\ yielded \in [Req -> BOOLEAN]
  /\ finished \in [Req -> BOOLEAN]
  /\ sent \in [Req -> Seq((0..MaxRetries) \X (1..MaxChunks))]
  /\ answer \in [Req -> Answers]
  /\ record \in [Req -> {"none", "ok", "error"}]
  /\ storeErr \in [Req -> BOOLEAN]
  /\ archived \in SUBSET Req
  /\ known \in [Req -> SUBSET Req]
  /\ seen \in [Req -> SUBSET Req]

(* What there is to show of an action of r. *)
Effect(r) ==
  /\ Moved(r) /\ Counted(r) /\ Frame(r) /\ Data'
  /\ Answered(r)' /\ Stored(r)' /\ Streamed(r)' /\ Known(r)'

(* The gauge stays exact: no waiting request is counted. *)
LEMMA GaugeKept ==
  ASSUME Shape, GaugeExact, NEW r \in Req, Moved(r), Counted(r)
  PROVE  active' \in Int /\ GaugeExact'
<1> DEFINE C == {q \in Req : pc[q] \in Started}
           D == {q \in Req : pc'[q] \in Started}
<1>1. IsFiniteSet(C) /\ IsFiniteSet(D) /\ Cardinality(C) \in Nat /\ Cardinality(D) \in Nat
  <2>1. C \in SUBSET Req /\ D \in SUBSET Req
    OBVIOUS
  <2> QED BY <2>1, FS_Subset, FS_CardinalityType DEF ChatAssumption
<1>2. active = Cardinality(C) /\ active \in Int
  BY DEF GaugeExact, Shape
<1>3. \A q \in Req \ {r} : pc'[q] \in Started <=> pc[q] \in Started
  BY DEF Moved, OthersWait, Started
<1>4. /\ r \in C <=> pc[r] \in Started
      /\ r \in D <=> pc'[r] \in Started
      /\ \A q \in Req \ {r} : q \in D <=> q \in C
      /\ C \subseteq Req /\ D \subseteq Req
  BY <1>3
<1>5. active' = Cardinality(D) => active' \in Int /\ GaugeExact'
  BY <1>1 DEF GaugeExact
<1>6. active' = Cardinality(C) + (IF r \in D THEN 1 ELSE 0) - (IF r \in C THEN 1 ELSE 0)
  BY <1>2, <1>4 DEF Counted
<1> HIDE DEF C, D
<1>7. CASE r \in C /\ r \notin D
  <2>1. D = C \ {r}
    BY <1>4, <1>7
  <2>2. Cardinality(D) = Cardinality(C) - 1
    BY ONLY <1>1, <1>7, <2>1, FS_RemoveElement
  <2> QED BY <1>1, <1>5, <1>6, <1>7, <2>2
<1>8. CASE r \notin C /\ r \in D
  <2>1. D = C \cup {r}
    BY <1>4, <1>8
  <2>2. Cardinality(D) = Cardinality(C) + 1
    BY ONLY <1>1, <1>8, <2>1, FS_AddElement
  <2> QED BY <1>1, <1>5, <1>6, <1>8, <2>2
<1>9. CASE r \in C <=> r \in D
  <2>1. D = C
    BY <1>4, <1>9
  <2> QED BY <1>1, <1>5, <1>6, <1>9, <2>1
<1> QED BY <1>7, <1>8, <1>9

(* The others are as they were, or were given the permit. *)
LEMMA OthersKept ==
  ASSUME IInv, NEW r \in Req, Moved(r), Frame(r), NEW q \in Req \ {r}
  PROVE  Answered(q)' /\ Stored(q)' /\ Streamed(q)' /\ Known(q)'
<1>1. Answered(q) /\ Stored(q) /\ Streamed(q) /\ Known(q)
  BY DEF IInv
<1>2. pc'[q] = pc[q] \/ (pc[q] = "wait" /\ pc'[q] = "granted")
  BY DEF Moved, OthersWait
<1>3. /\ kind' = kind /\ Query(q)' = Query(q)
      /\ attempt'[q] = attempt[q] /\ position'[q] = position[q]
      /\ yielded'[q] = yielded[q] /\ sent'[q] = sent[q]
      /\ answer'[q] = answer[q] /\ record'[q] = record[q] /\ storeErr'[q] = storeErr[q]
      /\ known'[q] = known[q] /\ seen'[q] = seen[q]
  BY DEF Frame, Query
<1>4. Answered(q)'
  BY <1>1, <1>2, <1>3 DEF Answered, Finished
<1>5. Stored(q)'
  BY <1>1, <1>2, <1>3 DEF Stored, QueryLabels, Unrecorded, Recorded
<1>6. Streamed(q)'
  BY <1>1, <1>3 DEF Streamed
<1>7. Known(q)'
  <2>1. known[q] \subseteq Req
    BY DEF IInv, Shape
  <2>2. \A t \in Req : /\ Query(t)' = Query(t) /\ (answer[t] = "ok" => answer'[t] = "ok")
                       /\ (storeErr[t] => storeErr'[t]) /\ (t \in archived => t \in archived')
    BY DEF Frame, Query
  <2>3. pc'[q] = "qser" => pc[q] = "qser"
    BY <1>2
  <2> QED BY <1>1, <1>3, <2>1, <2>2, <2>3 DEF Known
<1> QED BY <1>4, <1>5, <1>6, <1>7

(* A step of one request that has these effects keeps the invariant of     *)
(* all.                                                                    *)
LEMMA Preserved ==
  ASSUME IInv, NEW r \in Req, Effect(r)
  PROVE  IInv'
<1>1. Queue' /\ PermitsConserved' /\ Moved(r) /\ Counted(r) /\ Frame(r) /\ Data'
  BY DEF Effect, Moved
<1>2. GaugeExact' /\ active' \in Int
  BY <1>1, GaugeKept DEF IInv
<1>3. Shape'
  BY <1>1, <1>2 DEF Shape, Data, Moved
<1>4. \A q \in Req : Answered(q)' /\ Stored(q)' /\ Streamed(q)' /\ Known(q)'
  BY <1>1, OthersKept DEF Effect
<1> QED BY <1>1, <1>2, <1>3, <1>4 DEF IInv

(* The parts of the invariant that concern one request. *)
LEMMA Parts ==
  ASSUME IInv, NEW r \in Req
  PROVE  /\ Shape /\ Data /\ Queue /\ PermitsConserved
         /\ Answered(r) /\ Stored(r) /\ Streamed(r) /\ Known(r)
BY DEF IInv, Shape, Data

(* A step that changes r's label and perhaps the gauge. *)
Relabels(r, l) ==
  /\ InService(pc[r]) /\ InService(l)
  /\ pc' = [pc EXCEPT ![r] = l] /\ Counted(r)
  /\ UNCHANGED <<semvars, askvars, infervars, answer, storevars>>
  /\ Query(r) => l \in QueryLabels
  /\ l \in Unrecorded => pc[r] \in Unrecorded
  /\ l \in Recorded => pc[r] \in Recorded
  /\ pc[r] # "failed" /\ l # "qser"

(* A step that only changes a label has these effects. *)
LEMMA Label ==
  ASSUME IInv, NEW r \in Req, NEW l \in Labels, Relabels(r, l)
  PROVE  Effect(r)
<1> USE DEF Relabels
<1>1. /\ Shape /\ Data /\ Queue /\ PermitsConserved
      /\ Answered(r) /\ Stored(r) /\ Streamed(r) /\ Known(r)
  BY Parts
<1>2. pc'[r] = l /\ pc[r] # "wait"
  BY <1>1 DEF Shape, InService, Waiting
<1>3. Moved(r)
  BY <1>1, <1>2, Keeps
<1>4. Frame(r) /\ Data'
  BY <1>1 DEF Frame, Data, askvars, infervars, storevars
<1>5. Answered(r)'
  BY <1>1, <1>2 DEF Answered, InService, Finished
<1>6. Stored(r)'
  BY <1>1, <1>2 DEF Stored, Query, askvars, storevars
<1>7. Streamed(r)'
  BY <1>1 DEF Streamed, infervars, askvars
<1>8. Known(r)'
  BY <1>1, <1>2 DEF Known, Query, askvars, storevars
<1> QED BY <1>3, <1>4, <1>5, <1>6, <1>7, <1>8 DEF Effect

(* The end of a request with answer a, at which it gives its permit back.  *)
Ends(r, l, a) ==
  /\ InService(pc[r]) /\ Release(r, l) /\ Counted(r)
  /\ answer' = [answer EXCEPT ![r] = a] /\ known' \in [Req -> SUBSET Req]
  /\ UNCHANGED <<kind, archived, seen, infervars, storevars>>
  /\ \A q \in Req : known'[q] \subseteq known[q] /\ (q # r => known'[q] = known[q])
  /\ l = "sclose" => a = "gone" /\ ~Query(r)
  /\ a = "ok" /\ ~Query(r) => pc[r] \in Recorded
  /\ pc[r] = "failed" => a = "error"
  /\ a = "busy" => pc[r] \in Unrecorded
  /\ Query(r) /\ a \in {"ok", "missing"} =>
       \A t \in known'[r] \ seen[r] :
         storeErr[t] \/ (t \in archived /\ kind[r].mode \in {"legacy", "detail"})

(* So has one that answers and gives the permit back. *)
LEMMA Ending ==
  ASSUME IInv, NEW r \in Req, NEW l \in Finished, NEW a \in Answers \ {"none"}, Ends(r, l, a)
  PROVE  Effect(r)
<1> USE DEF Ends
<1>1. /\ Shape /\ Data /\ Queue /\ PermitsConserved
      /\ Answered(r) /\ Stored(r) /\ Streamed(r) /\ Known(r)
  BY Parts
<1>2. Moved(r) /\ pc'[r] = l
  BY <1>1, Gives
<1>3. answer[r] = "none" /\ answer'[r] = a
  BY <1>1 DEF Answered, InService, Data
<1>4. Frame(r) /\ Data'
  BY <1>1, <1>3 DEF Frame, Data, infervars, storevars
<1>5. Answered(r)'
  BY <1>2, <1>3 DEF Answered
<1>6. Stored(r)'
  BY <1>1, <1>2, <1>3 DEF Stored, Query, storevars, Finished, Unrecorded, QueryLabels, Recorded
<1>7. Streamed(r)'
  BY <1>1 DEF Streamed, infervars
<1>8. Known(r)'
  <2>1. \A t \in known'[r] : ~Query(t)' /\ answer'[t] = "ok"
    <3>1. known'[r] \subseteq known[r] /\ known[r] \subseteq Req
      BY <1>1 DEF Data
    <3>2. \A t \in Req : t \in known[r] => ~Query(t) /\ answer[t] = "ok" /\ t # r
      BY <1>1, <1>3 DEF Known
    <3> QED BY <3>1, <3>2 DEF Query
  <2>2. pc'[r] # "qser"
    BY <1>2 DEF Finished
  <2> QED BY <1>3, <2>1, <2>2 DEF Known, Query, storevars
<1> QED BY <1>2, <1>4, <1>5, <1>6, <1>7, <1>8 DEF Effect

(* The steps that only move the label of a request in service. *)
LEMMA Relabelling ==
  ASSUME IInv, NEW r \in Req,
         \/ Acquired(r) \/ HandOver(r) \/ Encode(r) \/ DirectAnswered(r) \/ TokenAnswered(r)
         \/ StreamOver(r) \/ Resume(r) \/ DirectFail(r) \/ TokenFail(r) \/ ErrorSent(r)
         \/ LeaveUnstarted(r) \/ StartPlain(r) \/ StartStream(r) \/ StreamFail(r)
         \/ StreamStored(r)
  PROVE  \E l \in Labels : Relabels(r, l)
<1>1. /\ pc \in [Req -> Labels] /\ active \in Int
      /\ Query(r) => pc[r] \in QueryLabels
  BY Parts DEF Shape, Stored, QueryLabels
<1> USE DEF InService, Waiting, Finished, Started, Labels, QueryLabels, Unrecorded, Recorded
<1>2. CASE Acquired(r)
  <2>1. CASE Query(r)
    <3>1. Relabels(r, "qread")
      BY <1>1, <1>2, <2>1 DEF Acquired, Goto, Entry, Relabels, Counted
    <3> QED BY <3>1
  <2>2. CASE ~Query(r)
    <3>1. Relabels(r, "load")
      BY <1>1, <1>2, <2>2 DEF Acquired, Goto, Entry, Relabels, Counted
    <3> QED BY <3>1
  <2> QED BY <2>1, <2>2
<1>3. CASE HandOver(r) \/ LeaveUnstarted(r)
  BY <1>1, <1>3 DEF HandOver, LeaveUnstarted, Goto, Relabels, Counted
<1>4. CASE Encode(r)
  <2>1. CASE pc[r] = "prep"
    <3>1. Relabels(r, "infer")
      BY <1>1, <1>4, <2>1 DEF Encode, Goto, Relabels, Counted
    <3> QED BY <3>1
  <2>2. CASE pc[r] # "prep"
    <3>1. Relabels(r, "sinfer")
      BY <1>1, <1>4, <2>2 DEF Encode, Goto, Relabels, Counted
    <3> QED BY <3>1
  <2> QED BY <2>1, <2>2
<1>5. CASE DirectAnswered(r) \/ TokenAnswered(r)
  BY <1>1, <1>5 DEF DirectAnswered, TokenAnswered, Goto, Relabels, Counted
<1>6. CASE StreamOver(r)
  BY <1>1, <1>6 DEF StreamOver, Goto, Relabels, Counted
<1>7. CASE Resume(r)
  <2>1. CASE kind[r].mode = "tito" /\ finished[r]
    <3>1. pc' = [pc EXCEPT ![r] = "sfinal"]
      BY <1>7, <2>1, Zenon DEF Resume, Goto
    <3>2. Relabels(r, "sfinal")
      BY <1>1, <1>7, <3>1 DEF Resume, Relabels, Counted
    <3> QED BY <3>2
  <2>2. CASE ~(kind[r].mode = "tito" /\ finished[r])
    <3>1. pc' = [pc EXCEPT ![r] = "sinfer"]
      BY <1>7, <2>2, Zenon DEF Resume, Goto
    <3>2. Relabels(r, "sinfer")
      BY <1>1, <1>7, <3>1 DEF Resume, Relabels, Counted
    <3> QED BY <3>2
  <2> QED BY <2>1, <2>2
<1>8. CASE DirectFail(r)
  BY <1>1, <1>8 DEF DirectFail, Goto, Relabels, Counted
<1>9. CASE TokenFail(r)
  BY <1>1, <1>9 DEF TokenFail, Goto, Relabels, Counted
<1>10. CASE ErrorSent(r)
  BY <1>1, <1>10 DEF ErrorSent, Goto, Relabels, Counted
<1>11. CASE StartPlain(r)
  <2>1. CASE kind[r].mode = "tito"
    <3>1. Relabels(r, "prep")
      BY <1>1, <1>11, <2>1 DEF StartPlain, Goto, Relabels, Counted
    <3> QED BY <3>1
  <2>2. CASE kind[r].mode # "tito"
    <3>1. Relabels(r, "infer")
      BY <1>1, <1>11, <2>2 DEF StartPlain, Goto, Relabels, Counted
    <3> QED BY <3>1
  <2> QED BY <2>1, <2>2
<1>12. CASE StartStream(r)
  <2>1. CASE kind[r].mode = "tito"
    <3>1. Relabels(r, "sprep")
      BY <1>1, <1>12, <2>1 DEF StartStream, Goto, Relabels, Counted
    <3> QED BY <3>1
  <2>2. CASE kind[r].mode # "tito"
    <3>1. Relabels(r, "sinfer")
      BY <1>1, <1>12, <2>2 DEF StartStream, Goto, Relabels, Counted
    <3> QED BY <3>1
  <2> QED BY <2>1, <2>2
<1>13. CASE StreamFail(r)
  BY <1>1, <1>13 DEF StreamFail, Goto, Relabels, Counted
<1>14. CASE StreamStored(r)
  BY <1>1, <1>14 DEF StreamStored, Goto, Relabels, Counted
<1> QED BY <1>2, <1>3, <1>4, <1>5, <1>6, <1>7, <1>8, <1>9, <1>10, <1>11, <1>12, <1>13, <1>14

(* The steps that end a request in service. *)
LEMMA EndingSteps ==
  ASSUME IInv, NEW r \in Req,
         \/ LateTimeOut(r) \/ Refuse(r) \/ Return(r) \/ StreamEnd(r)
         \/ LeaveAtYield(r) \/ Cancelled(r)
  PROVE  \E l \in Finished, a \in Answers \ {"none"} : Ends(r, l, a)
<1>1. /\ pc \in [Req -> Labels] /\ active \in Int /\ known \in [Req -> SUBSET Req]
      /\ Shape /\ Queue /\ PermitsConserved
      /\ Query(r) => pc[r] \in QueryLabels
      /\ pc[r] = "granted" => record[r] = "none"
      /\ answer \in [Req -> Answers]
  BY Parts DEF Shape, Stored, QueryLabels, Unrecorded
<1>2. ASSUME NEW l \in Finished, InService(pc[r]), Release(r, l) PROVE pc'[r] = l
  BY <1>1, <1>2, Gives
<1> USE DEF InService, Waiting, Finished, Started, Labels, QueryLabels, Unrecorded, Recorded,
            Answers
<1>3. CASE LateTimeOut(r)
  <2>1. pc[r] = "granted" /\ Release(r, "done")
    BY <1>3 DEF LateTimeOut
  <2>2. pc'[r] = "done"
    BY <1>2, <2>1
  <2>3. Ends(r, "done", "busy")
    BY <1>1, <1>3, <2>1, <2>2 DEF LateTimeOut, Ends, Counted, askvars
  <2> QED BY <2>3
<1>4. CASE Refuse(r)
  <2>1. pc[r] = "load" /\ Release(r, "done")
    BY <1>4 DEF Refuse
  <2>2. pc'[r] = "done"
    BY <1>2, <2>1
  <2>3. Ends(r, "done", "error")
    BY <1>1, <1>4, <2>1, <2>2 DEF Refuse, Ends, Counted, askvars
  <2> QED BY <2>3
<1>5. CASE Return(r)
  <2>1. pc[r] \in {"stored", "failed"} /\ Release(r, "done")
    BY <1>5 DEF Return
  <2>2. pc'[r] = "done"
    BY <1>2, <2>1
  <2>3. Ends(r, "done", IF pc[r] = "stored" THEN "ok" ELSE "error")
    BY <1>1, <1>5, <2>1, <2>2 DEF Return, Ends, Counted, askvars
  <2> QED BY <2>3
<1>6. CASE StreamEnd(r)
  <2>1. pc[r] \in {"sdone", "sdoneerr"} /\ Release(r, "done")
    BY <1>6 DEF StreamEnd
  <2>2. pc'[r] = "done"
    BY <1>2, <2>1
  <2>3. Ends(r, "done", IF pc[r] = "sdone" THEN "ok" ELSE "error")
    BY <1>1, <1>6, <2>1, <2>2 DEF StreamEnd, Ends, Counted, askvars
  <2> QED BY <2>3
<1>7. CASE LeaveAtYield(r)
  <2> DEFINE l == IF pc[r] \in {"syield", "susage"} THEN "sclose" ELSE "done"
  <2>1. pc[r] \in {"syield", "susage", "serror", "sdone", "sdoneerr"} /\ Release(r, l)
    BY <1>7 DEF LeaveAtYield
  <2>2. pc'[r] = l
    BY <1>2, <2>1
  <2>3. Ends(r, l, "gone")
    BY <1>1, <1>7, <2>1, <2>2 DEF LeaveAtYield, Ends, Counted, askvars
  <2> QED BY <2>3
<1>8. CASE Cancelled(r)
  <2>1. pc[r] = "scancelled" /\ Release(r, "done")
    BY <1>8 DEF Cancelled
  <2>2. pc'[r] = "done"
    BY <1>2, <2>1
  <2>3. Ends(r, "done", "gone")
    BY <1>1, <1>8, <2>1, <2>2 DEF Cancelled, Ends, Counted, askvars
  <2> QED BY <2>3
<1> QED BY <1>3, <1>4, <1>5, <1>6, <1>7, <1>8

(* A step that may insert r's record and moves its label. *)
Stores(r, l) ==
  /\ InService(pc[r]) /\ InService(l) /\ ~Query(r)
  /\ pc' = [pc EXCEPT ![r] = l] /\ Counted(r)
  /\ UNCHANGED <<semvars, askvars, infervars, answer>>
  /\ record' \in [Req -> {"none", "ok", "error"}] /\ storeErr' \in [Req -> BOOLEAN]
  /\ \A q \in Req \ {r} : record'[q] = record[q] /\ storeErr'[q] = storeErr[q]
  /\ storeErr[r] => storeErr'[r]
  /\ pc[r] # "failed" /\ l \notin Unrecorded
  /\ l \in Recorded => record'[r] # "none" \/ storeErr'[r]
  /\ record'[r] = "error" => record[r] = "error" \/ l = "failed"
  /\ \/ record' = record
     \/ record[r] = "none" /\ \E w \in {"ok", "error"} : record' = [record EXCEPT ![r] = w]

(* So has one that stores, or fails to. *)
LEMMA Storing ==
  ASSUME IInv, NEW r \in Req, NEW l \in Labels, Stores(r, l)
  PROVE  Effect(r)
<1> USE DEF Stores
<1>1. /\ Shape /\ Data /\ Queue /\ PermitsConserved
      /\ Answered(r) /\ Stored(r) /\ Streamed(r) /\ Known(r)
  BY Parts
<1>2. pc'[r] = l /\ pc[r] # "wait"
  BY <1>1 DEF Shape, InService, Waiting
<1>3. Moved(r)
  BY <1>1, <1>2, Keeps
<1>4. Frame(r) /\ Data'
  BY <1>1 DEF Frame, Data, askvars, infervars
<1>5. Answered(r)' /\ answer[r] = "none" /\ answer'[r] = "none"
  BY <1>1, <1>2 DEF Answered, InService, Finished
<1>6. Stored(r)'
  BY <1>1, <1>2, <1>5 DEF Stored, Query, askvars
<1>7. Streamed(r)'
  BY <1>1 DEF Streamed, infervars, askvars
<1>8. Known(r)'
  <2>1. known'[r] = known[r] /\ ~Query(r)' /\ known[r] \subseteq Req
    BY <1>1 DEF askvars, Query, Data
  <2> QED BY <1>1, <2>1 DEF Known, Query, askvars
<1> QED BY <1>3, <1>4, <1>5, <1>6, <1>7, <1>8 DEF Effect

(* What an insertion does to the records, whatever its outcome. *)
LEMMA Insertion ==
  ASSUME Data, NEW r \in Req, NEW what \in {"ok", "error"}, Insert(r, what)
  PROVE  /\ record' \in [Req -> {"none", "ok", "error"}] /\ storeErr' \in [Req -> BOOLEAN]
         /\ \A q \in Req \ {r} : record'[q] = record[q] /\ storeErr'[q] = storeErr[q]
         /\ storeErr[r] => storeErr'[r]
         /\ record'[r] # "none" \/ storeErr'[r]
         /\ record'[r] = record[r] \/ (record[r] = "none" /\ record'[r] = what)
         /\ \/ record' = record
            \/ record[r] = "none" /\ record' = [record EXCEPT ![r] = what]
<1>1. PICK outcome \in {"ok", "fail", "unknown"} :
        /\ outcome = "ok" => record[r] = "none"
        /\ record' = IF record[r] = "none" /\ outcome # "fail"
                       THEN [record EXCEPT ![r] = what] ELSE record
        /\ storeErr' = [storeErr EXCEPT ![r] = @ \/ outcome # "ok"]
  BY DEF Insert
<1>2. record \in [Req -> {"none", "ok", "error"}] /\ storeErr \in [Req -> BOOLEAN]
  BY DEF Data
<1>3. /\ storeErr' \in [Req -> BOOLEAN]
      /\ \A q \in Req \ {r} : storeErr'[q] = storeErr[q]
      /\ storeErr'[r] <=> (storeErr[r] \/ outcome # "ok")
  BY <1>1, <1>2
<1>4. /\ record' \in [Req -> {"none", "ok", "error"}]
      /\ \A q \in Req \ {r} : record'[q] = record[q]
      /\ record'[r] = IF record[r] = "none" /\ outcome # "fail" THEN what ELSE record[r]
  BY <1>1, <1>2
<1> QED BY <1>1, <1>3, <1>4

(* Which steps store. *)
LEMMA StoringSteps ==
  ASSUME IInv, NEW r \in Req,
         Store(r) \/ Finalize(r) \/ LeaveAtAwait(r) \/ FinalizeCutOff(r)
  PROVE  \E l \in Labels : Stores(r, l)
<1>1. /\ pc \in [Req -> Labels] /\ active \in Int /\ Data
      /\ Query(r) => pc[r] \in QueryLabels
  BY Parts DEF Shape, Stored
<1> USE DEF InService, Waiting, Finished, Started, Labels, QueryLabels, Unrecorded, Recorded
<1>2. CASE Store(r)
  <2>1. CASE pc[r] = "store"
    <3>1. pc' = [pc EXCEPT ![r] = "stored"] /\ Insert(r, "ok")
      BY <1>2, <2>1 DEF Store, Goto
    <3>2. UNCHANGED <<semvars, askvars, infervars, answer, active>>
      BY <1>2 DEF Store
    <3>3. Stores(r, "stored")
      BY <1>1, <2>1, <3>1, <3>2, Insertion DEF Stores, Counted
    <3> QED BY <3>3
  <2>2. CASE pc[r] = "errstore"
    <3>1. pc' = [pc EXCEPT ![r] = "failed"] /\ Insert(r, "error")
      BY <1>2, <2>2 DEF Store, Goto
    <3>2. UNCHANGED <<semvars, askvars, infervars, answer, active>>
      BY <1>2 DEF Store
    <3>3. Stores(r, "failed")
      BY <1>1, <2>2, <3>1, <3>2, Insertion DEF Stores, Counted
    <3> QED BY <3>3
  <2> QED BY <1>2, <2>1, <2>2 DEF Store
<1>3. CASE Finalize(r)
  <2>0. UNCHANGED <<semvars, askvars, infervars, answer, active>> /\ Insert(r, "ok")
    BY <1>3 DEF Finalize
  <2>1. CASE pc[r] = "sfinal"
    <3>1. pc' = [pc EXCEPT ![r] = "sstored"]
      BY <1>3, <2>1 DEF Finalize, Goto
    <3>3. Stores(r, "sstored")
      BY <1>1, <2>0, <2>1, <3>1, Insertion DEF Stores, Counted
    <3> QED BY <3>3
  <2>2. CASE pc[r] = "scancel"
    <3>1. pc' = [pc EXCEPT ![r] = "scancelled"]
      BY <1>3, <2>2 DEF Finalize, Goto
    <3>3. Stores(r, "scancelled")
      BY <1>1, <2>0, <2>2, <3>1, Insertion DEF Stores, Counted
    <3> QED BY <3>3
  <2> QED BY <1>3, <2>1, <2>2 DEF Finalize
<1>4. ASSUME CutOff(r)
      PROVE  /\ record' \in [Req -> {"none", "ok", "error"}] /\ storeErr' \in [Req -> BOOLEAN]
             /\ \A q \in Req \ {r} : record'[q] = record[q] /\ storeErr'[q] = storeErr[q]
             /\ storeErr[r] => storeErr'[r]
             /\ record'[r] = "error" => record[r] = "error"
             /\ \/ record' = record
                \/ record[r] = "none" /\ record' = [record EXCEPT ![r] = "ok"]
  <2>0. /\ storeErr' = storeErr
        /\ \/ record' = record
           \/ record[r] = "none" /\ record' = [record EXCEPT ![r] = "ok"]
    BY <1>4 DEF CutOff, storevars
  <2> QED BY <1>1, <2>0 DEF Data
<1>5. CASE LeaveAtAwait(r)
  <2>0. /\ UNCHANGED <<semvars, askvars, infervars, answer, active>> /\ CutOff(r)
        /\ pc[r] \in {"sprep", "sinfer", "sfinal"}
    BY <1>5 DEF LeaveAtAwait
  <2>1. CASE kind[r].mode = "tito"
    <3>1. pc' = [pc EXCEPT ![r] = "scancel"]
      BY <1>5, <2>1 DEF LeaveAtAwait, Goto
    <3>3. Stores(r, "scancel")
      BY <1>1, <1>4, <2>0, <3>1 DEF Stores, Counted
    <3> QED BY <3>3
  <2>2. CASE kind[r].mode # "tito"
    <3>1. pc' = [pc EXCEPT ![r] = "scancelled"]
      BY <1>5, <2>2 DEF LeaveAtAwait, Goto
    <3>3. Stores(r, "scancelled")
      BY <1>1, <1>4, <2>0, <3>1 DEF Stores, Counted
    <3> QED BY <3>3
  <2> QED BY <2>1, <2>2
<1>6. CASE FinalizeCutOff(r)
  <2>0. /\ UNCHANGED <<semvars, askvars, infervars, answer, active>> /\ CutOff(r)
        /\ pc[r] = "scancel" /\ pc' = [pc EXCEPT ![r] = "scancelled"]
    BY <1>6 DEF FinalizeCutOff, Goto
  <2>1. Stores(r, "scancelled")
    BY <1>1, <1>4, <2>0 DEF Stores, Counted
  <2> QED BY <2>1
<1> QED BY <1>2, <1>3, <1>5, <1>6

(* A retry comes only before the first chunk. *)
LEMMA Retrying ==
  ASSUME IInv, NEW r \in Req, Retry(r)
  PROVE  Effect(r)
<1>1. /\ Shape /\ Data /\ Queue /\ PermitsConserved
      /\ Answered(r) /\ Stored(r) /\ Streamed(r) /\ Known(r)
  BY Parts
<1>2. /\ pc[r] \in {"infer", "sinfer"} /\ attempt[r] < MaxRetries /\ ~yielded[r]
      /\ attempt' = [attempt EXCEPT ![r] = @ + 1] /\ position' = [position EXCEPT ![r] = 0]
      /\ UNCHANGED <<pc, askvars, semvars, yielded, finished, sent, answer, storevars, active>>
  BY DEF Retry, MayRetry
<1>3. Moved(r)
  <2>1. pc' = [pc EXCEPT ![r] = pc[r]] /\ pc[r] \in Labels
    BY <1>1, <1>2 DEF Shape
  <2>2. pc[r] # "wait" /\ UNCHANGED semvars
    BY <1>2
  <2> QED BY <1>1, <2>1, <2>2, Keeps
<1>4. Counted(r)
  BY <1>1, <1>2 DEF Counted, Shape
<1>5. Frame(r)
  BY <1>1, <1>2 DEF Frame, askvars, storevars, Data
<1>6. Data'
  <2>1. attempt' \in [Req -> 0..MaxRetries] /\ position' \in [Req -> 0..MaxChunks]
    BY <1>1, <1>2 DEF Data, ChatAssumption
  <2> QED BY <1>1, <1>2, <2>1 DEF Data, askvars, storevars
<1>7. Answered(r)' /\ Stored(r)'
  BY <1>1, <1>2 DEF Answered, Stored, Query, askvars, storevars
<1>8. Known(r)'
  BY <1>1, <1>2 DEF Known, Query, askvars, storevars
<1>9. Streamed(r)'
  <2>1. sent'[r] = <<>> /\ position'[r] = 0 /\ yielded'[r] = yielded[r]
    BY <1>1, <1>2 DEF Streamed, Data
  <2> QED BY <1>2, <2>1 DEF Streamed
<1> QED BY <1>3, <1>4, <1>5, <1>6, <1>7, <1>8, <1>9 DEF Effect

(* A chunk of the attempt under way is appended to what was sent. *)
LEMMA Appended ==
  ASSUME Data, NEW r \in Req, Streamed(r), position[r] < MaxChunks,
         kind'[r] = kind[r], attempt'[r] = attempt[r], position'[r] = position[r] + 1, yielded'[r],
         sent'[r] = Append(sent[r], <<attempt[r], position[r] + 1>>)
  PROVE  sent'[r] \in Seq((0..MaxRetries) \X (1..MaxChunks)) /\ Streamed(r)'
<1> DEFINE s == sent[r]
           x == <<attempt[r], position[r] + 1>>
           S == (0..MaxRetries) \X (1..MaxChunks)
<1>1. attempt[r] \in 0..MaxRetries /\ position[r] \in 0..MaxChunks /\ position[r] \in Nat
      /\ MaxChunks \in Nat
  BY DEF Data, ChatAssumption
<1>2. x \in S /\ x[1] = attempt[r] /\ x[2] = position[r] + 1
  BY <1>1
<1>3. s \in Seq(S)
  BY DEF Data
<1>4. /\ kind[r].mode = "direct" => Len(s) = position[r]
      /\ \A i \in DOMAIN s : s[i][1] = attempt[r] /\ s[i][2] <= position[r]
      /\ \A i \in DOMAIN s : kind[r].mode = "direct" => s[i][2] = i
      /\ \A i, j \in DOMAIN s : i < j => s[i][2] < s[j][2]
  BY DEF Streamed
<1>5. \A i \in DOMAIN s : s[i][2] \in Nat
  <2>1. \A i \in 1..Len(s) : s[i] \in S
    BY <1>3, ElementOfSeq
  <2> QED BY <1>3, <2>1, LenProperties
<1> DEFINE t == sent'[r]
<1>6. t = Append(s, x)
  OBVIOUS
<1> HIDE DEF s, x, S, t
<1>7. /\ t \in Seq(S) /\ Len(t) = Len(s) + 1 /\ t[Len(s) + 1] = x
      /\ \A i \in 1..Len(s) : t[i] = s[i]
      /\ DOMAIN s = 1..Len(s) /\ DOMAIN t = 1..(Len(s) + 1) /\ Len(s) \in Nat
  <2>1. /\ Append(s, x) \in Seq(S) /\ Len(Append(s, x)) = Len(s) + 1
        /\ Append(s, x)[Len(s) + 1] = x
        /\ \A i \in 1..Len(s) : Append(s, x)[i] = s[i]
    BY ONLY <1>2, <1>3, AppendProperties
  <2>2. /\ t \in Seq(S) /\ Len(t) = Len(s) + 1 /\ t[Len(s) + 1] = x
        /\ \A i \in 1..Len(s) : t[i] = s[i]
    BY ONLY <1>6, <2>1, Zenon
  <2> QED BY ONLY <1>3, <2>2, LenProperties
<1>8. \A i \in DOMAIN t : i \in DOMAIN s \/ i = Len(s) + 1
  BY <1>7
<1>9. kind[r].mode = "direct" => Len(t) = position[r] + 1
  BY <1>4, <1>7
<1>10. \A i \in DOMAIN t : t[i][1] = attempt[r] /\ t[i][2] <= position[r] + 1
  BY <1>1, <1>2, <1>4, <1>5, <1>7, <1>8
<1>11. \A i \in DOMAIN t : kind[r].mode = "direct" => t[i][2] = i
  BY <1>2, <1>4, <1>7, <1>8
<1>12. \A i, j \in DOMAIN t : i < j => t[i][2] < t[j][2]
  <2> SUFFICES ASSUME NEW i \in DOMAIN t, NEW j \in DOMAIN t, i < j PROVE t[i][2] < t[j][2]
    OBVIOUS
  <2>1. i \in DOMAIN s
    BY <1>7
  <2>2. CASE j \in DOMAIN s
    BY <1>4, <1>7, <2>1, <2>2
  <2>3. CASE j = Len(s) + 1
    <3>1. t[j][2] = position[r] + 1 /\ t[i][2] = s[i][2]
      BY <1>2, <1>7, <2>1, <2>3
    <3> QED BY <1>1, <1>4, <1>5, <2>1, <3>1
  <2> QED BY <1>8, <2>2, <2>3
<1>13. sent'[r] \in Seq((0..MaxRetries) \X (1..MaxChunks))
  BY <1>7 DEF t, S
<1>14. Streamed(r)'
  BY <1>9, <1>10, <1>11, <1>12 DEF Streamed, t
<1> QED BY <1>13, <1>14

(* A chunk that arrives goes to the client, or is swallowed. *)
LEMMA Receiving ==
  ASSUME IInv, NEW r \in Req, DirectChunk(r) \/ TokenChunk(r)
  PROVE  Effect(r)
<1>1. /\ Shape /\ Data /\ Queue /\ PermitsConserved
      /\ Answered(r) /\ Stored(r) /\ Streamed(r) /\ Known(r)
  BY Parts
<1>2. PICK last \in BOOLEAN : Received(r, last)
  BY DEF DirectChunk, TokenChunk
<1>3. /\ position[r] < MaxChunks /\ pc[r] = "sinfer"
      /\ position' = [position EXCEPT ![r] = @ + 1]
      /\ yielded' = [yielded EXCEPT ![r] = TRUE]
      /\ UNCHANGED <<askvars, semvars, attempt, answer, storevars, active>>
  BY <1>2 DEF Received, DirectChunk, TokenChunk
<1>4. PICK b \in BOOLEAN : finished' = [finished EXCEPT ![r] = @ \/ b]
  BY <1>2 DEF Received
<1>5. \/ Forward(r)
      \/ kind[r].mode = "tito" /\ UNCHANGED <<pc, sent>>
  BY DEF DirectChunk, TokenChunk
<1>6. finished' \in [Req -> BOOLEAN]
  BY <1>1, <1>4 DEF Data
<1>7. PICK l \in {"sinfer", "syield"} : pc' = [pc EXCEPT ![r] = l]
  <2>1. CASE Forward(r)
    BY <2>1 DEF Forward, Goto
  <2>2. CASE UNCHANGED pc
    BY <1>1, <1>3, <2>2 DEF Shape
  <2> QED BY <1>5, <2>1, <2>2
<1>8. Moved(r) /\ pc'[r] = l
  <2>1. l \in Labels /\ InService(l) /\ InService(pc[r]) /\ pc[r] # "wait" /\ UNCHANGED semvars
    BY <1>3 DEF Labels, InService, Waiting, Finished, Started
  <2>2. Moved(r)
    BY <1>1, <1>7, <2>1, Keeps
  <2> QED BY <1>1, <1>7, <2>2 DEF Shape
<1>9. Counted(r)
  BY <1>1, <1>3, <1>8 DEF Counted, Started, Shape
<1>10. /\ position' \in [Req -> 0..MaxChunks] /\ yielded' \in [Req -> BOOLEAN]
       /\ position'[r] = position[r] + 1 /\ yielded'[r]
       /\ \A q \in Req \ {r} : position'[q] = position[q] /\ yielded'[q] = yielded[q]
  BY <1>1, <1>3 DEF Data, ChatAssumption
<1>11. /\ sent' \in [Req -> Seq((0..MaxRetries) \X (1..MaxChunks))]
       /\ \A q \in Req \ {r} : sent'[q] = sent[q]
       /\ Streamed(r)'
  <2>0. kind'[r] = kind[r] /\ attempt'[r] = attempt[r]
    BY <1>3 DEF askvars
  <2>1. CASE Forward(r)
    <3>1. sent' = [sent EXCEPT ![r] = Append(@, <<attempt[r], position[r] + 1>>)]
      BY <2>1 DEF Forward
    <3>2. sent'[r] = Append(sent[r], <<attempt[r], position[r] + 1>>)
      BY <1>1, <3>1 DEF Data
    <3>3. sent'[r] \in Seq((0..MaxRetries) \X (1..MaxChunks)) /\ Streamed(r)'
      BY <1>1, <1>3, <1>10, <2>0, <3>2, Appended
    <3>4. DOMAIN sent' = Req /\ \A q \in Req \ {r} : sent'[q] = sent[q]
      BY <1>1, <3>1 DEF Data
    <3>5. sent' = [q \in Req |-> sent'[q]]
      BY <1>1, <3>1 DEF Data
    <3>6. \A q \in Req : sent'[q] \in Seq((0..MaxRetries) \X (1..MaxChunks))
      BY <1>1, <3>3, <3>4 DEF Data
    <3> QED BY <3>3, <3>4, <3>5, <3>6
  <2>2. CASE kind[r].mode = "tito" /\ UNCHANGED <<pc, sent>>
    <3>1. sent \in [Req -> Seq((0..MaxRetries) \X (1..MaxChunks))] /\ sent' = sent
          /\ position[r] \in Nat
      BY <1>1, <2>2 DEF Data
    <3>2. \A i \in DOMAIN sent[r] : sent[r][i][2] <= position[r] => sent[r][i][2] <= position'[r]
      <4>1. \A i \in 1..Len(sent[r]) : sent[r][i] \in (0..MaxRetries) \X (1..MaxChunks)
        BY <3>1, ElementOfSeq
      <4>2. \A i \in DOMAIN sent[r] : sent[r][i][2] \in Nat
        BY <3>1, <4>1, LenProperties DEF ChatAssumption
      <4> QED BY <1>10, <3>1, <4>2
    <3>3. Streamed(r)'
      BY <1>1, <1>10, <2>0, <2>2, <3>1, <3>2 DEF Streamed
    <3> QED BY <3>1, <3>3
  <2> QED BY <1>5, <2>1, <2>2
<1>12. Frame(r)
  BY <1>3, <1>10, <1>11 DEF Frame, askvars, storevars
<1>13. Data'
  BY <1>1, <1>3, <1>6, <1>10, <1>11 DEF Data, askvars, storevars
<1>14. Answered(r)' /\ Stored(r)'
  BY <1>1, <1>3, <1>8 DEF Answered, Stored, Query, askvars, storevars, Finished,
       QueryLabels, Unrecorded, Recorded
<1>15. Known(r)'
  BY <1>1, <1>3, <1>8 DEF Known, Query, askvars, storevars
<1> QED BY <1>8, <1>9, <1>11, <1>12, <1>13, <1>14, <1>15 DEF Effect

-----------------------------------------------------------------------------
(* The queries *)

(* What a query may have missed when it read these rows. *)
LEMMA Reading ==
  ASSUME IInv, NEW r \in Req, NEW rows \in SUBSET Req, NEW asked \in SUBSET Req,
         Query(r), Queried(r, rows, asked),
         \A t \in (known[r] \cap asked) \ rows :
           storeErr[t] \/ (t \in archived /\ kind[r].mode \in {"legacy", "detail"})
  PROVE  Effect(r)
<1>1. /\ Shape /\ Data /\ Queue /\ PermitsConserved
      /\ Answered(r) /\ Stored(r) /\ Streamed(r) /\ Known(r)
  BY Parts
<1>2. /\ pc[r] = "qread" /\ pc' = [pc EXCEPT ![r] = "qser"]
      /\ seen' = [seen EXCEPT ![r] = rows] /\ known' = [known EXCEPT ![r] = @ \cap asked]
      /\ UNCHANGED <<kind, archived, semvars, infervars, answer, storevars, active>>
  BY DEF Queried, Goto
<1>3. Moved(r) /\ pc'[r] = "qser"
  <2>1. /\ "qser" \in Labels /\ InService("qser") /\ InService(pc[r]) /\ pc[r] # "wait"
        /\ UNCHANGED semvars
    BY <1>2 DEF Labels, InService, Waiting, Finished
  <2>2. Moved(r)
    BY <1>1, <1>2, <2>1, Keeps
  <2> QED BY <1>1, <1>2, <2>2 DEF Shape
<1>4. Counted(r)
  BY <1>1, <1>2, <1>3 DEF Counted, Started, Shape
<1>5. /\ known' \in [Req -> SUBSET Req] /\ seen' \in [Req -> SUBSET Req]
      /\ known'[r] = known[r] \cap asked /\ seen'[r] = rows
      /\ \A q \in Req \ {r} : known'[q] = known[q] /\ seen'[q] = seen[q]
  BY <1>1, <1>2 DEF Data
<1>6. Frame(r)
  BY <1>2, <1>5 DEF Frame, infervars, storevars
<1>7. Data'
  BY <1>1, <1>2, <1>5 DEF Data, infervars, storevars
<1>8. Answered(r)' /\ Stored(r)'
  BY <1>1, <1>2, <1>3 DEF Answered, Stored, Query, storevars, Finished,
       QueryLabels, Unrecorded, Recorded
<1>9. Streamed(r)'
  BY <1>1, <1>2 DEF Streamed, infervars
<1>10. Known(r)'
  BY <1>1, <1>2, <1>5 DEF Known, Query, storevars
<1> QED BY <1>3, <1>4, <1>6, <1>7, <1>8, <1>9, <1>10 DEF Effect

(* Who was answered before the query came is stored, or its insertion      *)
(* failed.                                                                 *)
LEMMA KnownStored ==
  ASSUME IInv, NEW r \in Req, NEW t \in known[r]
  PROVE  t \in Req /\ (record[t] # "none" \/ storeErr[t])
<1>1. t \in Req /\ ~Query(t) /\ answer[t] = "ok"
  BY DEF IInv, Shape, Known
<1> QED BY <1>1 DEF IInv, Stored

(* Which steps end a query. *)
LEMMA QueryEnds ==
  ASSUME IInv, NEW r \in Req, Query(r),
         Serialized(r) \/ QueryFailed(r) \/ \E t \in Req : Missing(r, t)
  PROVE  \E l \in Finished, a \in Answers \ {"none"} : Ends(r, l, a)
<1>1. /\ active \in Int /\ known \in [Req -> SUBSET Req]
      /\ Shape /\ Queue /\ PermitsConserved /\ Known(r)
  BY Parts DEF Shape
<1>2. /\ "done" \in Finished /\ "ok" \in Answers \ {"none"} /\ "missing" \in Answers \ {"none"}
      /\ "error" \in Answers \ {"none"}
  BY DEF Finished, Answers
<1>3. pc[r] \in {"qread", "qser"} /\ Release(r, "done") /\ UNCHANGED active
  BY DEF Serialized, QueryFailed, Missing
<1>4. InService(pc[r]) /\ pc[r] # "failed" /\ "done" # "sclose"
  BY <1>3 DEF InService, Waiting, Finished
<1>5. pc'[r] = "done"
  BY <1>1, <1>2, <1>3, <1>4, Gives
<1>6. Counted(r)
  BY <1>1, <1>3, <1>5 DEF Counted, Started
<1>7. CASE Serialized(r)
  <2>1. Ends(r, "done", "ok")
    BY <1>1, <1>3, <1>4, <1>6, <1>7 DEF Serialized, Ends, askvars, Known
  <2> QED BY <1>2, <2>1
<1>8. CASE QueryFailed(r)
  <2>1. Ends(r, "done", "error")
    BY <1>1, <1>3, <1>4, <1>6, <1>8 DEF QueryFailed, Ends, askvars
  <2> QED BY <1>2, <2>1
<1>9. CASE \E t \in Req : Missing(r, t)
  <2>1. PICK t \in Req : Missing(r, t)
    BY <1>9
  <2>2. known' = [known EXCEPT ![r] = @ \cap {t}] /\ record[t] = "none"
    BY <2>1 DEF Missing, RecordRow, MetadataRows
  <2>3. \A u \in known'[r] : storeErr[u]
    <3>1. \A u \in known'[r] : u \in known[r] /\ u = t
      BY <1>1, <2>2
    <3> QED BY <2>2, <3>1, KnownStored
  <2>4. /\ known' \in [Req -> SUBSET Req]
        /\ \A q \in Req : known'[q] \subseteq known[q] /\ (q # r => known'[q] = known[q])
    BY <1>1, <2>2
  <2>5. Ends(r, "done", "missing")
    BY <1>3, <1>4, <1>6, <2>1, <2>3, <2>4 DEF Missing, Ends
  <2> QED BY <1>2, <2>5
<1> QED BY <1>7, <1>8, <1>9

(* A request is refused before it asks for a permit. *)
LEMMA Refusing ==
  ASSUME IInv, NEW r \in Req, Invalid(r) \/ Closed(r)
  PROVE  Effect(r)
<1>1. /\ Shape /\ Data /\ Queue /\ PermitsConserved
      /\ Answered(r) /\ Stored(r) /\ Streamed(r) /\ Known(r)
  BY Parts
<1>2. /\ pc[r] \in {"idle", "sclose"} /\ pc' = [pc EXCEPT ![r] = "done"]
      /\ UNCHANGED <<askvars, semvars, infervars, storevars>>
  BY DEF Invalid, Closed, Goto
<1>3. Moved(r) /\ pc'[r] = "done"
  <2>1. /\ "done" \in Labels /\ pc[r] # "wait" /\ (InService(pc[r]) <=> InService("done"))
        /\ UNCHANGED semvars
    BY <1>2 DEF Labels, InService, Waiting, Finished
  <2>2. Moved(r)
    BY <1>1, <1>2, <2>1, Keeps
  <2> QED BY <1>1, <1>2, <2>2 DEF Shape
<1>4. Counted(r)
  <2>1. active \in Int
    BY <1>1 DEF Shape
  <2>2. CASE Invalid(r)
    BY <1>3, <2>1, <2>2 DEF Invalid, Counted, Started
  <2>3. CASE Closed(r)
    BY <1>3, <2>1, <2>3 DEF Closed, Counted, Started
  <2> QED BY <2>2, <2>3
<1>5. /\ answer' \in [Req -> Answers] /\ \A q \in Req \ {r} : answer'[q] = answer[q]
      /\ answer'[r] \in {"error", "gone"} /\ answer[r] \in {"none", "gone"}
      /\ pc[r] = "idle" => answer'[r] = "error"
  <2>1. CASE Invalid(r)
    <3>1. pc[r] = "idle" /\ answer' = [answer EXCEPT ![r] = "error"]
      BY <2>1 DEF Invalid
    <3> QED BY <1>1, <3>1 DEF Answered, Data, Answers, Finished
  <2>2. CASE Closed(r)
    <3>1. pc[r] = "sclose" /\ answer' = answer
      BY <2>2 DEF Closed
    <3> QED BY <1>1, <3>1 DEF Answered, Data, Answers, Finished
  <2> QED BY <2>1, <2>2
<1>6. Frame(r)
  BY <1>2, <1>5 DEF Frame, askvars, infervars, storevars
<1>7. Data'
  BY <1>1, <1>2, <1>5 DEF Data, askvars, infervars, storevars
<1>8. Answered(r)'
  BY <1>3, <1>5 DEF Answered, Finished
<1>9. Stored(r)'
  BY <1>1, <1>2, <1>3, <1>5 DEF Stored, Query, askvars, storevars,
       QueryLabels, Unrecorded, Recorded
<1>10. Streamed(r)'
  BY <1>1, <1>2 DEF Streamed, infervars, askvars
<1>11. Known(r)'
  <2>1. \A t \in known[r] : t \in Req /\ (answer[t] = "ok" => t # r)
    BY <1>1, <1>5 DEF Data
  <2> QED BY <1>1, <1>2, <1>3, <1>5, <2>1 DEF Known, Query, askvars, storevars
<1> QED BY <1>3, <1>4, <1>6, <1>7, <1>8, <1>9, <1>10, <1>11 DEF Effect

(* A query reads rows that hold all it knows of. *)
Reads(r, rows, asked) ==
  /\ Query(r) /\ Queried(r, rows, asked)
  /\ \A t \in (known[r] \cap asked) \ rows :
       storeErr[t] \/ (t \in archived /\ kind[r].mode \in {"legacy", "detail"})

(* What each of the queries does. *)
LEMMA QuerySteps ==
  ASSUME IInv, NEW r \in Req,
         \/ GetTrajectory(r) \/ GetTrajectoryDetail(r)
         \/ ListSessionRecords(r) \/ GetSessionRecord(r)
  PROVE  \/ \E rows, asked \in SUBSET Req : Reads(r, rows, asked)
         \/ \E l \in Finished, a \in Answers \ {"none"} : Ends(r, l, a)
         \/ Invalid(r)
<1>0. Query(r) /\ known[r] \subseteq Req
  <2>1. known \in [Req -> SUBSET Req]
    BY Parts DEF Data
  <2> QED BY <2>1 DEF GetTrajectory, GetTrajectoryDetail, ListSessionRecords, GetSessionRecord,
         Query, Queries
<1>1. CASE kind[r].mode \in {"legacy", "detail"} /\ Queried(r, SessionRows, Req)
  <2>1. SessionRows \in SUBSET Req /\ Req \in SUBSET Req
    BY DEF SessionRows
  <2>2. \A t \in known[r] \ SessionRows : storeErr[t] \/ t \in archived
    BY KnownStored DEF SessionRows
  <2>3. Reads(r, SessionRows, Req)
    BY <1>0, <1>1, <2>2 DEF Reads
  <2> QED BY <2>1, <2>3
<1>2. CASE Queried(r, MetadataRows, Req)
  <2>1. MetadataRows \in SUBSET Req /\ Req \in SUBSET Req
    BY DEF MetadataRows
  <2>2. \A t \in known[r] \ MetadataRows : storeErr[t]
    BY KnownStored DEF MetadataRows
  <2>3. Reads(r, MetadataRows, Req)
    BY <1>0, <1>2, <2>2 DEF Reads
  <2> QED BY <2>1, <2>3
<1>3. CASE \E t \in Req : RecordRow(t) # {} /\ Queried(r, RecordRow(t), {t})
  <2>1. PICK t \in Req : RecordRow(t) # {} /\ Queried(r, RecordRow(t), {t})
    BY <1>3
  <2>2. RecordRow(t) = {t}
    BY <2>1 DEF RecordRow
  <2>3. (known[r] \cap {t}) \ RecordRow(t) = {} /\ RecordRow(t) \in SUBSET Req /\ {t} \in SUBSET Req
    BY <2>2
  <2>4. Reads(r, RecordRow(t), {t})
    BY <1>0, <2>1, <2>3 DEF Reads
  <2> QED BY <2>3, <2>4
<1>4. CASE Serialized(r) \/ QueryFailed(r) \/ \E t \in Req : Missing(r, t)
  BY <1>0, <1>4, QueryEnds
<1>5. \/ kind[r].mode \in {"legacy", "detail"} /\ Queried(r, SessionRows, Req)
      \/ Queried(r, MetadataRows, Req)
      \/ \E t \in Req : RecordRow(t) # {} /\ Queried(r, RecordRow(t), {t})
      \/ Serialized(r) \/ QueryFailed(r) \/ \E t \in Req : Missing(r, t)
      \/ Invalid(r)
  BY DEF GetTrajectory, GetTrajectoryDetail, ListSessionRecords, GetSessionRecord
<1> QED BY <1>1, <1>2, <1>3, <1>4, <1>5

-----------------------------------------------------------------------------
(* Arrival, time-out and archiving *)

(* A request that arrives takes a permit or waits. *)
LEMMA Arriving ==
  ASSUME IInv, NEW r \in Req, Arrive(r)
  PROVE  Effect(r)
<1>1. /\ Shape /\ Data /\ Queue /\ PermitsConserved
      /\ Answered(r) /\ Stored(r) /\ Streamed(r) /\ Known(r)
  BY Parts
<1>2. /\ pc[r] = "idle" /\ UNCHANGED <<kind, archived, seen, infervars, answer, storevars, active>>
      /\ known' = [known EXCEPT ![r] = IF Query(r) THEN {t \in Req : answer[t] = "ok" /\ ~Query(t)}
                                                    ELSE {}]
  BY DEF Arrive
<1>3. Moved(r)
  BY <1>1, Enters
<1>4. pc'[r] \in {"wait", "qread", "load"} /\ (Query(r) => pc'[r] # "load")
  BY <1>1 DEF Arrive, Goto, Entry, Shape
<1>5. Counted(r)
  BY <1>1, <1>2, <1>4 DEF Counted, Started, Shape
<1>6. /\ known' \in [Req -> SUBSET Req] /\ \A q \in Req \ {r} : known'[q] = known[q]
      /\ \A t \in known'[r] : answer[t] = "ok" /\ ~Query(t)
  BY <1>1, <1>2 DEF Data
<1>7. Frame(r)
  BY <1>2, <1>6 DEF Frame, infervars, storevars
<1>8. Data'
  BY <1>1, <1>2, <1>6 DEF Data, infervars, storevars
<1>9. Answered(r)' /\ answer[r] = "none"
  BY <1>1, <1>2, <1>4 DEF Answered, Finished
<1>10. Stored(r)'
  BY <1>1, <1>2, <1>4, <1>9 DEF Stored, Query, storevars, QueryLabels, Unrecorded, Recorded
<1>11. Streamed(r)'
  BY <1>1, <1>2 DEF Streamed, infervars
<1>12. Known(r)'
  BY <1>2, <1>4, <1>6, <1>9 DEF Known, Query
<1> QED BY <1>3, <1>5, <1>7, <1>8, <1>9, <1>10, <1>11, <1>12 DEF Effect

(* A request whose waiting times out leaves the queue. *)
LEMMA TimingOut ==
  ASSUME IInv, NEW r \in Req, TimeOut(r)
  PROVE  Effect(r)
<1>1. /\ Shape /\ Data /\ Queue /\ PermitsConserved
      /\ Answered(r) /\ Stored(r) /\ Streamed(r) /\ Known(r)
  BY Parts
<1>2. /\ pc[r] = "wait" /\ pc' = [pc EXCEPT ![r] = "done"]
      /\ answer' = [answer EXCEPT ![r] = "busy"]
      /\ UNCHANGED <<askvars, infervars, storevars, active>>
  BY DEF TimeOut, Goto
<1>3. Moved(r)
  BY <1>1, Drops
<1>4. pc'[r] = "done" /\ answer'[r] = "busy" /\ answer[r] = "none"
      /\ answer' \in [Req -> Answers] /\ \A q \in Req \ {r} : answer'[q] = answer[q]
  BY <1>1, <1>2 DEF Shape, Answered, Finished, Answers
<1>5. Counted(r)
  BY <1>1, <1>2, <1>4 DEF Counted, Started, Shape
<1>6. Frame(r)
  BY <1>2, <1>4 DEF Frame, askvars, infervars, storevars
<1>7. Data'
  BY <1>1, <1>2, <1>4 DEF Data, askvars, infervars, storevars
<1>8. Answered(r)'
  BY <1>4 DEF Answered, Finished
<1>9. Stored(r)'
  BY <1>1, <1>2, <1>4 DEF Stored, Query, askvars, storevars, QueryLabels, Unrecorded, Recorded
<1>10. Streamed(r)'
  BY <1>1, <1>2 DEF Streamed, infervars, askvars
<1>11. Known(r)'
  <2>1. \A t \in known[r] : t \in Req /\ (answer[t] = "ok" => t # r)
    BY <1>1, <1>4 DEF Data
  <2> QED BY <1>1, <1>2, <1>4, <2>1 DEF Known, Query, askvars, storevars
<1> QED BY <1>3, <1>5, <1>6, <1>7, <1>8, <1>9, <1>10, <1>11 DEF Effect

(* The archiver takes the details of an answered request. *)
LEMMA Archiving ==
  ASSUME IInv, NEW r \in Req, Archive(r)
  PROVE  Effect(r)
<1>1. /\ Shape /\ Data /\ Queue /\ PermitsConserved
      /\ Answered(r) /\ Stored(r) /\ Streamed(r) /\ Known(r)
  BY Parts
<1>2. /\ archived' = archived \cup {r} /\ pc[r] = "done"
      /\ UNCHANGED <<pc, kind, known, seen, semvars, infervars, answer, storevars, active>>
  BY DEF Archive
<1>3. Moved(r)
  <2>1. pc' = [pc EXCEPT ![r] = pc[r]] /\ pc[r] \in Labels
    BY <1>1, <1>2 DEF Shape
  <2>2. pc[r] # "wait" /\ UNCHANGED semvars
    BY <1>2
  <2> QED BY <1>1, <2>1, <2>2, Keeps
<1>4. Counted(r)
  BY <1>1, <1>2 DEF Counted, Shape
<1>5. Frame(r)
  BY <1>2 DEF Frame, infervars, storevars
<1>6. Data'
  BY <1>1, <1>2 DEF Data, infervars, storevars
<1>7. Answered(r)' /\ Stored(r)'
  BY <1>1, <1>2 DEF Answered, Stored, Query, storevars
<1>8. Streamed(r)'
  BY <1>1, <1>2 DEF Streamed, infervars
<1>9. Known(r)'
  BY <1>1, <1>2 DEF Known, Query, storevars
<1> QED BY <1>3, <1>4, <1>5, <1>6, <1>7, <1>8, <1>9 DEF Effect

-----------------------------------------------------------------------------
(* The invariants *)

(* The invariant holds at the start. *)
LEMMA InitIInv == Init => IInv
<1> SUFFICES ASSUME Init PROVE IInv
  OBVIOUS
<1>1. Shape
  BY DEF Init, Shape, Labels, Waiting, Answers, ChatAssumption
<1>2. Queue
  BY DEF Init, Queue
<1>3. PermitsConserved
  <2>1. Serving = {}
    BY DEF Init, Serving, Waiting
  <2>2. Cardinality({}) = 0
    BY FS_EmptySet
  <2> QED BY <2>1, <2>2 DEF Init, PermitsConserved, ChatAssumption
<1>4. GaugeExact
  <2>1. {r \in Req : pc[r] \in Started} = {}
    BY DEF Init, Started
  <2>2. Cardinality({}) = 0
    BY FS_EmptySet
  <2> QED BY <2>1, <2>2 DEF Init, GaugeExact
<1>5. ASSUME NEW r \in Req PROVE Answered(r) /\ Stored(r) /\ Streamed(r) /\ Known(r)
  <2>1. Answered(r)
    BY DEF Init, Answered, Finished
  <2>2. Stored(r)
    BY DEF Init, Stored, QueryLabels, Recorded
  <2>3. Streamed(r)
    BY DEF Init, Streamed
  <2>4. Known(r)
    BY DEF Init, Known
  <2> QED BY <2>1, <2>2, <2>3, <2>4
<1> QED BY <1>1, <1>2, <1>3, <1>4, <1>5 DEF IInv

(* Every step of a request is of one of these forms. *)
LEMMA Steps ==
  ASSUME IInv, NEW r \in Req, Arrive(r) \/ Step(r) \/ Leave(r) \/ Archive(r)
  PROVE  \/ Arrive(r) \/ TimeOut(r) \/ Archive(r) \/ Retry(r)
         \/ DirectChunk(r) \/ TokenChunk(r) \/ Invalid(r) \/ Closed(r)
         \/ \E l \in Labels : Relabels(r, l)
         \/ \E l \in Labels : Stores(r, l)
         \/ \E l \in Finished, a \in Answers \ {"none"} : Ends(r, l, a)
         \/ \E rows, asked \in SUBSET Req : Reads(r, rows, asked)
<1>1. CASE Leave(r)
  BY <1>1, Relabelling, EndingSteps, StoringSteps DEF Leave
<1>2. CASE Step(r)
  <2>1. CASE \/ Acquired(r) \/ HandOver(r) \/ Encode(r) \/ DirectAnswered(r) \/ TokenAnswered(r)
             \/ StreamOver(r) \/ Resume(r) \/ DirectFail(r) \/ TokenFail(r) \/ ErrorSent(r)
             \/ StartPlain(r) \/ StartStream(r) \/ StreamFail(r) \/ StreamStored(r)
    BY <2>1, Relabelling
  <2>2. CASE LateTimeOut(r) \/ Refuse(r) \/ Return(r) \/ StreamEnd(r) \/ Cancelled(r)
    BY <2>2, EndingSteps
  <2>3. CASE Store(r) \/ Finalize(r) \/ FinalizeCutOff(r)
    BY <2>3, StoringSteps
  <2>4. CASE \/ GetTrajectory(r) \/ GetTrajectoryDetail(r)
             \/ ListSessionRecords(r) \/ GetSessionRecord(r)
    BY <2>4, QuerySteps
  <2> QED BY <1>2, <2>1, <2>2, <2>3, <2>4 DEF Step
<1> QED BY <1>1, <1>2

(* Every step keeps the invariant. *)
LEMMA NextIInv == IInv /\ [Next]_vars => IInv'
<1> SUFFICES ASSUME IInv, [Next]_vars PROVE IInv'
  OBVIOUS
<1>1. CASE UNCHANGED vars
  BY <1>1 DEF vars, askvars, semvars, infervars, storevars, IInv, Shape, Queue, PermitsConserved,
       Serving, GaugeExact, Answered, Stored, Streamed, Known, Query
<1>2. ASSUME NEW r \in Req, Arrive(r) \/ Step(r) \/ Leave(r) \/ Archive(r) PROVE Effect(r)
  <2>1. \A l \in Labels : Relabels(r, l) => Effect(r)
    BY Label
  <2>2. \A l \in Labels : Stores(r, l) => Effect(r)
    BY Storing
  <2>3. \A l \in Finished, a \in Answers \ {"none"} : Ends(r, l, a) => Effect(r)
    BY Ending
  <2>4. \A rows, asked \in SUBSET Req : Reads(r, rows, asked) => Effect(r)
    BY Reading DEF Reads
  <2> QED BY <1>2, <2>1, <2>2, <2>3, <2>4, Steps, Arriving, TimingOut, Archiving, Retrying,
             Receiving, Refusing
<1> QED BY <1>1, <1>2, Preserved DEF Next

(* The inductive invariant holds in every reachable state. *)
LEMMA Invariant == Spec => []IInv
<1> QED BY InitIInv, NextIInv, PTL DEF Spec

(* Every reachable state is well typed: the semaphore's value stays within *)
(* 0..Permits and the gauge within the number of requests, retries and     *)
(* chunks within their limits.                                             *)
THEOREM TypeCorrect == Spec => []TypeOK
<1>1. IInv => TypeOK
  <2> SUFFICES ASSUME IInv PROVE TypeOK
    OBVIOUS
  <2>1. Shape
    BY DEF IInv
  <2>2. free \in 0..Permits
    <3>1. free \in Nat /\ free + Cardinality(Serving) = Permits
      BY <2>1 DEF IInv, Shape, PermitsConserved
    <3> QED BY <3>1, ServingFinite DEF ChatAssumption
  <2>3. active \in 0..Cardinality(Req)
    <3> DEFINE C == {r \in Req : pc[r] \in Started}
    <3>1. C \in SUBSET Req
      OBVIOUS
    <3>2. active = Cardinality(C)
      BY DEF IInv, GaugeExact
    <3> HIDE DEF C
    <3>3. /\ Cardinality(C) \in Nat /\ Cardinality(Req) \in Nat
          /\ Cardinality(C) <= Cardinality(Req)
      BY <3>1, FS_Subset, FS_CardinalityType DEF ChatAssumption
    <3> QED BY <3>2, <3>3
  <2> QED BY <2>1, <2>2, <2>3 DEF TypeOK, Shape, Answers
<1> QED BY <1>1, Invariant, PTL

(* Whichever way requests end, and even when a time-out meets the hand-over *)
(* of a permit, every permit is free or with exactly one request: the       *)
(* finally clauses of chat_completions and generate_stream neither lose one *)
(* nor give one back twice.                                                 *)
THEOREM PermitsConservedAlways == Spec => []PermitsConserved
<1>1. IInv => PermitsConserved
  BY DEF IInv
<1> QED BY <1>1, Invariant, PTL

(* The gauge of active requests is the number of requests between the      *)
(* start and the completion event of the Processor, for any interleaving   *)
(* of failures and leaving clients.                                        *)
THEOREM GaugeExactAlways == Spec => []GaugeExact
<1>1. IInv => GaugeExact
  BY DEF IInv
<1> QED BY <1>1, Invariant, PTL

(* Whatever the retries of the inference client, the client of a stream    *)
(* receives chunks of one attempt only, in order, and without gaps from    *)
(* the direct pipeline.                                                    *)
THEOREM OneAttemptPerStreamAlways == Spec => []OneAttemptPerStream
<1>1. IInv => OneAttemptPerStream
  <2> SUFFICES ASSUME IInv, NEW r \in Req, NEW i \in DOMAIN sent[r], NEW j \in DOMAIN sent[r], i < j
               PROVE  /\ sent[r][i][1] = sent[r][j][1]
                      /\ sent[r][i][2] < sent[r][j][2]
                      /\ kind[r].mode = "direct" => sent[r][j][2] = sent[r][i][2] + (j - i)
    BY DEF OneAttemptPerStream
  <2>1. Streamed(r)
    BY DEF IInv
  <2>2. i \in Nat /\ j \in Nat
    <3>1. sent[r] \in Seq((0..MaxRetries) \X (1..MaxChunks))
      BY DEF IInv, Shape
    <3>2. DOMAIN sent[r] = 1..Len(sent[r]) /\ Len(sent[r]) \in Nat
      BY ONLY <3>1, LenProperties
    <3> QED BY <3>2
  <2>3. sent[r][i][1] = attempt[r] /\ sent[r][j][1] = attempt[r] /\ sent[r][i][2] < sent[r][j][2]
    BY <2>1 DEF Streamed
  <2>4. kind[r].mode = "direct" => sent[r][i][2] = i /\ sent[r][j][2] = j
    BY <2>1 DEF Streamed
  <2> QED BY <2>2, <2>3, <2>4
<1> QED BY <1>1, Invariant, PTL

(* A request that was answered, or a plain one that failed in its pipeline *)
(* has its record unless the insertion failed, and no client got a good    *)
(* answer for a record that says error.                                    *)
THEOREM AnsweredIsRecordedAlways == Spec => []AnsweredIsRecorded
<1>1. IInv => AnsweredIsRecorded
  BY DEF IInv, Stored, AnsweredIsRecorded, Recorded, QueryLabels
<1> QED BY <1>1, Invariant, PTL

(* A query finds the record of every trajectory that was answered before   *)
(* the query came, unless its insertion failed or, in the queries with     *)
(* details, it was archived meanwhile.                                     *)
THEOREM QueriesFindAnsweredAlways == Spec => []QueriesFindAnswered
<1>1. IInv => QueriesFindAnswered
  BY DEF IInv, Known, QueriesFindAnswered
<1> QED BY <1>1, Invariant, PTL

-----------------------------------------------------------------------------
(* The refinement of ChatPromise *)

(* A step that keeps r in or out of service. *)
LEMMA ServingKept ==
  ASSUME Shape, NEW r \in Req, NEW l \in Labels, pc' = [pc EXCEPT ![r] = l],
         InService(pc[r]) <=> InService(l)
  PROVE  Serving' = Serving
BY DEF Serving, InService, Shape

(* A permit given back is free, or goes to a request that has no answer.   *)
LEMMA ServingGiven ==
  ASSUME IInv, NEW r \in Req, NEW l \in Finished, InService(pc[r]), Release(r, l)
  PROVE  \/ Serving' = Serving \ {r}
         \/ \E q \in Req \ Serving : answer[q] = "none" /\ Serving' = (Serving \ {r}) \cup {q}
<1>1. Shape /\ Queue /\ l \in Labels /\ ~InService(l)
  BY DEF IInv, Labels, Finished, InService
<1>2. CASE waiters = <<>>
  <2>1. pc' = [pc EXCEPT ![r] = l]
    BY <1>2 DEF Release, Goto
  <2> QED BY <1>1, <2>1 DEF Serving, Shape, InService
<1>3. CASE waiters # <<>>
  <2> DEFINE h == Head(waiters)
  <2>1. pc' = [pc EXCEPT ![r] = l, ![h] = "granted"]
    BY <1>3 DEF Release
  <2>2. h \in Req /\ pc[h] = "wait"
    BY <1>1, <1>3, QueueHead
  <2> HIDE DEF h
  <2>3. h # r /\ h \in Req \ Serving /\ answer[h] = "none"
    BY <2>2 DEF Serving, InService, Waiting, Finished, IInv, Answered
  <2>4. Serving' = (Serving \ {r}) \cup {h}
    BY <1>1, <2>1, <2>2, <2>3 DEF Serving, Shape, InService, Waiting, Finished
  <2> QED BY <2>3, <2>4
<1> QED BY <1>2, <1>3

(* A request that takes a permit finds less than Permits in service. *)
LEMMA ServingTaken ==
  ASSUME IInv, NEW r \in Req, Arrive(r)
  PROVE  \/ Serving' = Serving
         \/ /\ r \notin Serving /\ Cardinality(Serving) < Permits
            /\ Serving' = Serving \cup {r}
<1>1. Shape /\ pc[r] = "idle" /\ r \notin Serving
  BY DEF IInv, Arrive, Serving, Waiting
<1>2. CASE free > 0 /\ waiters = <<>>
  <2>1. pc' = [pc EXCEPT ![r] = Entry(r)]
    BY <1>2 DEF Arrive, Goto
  <2>2. Entry(r) \in Labels /\ InService(Entry(r))
    BY DEF Entry, Labels, InService, Waiting, Finished
  <2>3. Serving' = Serving \cup {r}
    BY <1>1, <2>1, <2>2 DEF Serving, Shape, InService
  <2>4. free \in Nat /\ free + Cardinality(Serving) = Permits
    BY <1>1 DEF IInv, Shape, PermitsConserved
  <2>5. Cardinality(Serving) < Permits
    BY <1>2, <2>4, ServingFinite
  <2> QED BY <1>1, <2>3, <2>5
<1>3. CASE ~(free > 0 /\ waiters = <<>>)
  <2>1. pc' = [pc EXCEPT ![r] = "wait"] /\ "wait" \in Labels
    BY <1>3 DEF Arrive, Goto, Labels, Waiting
  <2>2. InService(pc[r]) <=> InService("wait")
    BY <1>1 DEF InService, Waiting
  <2> QED BY <1>1, <2>1, <2>2, ServingKept
<1> QED BY <1>2, <1>3

(* The kinds of steps, seen from ChatPromise. *)
LEMMA StepPromised ==
  ASSUME IInv, NEW r \in Req, Arrive(r) \/ Step(r) \/ Leave(r) \/ Archive(r)
  PROVE  Promise!PNext \/ UNCHANGED Promise!pvars
<1>1. /\ Shape /\ Answered(r) /\ Stored(r) /\ answer \in [Req -> Answers]
      /\ r \in Serving <=> InService(pc[r])
      /\ r \notin Serving => answer[r] = "none" \/ pc[r] \in Finished
      /\ r \in Serving => answer[r] = "none"
  BY DEF IInv, Shape, Serving, InService, Answered
<1>2. CASE Arrive(r)
  <2>1. answer' = answer /\ record' = record /\ answer[r] = "none"
    BY <1>1, <1>2 DEF Arrive, storevars, Finished
  <2>2. CASE Serving' = Serving
    BY <2>1, <2>2 DEF Promise!pvars
  <2>3. CASE /\ r \notin Serving /\ Cardinality(Serving) < Permits
             /\ Serving' = Serving \cup {r}
    <3>1. Promise!Cardinality(Serving) = Cardinality(Serving)
      BY DEF Promise!Cardinality, Cardinality
    <3>2. Promise!Admit(r)
      BY <2>1, <2>3, <3>1 DEF Promise!Admit
    <3> QED BY <3>2 DEF Promise!PNext
  <2> QED BY <1>2, <2>2, <2>3, ServingTaken
<1>3. CASE TimeOut(r) \/ Invalid(r)
  <2>1. /\ pc[r] \in {"wait", "idle"} /\ pc' = [pc EXCEPT ![r] = "done"] /\ record' = record
        /\ \E a \in {"busy", "error"} : answer' = [answer EXCEPT ![r] = a]
    BY <1>3 DEF TimeOut, Invalid, Goto, storevars
  <2>2. "done" \in Labels /\ ~InService("done") /\ ~InService(pc[r]) /\ answer[r] = "none"
    BY <1>1, <2>1 DEF Labels, InService, Waiting, Finished, Answered
  <2>3. Serving' = Serving
    BY <1>1, <2>1, <2>2, ServingKept
  <2>4. Promise!Reject(r)
    BY <1>1, <2>1, <2>2, <2>3 DEF Promise!Reject
  <2> QED BY <2>4 DEF Promise!PNext
<1>4. CASE Archive(r) \/ Retry(r)
  BY <1>4 DEF Archive, Retry, Promise!pvars, storevars, Serving
<1>5. CASE DirectChunk(r) \/ TokenChunk(r)
  <2>1. /\ pc[r] = "sinfer" /\ UNCHANGED <<answer, storevars>>
        /\ (pc' = pc \/ pc' = [pc EXCEPT ![r] = "syield"])
    BY <1>5 DEF DirectChunk, TokenChunk, Received, Forward, Goto
  <2>2. "syield" \in Labels /\ InService("syield") /\ InService(pc[r])
    BY <2>1 DEF Labels, Started, InService, Waiting, Finished
  <2>3. Serving' = Serving
    <3>1. CASE pc' = pc
      BY <3>1 DEF Serving
    <3>2. CASE pc' = [pc EXCEPT ![r] = "syield"]
      BY <1>1, <2>2, <3>2, ServingKept
    <3> QED BY <2>1, <3>1, <3>2
  <2> QED BY <2>1, <2>3 DEF Promise!pvars, storevars
<1>6. CASE Closed(r)
  <2>1. pc[r] = "sclose" /\ pc' = [pc EXCEPT ![r] = "done"] /\ UNCHANGED <<answer, storevars>>
    BY <1>6 DEF Closed, Goto
  <2>2. "done" \in Labels /\ ~InService("done") /\ ~InService(pc[r])
    BY <2>1 DEF Labels, InService, Finished
  <2>3. Serving' = Serving
    BY <1>1, <2>1, <2>2, ServingKept
  <2> QED BY <2>1, <2>3 DEF Promise!pvars, storevars
<1>7. ASSUME NEW l \in Labels, Relabels(r, l) PROVE UNCHANGED Promise!pvars
  <2>1. Serving' = Serving
    BY <1>1, <1>7, ServingKept DEF Relabels
  <2> QED BY <1>7, <2>1 DEF Relabels, Promise!pvars, storevars
<1>8. ASSUME NEW l \in Labels, Stores(r, l) PROVE Promise!PNext \/ UNCHANGED Promise!pvars
  <2>1. Serving' = Serving /\ answer' = answer /\ r \in Serving
    BY <1>1, <1>8, ServingKept DEF Stores
  <2>2. CASE record' = record
    BY <2>1, <2>2 DEF Promise!pvars
  <2>3. CASE record[r] = "none" /\ \E w \in {"ok", "error"} : record' = [record EXCEPT ![r] = w]
    <3>1. Promise!Record(r)
      BY <2>1, <2>3 DEF Promise!Record
    <3> QED BY <3>1 DEF Promise!PNext
  <2> QED BY <1>8, <2>2, <2>3 DEF Stores
<1>9. ASSUME NEW l \in Finished, NEW a \in Answers \ {"none"}, Ends(r, l, a) PROVE Promise!PNext
  <2>1. /\ InService(pc[r]) /\ Release(r, l) /\ answer' = [answer EXCEPT ![r] = a]
        /\ record' = record /\ (a = "busy" => record[r] = "none")
    BY <1>1, <1>9 DEF Ends, storevars, Stored
  <2>2. r \in Serving /\ answer[r] = "none"
    BY <1>1, <2>1
  <2>3. \/ Serving' = Serving \ {r}
        \/ \E q \in Req \ Serving : answer[q] = "none" /\ Serving' = (Serving \ {r}) \cup {q}
    BY <2>1, ServingGiven
  <2>4. CASE a = "busy"
    <3>1. Promise!Withdraw(r)
      BY <2>1, <2>2, <2>3, <2>4 DEF Promise!Withdraw
    <3> QED BY <3>1 DEF Promise!PNext
  <2>5. CASE a # "busy"
    <3>1. a \in {"ok", "missing", "error", "gone"}
      BY <2>5 DEF Answers
    <3>2. Promise!Answer(r)
      BY <2>1, <2>2, <2>3, <3>1 DEF Promise!Answer
    <3> QED BY <3>2 DEF Promise!PNext
  <2> QED BY <2>4, <2>5
<1>10. ASSUME NEW rows, NEW asked, Reads(r, rows, asked) PROVE UNCHANGED Promise!pvars
  <2>1. pc[r] = "qread" /\ pc' = [pc EXCEPT ![r] = "qser"] /\ UNCHANGED <<answer, storevars>>
    BY <1>10 DEF Reads, Queried, Goto
  <2>2. "qser" \in Labels /\ InService("qser") /\ InService(pc[r])
    BY <2>1 DEF Labels, InService, Waiting, Finished
  <2>3. Serving' = Serving
    BY <1>1, <2>1, <2>2, ServingKept
  <2> QED BY <2>1, <2>3 DEF Promise!pvars, storevars
<1> QED BY <1>2, <1>3, <1>4, <1>5, <1>6, <1>7, <1>8, <1>9, <1>10, Steps

(* The worker implements ChatPromise: whatever happens to the requests     *)
(* inside, at most Permits of them are served at a time, each is answered  *)
(* once, and its record is written once and never changed.                 *)
THEOREM Implements == Spec => KeepsPromise
<1>1. Init => Promise!PInit
  <2> SUFFICES ASSUME Init PROVE Promise!PInit
    OBVIOUS
  <2>1. Serving = {}
    BY DEF Init, Serving, Waiting
  <2> QED BY <2>1 DEF Init, Promise!PInit
<1>2. IInv /\ [Next]_vars => [Promise!PNext]_Promise!pvars
  <2> SUFFICES ASSUME IInv, [Next]_vars PROVE Promise!PNext \/ UNCHANGED Promise!pvars
    OBVIOUS
  <2>1. CASE UNCHANGED vars
    BY <2>1 DEF vars, storevars, Promise!pvars, Serving
  <2>2. CASE Next
    BY <2>2, StepPromised DEF Next
  <2> QED BY <2>1, <2>2
<1> QED BY <1>1, <1>2, Invariant, PTL DEF Spec, KeepsPromise, Promise!PSpec
=============================================================================
