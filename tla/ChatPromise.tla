---------------------------- MODULE ChatPromise ----------------------------
(***************************************************************************)
(* What a worker promises about requests, whatever happens inside:         *)
(* at most N requests are served at a time, a request is answered once,    *)
(* and its record is written at most once and never changed.               *)
(* ChatRequest implements this specification.                              *)
(***************************************************************************)
EXTENDS Naturals, FiniteSets

CONSTANTS Req, N

VARIABLES
  serving,  \* the requests that hold a permit
  answer,   \* what the client of a request got
  record    \* the request's row in the database

pvars == <<serving, answer, record>>

PInit ==
  /\ serving = {}
  /\ answer = [r \in Req |-> "none"]
  /\ record = [r \in Req |-> "none"]

Admit(r) ==
  /\ r \notin serving /\ answer[r] = "none"
  /\ Cardinality(serving) < N
  /\ serving' = serving \cup {r}
  /\ UNCHANGED <<answer, record>>

(* Too busy, or an invalid request. *)
Reject(r) ==
  /\ r \notin serving /\ answer[r] = "none"
  /\ \E a \in {"busy", "error"} : answer' = [answer EXCEPT ![r] = a]
  /\ UNCHANGED <<serving, record>>

Record(r) ==
  /\ r \in serving /\ record[r] = "none"
  /\ \E w \in {"ok", "error"} : record' = [record EXCEPT ![r] = w]
  /\ UNCHANGED <<serving, answer>>

(* The permit of an answered request may pass to a waiting one in the same *)
(* step.                                                                   *)
Answer(r) ==
  /\ r \in serving /\ answer[r] = "none"
  /\ \E a \in {"ok", "missing", "error", "gone"} : answer' = [answer EXCEPT ![r] = a]
  /\ \/ serving' = serving \ {r}
     \/ \E q \in Req \ serving :
          answer[q] = "none" /\ serving' = (serving \ {r}) \cup {q}
  /\ UNCHANGED record

(* A permit that was handed to a request which then timed out goes back or *)
(* to the next one.                                                        *)
Withdraw(r) ==
  /\ r \in serving /\ answer[r] = "none" /\ record[r] = "none"
  /\ answer' = [answer EXCEPT ![r] = "busy"]
  /\ \/ serving' = serving \ {r}
     \/ \E q \in Req \ serving :
          answer[q] = "none" /\ serving' = (serving \ {r}) \cup {q}
  /\ UNCHANGED record

PNext == \E r \in Req : Admit(r) \/ Reject(r) \/ Record(r) \/ Answer(r) \/ Withdraw(r)

PSpec == PInit /\ [][PNext]_pvars
=============================================================================
