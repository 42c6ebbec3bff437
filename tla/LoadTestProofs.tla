--------------------------- MODULE LoadTestProofs ---------------------------
(***************************************************************************)
(* Proofs about LoadTest, for any number of videos and parts.  A result    *)
(* without a problem is given only on a COMPLETED request, a request stays *)
(* COMPLETED, and the verdict is taken when every result is in.            *)
(***************************************************************************)
EXTENDS LoadTest, TLAPS

Judged ==
  \A v \in Videos :
    /\ pc[v] = "start" => part[v] = 0
    /\ pc[v] = "put" => part[v] < Parts
    /\ pc[v] # "done" => problem[v] = "none"
    /\ pc[v] = "done" /\ problem[v] = "none" => request[v] = "COMPLETED"
    /\ problem[v] = "stillRunning" => status[v] \notin TERMINAL

Concluded ==
  exit = "ok" => \A v \in Videos : pc[v] = "done" /\ problem[v] = "none"

IInv == TypeOK /\ Judged /\ Concluded

LEMMA InitInv == Init => IInv
<1> SUFFICES ASSUME Init PROVE IInv
  OBVIOUS
<1>1. 0 \in 0 .. Parts
  BY ConstantsAssumption
<1>2. TypeOK
  BY <1>1 DEF Init, TypeOK, Problems, Locations
<1>3. Judged
  BY DEF Init, Judged, TERMINAL, NoRequest
<1>4. Concluded
  BY DEF Init, Concluded
<1> QED
  BY <1>2, <1>3, <1>4 DEF IInv

\* Statuses move along Transitions only, and never out of COMPLETED.
LEMMA Moves ==
  ASSUME NEW v \in Videos, TypeOK, RequestMoves(v)
  PROVE  /\ request' \in [Videos -> Statuses \cup {NoRequest}]
         /\ \A w \in Videos : request[w] = "COMPLETED" => request'[w] = "COMPLETED"
<1>1. PICK to \in Statuses : <<request[v], to>> \in Transitions
                              /\ request' = [request EXCEPT ![v] = to]
  BY DEF RequestMoves
<1>2. request[v] # "COMPLETED"
  BY <1>1 DEF Transitions
<1> QED
  BY <1>1, <1>2 DEF TypeOK

LEMMA StepInv == IInv /\ [Next]_vars => IInv'
<1> SUFFICES ASSUME IInv, [Next]_vars PROVE IInv'
  OBVIOUS
<1> USE DEF IInv, TypeOK, Judged, Concluded, Goto, Result, Locations, Problems
<1>1. ASSUME NEW v \in Videos, StartUpload(v) PROVE IInv'
  BY <1>1, ConstantsAssumption DEF StartUpload
<1>2. ASSUME NEW v \in Videos, PutPart(v) PROVE IInv'
  <2>1. part[v] \in Nat /\ part[v] < Parts
    BY <1>2, ConstantsAssumption DEF PutPart
  <2>2. part' \in [Videos -> 0 .. Parts]
    BY <1>2, <2>1, ConstantsAssumption DEF PutPart
  <2> QED
    BY <1>2, <2>1, <2>2 DEF PutPart
<1>3. ASSUME NEW v \in Videos, Confirm(v) PROVE IInv'
  BY <1>3 DEF Confirm, Statuses, TERMINAL
<1>4. ASSUME NEW v \in Videos, ReadStatus(v) PROVE IInv'
  <2>1. status' \in [Videos -> Statuses \cup {NoRequest}]
    BY <1>4 DEF ReadStatus
  <2>2. CASE request[v] = "COMPLETED"
    BY <1>4, <2>1, <2>2 DEF ReadStatus
  <2>3. CASE request[v] = "FAILED"
    BY <1>4, <2>1, <2>3 DEF ReadStatus
  <2>4. CASE request[v] \notin TERMINAL /\ late[v]
    BY <1>4, <2>1, <2>4 DEF ReadStatus, TERMINAL
  <2>5. CASE request[v] \notin TERMINAL /\ ~late[v]
    BY <1>4, <2>1, <2>5 DEF ReadStatus, TERMINAL
  <2> QED
    BY <2>2, <2>3, <2>4, <2>5 DEF TERMINAL
<1>5. ASSUME NEW v \in Videos, Failure(v),
             UNCHANGED <<part, status, late, expired, exit>>,
             request' \in [Videos -> Statuses \cup {NoRequest}],
             \A w \in Videos : w # v => request'[w] = request[w]
      PROVE  IInv'
  BY <1>5 DEF Failure
<1>6. ASSUME NEW v \in Videos, CallFails(v) \/ Unauthorized(v) PROVE IInv'
  BY <1>5, <1>6 DEF CallFails, Unauthorized
<1>7. ASSUME NEW v \in Videos, ConfirmAnswerLost(v) PROVE IInv'
  BY <1>5, <1>7 DEF ConfirmAnswerLost, Failure, Statuses
<1>8. ASSUME NEW v \in Videos, Deadline(v) PROVE IInv'
  BY <1>8 DEF Deadline
<1>9. ASSUME NEW v \in Videos, RequestMoves(v) PROVE IInv'
  BY <1>9, Moves DEF RequestMoves
<1>10. CASE Summarize
  BY <1>10 DEF Summarize
<1>11. CASE TokenExpires
  BY <1>11 DEF TokenExpires
<1>12. CASE UNCHANGED vars
  BY <1>12 DEF vars
<1> QED
  BY <1>1, <1>2, <1>3, <1>4, <1>6, <1>7, <1>8, <1>9, <1>10, <1>11, <1>12
  DEF Next, VideoStep

\* The invariant, and with it the types.
LEMMA Invariance == Spec => []IInv
<1> QED
  BY InitInv, StepInv, PTL DEF Spec

\* The state stays in its types, for any number of videos and parts.
THEOREM TypeCorrect == Spec => []TypeOK
<1>1. IInv => TypeOK
  BY DEF IInv
<1> QED
  BY <1>1, Invariance, PTL

\* Exit 0 means that every video's request is COMPLETED, whatever calls fail or
\* answer late, and "still running" is never said of a terminal status.
THEOREM VerdictIsTrue == Spec => []VerdictTrue
<1>1. IInv => VerdictTrue
  BY DEF IInv, Judged, Concluded, VerdictTrue
<1> QED
  BY <1>1, Invariance, PTL
=============================================================================
