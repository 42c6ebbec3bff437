------------------------------ MODULE LoadTest ------------------------------
(***************************************************************************)
(* scripts/load-test.mjs: N videos driven through the pipeline at once,    *)
(* each by its own chain of HTTP calls, and one verdict on all of them.    *)
(* Any call may fail, its answer may be lost after the server acted on it, *)
(* the one token of the run may expire, and each video's deadline may pass *)
(* at any point.                                                           *)
(*                                                                         *)
(* The server side (API, Catalog, Worker) is external: a confirmation      *)
(* creates a request, which then moves through its statuses on its own.    *)
(***************************************************************************)
EXTENDS Naturals, FiniteSets

CONSTANTS
  N,          \* --videos
  Parts,      \* parts of the fixture: the API's answer to an upload start
  CallsFail   \* whether HTTP calls may fail and tokens expire

ASSUME ConstantsAssumption ==
  N \in Nat \ {0} /\ Parts \in Nat /\ CallsFail \in BOOLEAN

Videos == 1 .. N
TERMINAL == {"COMPLETED", "FAILED"}
Statuses == {"RECEIVED", "QUEUED", "PROCESSING"} \cup TERMINAL
NoRequest == "NO_REQUEST"   \* the key summarize counts an undefined status under
Problems == {"none", "upload", "part", "confirmation", "statusRead",
             "endedFailed", "stillRunning"}

VARIABLES
  request,   \* [Videos -> the status of the video's request, or NoRequest]
  pc,        \* where each video's pipeline is
  part,      \* the parts each video has put
  status,    \* the status each video knows
  problem,   \* each video's result: "none" when it reached COMPLETED
  late,      \* each video's deadline has passed
  expired,   \* the token of the run has expired
  exit       \* of the process
vars == <<request, pc, part, status, problem, late, expired, exit>>

Locations == {"start", "put", "confirm", "read", "done"}

TypeOK ==
  /\ request \in [Videos -> Statuses \cup {NoRequest}]
  /\ pc \in [Videos -> Locations]
  /\ part \in [Videos -> 0 .. Parts]
  /\ status \in [Videos -> Statuses \cup {NoRequest}]
  /\ problem \in [Videos -> Problems]
  /\ late \in [Videos -> BOOLEAN]
  /\ expired \in BOOLEAN
  /\ exit \in {"running", "ok", "failed"}

Init ==
  /\ request = [v \in Videos |-> NoRequest]
  /\ pc = [v \in Videos |-> "start"]
  /\ part = [v \in Videos |-> 0]
  /\ status = [v \in Videos |-> NoRequest]
  /\ problem = [v \in Videos |-> "none"]
  /\ late = [v \in Videos |-> FALSE]
  /\ expired = FALSE
  /\ exit = "running"

Goto(v, location) == pc' = [pc EXCEPT ![v] = location]
Result(v, what) == Goto(v, "done") /\ problem' = [problem EXCEPT ![v] = what]

-----------------------------------------------------------------------------
(* driveVideo, one action per call.                                        *)

StartUpload(v) ==
  /\ pc[v] = "start"
  /\ ~expired
  /\ Goto(v, IF Parts = 0 THEN "confirm" ELSE "put")
  /\ UNCHANGED <<request, part, status, problem, late, expired, exit>>

\* The parts go to presigned URLs: no token.
PutPart(v) ==
  /\ pc[v] = "put"
  /\ part' = [part EXCEPT ![v] = @ + 1]
  /\ Goto(v, IF part[v] + 1 < Parts THEN "put" ELSE "confirm")
  /\ UNCHANGED <<request, status, problem, late, expired, exit>>

Confirm(v) ==
  /\ pc[v] = "confirm"
  /\ ~expired
  /\ request' = [request EXCEPT ![v] = "RECEIVED"]
  /\ status' = [status EXCEPT ![v] = "RECEIVED"]
  /\ Goto(v, "read")
  /\ UNCHANGED <<part, problem, late, expired, exit>>

\* Mutant: any terminal status is a success.
ReadStatusTerminal(v) ==
  /\ pc[v] = "read"
  /\ ~expired
  /\ status' = [status EXCEPT ![v] = request[v]]
  /\ IF request[v] \in TERMINAL THEN Result(v, "none")
     ELSE IF late[v] THEN Result(v, "stillRunning")
     ELSE UNCHANGED <<pc, problem>>
  /\ UNCHANGED <<request, part, late, expired, exit>>

\* Mutant: the deadline is not compared.
ReadStatusForever(v) ==
  /\ pc[v] = "read"
  /\ ~expired
  /\ status' = [status EXCEPT ![v] = request[v]]
  /\ IF request[v] = "COMPLETED" THEN Result(v, "none")
     ELSE IF request[v] = "FAILED" THEN Result(v, "endedFailed")
     ELSE UNCHANGED <<pc, problem>>
  /\ UNCHANGED <<request, part, late, expired, exit>>

\* One poll: a terminal status is judged before the deadline; a poll that ends
\* nothing is followed by a sleep and the next one.
ReadStatus(v) ==
  /\ pc[v] = "read"
  /\ ~expired
  /\ status' = [status EXCEPT ![v] = request[v]]
  /\ IF request[v] = "COMPLETED" THEN Result(v, "none")
     ELSE IF request[v] = "FAILED" THEN Result(v, "endedFailed")
     ELSE IF late[v] THEN Result(v, "stillRunning")
     ELSE UNCHANGED <<pc, problem>>
  /\ UNCHANGED <<request, part, late, expired, exit>>

\* httpFetch turns every failure into a status the call does not expect, which
\* ends the video: nothing is retried.
Failure(v) ==
  \/ pc[v] = "start" /\ Result(v, "upload")
  \/ pc[v] = "put" /\ Result(v, "part")
  \/ pc[v] = "confirm" /\ Result(v, "confirmation")
  \/ pc[v] = "read" /\ Result(v, "statusRead")

CallFails(v) ==
  /\ CallsFail
  /\ Failure(v)
  /\ UNCHANGED <<request, part, status, late, expired, exit>>

\* 401 with the run's only token.
Unauthorized(v) ==
  /\ expired
  /\ pc[v] # "put"
  /\ Failure(v)
  /\ UNCHANGED <<request, part, status, late, expired, exit>>

\* The API creates the request, but its answer does not arrive within 30 s.
ConfirmAnswerLost(v) ==
  /\ CallsFail
  /\ pc[v] = "confirm"
  /\ ~expired
  /\ request' = [request EXCEPT ![v] = "RECEIVED"]
  /\ Result(v, "confirmation")
  /\ UNCHANGED <<part, status, late, expired, exit>>

\* summarize and main, once Promise.all has every result.
Summarize ==
  /\ exit = "running"
  /\ \A v \in Videos : pc[v] = "done"
  /\ exit' = IF \E v \in Videos : problem[v] # "none" THEN "failed" ELSE "ok"
  /\ UNCHANGED <<request, pc, part, status, problem, late, expired>>

-----------------------------------------------------------------------------
(* Clock, identity provider and pipeline.                                  *)

Deadline(v) ==
  /\ ~late[v]
  /\ late' = [late EXCEPT ![v] = TRUE]
  /\ UNCHANGED <<request, pc, part, status, problem, expired, exit>>

TokenExpires ==
  /\ CallsFail /\ ~expired
  /\ expired' = TRUE
  /\ UNCHANGED <<request, pc, part, status, problem, late, exit>>

Transitions ==
  { <<"RECEIVED", "QUEUED">>, <<"QUEUED", "PROCESSING">>,
    <<"QUEUED", "COMPLETED">>, <<"PROCESSING", "COMPLETED">>,
    <<"RECEIVED", "FAILED">>, <<"QUEUED", "FAILED">>, <<"PROCESSING", "FAILED">> }

RequestMoves(v) ==
  /\ \E to \in Statuses :
       <<request[v], to>> \in Transitions /\ request' = [request EXCEPT ![v] = to]
  /\ UNCHANGED <<pc, part, status, problem, late, expired, exit>>

VideoStep(v) ==
  StartUpload(v) \/ PutPart(v) \/ Confirm(v) \/ ReadStatus(v) \/ Unauthorized(v)

Next ==
  \/ \E v \in Videos :
       \/ VideoStep(v) \/ CallFails(v) \/ ConfirmAnswerLost(v)
       \/ Deadline(v) \/ RequestMoves(v)
  \/ Summarize
  \/ TokenExpires

Spec == Init /\ [][Next]_vars

\* Every call is answered or aborted after 30 s, and the clock advances.  The
\* pipeline need not make progress.
Fairness ==
  /\ \A v \in Videos : WF_vars(VideoStep(v)) /\ WF_vars(Deadline(v))
  /\ WF_vars(Summarize)
FairSpec == Spec /\ Fairness

-----------------------------------------------------------------------------
(* Properties.                                                             *)

\* The run succeeds only when every video's request is COMPLETED, and a video is
\* never blamed for running on when the last poll had shown it terminal.
VerdictTrue ==
  /\ exit = "ok" => \A v \in Videos : request[v] = "COMPLETED"
  /\ \A v \in Videos : problem[v] = "stillRunning" => status[v] \notin TERMINAL

\* The run ends although the pipeline may be stuck, and although it does not
\* retry a call.
RunEnds == <>(exit # "running")

\* "poll the request through the API until it is terminal or its per-video
\* timeout expires" (load-test.mjs:12-13).
PollsToTheEnd ==
  \A v \in Videos :
    pc[v] = "done" /\ status[v] # NoRequest => status[v] \in TERMINAL \/ late[v]
=============================================================================
