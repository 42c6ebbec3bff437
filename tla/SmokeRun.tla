------------------------------ MODULE SmokeRun ------------------------------
(***************************************************************************)
(* scripts/smoke-local-integration.mjs: ordered steps that drive alice and *)
(* bob through the live platform and judge what they observe (all but the  *)
(* last, which looks for scratch directories on the host).  A step is a    *)
(* sequence of calls and then a check of what they returned; one action is *)
(* one call.  Between two calls requests settle, deliveries are            *)
(* recorded and mailed, tokens expire, another client of alice confirms an *)
(* upload, and the deadline of a poll passes.                              *)
(*                                                                         *)
(* The platform is external.  It behaves as its contract says, but for one *)
(* fault of Faults it may have: each is what one of the checks is for.     *)
(***************************************************************************)
EXTENDS Naturals, Sequences, FiniteSets

CONSTANTS
  Faults,       \* the faults considered, among KnownFaults
  PageSize,     \* LIST_PAGE_SIZE
  MaxExpiries,  \* bound: how many tokens expire during the run
  SharedAlice,  \* whether another client uses alice's account
  CallsFail     \* whether calls may fail

KnownFaults ==
  { "anonymousAccepted", "oldCreateLives", "replayCreates", "secondKeyCreates",
    "keyReused", "invalidAccepted", "invalidKept", "foreignArchiveIssued",
    "shortArchive", "publicBucket", "lifecycleLost", "videoFails", "unscopedKey",
    "archiveTwice", "mixedRecords", "nonVideoAccepted", "archiveLeft",
    "deliveredTwice", "emailLost", "emailedTwice", "wrongRecipient",
    "corruptedMiscoded", "readMixed", "listLeaks", "readLeaks",
    "downloadLeaks", "internalFields" }

ASSUME ConstantsAssumption ==
  /\ Faults \subseteq KnownFaults
  /\ PageSize \in Nat \ {0} /\ MaxExpiries \in Nat
  /\ SharedAlice \in BOOLEAN /\ CallsFail \in BOOLEAN

Users == {"alice", "bob"}
Nobody == "nobody"
None == "none"

\* A request has the name of the upload it was created from; "extra" is one a
\* replay creates, "strangers" the one of alice's other client.
Uploads == {"video", "nonVideo", "second", "invalid", "corrupted", "bobs"}
Requests == Uploads \cup {"extra", "strangers"}
Awaited == {"video", "nonVideo", "corrupted"}   \* the requests that move
TERMINAL == {"COMPLETED", "FORMATO_INVALIDO", "PROCESSAMENTO_FALHOU"}

-----------------------------------------------------------------------------
(* SMOKE_STEPS: the calls of every step, in order.  The calls of one step  *)
(* stand together; "check" is a step that observes nothing of its own.     *)

Op(step, call, by, of) == [step |-> step, call |-> call, by |-> by, of |-> of]
UploadAndConfirm(step, user, upload) ==
  << Op(step, "upload", user, upload), Op(step, "confirm", user, upload) >>
BetweenTotals(step, call) ==
  << Op(step, "total", "alice", None), Op(step, call, "alice", "video"),
     Op(step, "total", "alice", None) >>

\* apiHealth to invalidPartsRejected: what creates requests, and what must not.
CreationSteps ==
  << Op("apiHealth", "health", Nobody, None),
     Op("anonymousRefused", "anonymous", Nobody, None),
     Op("oldCreateGone", "oldCreate", "alice", None) >>
  \o UploadAndConfirm("uploadConfirmed", "alice", "video")
  \o UploadAndConfirm("uploadConfirmed", "alice", "nonVideo")
  \o BetweenTotals("confirmationReplay", "confirm")
  \o BetweenTotals("secondKeyReplays", "confirmOtherKey")
  \o << Op("keyReuseConflict", "upload", "alice", "second"),
        Op("keyReuseConflict", "confirmSpentKey", "alice", "second"),
        Op("invalidPartsRejected", "upload", "alice", "invalid"),
        Op("invalidPartsRejected", "confirm", "alice", "invalid"),
        Op("invalidPartsRejected", "confirm", "alice", "invalid") >>

\* downloadIssued to failureEmail: the ends of the video and of the non-video.
OutcomeSteps ==
  << Op("downloadIssued", "download", "alice", "video"),
     Op("downloadIssued", "fetchArchive", Nobody, "video"),
     Op("downloadIssued", "terminal", Nobody, "video"),
     Op("anonymousAccess", "storageGet", Nobody, None),
     Op("bucketLifecycle", "lifecycle", Nobody, None),
     Op("videoCompleted", "terminal", Nobody, "video"),
     Op("keyScope", "check", Nobody, "video"),
     Op("archiveObject", "listArchives", Nobody, "video"),
     Op("rejection", "terminal", Nobody, "nonVideo"),
     Op("archiveCount", "check", Nobody, "video"),
     Op("noArchive", "listArchives", Nobody, "nonVideo"),
     Op("videoDelivery", "delivery", Nobody, "video"),
     Op("deliverySentence", "delivery", Nobody, "nonVideo"),
     Op("singleDelivery", "countDeliveries", Nobody, "nonVideo"),
     Op("failureEmail", "mailpit", Nobody, "nonVideo") >>

\* processingFailure to processingFailureReason: the end of the corrupted video.
FailureSteps ==
  UploadAndConfirm("processingFailure", "alice", "corrupted")
  \o << Op("processingFailure", "terminal", Nobody, "corrupted"),
        Op("failureArchive", "listArchives", Nobody, "corrupted"),
        Op("failureDelivery", "delivery", Nobody, "corrupted"),
        Op("failureDelivery", "countDeliveries", Nobody, "corrupted"),
        Op("processingFailureEmail", "mailpit", Nobody, "corrupted"),
        Op("failureReason", "read", "alice", "corrupted") >>

\* bobRequestCreated to noInternalFields: what bob sees of alice's.
OwnerSteps ==
  UploadAndConfirm("bobRequestCreated", "bob", "bobs")
  \o << Op("listsDisjoint", "listAll", "alice", None),
        Op("listsDisjoint", "listAll", "bob", None),
        Op("crossRead", "read", "bob", "video"),
        Op("crossDownload", "readDownload", "bob", "video"),
        Op("noInternalFields", "check", Nobody, None) >>

Program == CreationSteps \o OutcomeSteps \o FailureSteps \o OwnerSteps

Steps == {Program[i].step : i \in DOMAIN Program}
ReadLater == {"downloadIssued", "videoCompleted", "listsDisjoint"}
Polls == {"health", "download", "terminal", "delivery"}
Bucket == {"lifecycle", "listArchives"}        \* what observerFor's s3api reads

-----------------------------------------------------------------------------
VARIABLES
  at,        \* position in Program
  phase,     \* of the call: "first", after a 401 "refresh" and "second"; of a
             \* one-shot pod "waiting", "delete", "giveUp"
  late,      \* the deadline of the current poll has passed
  listing,   \* listAllAs: the next page, the ids read, how many items
  ctx,       \* [Steps -> the observations of the step]
  problem,   \* why the run failed, or None
  token,     \* [Users -> None, "valid", "expired"]: createTokenSource's cache
  pod,       \* the one-shot pod: None, "pending", "succeeded", "failed"
  leftover,  \* a pod was left behind although its deletion was tried or its
             \* creation reported as failed
  fault,     \* the platform's fault, or None
  up,        \* the API answers /health
  uploads,   \* [Uploads -> None, "open", "confirmed", "gone"]
  created,   \* [Users -> Seq(Requests)], in order of creation
  request,   \* [Requests -> None, "inFlight" or how it ended]
  delivery,  \* [Awaited -> None, "recorded", "sent", "error"]
  expiries   \* tokens that expired so far

runVars == <<at, phase, late, listing, ctx, problem>>
podVars == <<pod, leftover>>
tokenVars == <<token, expiries>>
serverVars == <<up, uploads, created, request, delivery>>
vars == <<runVars, podVars, tokenVars, serverVars, fault>>

\* A status code, whose mail it is, what the rules look like, how a request ended.
Codes == {"200", "201", "400", "401", "403", "404", "409"} \cup Users
           \cup {"owned", "other", "exposed", None, "inFlight"} \cup TERMINAL
Observation == [answer : Codes, n : Nat, id : Requests \cup {None},
                keys : SUBSET Requests]
Listing == [page : Nat \ {0}, ids : SUBSET Requests, read : Nat]
NewListing == [page |-> 1, ids |-> {}, read |-> 0]

TypeOK ==
  /\ at \in 1 .. Len(Program) + 1
  /\ phase \in {"first", "refresh", "second", "waiting", "delete", "giveUp"}
  /\ late \in BOOLEAN
  /\ listing \in Listing
  /\ ctx \in [Steps -> Seq(Observation)]
  /\ problem \in {None, "check", "late", "call", "refusedTwice", "pod"}
  /\ token \in [Users -> {None, "valid", "expired"}]
  /\ pod \in {None, "pending", "succeeded", "failed"}
  /\ leftover \in BOOLEAN
  /\ fault \in Faults \cup {None}
  /\ up \in BOOLEAN
  /\ uploads \in [Uploads -> {None, "open", "confirmed", "gone"}]
  /\ created \in [Users -> Seq(Requests)]
  /\ request \in [Requests -> {None, "inFlight"} \cup TERMINAL]
  /\ delivery \in [Awaited -> {None, "recorded", "sent", "error"}]
  /\ expiries \in 0 .. MaxExpiries

Init ==
  /\ at = 1 /\ phase = "first" /\ late = FALSE /\ problem = None
  /\ listing = NewListing
  /\ ctx = [s \in Steps |-> <<>>]
  /\ token = [u \in Users |-> None] /\ expiries = 0
  /\ pod = None /\ leftover = FALSE
  /\ fault \in Faults \cup {None}
  /\ up \in BOOLEAN
  /\ uploads = [u \in Uploads |-> None]
  /\ created = [u \in Users |-> <<>>]
  /\ request = [r \in Requests |-> None]
  /\ delivery = [r \in Awaited |-> None]

Passed == problem = None /\ at = Len(Program) + 1
Ended == problem # None \/ Passed
op == Program[at]
Doing(call) == ~Ended /\ op.call = call

-----------------------------------------------------------------------------
(* The checks.  Each judges what the observations of its step, and of      *)
(* earlier ones, returned.                                                 *)

EXPECTED_FRAMES == 8
Answers(observations) == [i \in DOMAIN observations |-> observations[i].answer]
OneOf(observation, r) == observation.id = r

\* Mutant: the answer is judged without the totals.
ReplayedByAnswer(seen) ==
  Answers(seen) = <<"200", "200", "200">> /\ OneOf(seen[2], "video")

Replayed(seen) ==
  Answers(seen) = <<"200", "200", "200">> /\ OneOf(seen[2], "video")
  /\ seen[1].n = seen[3].n
Delivered(seen, r, sentence) == OneOf(seen, r) /\ seen.answer = sentence
DeliveredOnce(seen) == seen.n = 1
Mailed(seen, user) == seen.n = 1 /\ seen.answer = user

\* The second and later answers of these two follow the upload's.
KeyReuseConflict(seen) == Answers(seen) = <<"201", "409">>
InvalidPartsRejected(seen) == Answers(seen) = <<"201", "400", "404">>

\* The URL serves the archive that the Catalog's record of the request names.
DownloadIssued(seen) ==
  /\ seen[1].answer = "200" /\ seen[2].answer = "200"
  /\ OneOf(seen[3], "video") /\ seen[1].keys = seen[3].keys

EndedAs(observation, r, status) == OneOf(observation, r) /\ observation.answer = status

ArchiveObject(observation, keys) ==
  OneOf(observation, "video") /\ observation.n = 1 /\ observation.keys = keys

ListsDisjoint(alices, bobs) ==
  /\ Awaited \subseteq alices /\ "bobs" \in bobs
  /\ "bobs" \notin alices
  /\ (Awaited \cup alices) \cap bobs = {}

CrossOwnerNotFound(seen) == Answers(seen) = <<"404">>

Holds(step, c) ==
  LET seen == c[step]
      completed == c["videoCompleted"][1]
  IN
  CASE step = "apiHealth" -> Answers(seen) = <<"200">>
    [] step = "anonymousRefused" -> Answers(seen) = <<"401">>
    [] step = "oldCreateGone" -> Answers(seen) = <<"404">>
    [] step \in {"uploadConfirmed", "bobRequestCreated"} ->
         \A i \in DOMAIN seen : seen[i].answer = "201"
    [] step \in {"confirmationReplay", "secondKeyReplays"} -> Replayed(seen)
    [] step = "keyReuseConflict" -> KeyReuseConflict(seen)
    [] step = "invalidPartsRejected" -> InvalidPartsRejected(seen)
    [] step = "downloadIssued" -> DownloadIssued(seen)
    [] step = "anonymousAccess" -> Answers(seen) = <<"403">>
    [] step = "bucketLifecycle" -> Answers(seen) = <<"owned">>
    [] step = "videoCompleted" -> EndedAs(seen[1], "video", "COMPLETED")
    [] step = "keyScope" -> completed.keys = {"video"}
    [] step = "archiveObject" -> ArchiveObject(seen[1], completed.keys)
    [] step = "rejection" -> EndedAs(seen[1], "nonVideo", "FORMATO_INVALIDO")
    [] step = "archiveCount" -> c["downloadIssued"][2].n = EXPECTED_FRAMES
    [] step \in {"noArchive", "failureArchive"} -> seen[1].n = 0
    [] step = "videoDelivery" -> OneOf(seen[1], "video")
    [] step = "deliverySentence" -> Delivered(seen[1], "nonVideo", "FORMATO_INVALIDO")
    [] step = "singleDelivery" -> DeliveredOnce(seen[1])
    [] step \in {"failureEmail", "processingFailureEmail"} -> Mailed(seen[1], "alice")
    [] step = "processingFailure" ->
         /\ seen[1].answer = "201" /\ seen[2].answer = "201"
         /\ EndedAs(seen[3], "corrupted", "PROCESSAMENTO_FALHOU")
    [] step = "failureDelivery" ->
         Delivered(seen[1], "corrupted", "PROCESSAMENTO_FALHOU") /\ DeliveredOnce(seen[2])
    [] step = "failureReason" -> seen[1].answer = "200" /\ OneOf(seen[1], "corrupted")
    [] step = "listsDisjoint" -> ListsDisjoint(seen[1].keys, seen[2].keys)
    [] step \in {"crossRead", "crossDownload"} -> CrossOwnerNotFound(seen)
    [] step = "noInternalFields" -> c["listsDisjoint"][1].answer = "200"

-----------------------------------------------------------------------------
(* runSteps and runStep: the next call of the step, or its check.          *)

\* What no later step reads is forgotten once it has been judged.
Finish(c) ==
  LET last == at = Len(Program) \/ Program[at + 1].step # op.step
      right == ~last \/ Holds(op.step, c)
  IN
  /\ ctx' = IF last /\ op.step \notin ReadLater THEN [c EXCEPT ![op.step] = <<>>] ELSE c
  /\ phase' = "first" /\ late' = FALSE /\ listing' = NewListing
  /\ at' = IF right THEN at + 1 ELSE at
  /\ problem' = IF right THEN problem ELSE "check"

See(answer, n, id, keys) ==
  Finish([ctx EXCEPT ![op.step] =
            Append(@, [answer |-> answer, n |-> n, id |-> id, keys |-> keys])])

Move(to) == phase' = to /\ UNCHANGED <<at, late, listing, ctx, problem>>
Fail(why) == problem' = why /\ UNCHANGED <<at, phase, late, listing, ctx>>

\* A thrown error ends the run.  CallFails covers every failed call but those of
\* the health poll, which tolerates them, and of the pod, which is deleted.  It
\* stands as well for a refused upload start or part and for an archive that
\* cannot be fetched, which end the run in the check after the call.
CallFails ==
  /\ CallsFail
  /\ ~Ended
  /\ op.call \notin {"check", "health"}
  /\ phase \in {"first", "refresh", "second"}
  /\ Fail("call")
  /\ UNCHANGED <<podVars, tokenVars, serverVars, fault>>

\* Mutant: a step without calls is counted twice.
JustCheckTwice ==
  /\ Doing("check")
  /\ at' = at + 2
  /\ UNCHANGED <<phase, late, listing, ctx, problem, podVars, tokenVars, serverVars, fault>>

JustCheck ==
  /\ Doing("check")
  /\ Finish(ctx)
  /\ UNCHANGED <<podVars, tokenVars, serverVars, fault>>

-----------------------------------------------------------------------------
(* createTokenSource and withFreshToken.                                   *)

Authorized == token[op.by] = "valid" /\ phase \in {"first", "second"}

GetToken ==
  /\ ~Ended /\ op.by \in Users
  /\ phase = "first" /\ token[op.by] = None
  /\ token' = [token EXCEPT ![op.by] = "valid"]
  /\ UNCHANGED <<expiries, runVars, podVars, serverVars, fault>>

Unauthorized ==
  /\ ~Ended /\ op.by \in Users
  /\ token[op.by] = "expired"
  /\ op.call = "download" /\ phase = "first" => ~late
  /\ \/ phase = "first" /\ Move("refresh")
     \/ phase = "second" /\ Fail("refusedTwice")
  /\ UNCHANGED <<podVars, tokenVars, serverVars, fault>>

RefreshToken ==
  /\ ~Ended /\ phase = "refresh"
  /\ token' = [token EXCEPT ![op.by] = "valid"]
  /\ Move("second")
  /\ UNCHANGED <<expiries, podVars, serverVars, fault>>

-----------------------------------------------------------------------------
(* Creation: uploads and their confirmations.                              *)

\* uploadThroughApi: the start and the PUT of every part.
Upload ==
  /\ Doing("upload") /\ Authorized
  /\ uploads' = [uploads EXCEPT ![op.of] = "open"]
  /\ See("201", 0, None, {})
  /\ UNCHANGED <<up, created, request, delivery, podVars, tokenVars, fault>>

Creates(user, r) ==
  /\ created' = [created EXCEPT ![user] = Append(@, r)]
  /\ request' = [request EXCEPT ![r] = "inFlight"]

CreatesNothing == UNCHANGED <<created, request>>

\* The API's answer to a confirmation, by the state of the upload.
ConfirmOpen ==
  /\ uploads[op.of] = "open"
  /\ IF op.call = "confirmSpentKey" /\ fault # "keyReused"
     THEN See("409", 0, None, {}) /\ CreatesNothing /\ UNCHANGED uploads
     ELSE IF op.of = "invalid" /\ fault # "invalidAccepted"
     THEN /\ See("400", 0, None, {})
          /\ CreatesNothing
          /\ uploads' = [uploads EXCEPT ![op.of] =
               IF fault = "invalidKept" THEN "open" ELSE "gone"]
     ELSE /\ See("201", 0, op.of, {})
          /\ Creates(op.by, op.of)
          /\ uploads' = [uploads EXCEPT ![op.of] = "confirmed"]

ConfirmAgain ==
  /\ uploads[op.of] = "confirmed"
  /\ See("200", 0, op.of, {})
  /\ IF fault = (IF op.call = "confirm" THEN "replayCreates" ELSE "secondKeyCreates")
     THEN Creates(op.by, "extra") ELSE CreatesNothing
  /\ UNCHANGED uploads

ConfirmGone ==
  /\ uploads[op.of] = "gone"
  /\ See("404", 0, None, {})
  /\ CreatesNothing /\ UNCHANGED uploads

Confirm ==
  /\ \E call \in {"confirm", "confirmOtherKey", "confirmSpentKey"} : Doing(call)
  /\ Authorized
  /\ ConfirmOpen \/ ConfirmAgain \/ ConfirmGone
  /\ UNCHANGED <<up, delivery, podVars, tokenVars, fault>>

-----------------------------------------------------------------------------
(* Single reads.                                                           *)

If(f, faulty, right) == IF fault = f THEN faulty ELSE right

AnonymousApiStatuses ==
  Doing("anonymous") /\ See(If("anonymousAccepted", "201", "401"), 0, None, {})

AnonymousStatuses ==
  Doing("storageGet") /\ See(If("publicBucket", "200", "403"), 0, None, {})

FetchArchive ==
  /\ Doing("fetchArchive")
  /\ See("200", If("shortArchive", EXPECTED_FRAMES - 1, EXPECTED_FRAMES), None, {})

CountDeliveries ==
  /\ Doing("countDeliveries")
  /\ See("200", IF delivery[op.of] = None THEN 0 ELSE If("deliveredTwice", 2, 1), op.of, {})

SearchMailpit ==
  /\ Doing("mailpit")
  /\ See(If("wrongRecipient", "bob", "alice"),
         IF delivery[op.of] = "sent" THEN If("emailedTwice", 2, 1) ELSE 0, op.of, {})

ReadOutside ==
  /\ phase = "first"
  /\ \/ AnonymousApiStatuses \/ AnonymousStatuses \/ FetchArchive
     \/ CountDeliveries \/ SearchMailpit
  /\ UNCHANGED <<podVars, tokenVars, serverVars, fault>>

OldCreateAs == Doing("oldCreate") /\ See(If("oldCreateLives", "201", "404"), 0, None, {})

TotalAs == Doing("total") /\ See("200", Len(created["alice"]), None, {})

\* A read of another's request, or of its download, is answered as one of a
\* random id.
ReadRequestAs ==
  /\ Doing("read")
  /\ IF op.by = "alice" THEN See("200", 0, If("readMixed", "strangers", op.of), {})
                        ELSE See(If("readLeaks", "200", "404"), 0, None, {})

DownloadAs == Doing("readDownload") /\ See(If("downloadLeaks", "200", "404"), 0, None, {})

ReadAs ==
  /\ ~Ended /\ op.by \in Users /\ Authorized
  /\ OldCreateAs \/ TotalAs \/ ReadRequestAs \/ DownloadAs
  /\ UNCHANGED <<podVars, tokenVars, serverVars, fault>>

-----------------------------------------------------------------------------
(* listAllAs: page by page, until the items read reach the total.          *)

\* Newest first: a request that is added moves the others one position on.
PageOf(list, page) ==
  {list[Len(list) + 1 - k] : k \in
     {k \in 1 .. Len(list) : (page - 1) * PageSize < k /\ k <= page * PageSize}}

ListOf(user) == IF user = "bob" /\ fault = "listLeaks"
                THEN created["alice"] \o created["bob"] ELSE created[user]

ListPage ==
  LET list == ListOf(op.by)
      items == PageOf(list, listing.page)
      ids == listing.ids \cup items
      read == listing.read + Cardinality(items)
  IN
  /\ Doing("listAll") /\ Authorized
  /\ IF items = {} \/ read >= Len(list)
     THEN See(If("internalFields", "exposed", "200"), read, None, ids)
     ELSE /\ listing' = [page |-> listing.page + 1, ids |-> ids, read |-> read]
          /\ phase' = "first"
          /\ UNCHANGED <<at, late, ctx, problem>>
  /\ UNCHANGED <<podVars, tokenVars, serverVars, fault>>

-----------------------------------------------------------------------------
(* The polls: the deadline is compared before each read.                   *)

AwaitHealth ==
  /\ Doing("health") /\ ~late
  /\ up
  /\ See("200", 0, None, {})
  /\ UNCHANGED <<podVars, tokenVars, serverVars, fault>>

ArchiveKey(r) == IF request[r] = "COMPLETED" THEN {If("unscopedKey", "strangers", r)} ELSE {}

\* waitForDownload: 409 until the request is COMPLETED.
AwaitDownload ==
  /\ Doing("download") /\ Authorized
  /\ phase = "first" => ~late
  /\ IF request[op.of] = "COMPLETED"
     THEN See("200", 0, None, If("foreignArchiveIssued", {"extra"}, ArchiveKey(op.of)))
     ELSE phase = "second" /\ Move("first")
  /\ UNCHANGED <<podVars, tokenVars, serverVars, fault>>

\* waitForTerminalStatus: the record carries its own id.
AwaitTerminal ==
  /\ Doing("terminal") /\ ~late
  /\ request[op.of] \in TERMINAL
  /\ See(request[op.of], 0, If("mixedRecords", "strangers", op.of), ArchiveKey(op.of))
  /\ UNCHANGED <<podVars, tokenVars, serverVars, fault>>

\* Mutant: the delivery record's existence is enough.
AwaitDeliveryRecorded ==
  /\ Doing("delivery") /\ ~late
  /\ delivery[op.of] # None
  /\ See(request[op.of], 0, op.of, {})
  /\ UNCHANGED <<podVars, tokenVars, serverVars, fault>>

\* waitForNotificationDelivery: until the email was sent or has failed.
AwaitDelivery ==
  /\ Doing("delivery") /\ ~late
  /\ delivery[op.of] \in {"sent", "error"}
  /\ See(request[op.of], 0, op.of, {})
  /\ UNCHANGED <<podVars, tokenVars, serverVars, fault>>

\* Mutant: only the health poll has a deadline.
GiveUpOnHealth ==
  /\ Doing("health")
  /\ phase = "first" /\ late
  /\ Fail("late")
  /\ UNCHANGED <<podVars, tokenVars, serverVars, fault>>

GiveUp ==
  /\ ~Ended /\ op.call \in Polls
  /\ phase = "first" /\ late
  /\ Fail("late")
  /\ UNCHANGED <<podVars, tokenVars, serverVars, fault>>

Deadline ==
  /\ ~Ended /\ ~late
  /\ op.call \in Polls \/ phase = "waiting"
  /\ late' = TRUE
  /\ UNCHANGED <<at, phase, listing, ctx, problem, podVars, tokenVars, serverVars, fault>>

-----------------------------------------------------------------------------
(* observerFor: the bucket, through a container that is run to its end on  *)
(* compose and through a one-shot pod (kindOneShot) on kind.               *)

Archives(r) ==
  IF request[r] = "COMPLETED"
  THEN ({r} \cap ArchiveKey(r)) \cup If("archiveTwice", {"extra"}, {})
  ELSE If("archiveLeft", {r}, {})

Observed ==
  IF op.call = "lifecycle"
  THEN [answer |-> If("lifecycleLost", "other", "owned"), n |-> 0, id |-> None, keys |-> {}]
  ELSE [answer |-> "200", n |-> Cardinality(Archives(op.of)), id |-> op.of,
        keys |-> Archives(op.of)]

Observing == [ctx EXCEPT ![op.step] = Append(@, Observed)]

CreatePod ==
  /\ ~Ended /\ op.call \in Bucket /\ phase = "first"
  /\ pod' = "pending"
  /\ Move("waiting")
  /\ UNCHANGED <<leftover, tokenVars, serverVars, fault>>

\* The pod is created, but its creation is reported as failed: the try block,
\* and so the deletion, is not reached.
CreatePodUnreported ==
  /\ CallsFail
  /\ ~Ended /\ op.call \in Bucket /\ phase = "first"
  /\ pod' = "pending" /\ leftover' = TRUE
  /\ Fail("call")
  /\ UNCHANGED <<tokenVars, serverVars, fault>>

\* Mutant: only a success is followed by the deletion.
SeePodNoFinally ==
  /\ ~Ended /\ phase = "waiting"
  /\ \/ /\ pod = "succeeded"
        /\ ctx' = Observing /\ phase' = "delete"
        /\ UNCHANGED <<at, late, listing, problem>>
     \/ (pod = "failed" \/ late) /\ Fail("pod")
  /\ UNCHANGED <<podVars, tokenVars, serverVars, fault>>

\* One read of the phase: an end comes before the deadline.  `logs` and a
\* failing read lead to the deletion too.
SeePod ==
  /\ ~Ended /\ phase = "waiting"
  /\ \/ /\ pod = "succeeded"
        /\ ctx' = Observing /\ phase' = "delete"
        /\ UNCHANGED <<at, late, listing, problem>>
     \/ (pod = "failed" \/ (late /\ pod = "pending") \/ CallsFail) /\ Move("giveUp")
  /\ UNCHANGED <<podVars, tokenVars, serverVars, fault>>

\* The finally block; its own failure is swallowed.
DeletePod ==
  /\ ~Ended /\ phase \in {"delete", "giveUp"}
  /\ \/ pod' = None /\ UNCHANGED leftover
     \/ CallsFail /\ leftover' = TRUE /\ UNCHANGED pod
  /\ IF phase = "delete" THEN Finish(ctx) ELSE Fail("pod")
  /\ UNCHANGED <<tokenVars, serverVars, fault>>

-----------------------------------------------------------------------------
(* The platform and alice's other client.                                  *)

ApiStarts ==
  /\ ~up /\ up' = TRUE
  /\ UNCHANGED <<uploads, created, request, delivery, runVars, podVars, tokenVars, fault>>

Fate(r) ==
  CASE r = "video" -> If("videoFails", "PROCESSAMENTO_FALHOU", "COMPLETED")
    [] r = "nonVideo" -> If("nonVideoAccepted", "COMPLETED", "FORMATO_INVALIDO")
    [] r = "corrupted" -> If("corruptedMiscoded", "FORMATO_INVALIDO", "PROCESSAMENTO_FALHOU")

Settle(r) ==
  /\ request[r] = "inFlight"
  /\ request' = [request EXCEPT ![r] = Fate(r)]
  /\ UNCHANGED <<up, uploads, created, delivery, runVars, podVars, tokenVars, fault>>

\* The delivery is recorded first and mailed later.
Notify(r) ==
  /\ \/ /\ request[r] \in TERMINAL /\ delivery[r] = None
        /\ delivery' = [delivery EXCEPT ![r] = "recorded"]
     \/ /\ delivery[r] = "recorded"
        /\ delivery' = [delivery EXCEPT ![r] = If("emailLost", "error", "sent")]
  /\ UNCHANGED <<up, uploads, created, request, runVars, podVars, tokenVars, fault>>

TokenExpires(user) ==
  /\ token[user] = "valid" /\ expiries < MaxExpiries
  /\ token' = [token EXCEPT ![user] = "expired"]
  /\ expiries' = expiries + 1
  /\ UNCHANGED <<runVars, podVars, serverVars, fault>>

\* Bound: in the steps that count or list alice's requests; at another time it
\* is one more request that was there before.
StrangerConfirms ==
  /\ SharedAlice /\ request["strangers"] = None
  /\ op.step \in {"confirmationReplay", "secondKeyReplays", "listsDisjoint"}
  /\ Creates("alice", "strangers")
  /\ UNCHANGED <<up, uploads, delivery, runVars, podVars, tokenVars, fault>>

PodEnds ==
  /\ pod = "pending"
  /\ pod' \in {"succeeded"} \cup (IF CallsFail THEN {"failed"} ELSE {})
  /\ UNCHANGED <<leftover, runVars, tokenVars, serverVars, fault>>

SmokeStep ==
  \/ JustCheck \/ GetToken \/ Unauthorized \/ RefreshToken
  \/ Upload \/ Confirm \/ ReadOutside \/ ReadAs \/ ListPage
  \/ AwaitHealth \/ AwaitDownload \/ AwaitTerminal \/ AwaitDelivery \/ GiveUp
  \/ CreatePod \/ SeePod \/ DeletePod

\* The platform goes on after the run's end, unobserved.
Platform ==
  /\ ~Ended
  /\ \/ ApiStarts \/ StrangerConfirms \/ PodEnds
     \/ \E r \in Awaited : Settle(r) \/ Notify(r)
     \/ \E user \in Users : TokenExpires(user)

Next == SmokeStep \/ CallFails \/ CreatePodUnreported \/ Deadline \/ Platform

Spec == Init /\ [][Next]_vars

\* Every call returns and the clock advances; the platform need not progress.
Fairness == WF_vars(SmokeStep) /\ WF_vars(Deadline)
FairSpec == Spec /\ Fairness

-----------------------------------------------------------------------------
(* Properties.                                                             *)

\* The smoke never passes on a platform that has one of the faults.
FaultsCaught == Passed => fault = None

\* No check blames a platform without a fault, however its progress, expiring
\* tokens and another client's requests interleave with the calls: only the
\* totals around a replay count what that client does meanwhile.
NoFalseAlarm ==
  problem = "check" =>
    \/ fault # None
    \/ op.step \in {"confirmationReplay", "secondKeyReplays"}
       /\ request["strangers"] # None

\* A one-shot pod is gone when its call is over, whichever way it ended, unless
\* the deletion failed or the creation was reported as failed.
NoPodLeft ==
  pod # None /\ (Ended \/ phase \notin {"waiting", "delete", "giveUp"}) => leftover

\* Every run ends, although the platform may be stuck.
SmokeEnds == <>Ended
=============================================================================
