--------------------------- MODULE SmokeRunProofs ---------------------------
(***************************************************************************)
(* SmokeRun for any faults, page size and number of expiring tokens.  The  *)
(* one-shot pod of an observation is gone when the observation is over;    *)
(* the state stays in its types: every call names what a call of its kind  *)
(* is about, so every answer is one its check can read; and no check       *)
(* blames a sound platform or passes one that has a fault.                 *)
(***************************************************************************)
EXTENDS SmokeRun, SequenceTheorems, FiniteSetTheorems, TLAPS

PodPhases == {"waiting", "delete", "giveUp"}

\* NoPodLeft alone is not inductive: that only a bucket observation is under way
\* with a pod is what keeps every other call from ending in a pod's phase.
PodInv ==
  /\ phase \in PodPhases => op.call \in Bucket
  /\ pod # None /\ (Ended \/ phase \notin PodPhases) => leftover

\* A run starts without a pod.
LEMMA InitPod == Init => PodInv
BY DEF Init, PodInv, PodPhases

\* What does not touch the run or the pod.
LEMMA PodUntouched ==
  ASSUME PodInv, UNCHANGED <<runVars, podVars>>
  PROVE  PodInv'
BY DEF PodInv, PodPhases, runVars, podVars, op, Ended, Passed

\* Every call that moves on, fails or changes its phase without a pod.
LEMMA OutsidePod ==
  ASSUME PodInv, phase \notin PodPhases, UNCHANGED podVars,
         phase' \notin PodPhases
  PROVE  PodInv'
BY DEF PodInv, PodPhases, podVars

\* No other call is in a pod's phase.
LEMMA NoPodAtOtherCalls ==
  ASSUME PodInv, op.call \notin Bucket
  PROVE  phase \notin PodPhases
BY DEF PodInv

\* The end of a step begins the next call.
LEMMA FinishLeavesPod == \A c : Finish(c) => phase' = "first"
BY DEF Finish

\* Every step preserves it.
LEMMA NextPod ==
  ASSUME PodInv, [Next]_vars
  PROVE  PodInv'
<1> USE DEF PodPhases
<1>1. CASE JustCheck \/ Upload \/ Confirm \/ AwaitHealth \/ AwaitTerminal \/ AwaitDelivery
  <2>1. op.call \notin Bucket /\ phase' = "first" /\ UNCHANGED podVars
    BY <1>1, FinishLeavesPod DEF JustCheck, Upload, Confirm, ConfirmOpen, ConfirmAgain,
       ConfirmGone, AwaitHealth, AwaitTerminal, AwaitDelivery, See, Doing, Bucket
  <2>2. QED
    BY <2>1, NoPodAtOtherCalls, OutsidePod
<1>2. CASE ReadOutside \/ ReadAs
  <2>1. phase \notin PodPhases /\ phase' = "first" /\ UNCHANGED podVars
    BY <1>2, FinishLeavesPod DEF ReadOutside, AnonymousApiStatuses, AnonymousStatuses,
       FetchArchive, CountDeliveries, SearchMailpit, ReadAs, OldCreateAs, TotalAs,
       ReadRequestAs, DownloadAs, Authorized, See
  <2>2. QED
    BY <2>1, OutsidePod
<1>3. CASE ListPage \/ AwaitDownload
  <2>1. phase \notin PodPhases /\ phase' = "first" /\ UNCHANGED podVars
    BY <1>3, FinishLeavesPod DEF ListPage, AwaitDownload, Authorized, See, Move
  <2>2. QED
    BY <2>1, OutsidePod
<1>4. CASE GetToken \/ Unauthorized \/ RefreshToken \/ GiveUp
  <2>1. phase \notin PodPhases /\ phase' \notin PodPhases /\ UNCHANGED podVars
    BY <1>4 DEF GetToken, Unauthorized, RefreshToken, GiveUp, Move, Fail, runVars
  <2>2. QED
    BY <2>1, OutsidePod
<1>5. CASE CreatePod
  BY <1>5 DEF CreatePod, Move, PodInv, op, Ended, Passed
<1>6. CASE SeePod
  BY <1>6 DEF SeePod, Move, PodInv, podVars, op, Ended, Passed
<1>7. CASE DeletePod
  <2>1. CASE phase = "delete"
    BY <1>7, <2>1, FinishLeavesPod DEF DeletePod, PodInv
  <2>2. CASE phase = "giveUp"
    BY <1>7, <2>2 DEF DeletePod, Fail, PodInv, op
  <2>3. QED
    BY <1>7, <2>1, <2>2 DEF DeletePod
<1>8. CASE CallFails
  <2>1. phase \notin PodPhases /\ phase' \notin PodPhases /\ UNCHANGED podVars
    BY <1>8 DEF CallFails, Fail
  <2>2. QED
    BY <2>1, OutsidePod
<1>9. CASE CreatePodUnreported
  BY <1>9 DEF CreatePodUnreported, Fail, PodInv, op
<1>10. CASE Deadline
  BY <1>10 DEF Deadline, PodInv, podVars, op, Ended, Passed
<1>11. CASE Platform
  <2>1. CASE PodEnds
    BY <2>1 DEF PodEnds, PodInv, runVars, op, Ended, Passed, None
  <2>2. CASE ~PodEnds
    <3>1. UNCHANGED <<runVars, podVars>>
      BY <1>11, <2>2 DEF Platform, ApiStarts, StrangerConfirms, Settle, Notify, TokenExpires
    <3>2. QED
      BY <3>1, PodUntouched
  <2>3. QED
    BY <2>1, <2>2
<1>12. CASE UNCHANGED vars
  BY <1>12, PodUntouched DEF vars
<1>13. QED
  BY <1>1, <1>2, <1>3, <1>4, <1>5, <1>6, <1>7, <1>8, <1>9, <1>10, <1>11, <1>12
     DEF Next, SmokeStep

\* A one-shot pod is gone when its call is over, whichever way it ended, unless
\* the deletion failed or the creation was reported as failed.
THEOREM PodsAreDeleted == Spec => []NoPodLeft
<1>1. PodInv => NoPodLeft
  BY DEF PodInv, NoPodLeft, PodPhases
<1>2. QED
  BY <1>1, InitPod, NextPod, PTL DEF Spec

-----------------------------------------------------------------------------
(* What the calls of the program name.                                     *)

StepNames ==
  {"apiHealth", "anonymousRefused", "oldCreateGone", "uploadConfirmed", "confirmationReplay",
   "secondKeyReplays", "keyReuseConflict", "invalidPartsRejected", "downloadIssued",
   "anonymousAccess", "bucketLifecycle", "videoCompleted", "keyScope", "archiveObject",
   "rejection", "archiveCount", "noArchive", "videoDelivery", "deliverySentence",
   "singleDelivery", "failureEmail", "processingFailure", "failureArchive",
   "failureDelivery", "processingFailureEmail", "failureReason", "bobRequestCreated",
   "listsDisjoint", "crossRead", "crossDownload", "noInternalFields"}

OfUpload == {"upload", "confirm", "confirmOtherKey", "confirmSpentKey", "read"}
OfOutcome ==
  {"download", "fetchArchive", "terminal", "delivery", "countDeliveries", "mailpit",
   "listArchives"}
OfNone ==
  {"health", "anonymous", "oldCreate", "total", "storageGet", "lifecycle", "listAll",
   "readDownload", "check"}

\* What the calls name.
Posed ==
  [step : StepNames, call : OfUpload, by : Users, of : Uploads] \cup
  [step : StepNames, call : OfOutcome, by : Users \cup {Nobody}, of : Awaited] \cup
  [step : StepNames, call : OfNone \ {"listAll"}, by : Users \cup {Nobody}, of : Uploads \cup {None}] \cup
  [step : StepNames, call : {"listAll"}, by : Users, of : {None}]

\* A call with arguments of its kind is one of Posed.
LEMMA OpPosed ==
  ASSUME NEW s \in StepNames, NEW u \in Users, NEW b \in Users \cup {Nobody}
  PROVE  /\ \A c \in OfUpload, f \in Uploads : Op(s, c, u, f) \in Posed
         /\ \A c \in OfOutcome, f \in Awaited : Op(s, c, b, f) \in Posed
         /\ \A c \in OfNone \ {"listAll"}, f \in Uploads \cup {None} : Op(s, c, b, f) \in Posed
         /\ Op(s, "listAll", u, None) \in Posed
BY DEF Op, Posed

\* An upload and its confirmation are such calls, for every user and upload.
LEMMA UploadsPosed ==
  ASSUME NEW s \in StepNames, NEW b \in Users, NEW f \in Uploads
  PROVE  UploadAndConfirm(s, b, f) \in Seq(Posed)
<1>1. Op(s, "upload", b, f) \in Posed /\ Op(s, "confirm", b, f) \in Posed
  BY OpPosed DEF OfUpload
<1>. QED BY <1>1 DEF UploadAndConfirm

\* So are a replay and the two counts around it.
LEMMA TotalsPosed ==
  ASSUME NEW s \in StepNames, NEW c \in {"confirm", "confirmOtherKey"}
  PROVE  BetweenTotals(s, c) \in Seq(Posed)
<1>1. Op(s, "total", "alice", None) \in Posed /\ Op(s, c, "alice", "video") \in Posed
  BY OpPosed DEF OfUpload, OfNone, Users, Uploads
<1>. QED BY <1>1 DEF BetweenTotals

\* So are the calls about how the video and the non-video ended.
LEMMA OutcomePosed == OutcomeSteps \in Seq(Posed)
<1> DEFINE S ==
  {"downloadIssued", "anonymousAccess", "bucketLifecycle", "videoCompleted", "keyScope",
   "archiveObject",
   "rejection", "archiveCount", "noArchive", "videoDelivery", "deliverySentence",
   "singleDelivery", "failureEmail"}
<1>1. \A s \in S : \A c \in {"fetchArchive", "terminal", "listArchives", "delivery",
                             "countDeliveries", "mailpit"} :
        \A f \in {"video", "nonVideo"} : Op(s, c, Nobody, f) \in Posed
  BY OpPosed DEF OfOutcome, StepNames, Awaited, Users
<1>2. \A s \in S, c \in {"storageGet", "lifecycle", "check"}, f \in {None, "video"} :
        Op(s, c, Nobody, f) \in Posed
  BY OpPosed DEF OfNone, StepNames, Users, Uploads
<1>3. \A s \in S : Op(s, "download", "alice", "video") \in Posed
  BY OpPosed DEF OfOutcome, StepNames, Awaited, Users
<1>. HIDE DEF S
<1>. QED BY <1>1, <1>2, <1>3 DEF OutcomeSteps, S

\* So are the calls that create requests or must not.
LEMMA CreationPosed == CreationSteps \in Seq(Posed)
<1>1. /\ UploadAndConfirm("uploadConfirmed", "alice", "video") \in Seq(Posed)
      /\ UploadAndConfirm("uploadConfirmed", "alice", "nonVideo") \in Seq(Posed)
  BY UploadsPosed DEF StepNames, Users, Uploads
<1>2. /\ BetweenTotals("confirmationReplay", "confirm") \in Seq(Posed)
      /\ BetweenTotals("secondKeyReplays", "confirmOtherKey") \in Seq(Posed)
  BY TotalsPosed DEF StepNames
<1>3. << Op("apiHealth", "health", Nobody, None),
         Op("anonymousRefused", "anonymous", Nobody, None),
         Op("oldCreateGone", "oldCreate", "alice", None) >> \in Seq(Posed)
  BY OpPosed DEF StepNames, OfNone, Users
<1>4. << Op("keyReuseConflict", "upload", "alice", "second"),
        Op("keyReuseConflict", "confirmSpentKey", "alice", "second"),
        Op("invalidPartsRejected", "upload", "alice", "invalid"),
        Op("invalidPartsRejected", "confirm", "alice", "invalid"),
        Op("invalidPartsRejected", "confirm", "alice", "invalid") >> \in Seq(Posed)
  BY OpPosed DEF StepNames, OfUpload, Users, Uploads
<1>. QED BY <1>1, <1>2, <1>3, <1>4, ConcatProperties DEF CreationSteps

\* So are the calls about the corrupted video.
LEMMA FailurePosed == FailureSteps \in Seq(Posed)
<1>1. UploadAndConfirm("processingFailure", "alice", "corrupted") \in Seq(Posed)
  BY UploadsPosed DEF StepNames, Users, Uploads
<1>2. \A s \in {"processingFailure", "failureArchive", "failureDelivery", "processingFailureEmail"},
         c \in {"terminal", "listArchives", "delivery", "countDeliveries", "mailpit"} :
        Op(s, c, Nobody, "corrupted") \in Posed
  BY OpPosed DEF StepNames, OfOutcome, Users, Awaited
<1>3. Op("failureReason", "read", "alice", "corrupted") \in Posed
  BY OpPosed DEF StepNames, OfUpload, Users, Uploads
<1>. QED BY <1>1, <1>2, <1>3, ConcatProperties DEF FailureSteps

\* So are bob's calls.
LEMMA OwnerPosed == OwnerSteps \in Seq(Posed)
<1>1. UploadAndConfirm("bobRequestCreated", "bob", "bobs") \in Seq(Posed)
  BY UploadsPosed DEF StepNames, Users, Uploads
<1>2. << Op("listsDisjoint", "listAll", "alice", None),
        Op("listsDisjoint", "listAll", "bob", None),
        Op("crossRead", "read", "bob", "video"),
        Op("crossDownload", "readDownload", "bob", "video"),
        Op("noInternalFields", "check", Nobody, None) >> \in Seq(Posed)
  BY OpPosed DEF StepNames, OfUpload, OfNone, Users, Uploads
<1>. QED BY <1>1, <1>2, ConcatProperties DEF OwnerSteps

\* Every call of the program names what a call of its kind is about.
LEMMA ProgramPosed == Program \in Seq(Posed)
BY CreationPosed, OutcomePosed, FailurePosed, OwnerPosed, ConcatProperties DEF Program

-----------------------------------------------------------------------------
(* The state stays in its types.                                           *)

\* The run's current call.
LEMMA Current ==
  ASSUME TypeOK, ~Ended
  PROVE  /\ at \in DOMAIN Program /\ at + 1 \in 1 .. Len(Program) + 1
         /\ op \in Posed /\ op.step \in Steps
<1>1. Len(Program) \in Nat /\ DOMAIN Program = 1 .. Len(Program)
  BY ProgramPosed
<1>2. at \in DOMAIN Program
  BY <1>1 DEF TypeOK, Ended, Passed
<1>. QED BY <1>1, <1>2, ProgramPosed DEF op, Steps

\* A step that ends, well or with a failed check, leaves the run in its types.
LEMMA FinishTyped ==
  ASSUME TypeOK, ~Ended, NEW c \in [Steps -> Seq(Observation)], Finish(c)
  PROVE  /\ at' \in 1 .. Len(Program) + 1 /\ phase' = "first" /\ late' \in BOOLEAN
         /\ listing' \in Listing /\ ctx' \in [Steps -> Seq(Observation)]
         /\ problem' \in {None, "check"}
<1>1. at' \in 1 .. Len(Program) + 1
  BY Current DEF Finish, TypeOK
<1>2. ctx' \in [Steps -> Seq(Observation)]
  <2>1. ctx' = c \/ ctx' = [c EXCEPT ![op.step] = <<>>]
    BY DEF Finish
  <2>2. <<>> \in Seq(Observation)
    OBVIOUS
  <2>3. [c EXCEPT ![op.step] = <<>>] \in [Steps -> Seq(Observation)]
    BY <2>2
  <2>. QED BY <2>1, <2>3
<1>3. problem' \in {None, "check"}
  BY DEF Finish, Ended
<1>4. listing' \in Listing
  BY DEF Finish, NewListing, Listing
<1>. QED BY <1>1, <1>2, <1>3, <1>4 DEF Finish

RunTyped ==
  /\ at \in 1 .. Len(Program) + 1
  /\ phase \in {"first", "refresh", "second", "waiting", "delete", "giveUp"}
  /\ late \in BOOLEAN
  /\ listing \in Listing
  /\ ctx \in [Steps -> Seq(Observation)]
  /\ problem \in {None, "check", "late", "call", "refusedTwice", "pod"}

\* So does a call that observes a typed answer.
LEMMA SeeTyped ==
  ASSUME TypeOK, ~Ended, NEW answer \in Codes, NEW n \in Nat, NEW id \in Requests \cup {None},
         NEW keys \in SUBSET Requests, See(answer, n, id, keys)
  PROVE  RunTyped'
<1> DEFINE seen == [answer |-> answer, n |-> n, id |-> id, keys |-> keys]
           c == [ctx EXCEPT ![op.step] = Append(@, seen)]
<1>1. seen \in Observation
  BY DEF Observation
<1>2. c \in [Steps -> Seq(Observation)]
  BY <1>1, AppendProperties DEF TypeOK
<1>3. Finish(c)
  BY DEF See
<1>. HIDE DEF c
<1>. QED BY <1>2, <1>3, FinishTyped DEF RunTyped

\* So does a call that ends the run.
LEMMA FailTyped ==
  ASSUME TypeOK, NEW why \in {"late", "call", "refusedTwice", "pod"}, Fail(why)
  PROVE  RunTyped'
BY DEF TypeOK, Fail, RunTyped

\* So does a call that goes on in another phase.
LEMMA MoveTyped ==
  ASSUME TypeOK, NEW to \in {"first", "refresh", "second", "waiting", "giveUp"}, Move(to)
  PROVE  RunTyped'
BY DEF TypeOK, Move, RunTyped

\* What the platform answers is a typed observation.
LEMMA AnswersTyped ==
  ASSUME TypeOK
  PROVE  /\ {"200", "201", "400", "401", "403", "404", "409", "alice", "bob",
              "owned", "other", "exposed", None} \cup TERMINAL \subseteq Codes
         /\ \A f, a, b : If(f, a, b) \in {a, b}
         /\ \A r \in Requests : request[r] \in Codes /\ ArchiveKey(r) \subseteq Requests
         /\ \A r \in Requests : Archives(r) \subseteq Requests
         /\ Uploads \subseteq Requests /\ Awaited \subseteq Uploads
         /\ {"extra", "strangers"} \subseteq Requests
<1>1. \A f, a, b : If(f, a, b) \in {a, b}
  BY DEF If
<1>2. /\ {"200", "201", "400", "401", "403", "404", "409", "alice", "bob",
              "owned", "other", "exposed", None} \cup TERMINAL \subseteq Codes
      /\ Uploads \subseteq Requests /\ Awaited \subseteq Uploads
      /\ {"extra", "strangers"} \subseteq Requests
  BY DEF Codes, Users, Uploads, Requests, Awaited
<1>3. \A r \in Requests : request[r] \in Codes
  BY DEF TypeOK, Codes
<1>4. \A r \in Requests : ArchiveKey(r) \subseteq Requests
  BY <1>1, <1>2 DEF ArchiveKey
<1>5. \A r \in Requests : Archives(r) \subseteq Requests
  BY <1>1, <1>2, <1>4 DEF Archives, If
<1>. QED BY <1>1, <1>2, <1>3, <1>4, <1>5

\* There are finitely many requests: the sets the calls count have a size.
LEMMA RequestsFinite == \A S \in SUBSET Requests : Cardinality(S) \in Nat
<1>1. \A x, y : IsFiniteSet({x, y})
  <2> TAKE x, y
  <2>1. IsFiniteSet({x} \cup {y})
    BY FS_Singleton, FS_Union
  <2>2. {x} \cup {y} = {x, y}
    OBVIOUS
  <2>. QED BY <2>1, <2>2
<1>2. \A S, T : IsFiniteSet(S) /\ IsFiniteSet(T) => IsFiniteSet(S \cup T)
  BY FS_Union
<1>3. Requests = ({"video", "nonVideo"} \cup {"second", "invalid"})
                   \cup ({"corrupted", "bobs"} \cup {"extra", "strangers"})
  BY DEF Requests, Uploads
<1>4. IsFiniteSet(Requests)
  BY <1>1, <1>2, <1>3
<1>. QED BY <1>4, FS_Subset, FS_CardinalityType

RestTyped ==
  /\ token \in [Users -> {None, "valid", "expired"}] /\ expiries \in 0 .. MaxExpiries
  /\ pod \in {None, "pending", "succeeded", "failed"} /\ leftover \in BOOLEAN
  /\ fault \in Faults \cup {None} /\ up \in BOOLEAN
  /\ uploads \in [Uploads -> {None, "open", "confirmed", "gone"}]
  /\ created \in [Users -> Seq(Requests)]
  /\ request \in [Requests -> {None, "inFlight"} \cup TERMINAL]
  /\ delivery \in [Awaited -> {None, "recorded", "sent", "error"}]

\* TypeOK is about the run, and about its platform, pod and tokens.
LEMMA TypesSplit == TypeOK <=> RunTyped /\ RestTyped
BY DEF TypeOK, RunTyped, RestTyped

\* The second half holds after a step that leaves them alone.
LEMMA RestKept ==
  ASSUME TypeOK, UNCHANGED <<podVars, tokenVars, serverVars, fault>>
  PROVE  RestTyped'
BY TypesSplit DEF RestTyped, podVars, tokenVars, serverVars

\* The upload a call is about, and for whom.
LEMMA CallNames ==
  ASSUME TypeOK, ~Ended
  PROVE  /\ op.of \in Uploads \cup {None} /\ op.by \in Users \cup {Nobody}
         /\ op.call \in OfUpload => op.by \in Users /\ op.of \in Uploads
         /\ op.call \in OfOutcome => op.of \in Awaited
         /\ op.call = "listAll" => op.by \in Users
<1>1. op \in Posed
  BY Current
<1>2. OfOutcome \cap OfUpload = {} /\ OfNone \cap OfUpload = {} /\ OfNone \cap OfOutcome = {}
        /\ "listAll" \notin OfUpload \cup OfOutcome /\ Awaited \subseteq Uploads
  BY DEF OfOutcome, OfUpload, OfNone, Awaited, Uploads
<1>. QED BY <1>1, <1>2 DEF Posed

\* What a new request changes stays in its types.
LEMMA CreatesTyped ==
  ASSUME TypeOK, NEW user \in Users, NEW r \in Requests, Creates(user, r)
  PROVE  /\ created' \in [Users -> Seq(Requests)]
         /\ request' \in [Requests -> {None, "inFlight"} \cup TERMINAL]
BY AppendProperties DEF TypeOK, Creates

\* A confirmation, answered or refused, keeps the types.
LEMMA ConfirmTyped ==
  ASSUME TypeOK, Confirm
  PROVE  RunTyped' /\ RestTyped'
<1>1. ~Ended /\ op.by \in Users /\ op.of \in Uploads
  BY CallNames DEF Confirm, Doing, OfUpload
<1>2. RunTyped'
  <2>1. op.of \in Requests \cup {None} /\ {} \in SUBSET Requests /\ 0 \in Nat /\ None \in Requests \cup {None}
    BY <1>1, AnswersTyped
  <2>2. {"400", "409", "201", "200", "404"} \subseteq Codes
    BY AnswersTyped
  <2>3. \/ \E answer \in {"400", "409"} : See(answer, 0, None, {})
        \/ \E answer \in {"201", "200"} : See(answer, 0, op.of, {})
        \/ See("404", 0, None, {})
    BY DEF Confirm, ConfirmOpen, ConfirmAgain, ConfirmGone
  <2>. QED BY <1>1, <2>1, <2>2, <2>3, SeeTyped
<1>3. uploads' \in [Uploads -> {None, "open", "confirmed", "gone"}]
  <2>1. \/ uploads' = uploads
        \/ \E s \in {"open", "gone", "confirmed"} : uploads' = [uploads EXCEPT ![op.of] = s]
    BY DEF Confirm, ConfirmOpen, ConfirmAgain, ConfirmGone
  <2>. QED BY <2>1 DEF TypeOK
<1>4. created' \in [Users -> Seq(Requests)] /\ request' \in [Requests -> {None, "inFlight"} \cup TERMINAL]
  <2>1. CreatesNothing \/ \E r \in {op.of, "extra"} : Creates(op.by, r)
    BY DEF Confirm, ConfirmOpen, ConfirmAgain, ConfirmGone
  <2>2. {op.of, "extra"} \subseteq Requests
    BY <1>1, AnswersTyped
  <2>3. CASE CreatesNothing
    BY <2>3 DEF CreatesNothing, TypeOK
  <2>. QED BY <1>1, <2>1, <2>2, <2>3, CreatesTyped
<1>. QED BY <1>2, <1>3, <1>4 DEF Confirm, RestTyped, TypeOK, podVars, tokenVars

\* The calls that read the platform keep them.
LEMMA ReadsTyped ==
  ASSUME TypeOK, ReadOutside \/ ReadAs \/ AwaitHealth \/ AwaitTerminal \/ AwaitDelivery
  PROVE  RunTyped' /\ RestTyped'
<1>1. RestTyped'
  BY RestKept DEF ReadOutside, ReadAs, AwaitHealth, AwaitTerminal, AwaitDelivery
<1>2. ~Ended
  BY DEF ReadOutside, ReadAs, AwaitHealth, AwaitTerminal, AwaitDelivery, AnonymousApiStatuses,
       AnonymousStatuses, FetchArchive, CountDeliveries, SearchMailpit, Doing
<1>3. {"200", "201", "401", "403", "404", "alice", "bob"} \subseteq Codes /\ {} \in SUBSET Requests
  BY AnswersTyped
<1>4. CASE ReadOutside
  <2>1. AnonymousApiStatuses \/ AnonymousStatuses =>
          \E answer \in {"201", "401", "200", "403"} : See(answer, 0, None, {})
    BY AnswersTyped DEF AnonymousApiStatuses, AnonymousStatuses, If
  <2>2. FetchArchive => \E n \in Nat : See("200", n, None, {})
    BY DEF FetchArchive, If, EXPECTED_FRAMES
  <2>3. CountDeliveries \/ SearchMailpit =>
          \E answer \in {"200", "alice", "bob"}, n \in Nat : See(answer, n, op.of, {})
    BY DEF CountDeliveries, SearchMailpit, If
  <2>4. CountDeliveries \/ SearchMailpit => op.of \in Requests
    BY <1>2, CallNames, AnswersTyped DEF CountDeliveries, SearchMailpit, Doing, OfOutcome
  <2>. QED BY <1>1, <1>2, <1>3, <1>4, <2>1, <2>2, <2>3, <2>4, SeeTyped DEF ReadOutside
<1>5. CASE ReadAs
  <2>1. OldCreateAs \/ DownloadAs => \E answer \in {"200", "201", "404"} : See(answer, 0, None, {})
    BY DEF OldCreateAs, DownloadAs, If
  <2>2. TotalAs => \E n \in Nat : See("200", n, None, {})
    <3>1. Len(created["alice"]) \in Nat
      BY DEF TypeOK, Users
    <3>. QED BY <3>1 DEF TotalAs
  <2>3. ReadRequestAs =>
          \E answer \in {"200", "404"}, id \in {None, op.of, "strangers"} : See(answer, 0, id, {})
    BY DEF ReadRequestAs, If
  <2>4. ReadRequestAs => op.of \in Requests
    BY <1>2, CallNames, AnswersTyped DEF ReadRequestAs, Doing, OfUpload
  <2>. QED BY <1>1, <1>2, <1>3, <1>5, <2>1, <2>2, <2>3, <2>4, SeeTyped, AnswersTyped DEF ReadAs
<1>6. CASE AwaitHealth
  BY <1>1, <1>2, <1>3, <1>6, SeeTyped DEF AwaitHealth
<1>7. CASE AwaitTerminal \/ AwaitDelivery
  <2>1. op.of \in Awaited /\ op.of \in Requests
    BY <1>2, <1>7, CallNames, AnswersTyped DEF AwaitTerminal, AwaitDelivery, Doing, OfOutcome
  <2>2. request[op.of] \in Codes /\ ArchiveKey(op.of) \in SUBSET Requests
    BY <2>1, AnswersTyped
  <2>3. \E id \in {op.of, "strangers"}, keys \in {{}, ArchiveKey(op.of)} : See(request[op.of], 0, id, keys)
    BY <1>7 DEF AwaitTerminal, AwaitDelivery, If
  <2>. QED BY <1>1, <1>2, <1>3, <2>1, <2>2, <2>3, SeeTyped, AnswersTyped
<1>. QED BY <1>4, <1>5, <1>6, <1>7

\* The ids of a page are requests of the list.
LEMMA PageTyped ==
  ASSUME NEW list \in Seq(Requests), NEW page \in Nat \ {0}
  PROVE  PageOf(list, page) \in SUBSET Requests
<1>1. Len(list) \in Nat /\ \A k \in 1 .. Len(list) : list[Len(list) + 1 - k] \in Requests
  OBVIOUS
<1>. QED BY <1>1 DEF PageOf

\* A page of a listing keeps them.
LEMMA ListPageTyped ==
  ASSUME TypeOK, ListPage
  PROVE  RunTyped' /\ RestTyped'
<1> DEFINE list == ListOf(op.by)
           items == PageOf(list, listing.page)
           ids == listing.ids \cup items
           read == listing.read + Cardinality(items)
<1>1. ~Ended /\ op.by \in Users
  BY CallNames DEF ListPage, Doing
<1>2. listing.page \in Nat \ {0} /\ listing.ids \in SUBSET Requests /\ listing.read \in Nat
  BY DEF TypeOK, Listing
<1>3. list \in Seq(Requests)
  BY <1>1, ConcatProperties DEF ListOf, TypeOK, Users
<1>4. ids \in SUBSET Requests /\ read \in Nat
  <2>1. items \in SUBSET Requests
    BY <1>2, <1>3, PageTyped
  <2>2. Cardinality(items) \in Nat
    BY <2>1, RequestsFinite
  <2>. QED BY <1>2, <2>1, <2>2
<1>5. \/ \E answer \in {"exposed", "200"} : See(answer, read, None, ids)
      \/ /\ listing' = [page |-> listing.page + 1, ids |-> ids, read |-> read]
         /\ phase' = "first" /\ UNCHANGED <<at, late, ctx, problem>>
  BY DEF ListPage, If
<1>6. RestTyped'
  BY RestKept DEF ListPage
<1>. HIDE DEF ids, read
<1>7. CASE \E answer \in {"exposed", "200"} : See(answer, read, None, ids)
  BY <1>1, <1>4, <1>6, <1>7, SeeTyped, AnswersTyped
<1>8. CASE /\ listing' = [page |-> listing.page + 1, ids |-> ids, read |-> read]
           /\ phase' = "first" /\ UNCHANGED <<at, late, ctx, problem>>
  <2>1. listing' \in Listing
    BY <1>2, <1>4, <1>8 DEF Listing
  <2>. QED BY <1>6, <1>8, <2>1 DEF TypeOK, RunTyped
<1>. QED BY <1>5, <1>7, <1>8

\* The remaining calls without a pod keep them.
LEMMA CallsTyped ==
  ASSUME TypeOK, JustCheck \/ Upload \/ AwaitDownload \/ GetToken \/ Unauthorized \/ RefreshToken \/ GiveUp
  PROVE  RunTyped' /\ RestTyped'
<1>1. CASE JustCheck
  <2>1. ~Ended /\ ctx \in [Steps -> Seq(Observation)]
    BY <1>1 DEF JustCheck, Doing, TypeOK
  <2>. QED BY <1>1, <2>1, FinishTyped, RestKept DEF JustCheck, RunTyped
<1>2. CASE Upload
  <2>1. ~Ended /\ op.of \in Uploads
    BY <1>2, CallNames DEF Upload, Doing, OfUpload
  <2>2. uploads' \in [Uploads -> {None, "open", "confirmed", "gone"}]
    BY <1>2, <2>1 DEF Upload, TypeOK
  <2>3. RunTyped'
    BY <1>2, <2>1, SeeTyped, AnswersTyped DEF Upload
  <2>. QED BY <1>2, <2>2, <2>3 DEF Upload, TypeOK, RestTyped, podVars, tokenVars
<1>3. CASE AwaitDownload
  <2>1. ~Ended /\ op.of \in Requests
    BY <1>3, CallNames, AnswersTyped DEF AwaitDownload, Doing, OfOutcome
  <2>2. \/ \E keys \in {{"extra"}, ArchiveKey(op.of)} : See("200", 0, None, keys)
        \/ Move("first")
    BY <1>3 DEF AwaitDownload, If
  <2>3. {{"extra"}, ArchiveKey(op.of)} \subseteq SUBSET Requests
    BY <2>1, AnswersTyped
  <2>. QED BY <1>3, <2>1, <2>2, <2>3, SeeTyped, MoveTyped, AnswersTyped, RestKept DEF AwaitDownload
<1>4. CASE GetToken
  <2>1. token' \in [Users -> {None, "valid", "expired"}]
    BY <1>4 DEF GetToken, TypeOK
  <2>. QED BY <1>4, <2>1 DEF GetToken, TypeOK, RunTyped, RestTyped, runVars, podVars, serverVars
<1>5. CASE Unauthorized
  <2>1. Move("refresh") \/ Fail("refusedTwice")
    BY <1>5 DEF Unauthorized
  <2>. QED BY <1>5, <2>1, MoveTyped, FailTyped, RestKept DEF Unauthorized
<1>6. CASE RefreshToken
  <2>1. token' \in [Users -> {None, "valid", "expired"}]
    BY <1>6 DEF RefreshToken, TypeOK
  <2>2. RunTyped'
    BY <1>6, MoveTyped DEF RefreshToken
  <2>. QED BY <1>6, <2>1, <2>2 DEF RefreshToken, TypeOK, RestTyped, podVars, serverVars
<1>7. CASE GiveUp
  BY <1>7, FailTyped, RestKept DEF GiveUp
<1>. QED BY <1>1, <1>2, <1>3, <1>4, <1>5, <1>6, <1>7

\* What a bucket observation reads is typed.
LEMMA ObservedTyped ==
  ASSUME TypeOK, ~Ended, op.call \in Bucket
  PROVE  Observing \in [Steps -> Seq(Observation)]
<1>1. Observed \in Observation
  <2>1. CASE op.call = "lifecycle"
    <3>1. If("lifecycleLost", "other", "owned") \in Codes
      BY AnswersTyped
    <3>2. {} \in SUBSET Requests
      OBVIOUS
    <3>. QED BY <2>1, <3>1, <3>2 DEF Observed, Observation
  <2>2. CASE op.call = "listArchives"
    <3>1. op.of \in Requests
      BY <2>2, CallNames, AnswersTyped DEF OfOutcome
    <3>2. Archives(op.of) \in SUBSET Requests /\ Cardinality(Archives(op.of)) \in Nat
      BY <3>1, AnswersTyped, RequestsFinite
    <3>3. "200" \in Codes
      BY AnswersTyped
    <3>. QED BY <2>2, <3>1, <3>2, <3>3 DEF Observed, Observation
  <2>. QED BY <2>1, <2>2 DEF Bucket
<1>. QED BY <1>1, AppendProperties DEF Observing, TypeOK

\* The steps of the one-shot pod keep the types.
LEMMA PodTyped ==
  ASSUME TypeOK, PodInv, CreatePod \/ CreatePodUnreported \/ SeePod \/ DeletePod
  PROVE  RunTyped' /\ RestTyped'
<1>1. pod' \in {None, "pending", "succeeded", "failed"} /\ leftover' \in BOOLEAN
  BY DEF CreatePod, CreatePodUnreported, SeePod, DeletePod, podVars, TypeOK
<1>2. RestTyped'
  BY <1>1 DEF CreatePod, CreatePodUnreported, SeePod, DeletePod, TypeOK, RestTyped, tokenVars, serverVars
<1>3. CASE CreatePod \/ CreatePodUnreported
  <2>1. Move("waiting") \/ Fail("call")
    BY <1>3 DEF CreatePod, CreatePodUnreported
  <2>. QED BY <1>2, <2>1, MoveTyped, FailTyped
<1>4. CASE SeePod
  <2>1. ~Ended /\ op.call \in Bucket
    BY <1>4 DEF SeePod, PodInv, PodPhases
  <2>2. \/ ctx' = Observing /\ phase' = "delete" /\ UNCHANGED <<at, late, listing, problem>>
        \/ Move("giveUp")
    BY <1>4 DEF SeePod
  <2>. QED BY <1>2, <2>1, <2>2, ObservedTyped, MoveTyped DEF TypeOK, RunTyped
<1>5. CASE DeletePod
  <2>1. ~Ended /\ ctx \in [Steps -> Seq(Observation)] /\ (Finish(ctx) \/ Fail("pod"))
    BY <1>5 DEF DeletePod, TypeOK
  <2>. QED BY <1>2, <2>1, FinishTyped, FailTyped DEF RunTyped
<1>. QED BY <1>3, <1>4, <1>5

\* The platform's own steps leave the run as it is.
LEMMA PlatformTyped ==
  ASSUME TypeOK, Platform
  PROVE  RunTyped' /\ RestTyped'
<1>1. UNCHANGED runVars
  BY DEF Platform, ApiStarts, StrangerConfirms, PodEnds, Settle, Notify, TokenExpires
<1>2. RunTyped'
  BY <1>1 DEF TypeOK, RunTyped, runVars
<1>3. CASE ApiStarts
  BY <1>2, <1>3 DEF ApiStarts, TypeOK, RestTyped, podVars, tokenVars
<1>4. CASE StrangerConfirms
  <2>1. /\ created' \in [Users -> Seq(Requests)]
        /\ request' \in [Requests -> {None, "inFlight"} \cup TERMINAL]
    BY <1>4, CreatesTyped, AnswersTyped DEF StrangerConfirms, Users
  <2>. QED BY <1>2, <1>4, <2>1 DEF StrangerConfirms, TypeOK, RestTyped, podVars, tokenVars
<1>5. CASE PodEnds
  BY <1>2, <1>5 DEF PodEnds, TypeOK, RestTyped, tokenVars, serverVars
<1>6. ASSUME NEW r \in Awaited, Settle(r)
      PROVE  RestTyped'
  <2>1. Fate(r) \in TERMINAL
    BY DEF Fate, Awaited, If, TERMINAL
  <2>2. request' \in [Requests -> {None, "inFlight"} \cup TERMINAL]
    BY <1>6, <2>1 DEF Settle, TypeOK
  <2>. QED BY <1>6, <2>2 DEF Settle, TypeOK, RestTyped, podVars, tokenVars
<1>7. ASSUME NEW r \in Awaited, Notify(r)
      PROVE  RestTyped'
  <2>1. \E s \in {"recorded", "error", "sent"} : delivery' = [delivery EXCEPT ![r] = s]
    BY <1>7 DEF Notify, If
  <2>2. delivery' \in [Awaited -> {None, "recorded", "sent", "error"}]
    BY <2>1 DEF TypeOK
  <2>. QED BY <1>7, <2>2 DEF Notify, TypeOK, RestTyped, podVars, tokenVars
<1>8. ASSUME NEW user \in Users, TokenExpires(user)
      PROVE  RestTyped'
  <2>1. token' \in [Users -> {None, "valid", "expired"}]
    BY <1>8 DEF TokenExpires, TypeOK
  <2>2. expiries' \in 0 .. MaxExpiries
    BY <1>8, ConstantsAssumption DEF TokenExpires, TypeOK
  <2>. QED BY <1>8, <2>1, <2>2 DEF TokenExpires, TypeOK, RestTyped, podVars, serverVars
<1>. QED BY <1>2, <1>3, <1>4, <1>5, <1>6, <1>7, <1>8 DEF Platform

\* The two halves of TypeOK make it, after a step too.
LEMMA TypesTogether ==
  ASSUME RunTyped', RestTyped'
  PROVE  TypeOK'
BY DEF TypeOK, RunTyped, RestTyped

\* Every step keeps the types.
LEMMA NextTyped ==
  ASSUME TypeOK, PodInv, [Next]_vars
  PROVE  TypeOK'
<1>1. CASE SmokeStep
  <2>1. CASE Confirm BY <2>1, ConfirmTyped, TypesTogether
  <2>2. CASE ListPage BY <2>2, ListPageTyped, TypesTogether
  <2>3. CASE ReadOutside \/ ReadAs \/ AwaitHealth \/ AwaitTerminal \/ AwaitDelivery
    BY <2>3, ReadsTyped, TypesTogether
  <2>4. CASE \/ JustCheck \/ Upload \/ AwaitDownload \/ GetToken \/ Unauthorized
             \/ RefreshToken \/ GiveUp
    BY <2>4, CallsTyped, TypesTogether
  <2>5. CASE CreatePod \/ SeePod \/ DeletePod BY <2>5, PodTyped, TypesTogether
  <2>. QED BY <1>1, <2>1, <2>2, <2>3, <2>4, <2>5 DEF SmokeStep
<1>2. CASE CallFails BY <1>2, FailTyped, RestKept, TypesTogether DEF CallFails
<1>3. CASE CreatePodUnreported BY <1>3, PodTyped, TypesTogether
<1>4. CASE Deadline
  <2>1. RestTyped'
    BY <1>4, RestKept DEF Deadline
  <2>2. RunTyped'
    BY <1>4 DEF Deadline, TypeOK, RunTyped
  <2>. QED BY <2>1, <2>2, TypesTogether
<1>5. CASE Platform BY <1>5, PlatformTyped, TypesTogether
<1>6. CASE UNCHANGED vars
  BY <1>6 DEF vars, runVars, podVars, tokenVars, serverVars, TypeOK
<1>. QED BY <1>1, <1>2, <1>3, <1>4, <1>5, <1>6 DEF Next

\* The types hold at the start.
LEMMA InitTyped == Init => TypeOK
<1> SUFFICES ASSUME Init PROVE TypeOK
  OBVIOUS
<1>1. at \in 1 .. Len(Program) + 1
  BY ProgramPosed DEF Init
<1>2. listing \in Listing
  BY DEF Init, NewListing, Listing
<1>3. ctx \in [Steps -> Seq(Observation)] /\ created \in [Users -> Seq(Requests)]
  BY DEF Init
<1>4. expiries \in 0 .. MaxExpiries
  BY ConstantsAssumption DEF Init
<1>5. RunTyped
  BY <1>1, <1>2, <1>3 DEF Init, RunTyped
<1>6. RestTyped
  BY <1>3, <1>4 DEF Init, RestTyped
<1>. QED BY <1>5, <1>6, TypesSplit

\* The run's state, what it has read and the platform stay in their types.
THEOREM TypeCorrect == Spec => []TypeOK
<1>. QED BY InitTyped, InitPod, NextTyped, NextPod, PTL DEF Spec

-----------------------------------------------------------------------------
(* What the calls tell and what the platform holds, for every fault: the   *)
(* smoke blames nothing that is sound and passes nothing that has a fault. *)

\* Where the calls of a step begin in Program (ProgramTable).
Begin ==
  [apiHealth |-> 1, anonymousRefused |-> 2, oldCreateGone |-> 3, uploadConfirmed |-> 4,
   confirmationReplay |-> 8, secondKeyReplays |-> 11, keyReuseConflict |-> 14,
   invalidPartsRejected |-> 16, downloadIssued |-> 19, anonymousAccess |-> 22,
   bucketLifecycle |-> 23, videoCompleted |-> 24, keyScope |-> 25, archiveObject |-> 26,
   rejection |-> 27, archiveCount |-> 28, noArchive |-> 29, videoDelivery |-> 30,
   deliverySentence |-> 31, singleDelivery |-> 32, failureEmail |-> 33,
   processingFailure |-> 34, failureArchive |-> 37, failureDelivery |-> 38,
   processingFailureEmail |-> 40, failureReason |-> 41, bobRequestCreated |-> 42,
   listsDisjoint |-> 44, crossRead |-> 46, crossDownload |-> 47, noInternalFields |-> 48]

\* The step of a call.
StepAt(i) == Program[i].step

\* How a request of alice's ends on a platform with fault f.
Ends(f, r) ==
  IF r = "video" THEN IF f = "videoFails" THEN "PROCESSAMENTO_FALHOU" ELSE "COMPLETED"
  ELSE IF r = "nonVideo" THEN IF f = "nonVideoAccepted" THEN "COMPLETED" ELSE "FORMATO_INVALIDO"
  ELSE IF f = "corruptedMiscoded" THEN "FORMATO_INVALIDO" ELSE "PROCESSAMENTO_FALHOU"

\* What the call at position i returns on a platform with fault f: its status, a
\* number, the request it is about, and a set of requests.
SaysStatus(f, i, answer) ==
  /\ i \in {1, 8, 9, 10, 11, 12, 13, 19, 20, 41} => answer = "200"
  /\ i \in {4, 5, 6, 7, 14, 16, 34, 35, 42, 43} => answer = "201"
  /\ i = 2 => answer = IF f = "anonymousAccepted" THEN "201" ELSE "401"
  /\ i = 3 => answer = IF f = "oldCreateLives" THEN "201" ELSE "404"
  /\ i = 15 => answer = IF f = "keyReused" THEN "201" ELSE "409"
  /\ i = 17 => answer = IF f = "invalidAccepted" THEN "201" ELSE "400"
  /\ i = 18 => answer = IF f = "invalidAccepted" THEN "200"
                        ELSE IF f = "invalidKept" THEN "400" ELSE "404"
  /\ i = 22 => answer = IF f = "publicBucket" THEN "200" ELSE "403"
  /\ i = 23 => answer = IF f = "lifecycleLost" THEN "other" ELSE "owned"
  /\ i = 24 => answer = "COMPLETED"
  /\ i \in {27, 31} => answer = Ends(f, "nonVideo")
  /\ i \in {33, 40} => answer = IF f = "wrongRecipient" THEN "bob" ELSE "alice"
  /\ i \in {36, 38} => answer = Ends(f, "corrupted")
  /\ i = 44 => answer = IF f = "internalFields" THEN "exposed" ELSE "200"
  /\ i = 46 => answer = IF f = "readLeaks" THEN "200" ELSE "404"
  /\ i = 47 => answer = IF f = "downloadLeaks" THEN "200" ELSE "404"
SaysNumber(f, i, n) ==
  /\ i = 20 => n = IF f = "shortArchive" THEN EXPECTED_FRAMES - 1 ELSE EXPECTED_FRAMES
  /\ i = 26 => IF f = "archiveTwice" THEN n = 2 ELSE f # "unscopedKey" => n = 1
  /\ i \in {29, 37} => n = IF f = "archiveLeft" THEN 1 ELSE 0
  /\ i \in {32, 39} => n = IF f = "deliveredTwice" THEN 2 ELSE 1
  /\ i \in {33, 40} => n = IF f = "emailLost" THEN 0 ELSE IF f = "emailedTwice" THEN 2 ELSE 1
SaysRequest(f, i, id) ==
  /\ i \in {9, 12, 26, 30} => id = "video"
  /\ i \in {21, 24} => id = IF f = "mixedRecords" THEN "strangers" ELSE "video"
  /\ i = 27 => id = IF f = "mixedRecords" THEN "strangers" ELSE "nonVideo"
  /\ i = 31 => id = "nonVideo"
  /\ i = 36 => id = IF f = "mixedRecords" THEN "strangers" ELSE "corrupted"
  /\ i = 38 => id = "corrupted"
  /\ i = 41 => id = IF f = "readMixed" THEN "strangers" ELSE "corrupted"
SaysKeys(f, i, keys) ==
  /\ i = 19 /\ f = "foreignArchiveIssued" => keys = {"extra"}
  /\ i \in {19, 21, 24} /\ (i = 19 => f # "foreignArchiveIssued") =>
       keys = IF f = "unscopedKey" THEN {"strangers"} ELSE {"video"}
  /\ i = 26 /\ f = None => keys = {"video"}
  /\ i = 44 => Awaited \subseteq keys /\ "bobs" \notin keys
  /\ i = 45 => "bobs" \in keys /\ IF f = "listLeaks" THEN "video" \in keys ELSE keys = {"bobs"}
Says(f, i, o) ==
  /\ SaysStatus(f, i, o.answer) /\ SaysNumber(f, i, o.n)
  /\ SaysRequest(f, i, o.id) /\ SaysKeys(f, i, o.keys)

\* The observations of a step are those of the calls made, in order; a step that
\* has not begun has none, and what a later check reads is complete.
SeenInv ==
  /\ \A s \in Steps : Begin[s] > at => ctx[s] = <<>>
  /\ at <= 48 => Len(ctx[StepAt(at)]) = (at - Begin[StepAt(at)]) + (IF phase = "delete" THEN 1 ELSE 0)
  /\ \A s \in Steps : \A k \in 1 .. Len(ctx[s]) : Says(fault, Begin[s] + k - 1, ctx[s][k])
  /\ at > 21 => Len(ctx["downloadIssued"]) = 3
  /\ at > 24 => Len(ctx["videoCompleted"]) = 1
  /\ at > 45 => Len(ctx["listsDisjoint"]) = 2

\* Where the upload of a video is sent in Program; its confirmation is next.
Sent == [video |-> 4, nonVideo |-> 6, second |-> 14, invalid |-> 16, corrupted |-> 34,
         bobs |-> 42]

\* A video is uploaded once; what was confirmed is a request from then on.
UploadsInv ==
  /\ \A u \in Uploads : at <= Sent[u] => uploads[u] = None
  /\ \A u \in Uploads : at = Sent[u] + 1 => uploads[u] = "open"
  /\ \A u \in Uploads \ {"second", "invalid"} : at > Sent[u] + 1 => uploads[u] = "confirmed"
  /\ at = 18 => uploads["invalid"] = IF fault = "invalidAccepted" THEN "confirmed"
                                     ELSE IF fault = "invalidKept" THEN "open" ELSE "gone"
  /\ \A u \in Uploads : uploads[u] # "confirmed" => request[u] = None

\* A request ends as the platform's fault has it, and only then is notified; a
\* poll that was answered stays true.
RequestsInv ==
  /\ \A r \in Awaited : request[r] \in {None, "inFlight", Ends(fault, r)}
  /\ \A r \in Awaited : delivery[r] # None => request[r] = Ends(fault, r)
  /\ \A r \in Awaited :
       delivery[r] \in {None, "recorded", IF fault = "emailLost" THEN "error" ELSE "sent"}
  /\ at > 19 => request["video"] = "COMPLETED"
  /\ at > 31 => delivery["nonVideo"] \notin {None, "recorded"}
  /\ at > 38 => delivery["corrupted"] \notin {None, "recorded"}

\* Who owns what: alice the requests she confirmed, bob his own.
OwnersInv ==
  /\ \A u \in Awaited : at > Sent[u] + 1 => u \in Range(created["alice"])
  /\ "bobs" \notin Range(created["alice"])
  /\ created["bob"] = IF at > 43 THEN <<"bobs">> ELSE <<>>

\* The platform.
ServerInv == UploadsInv /\ RequestsInv /\ OwnersInv

\* The total read before a replay is alice's until another client adds to it, or
\* until a faulty replay does.
TotalStands(n) ==
  n <= Len(created["alice"]) /\ (request["strangers"] = None => n = Len(created["alice"]))
ReplayStands(n, faulty) ==
  IF fault = faulty THEN n < Len(created["alice"])
  ELSE request["strangers"] = None => n = Len(created["alice"])
TotalsInv ==
  /\ at = 9 => TotalStands(ctx["confirmationReplay"][1].n)
  /\ at = 10 => ReplayStands(ctx["confirmationReplay"][1].n, "replayCreates")
  /\ at = 12 => TotalStands(ctx["secondKeyReplays"][1].n)
  /\ at = 13 => ReplayStands(ctx["secondKeyReplays"][1].n, "secondKeyCreates")

\* The pages read so far hold every item of their ranks, newest first, but for a
\* stranger's that was added meanwhile; no more was read than they hold.
ReadSoFar(list) ==
  /\ listing.ids \subseteq Range(list)
  /\ listing.read <= (listing.page - 1) * PageSize
  /\ \A k \in 1 .. Len(list) : k <= (listing.page - 1) * PageSize =>
       list[Len(list) + 1 - k] \in listing.ids \cup {"strangers"}
ListInv ==
  IF at \in {44, 45} THEN ReadSoFar(ListOf(IF at = 44 THEN "alice" ELSE "bob"))
  ELSE listing = NewListing

\* The last call of the step that tells a fault; the poll that never ends well
\* for a video that fails.
CaughtAt ==
  [anonymousAccepted |-> 2, oldCreateLives |-> 3, replayCreates |-> 10, secondKeyCreates |-> 13,
   keyReused |-> 15, invalidAccepted |-> 18, invalidKept |-> 18, videoFails |-> 19,
   foreignArchiveIssued |-> 21, mixedRecords |-> 21, publicBucket |-> 22, lifecycleLost |-> 23,
   unscopedKey |-> 25, archiveTwice |-> 26, nonVideoAccepted |-> 27, shortArchive |-> 28,
   archiveLeft |-> 29, deliveredTwice |-> 32, emailLost |-> 33, emailedTwice |-> 33,
   wrongRecipient |-> 33, corruptedMiscoded |-> 36, readMixed |-> 41, listLeaks |-> 45,
   readLeaks |-> 46, downloadLeaks |-> 47, internalFields |-> 48]
CaughtInv == fault # None => at <= CaughtAt[fault]

\* While the run goes on what it saw is true; a check that fails is right to, and
\* no fault goes by.
Truths == SeenInv /\ ServerInv /\ TotalsInv /\ ListInv
JudgeInv == (problem = None => Truths) /\ CaughtInv /\ NoFalseAlarm

\* The program, call by call.
LEMMA ProgramTable ==
  /\ Len(Program) = 48
  /\ Program[1] = Op("apiHealth", "health", Nobody, None)
  /\ Program[2] = Op("anonymousRefused", "anonymous", Nobody, None)
  /\ Program[3] = Op("oldCreateGone", "oldCreate", "alice", None)
  /\ Program[4] = Op("uploadConfirmed", "upload", "alice", "video")
  /\ Program[5] = Op("uploadConfirmed", "confirm", "alice", "video")
  /\ Program[6] = Op("uploadConfirmed", "upload", "alice", "nonVideo")
  /\ Program[7] = Op("uploadConfirmed", "confirm", "alice", "nonVideo")
  /\ Program[8] = Op("confirmationReplay", "total", "alice", None)
  /\ Program[9] = Op("confirmationReplay", "confirm", "alice", "video")
  /\ Program[10] = Op("confirmationReplay", "total", "alice", None)
  /\ Program[11] = Op("secondKeyReplays", "total", "alice", None)
  /\ Program[12] = Op("secondKeyReplays", "confirmOtherKey", "alice", "video")
  /\ Program[13] = Op("secondKeyReplays", "total", "alice", None)
  /\ Program[14] = Op("keyReuseConflict", "upload", "alice", "second")
  /\ Program[15] = Op("keyReuseConflict", "confirmSpentKey", "alice", "second")
  /\ Program[16] = Op("invalidPartsRejected", "upload", "alice", "invalid")
  /\ Program[17] = Op("invalidPartsRejected", "confirm", "alice", "invalid")
  /\ Program[18] = Op("invalidPartsRejected", "confirm", "alice", "invalid")
  /\ Program[19] = Op("downloadIssued", "download", "alice", "video")
  /\ Program[20] = Op("downloadIssued", "fetchArchive", Nobody, "video")
  /\ Program[21] = Op("downloadIssued", "terminal", Nobody, "video")
  /\ Program[22] = Op("anonymousAccess", "storageGet", Nobody, None)
  /\ Program[23] = Op("bucketLifecycle", "lifecycle", Nobody, None)
  /\ Program[24] = Op("videoCompleted", "terminal", Nobody, "video")
  /\ Program[25] = Op("keyScope", "check", Nobody, "video")
  /\ Program[26] = Op("archiveObject", "listArchives", Nobody, "video")
  /\ Program[27] = Op("rejection", "terminal", Nobody, "nonVideo")
  /\ Program[28] = Op("archiveCount", "check", Nobody, "video")
  /\ Program[29] = Op("noArchive", "listArchives", Nobody, "nonVideo")
  /\ Program[30] = Op("videoDelivery", "delivery", Nobody, "video")
  /\ Program[31] = Op("deliverySentence", "delivery", Nobody, "nonVideo")
  /\ Program[32] = Op("singleDelivery", "countDeliveries", Nobody, "nonVideo")
  /\ Program[33] = Op("failureEmail", "mailpit", Nobody, "nonVideo")
  /\ Program[34] = Op("processingFailure", "upload", "alice", "corrupted")
  /\ Program[35] = Op("processingFailure", "confirm", "alice", "corrupted")
  /\ Program[36] = Op("processingFailure", "terminal", Nobody, "corrupted")
  /\ Program[37] = Op("failureArchive", "listArchives", Nobody, "corrupted")
  /\ Program[38] = Op("failureDelivery", "delivery", Nobody, "corrupted")
  /\ Program[39] = Op("failureDelivery", "countDeliveries", Nobody, "corrupted")
  /\ Program[40] = Op("processingFailureEmail", "mailpit", Nobody, "corrupted")
  /\ Program[41] = Op("failureReason", "read", "alice", "corrupted")
  /\ Program[42] = Op("bobRequestCreated", "upload", "bob", "bobs")
  /\ Program[43] = Op("bobRequestCreated", "confirm", "bob", "bobs")
  /\ Program[44] = Op("listsDisjoint", "listAll", "alice", None)
  /\ Program[45] = Op("listsDisjoint", "listAll", "bob", None)
  /\ Program[46] = Op("crossRead", "read", "bob", "video")
  /\ Program[47] = Op("crossDownload", "readDownload", "bob", "video")
  /\ Program[48] = Op("noInternalFields", "check", Nobody, None)
BY DEF Program, CreationSteps, OutcomeSteps, FailureSteps, OwnerSteps,
       UploadAndConfirm, BetweenTotals
\* Where each kind of call stands, and by whom and about what the ones that
\* differ in it are.
LEMMA CallsAt ==
  ASSUME TypeOK, ~Ended
  PROVE  /\ at \in 1 .. 48 /\ op = Program[at]
         /\ op.call = "health" => at = 1
         /\ op.call = "anonymous" => at = 2
         /\ op.call = "oldCreate" => at = 3
         /\ op.call = "upload" => at \in {4, 6, 14, 16, 34, 42} /\ at = Sent[op.of]
         /\ op.call = "confirm" => at \in {5, 7, 9, 17, 18, 35, 43}
         /\ op.call = "total" => at \in {8, 10, 11, 13}
         /\ op.call = "confirmOtherKey" => at = 12
         /\ op.call = "confirmSpentKey" => at = 15
         /\ op.call = "download" => at = 19
         /\ op.call = "fetchArchive" => at = 20
         /\ op.call = "terminal" => at \in {21, 24, 27, 36}
         /\ op.call = "storageGet" => at = 22
         /\ op.call = "lifecycle" => at = 23
         /\ op.call = "check" => at \in {25, 28, 48}
         /\ op.call = "listArchives" => at \in {26, 29, 37}
         /\ op.call = "delivery" => at \in {30, 31, 38}
         /\ op.call = "countDeliveries" => at \in {32, 39}
         /\ op.call = "mailpit" => at \in {33, 40}
         /\ op.call = "read" => at \in {41, 46}
         /\ op.call = "listAll" => at \in {44, 45}
         /\ op.call = "readDownload" => at = 47
<1>1. at \in 1 .. 48 /\ op = Program[at]
  BY ProgramTable DEF TypeOK, Ended, Passed, op
<1>. QED BY <1>1, ProgramTable DEF Op, Sent

\* The calls of a step stand together, from its beginning on.
LEMMA ProgramDomain == DOMAIN Program = 1 .. 48
BY ProgramTable, ProgramPosed

\* Every position of the program belongs to a step.
LEMMA StepAtTyped == \A i \in 1 .. 48 : StepAt(i) \in Steps
BY ProgramDomain DEF Steps, StepAt

\* A step begins at its first call.
LEMMA BeginAt ==
  ASSUME NEW i \in 1 .. 48
  PROVE  Begin[StepAt(i)] \in 1 .. i
BY ProgramTable DEF Op, Begin, StepAt

\* Every step begins in the program.
LEMMA BeginTyped == \A s \in Steps : Begin[s] \in 1 .. 48
<1>1. \A s \in Steps : \E i \in 1 .. 48 : s = StepAt(i)
  BY ProgramDomain DEF Steps, StepAt
<1>2. ASSUME NEW i \in 1 .. 48 PROVE Begin[StepAt(i)] \in 1 .. 48
  BY BeginAt
<1>. QED BY <1>1, <1>2

\* A call belongs to the step of the one before it or begins another; a check
\* that observes nothing is a step of its own.
LEMMA NextStepAt ==
  ASSUME NEW i \in 1 .. 47
  PROVE  /\ StepAt(i + 1) = StepAt(i) \/ Begin[StepAt(i + 1)] = i + 1
         /\ Program[i].call = "check" => StepAt(i + 1) # StepAt(i)
BY ProgramTable DEF Op, Begin, StepAt

\* The steps that later checks read, and the two replays.
LEMMA ReadLaterAt ==
  /\ {"downloadIssued", "videoCompleted", "listsDisjoint", "confirmationReplay",
      "secondKeyReplays"} \subseteq Steps
  /\ \A i \in 1 .. 48 :
       /\ (StepAt(i) = "downloadIssued") <=> i \in 19 .. 21
       /\ (StepAt(i) = "videoCompleted") <=> i = 24
       /\ (StepAt(i) = "listsDisjoint") <=> i \in 44 .. 45
       /\ (StepAt(i) = "confirmationReplay") <=> i \in 8 .. 10
       /\ (StepAt(i) = "secondKeyReplays") <=> i \in 11 .. 13
<1>1. ASSUME NEW i \in 1 .. 48
      PROVE  /\ (StepAt(i) = "downloadIssued") <=> i \in 19 .. 21
             /\ (StepAt(i) = "videoCompleted") <=> i = 24
             /\ (StepAt(i) = "listsDisjoint") <=> i \in 44 .. 45
             /\ (StepAt(i) = "confirmationReplay") <=> i \in 8 .. 10
             /\ (StepAt(i) = "secondKeyReplays") <=> i \in 11 .. 13
  BY ProgramTable DEF Op, StepAt
<1>2. /\ StepAt(19) = "downloadIssued" /\ StepAt(24) = "videoCompleted"
      /\ StepAt(44) = "listsDisjoint" /\ StepAt(8) = "confirmationReplay"
      /\ StepAt(11) = "secondKeyReplays"
  BY ProgramTable DEF Op, StepAt
<1>. QED BY <1>1, <1>2, StepAtTyped

\* What a later check reads are calls of the program.
LEMMA ReadLaterCalls ==
  ASSUME NEW i \in 1 .. 48, StepAt(i) \in ReadLater
  PROVE  Program[i].call # "check"
BY ProgramTable DEF Op, StepAt, ReadLater

\* The observations a step has when its call at `at` is answered.
SeenWith(c) ==
  /\ c = [s \in Steps |-> c[s]]
  /\ \A s \in Steps : s # StepAt(at) => c[s] = ctx[s]
  /\ \A k \in 1 .. Len(c[StepAt(at)]) :
       Says(fault, Begin[StepAt(at)] + k - 1, c[StepAt(at)][k])
  /\ op.call # "check" => Len(c[StepAt(at)]) = at + 1 - Begin[StepAt(at)]

\* A call that is answered rightly leaves the observations as they are due.
LEMMA FinishSeen ==
  ASSUME TypeOK, ~Ended, SeenInv, UNCHANGED fault, NEW c, SeenWith(c), Finish(c), problem' = None
  PROVE  SeenInv' /\ at' = at + 1 /\ phase' = "first" /\ listing' = NewListing
<1> DEFINE here == StepAt(at)
           last == at = 48 \/ StepAt(at + 1) # here
<1>0. op = Program[at] /\ op.step = here
  BY CallsAt DEF StepAt
<1>1. at \in 1 .. 48 /\ here \in Steps /\ Begin[here] \in 1 .. at
  BY CallsAt, StepAtTyped, BeginAt
<1>2. at' = at + 1 /\ phase' = "first" /\ listing' = NewListing
  BY DEF Finish, Ended, None
<1>3. ctx' = IF last /\ here \notin ReadLater THEN [c EXCEPT ![here] = <<>>] ELSE c
  BY <1>0, ProgramTable DEF Finish, StepAt
<1>4. /\ SeenWith(c)!1 /\ SeenWith(c)!2 /\ SeenWith(c)!3
      /\ op.call # "check" => Len(c[here]) = at + 1 - Begin[here]
  BY DEF SeenWith
<1>5. /\ \A s \in Steps : Begin[s] > at => ctx[s] = <<>>
      /\ \A s \in Steps : \A k \in 1 .. Len(ctx[s]) : Says(fault, Begin[s] + k - 1, ctx[s][k])
      /\ at > 21 => Len(ctx["downloadIssued"]) = 3
      /\ at > 24 => Len(ctx["videoCompleted"]) = 1
      /\ at > 45 => Len(ctx["listsDisjoint"]) = 2
  BY DEF SeenInv
<1> HIDE DEF here
<1>6. /\ \A s \in Steps : s # here => ctx'[s] = ctx[s]
      /\ ctx'[here] = IF last /\ here \notin ReadLater THEN <<>> ELSE c[here]
  BY <1>1, <1>3, <1>4 DEF here
<1> HIDE DEF last
<1>7. \A s \in Steps : Begin[s] > at' => ctx'[s] = <<>>
  <2> SUFFICES ASSUME NEW s \in Steps, Begin[s] > at + 1 PROVE ctx'[s] = <<>>
    BY <1>2
  <2>1. s # here /\ Begin[s] > at
    BY <1>1, BeginTyped
  <2>. QED BY <1>5, <1>6, <2>1
<1>8. ASSUME NEW s \in Steps, NEW k \in 1 .. Len(ctx'[s])
      PROVE  Says(fault', Begin[s] + k - 1, ctx'[s][k])
  <2>1. CASE s # here
    BY <1>5, <1>6, <1>8, <2>1
  <2>2. CASE s = here
    BY <1>4, <1>6, <1>8, <2>2 DEF here
  <2>. QED BY <2>1, <2>2
<1>9. ASSUME at' <= 48
      PROVE  Len(ctx'[StepAt(at')]) = at' - Begin[StepAt(at')]
  <2>1. at \in 1 .. 47
    BY <1>1, <1>2, <1>9
  <2>2. CASE StepAt(at + 1) = here
    <3>1. Program[at].call # "check"
      BY <2>1, <2>2, NextStepAt DEF here
    <3>2. ~last /\ op.call # "check"
      BY <1>0, <2>1, <2>2, <3>1 DEF last
    <3>3. ctx'[here] = c[here] /\ Len(c[here]) = at + 1 - Begin[here]
      BY <1>4, <1>6, <3>2
    <3>4. StepAt(at') = here
      BY <1>2, <2>2
    <3>. QED BY <1>1, <1>2, <3>3, <3>4
  <2>3. CASE StepAt(at + 1) # here
    <3>1. Begin[StepAt(at + 1)] = at + 1
      BY <2>1, <2>3, NextStepAt DEF here
    <3>2. StepAt(at + 1) \in Steps
      BY <2>1, StepAtTyped
    <3>3. ctx'[StepAt(at + 1)] = <<>>
      BY <2>1, <2>3, <1>5, <1>6, <3>1, <3>2
    <3>. QED BY <1>2, <2>1, <3>1, <3>3
  <2>. QED BY <2>2, <2>3
<1>10. here \in ReadLater => ctx'[here] = c[here] /\ Len(c[here]) = at + 1 - Begin[here]
  <2>1. here \in ReadLater => op.call # "check"
    BY <1>0, <1>1, ReadLaterCalls DEF here
  <2>. QED BY <1>4, <1>6, <2>1
<1>11. at' > 21 => Len(ctx'["downloadIssued"]) = 3
  <2>1. CASE at > 21
    <3>1. here # "downloadIssued" /\ "downloadIssued" \in Steps
      BY <1>1, <2>1, ReadLaterAt DEF here
    <3>. QED BY <1>5, <1>6, <2>1, <3>1
  <2>2. CASE at = 21
    <3>1. here = "downloadIssued"
      BY <2>2, ReadLaterAt DEF here
    <3>. QED BY <1>10, <2>2, <3>1 DEF ReadLater, Begin
  <2>. QED BY <1>1, <1>2, <2>1, <2>2
<1>12. at' > 24 => Len(ctx'["videoCompleted"]) = 1
  <2>1. CASE at > 24
    <3>1. here # "videoCompleted" /\ "videoCompleted" \in Steps
      BY <1>1, <2>1, ReadLaterAt DEF here
    <3>. QED BY <1>5, <1>6, <2>1, <3>1
  <2>2. CASE at = 24
    <3>1. here = "videoCompleted"
      BY <2>2, ReadLaterAt DEF here
    <3>. QED BY <1>10, <2>2, <3>1 DEF ReadLater, Begin
  <2>. QED BY <1>1, <1>2, <2>1, <2>2
<1>13. at' > 45 => Len(ctx'["listsDisjoint"]) = 2
  <2>1. CASE at > 45
    <3>1. here # "listsDisjoint" /\ "listsDisjoint" \in Steps
      BY <1>1, <2>1, ReadLaterAt DEF here
    <3>. QED BY <1>5, <1>6, <2>1, <3>1
  <2>2. CASE at = 45
    <3>1. here = "listsDisjoint"
      BY <2>2, ReadLaterAt DEF here
    <3>. QED BY <1>10, <2>2, <3>1 DEF ReadLater, Begin
  <2>. QED BY <1>1, <1>2, <2>1, <2>2
<1>. QED
  <2>1. StepAt(at)' = StepAt(at')
    BY DEF StepAt
  <2>. QED BY <1>2, <1>7, <1>8, <1>9, <1>11, <1>12, <1>13, <2>1 DEF SeenInv


\* What a call's answer adds to the observations of its step: it comes last, and
\* a total is that of alice's requests.
Sees(c) ==
  /\ SeenWith(c)
  /\ DOMAIN c[StepAt(at)] = 1 .. Len(c[StepAt(at)])
  /\ \A k \in 1 .. Len(ctx[StepAt(at)]) : c[StepAt(at)][k] = ctx[StepAt(at)][k]
  /\ op.call = "total" =>
       c[StepAt(at)][at + 1 - Begin[StepAt(at)]].n = Len(created["alice"])

\* A sequence with one more item, of whatever kind.
LEMMA AppendAny ==
  ASSUME NEW S, NEW s \in Seq(S), NEW e
  PROVE  /\ Len(s) \in Nat /\ Len(Append(s, e)) = Len(s) + 1
         /\ DOMAIN Append(s, e) = 1 .. Len(Append(s, e))
         /\ \A k \in 1 .. Len(s) : Append(s, e)[k] = s[k]
         /\ Append(s, e)[Len(s) + 1] = e
         /\ \A k \in 1 .. Len(Append(s, e)) : k \in 1 .. Len(s) \/ k = Len(s) + 1
<1>1. s \in Seq(S \cup {e}) /\ e \in S \cup {e}
  OBVIOUS
<1>. QED BY <1>1, AppendProperties

\* One more observation, of a call that is not a pod's being deleted.
LEMMA AddedSees ==
  ASSUME TypeOK, ~Ended, SeenInv, phase # "delete", NEW o, Says(fault, at, o),
         op.call = "total" => o.n = Len(created["alice"])
  PROVE  Sees([ctx EXCEPT ![op.step] = Append(@, o)])
<1> DEFINE here == StepAt(at)
           c == [ctx EXCEPT ![op.step] = Append(@, o)]
<1>1. op.step = here /\ at \in 1 .. 48 /\ here \in Steps /\ Begin[here] \in 1 .. at
  BY CallsAt, StepAtTyped, BeginAt DEF StepAt
<1>2. ctx[here] \in Seq(Observation)
  BY <1>1 DEF TypeOK
<1>2a. ctx = [s \in Steps |-> ctx[s]]
  BY DEF TypeOK
<1>3. Len(ctx[here]) = at - Begin[here]
  BY <1>1 DEF SeenInv
<1>4. \A k \in 1 .. Len(ctx[here]) : Says(fault, Begin[here] + k - 1, ctx[here][k])
  BY <1>1 DEF SeenInv
<1> HIDE DEF here
<1>5. /\ c = [s \in Steps |-> c[s]] /\ c[here] = Append(ctx[here], o)
      /\ \A s \in Steps : s # here => c[s] = ctx[s]
  BY <1>1, <1>2a
<1> HIDE DEF c
<1>6. /\ Len(ctx[here]) \in Nat /\ Len(c[here]) = Len(ctx[here]) + 1
      /\ DOMAIN c[here] = 1 .. Len(c[here])
      /\ \A k \in 1 .. Len(ctx[here]) : c[here][k] = ctx[here][k]
      /\ c[here][Len(ctx[here]) + 1] = o
      /\ \A k \in 1 .. Len(c[here]) : k \in 1 .. Len(ctx[here]) \/ k = Len(ctx[here]) + 1
  <2>1. c[here] = Append(ctx[here], o)
    BY <1>5
  <2>. QED BY <1>2, <2>1, AppendAny
<1>7. ASSUME NEW k \in 1 .. Len(c[here]) PROVE Says(fault, Begin[here] + k - 1, c[here][k])
  <2>1. CASE k \in 1 .. Len(ctx[here])
    BY <1>4, <1>6, <2>1
  <2>2. CASE k = Len(ctx[here]) + 1
    <3>1. Begin[here] + k - 1 = at
      BY <1>1, <1>3, <2>2
    <3>. QED BY <1>6, <2>2, <3>1
  <2>. QED BY <1>6, <2>1, <2>2
<1>8. Len(c[here]) = at + 1 - Begin[here] /\ at + 1 - Begin[here] = Len(ctx[here]) + 1
  BY <1>1, <1>3, <1>6
<1>9. SeenWith(c)
  BY <1>5, <1>7, <1>8 DEF SeenWith, here
<1>10. op.call = "total" => c[here][at + 1 - Begin[here]].n = Len(created["alice"])
  BY <1>6, <1>8
<1>. QED BY <1>6, <1>9, <1>10 DEF Sees, here, c

\* The answer of a call is seen for what it says.
LEMMA SeeSees ==
  ASSUME TypeOK, PodInv, ~Ended, SeenInv, op.call \notin Bucket,
         NEW answer, NEW n, NEW id, NEW keys, See(answer, n, id, keys),
         SaysStatus(fault, at, answer), SaysNumber(fault, at, n),
         SaysRequest(fault, at, id), SaysKeys(fault, at, keys),
         op.call = "total" => n = Len(created["alice"])
  PROVE  \E c : Sees(c) /\ Finish(c)
<1> DEFINE o == [answer |-> answer, n |-> n, id |-> id, keys |-> keys]
<1>1. phase # "delete"
  BY NoPodAtOtherCalls DEF PodPhases
<1>2. Says(fault, at, o) /\ o.n = n
  BY DEF Says
<1>3. Finish([ctx EXCEPT ![op.step] = Append(@, o)])
  BY DEF See
<1> HIDE DEF o
<1>. QED BY <1>1, <1>2, <1>3, AddedSees

\* At most positions a part of the answer is not judged.
LEMMA Unsaid ==
  ASSUME NEW f, NEW i, NEW x
  PROVE  /\ i \notin {20, 26, 29, 32, 33, 37, 39, 40} => SaysNumber(f, i, x)
         /\ i \notin {9, 12, 21, 24, 26, 27, 30, 31, 36, 38, 41} => SaysRequest(f, i, x)
         /\ i \notin {19, 21, 24, 26, 44, 45} => SaysKeys(f, i, x)
         /\ i \in {25, 26, 28, 29, 30, 32, 37, 39, 45, 48} => SaysStatus(f, i, x)
<1>1. i \notin {20, 26, 29, 32, 33, 37, 39, 40} => SaysNumber(f, i, x)
  BY DEF SaysNumber
<1>2. i \notin {9, 12, 21, 24, 26, 27, 30, 31, 36, 38, 41} => SaysRequest(f, i, x)
  BY DEF SaysRequest
<1>3. i \notin {19, 21, 24, 26, 44, 45} => SaysKeys(f, i, x)
  BY DEF SaysKeys
<1>4. i \in {25, 26, 28, 29, 30, 32, 37, 39, 45, 48} => SaysStatus(f, i, x)
  BY DEF SaysStatus
<1>. QED BY <1>1, <1>2, <1>3, <1>4

\* A confirmation says and does what the state of its upload asks for.
LEMMA ConfirmDoes ==
  ASSUME TypeOK, UploadsInv, Confirm
  PROVE  /\ at \in {5, 7, 9, 12, 15, 17, 18, 35, 43} /\ ~Ended /\ op.call \notin Bucket \cup {"total"}
         /\ at \in {5, 7, 35, 43} =>
              /\ See("201", 0, op.of, {}) /\ Creates(op.by, op.of)
              /\ uploads' = [uploads EXCEPT ![op.of] = "confirmed"]
         /\ at \in {9, 12} =>
              /\ See("200", 0, "video", {}) /\ uploads' = uploads
              /\ IF fault = (IF at = 9 THEN "replayCreates" ELSE "secondKeyCreates")
                 THEN Creates("alice", "extra") ELSE CreatesNothing
         /\ at = 15 =>
              IF fault = "keyReused"
              THEN /\ See("201", 0, "second", {}) /\ Creates("alice", "second")
                   /\ uploads' = [uploads EXCEPT !["second"] = "confirmed"]
              ELSE See("409", 0, None, {}) /\ CreatesNothing /\ uploads' = uploads
         /\ at = 17 =>
              IF fault = "invalidAccepted"
              THEN /\ See("201", 0, "invalid", {}) /\ Creates("alice", "invalid")
                   /\ uploads' = [uploads EXCEPT !["invalid"] = "confirmed"]
              ELSE /\ See("400", 0, None, {}) /\ CreatesNothing
                   /\ uploads' = [uploads EXCEPT !["invalid"] =
                                    IF fault = "invalidKept" THEN "open" ELSE "gone"]
         /\ at = 18 =>
              /\ CreatesNothing /\ uploads' = uploads
              /\ IF fault = "invalidAccepted" THEN See("200", 0, "invalid", {})
                 ELSE IF fault = "invalidKept" THEN See("400", 0, None, {})
                 ELSE See("404", 0, None, {})
<1>1. ~Ended /\ op.call \in {"confirm", "confirmOtherKey", "confirmSpentKey"}
  BY DEF Confirm, Doing
<1>2. at \in {5, 7, 9, 12, 15, 17, 18, 35, 43} /\ op = Program[at]
  BY <1>1, CallsAt
<1>3. ConfirmOpen \/ ConfirmAgain \/ ConfirmGone
  BY DEF Confirm
<1>4. /\ at = 5 => op.call = "confirm" /\ op.by = "alice" /\ op.of = "video"
      /\ at = 7 => op.call = "confirm" /\ op.by = "alice" /\ op.of = "nonVideo"
      /\ at = 9 => op.call = "confirm" /\ op.by = "alice" /\ op.of = "video"
      /\ at = 12 => op.call = "confirmOtherKey" /\ op.by = "alice" /\ op.of = "video"
      /\ at = 15 => op.call = "confirmSpentKey" /\ op.by = "alice" /\ op.of = "second"
      /\ at \in {17, 18} => op.call = "confirm" /\ op.by = "alice" /\ op.of = "invalid"
      /\ at = 35 => op.call = "confirm" /\ op.by = "alice" /\ op.of = "corrupted"
      /\ at = 43 => op.call = "confirm" /\ op.by = "bob" /\ op.of = "bobs"
  BY <1>2, ProgramTable DEF Op
<1>5. /\ at \in {5, 7, 15, 17, 35, 43} => uploads[op.of] = "open"
      /\ at \in {9, 12} => uploads[op.of] = "confirmed"
      /\ at = 18 => uploads[op.of] = IF fault = "invalidAccepted" THEN "confirmed"
                                     ELSE IF fault = "invalidKept" THEN "open" ELSE "gone"
  BY <1>2, <1>4 DEF UploadsInv, Sent, Uploads
<1>6. CASE at \in {5, 7, 35, 43}
  BY <1>1, <1>3, <1>4, <1>5, <1>6 DEF ConfirmOpen, ConfirmAgain, ConfirmGone, Bucket
<1>7. CASE at \in {9, 12}
  BY <1>1, <1>3, <1>4, <1>5, <1>7 DEF ConfirmOpen, ConfirmAgain, ConfirmGone, Bucket
<1>8. CASE at = 15
  BY <1>1, <1>3, <1>4, <1>5, <1>8 DEF ConfirmOpen, ConfirmAgain, ConfirmGone, Bucket
<1>9. CASE at = 17
  BY <1>1, <1>3, <1>4, <1>5, <1>9 DEF ConfirmOpen, ConfirmAgain, ConfirmGone, Bucket
<1>10. CASE at = 18
  <2>1. uploads' = uploads
    <3>1. uploads[op.of] = "open" => fault = "invalidKept"
      BY <1>5, <1>10
    <3>2. uploads = [uploads EXCEPT ![op.of] = uploads[op.of]]
      BY DEF TypeOK
    <3>. QED BY <1>3, <1>4, <1>10, <3>1, <3>2 DEF ConfirmOpen, ConfirmAgain, ConfirmGone
  <2>. QED BY <1>1, <1>3, <1>4, <1>5, <1>10, <2>1 DEF ConfirmOpen, ConfirmAgain, ConfirmGone, Bucket
<1>. QED BY <1>2, <1>6, <1>7, <1>8, <1>9, <1>10

\* What the calls that create something are seen to say.
LEMMA CreationSees ==
  ASSUME TypeOK, PodInv, Truths, Upload \/ Confirm
  PROVE  \E c : Sees(c) /\ Finish(c)
<1>0. SeenInv /\ UploadsInv
  BY DEF Truths, ServerInv
<1>1. CASE Upload
  <2>1. ~Ended /\ op.call = "upload" /\ See("201", 0, None, {})
    BY <1>1 DEF Upload, Doing
  <2>2. at \in {4, 6, 14, 16, 34, 42}
    BY <2>1, CallsAt
  <2>3. /\ SaysStatus(fault, at, "201") /\ SaysNumber(fault, at, 0)
        /\ SaysRequest(fault, at, None) /\ SaysKeys(fault, at, {})
    BY <2>2, Unsaid DEF SaysStatus
  <2>4. op.call \notin Bucket /\ op.call # "total"
    BY <2>1 DEF Bucket
  <2>. QED BY <1>0, <2>1, <2>3, <2>4, SeeSees
<1>2. CASE Confirm
  <2>1. /\ at \in {5, 7, 9, 12, 15, 17, 18, 35, 43} /\ ~Ended
        /\ op.call \notin Bucket /\ op.call # "total"
    BY <1>0, <1>2, ConfirmDoes
  <2>2. \E answer, id :
          /\ See(answer, 0, id, {})
          /\ SaysStatus(fault, at, answer) /\ SaysRequest(fault, at, id)
    BY <1>0, <1>2, <2>1, ConfirmDoes DEF SaysStatus, SaysRequest
  <2>3. SaysNumber(fault, at, 0) /\ SaysKeys(fault, at, {})
    BY <2>1, Unsaid
  <2>. QED BY <1>0, <2>1, <2>2, <2>3, SeeSees
<1>. QED BY <1>1, <1>2

\* What the single reads are seen to say.
LEMMA ReadsSee ==
  ASSUME TypeOK, PodInv, Truths, ReadOutside \/ ReadAs \/ AwaitHealth
  PROVE  \E c : Sees(c) /\ Finish(c)
<1>0. SeenInv /\ RequestsInv
  BY DEF Truths, ServerInv
<1>1. CASE AnonymousApiStatuses \/ AnonymousStatuses \/ OldCreateAs \/ DownloadAs \/ AwaitHealth
  <2>1. /\ ~Ended /\ op.call \notin Bucket /\ op.call # "total"
        /\ at \in {1, 2, 3, 22, 47}
        /\ \E answer : See(answer, 0, None, {}) /\ SaysStatus(fault, at, answer)
    BY <1>1, CallsAt DEF AnonymousApiStatuses, AnonymousStatuses, OldCreateAs, DownloadAs,
       AwaitHealth, Doing, If, Bucket, SaysStatus
  <2>2. SaysNumber(fault, at, 0) /\ SaysRequest(fault, at, None) /\ SaysKeys(fault, at, {})
    BY <2>1, Unsaid
  <2>. QED BY <1>0, <2>1, <2>2, SeeSees
<1>2. CASE FetchArchive \/ TotalAs
  <2>1. /\ ~Ended /\ op.call \notin Bucket
        /\ at \in {8, 10, 11, 13, 20}
        /\ \E n : /\ See("200", n, None, {}) /\ SaysNumber(fault, at, n)
                  /\ op.call = "total" => n = Len(created["alice"])
    BY <1>2, CallsAt DEF FetchArchive, TotalAs, Doing, If, Bucket, SaysNumber
  <2>2. SaysStatus(fault, at, "200")
    BY <2>1 DEF SaysStatus
  <2>3. SaysRequest(fault, at, None) /\ SaysKeys(fault, at, {})
    BY <2>1, Unsaid
  <2>. QED BY <1>0, <2>1, <2>2, <2>3, SeeSees
<1>3. CASE CountDeliveries \/ SearchMailpit
  <2>1. /\ ~Ended /\ op.call \notin Bucket /\ op.call # "total"
        /\ at \in {32, 33, 39, 40} /\ op = Program[at]
    BY <1>3, CallsAt DEF CountDeliveries, SearchMailpit, Doing, Bucket
  <2>2. op.of = IF at < 34 THEN "nonVideo" ELSE "corrupted"
    BY <2>1, ProgramTable DEF Op
  <2>3. /\ delivery[op.of] \in {"sent", "error"}
        /\ fault = "emailLost" => delivery[op.of] = "error"
        /\ fault # "emailLost" => delivery[op.of] = "sent"
    BY <1>0, <2>1, <2>2 DEF RequestsInv, Awaited
  <2>4. \E answer, n : /\ See(answer, n, op.of, {})
                       /\ SaysStatus(fault, at, answer) /\ SaysNumber(fault, at, n)
    <3>1. CASE CountDeliveries
      BY <2>1, <2>3, <3>1, CallsAt DEF CountDeliveries, Doing, If, SaysStatus, SaysNumber, None
    <3>2. CASE SearchMailpit
      BY <2>1, <2>3, <3>2, CallsAt DEF SearchMailpit, Doing, If, SaysStatus, SaysNumber
    <3>. QED BY <1>3, <3>1, <3>2
  <2>5. SaysRequest(fault, at, op.of) /\ SaysKeys(fault, at, {})
    BY <2>1, Unsaid
  <2>. QED BY <1>0, <2>1, <2>4, <2>5, SeeSees
<1>4. CASE ReadRequestAs
  <2>1. /\ ~Ended /\ op.call \notin Bucket /\ op.call # "total"
        /\ at \in {41, 46} /\ op = Program[at]
    BY <1>4, CallsAt DEF ReadRequestAs, Doing, Bucket
  <2>2. op.by = (IF at = 41 THEN "alice" ELSE "bob") /\ (at = 41 => op.of = "corrupted")
    BY <2>1, ProgramTable DEF Op
  <2>3. \E answer, id : /\ See(answer, 0, id, {})
                        /\ SaysStatus(fault, at, answer) /\ SaysRequest(fault, at, id)
    BY <1>4, <2>1, <2>2 DEF ReadRequestAs, If, SaysStatus, SaysRequest
  <2>4. SaysNumber(fault, at, 0) /\ SaysKeys(fault, at, {})
    BY <2>1, Unsaid
  <2>. QED BY <1>0, <2>1, <2>3, <2>4, SeeSees
<1>. QED BY <1>1, <1>2, <1>3, <1>4 DEF ReadOutside, ReadAs

\* How a request of alice's ends is how the platform settles it.
LEMMA FateIsEnd == \A r \in Awaited : Fate(r) = Ends(fault, r) /\ Fate(r) \in TERMINAL
<1>1. /\ Fate("video") = If("videoFails", "PROCESSAMENTO_FALHOU", "COMPLETED")
      /\ Fate("nonVideo") = If("nonVideoAccepted", "COMPLETED", "FORMATO_INVALIDO")
      /\ Fate("corrupted") = If("corruptedMiscoded", "FORMATO_INVALIDO", "PROCESSAMENTO_FALHOU")
  BY DEF Fate
<1>. QED BY <1>1 DEF Awaited, If, Ends, TERMINAL

\* What the polls are seen to say when they are answered.
LEMMA PollsSee ==
  ASSUME TypeOK, PodInv, Truths,
         AwaitTerminal \/ AwaitDelivery \/ (AwaitDownload /\ request[op.of] = "COMPLETED")
  PROVE  \E c : Sees(c) /\ Finish(c)
<1>0. SeenInv /\ RequestsInv
  BY DEF Truths, ServerInv
<1>1. CASE AwaitTerminal
  <2>1. /\ ~Ended /\ op.call \notin Bucket /\ op.call # "total"
        /\ at \in {21, 24, 27, 36} /\ op = Program[at]
    BY <1>1, CallsAt DEF AwaitTerminal, Doing, Bucket
  <2>2. op.of = IF at < 25 THEN "video" ELSE IF at = 27 THEN "nonVideo" ELSE "corrupted"
    BY <2>1, ProgramTable DEF Op
  <2>3. request[op.of] = Ends(fault, op.of)
    <3>1. op.of \in Awaited /\ request[op.of] \in TERMINAL
      BY <1>1, <2>1, <2>2 DEF AwaitTerminal, Awaited
    <3>. QED BY <1>0, <3>1 DEF RequestsInv, TERMINAL, None
  <2>4. at < 25 => request["video"] = "COMPLETED"
    BY <1>0, <2>1 DEF RequestsInv
  <2>5. See(request[op.of], 0, If("mixedRecords", "strangers", op.of), ArchiveKey(op.of))
    BY <1>1 DEF AwaitTerminal
  <2>6. SaysStatus(fault, at, request[op.of])
    BY <2>1, <2>2, <2>3, <2>4 DEF SaysStatus
  <2>7. SaysRequest(fault, at, If("mixedRecords", "strangers", op.of))
    BY <2>1, <2>2 DEF SaysRequest, If
  <2>8. SaysKeys(fault, at, ArchiveKey(op.of))
    BY <2>1, <2>2, <2>4 DEF SaysKeys, If, ArchiveKey
  <2>9. SaysNumber(fault, at, 0)
    BY <2>1, Unsaid
  <2>. QED BY <1>0, <2>1, <2>5, <2>6, <2>7, <2>8, <2>9, SeeSees
<1>2. CASE AwaitDelivery
  <2>1. /\ ~Ended /\ op.call \notin Bucket /\ op.call # "total"
        /\ at \in {30, 31, 38} /\ op = Program[at]
    BY <1>2, CallsAt DEF AwaitDelivery, Doing, Bucket
  <2>2. op.of = IF at = 30 THEN "video" ELSE IF at = 31 THEN "nonVideo" ELSE "corrupted"
    BY <2>1, ProgramTable DEF Op
  <2>3. request[op.of] = Ends(fault, op.of)
    <3>1. op.of \in Awaited /\ delivery[op.of] # None
      BY <1>2, <2>1, <2>2 DEF AwaitDelivery, Awaited, None
    <3>. QED BY <1>0, <3>1 DEF RequestsInv
  <2>4. See(request[op.of], 0, op.of, {})
    BY <1>2 DEF AwaitDelivery
  <2>5. SaysStatus(fault, at, request[op.of]) /\ SaysRequest(fault, at, op.of)
    BY <2>1, <2>2, <2>3 DEF SaysStatus, SaysRequest
  <2>6. SaysNumber(fault, at, 0) /\ SaysKeys(fault, at, {})
    BY <2>1, Unsaid
  <2>. QED BY <1>0, <2>1, <2>4, <2>5, <2>6, SeeSees
<1>3. CASE AwaitDownload /\ request[op.of] = "COMPLETED"
  <2>1. ~Ended /\ op.call \notin Bucket /\ op.call # "total" /\ at = 19 /\ op = Program[19]
    BY <1>3, CallsAt DEF AwaitDownload, Doing, Bucket
  <2>2. op.of = "video"
    BY <2>1, ProgramTable DEF Op
  <2>3. See("200", 0, None, If("foreignArchiveIssued", {"extra"}, ArchiveKey("video")))
    BY <1>3, <2>2 DEF AwaitDownload
  <2>4. SaysKeys(fault, at, If("foreignArchiveIssued", {"extra"}, ArchiveKey("video")))
    BY <1>3, <2>1, <2>2 DEF SaysKeys, If, ArchiveKey
  <2>5. SaysStatus(fault, at, "200")
    BY <2>1 DEF SaysStatus
  <2>6. SaysNumber(fault, at, 0) /\ SaysRequest(fault, at, None)
    BY <2>1, Unsaid
  <2>. QED BY <1>0, <2>1, <2>3, <2>4, <2>5, <2>6, SeeSees
<1>. QED BY <1>1, <1>2, <1>3

\* What the bucket is seen to hold.
LEMMA BucketSays ==
  ASSUME TypeOK, ~Ended, RequestsInv, CaughtInv, op.call \in Bucket
  PROVE  Says(fault, at, Observed)
<1>1. CASE op.call = "lifecycle"
  <2>1. at = 23
    BY <1>1, CallsAt
  <2>. QED BY <1>1, <2>1 DEF Says, SaysStatus, SaysNumber, SaysRequest, SaysKeys, Observed, If
<1>2. CASE op.call = "listArchives"
  <2>1. at \in {26, 29, 37} /\ op = Program[at]
    BY <1>2, CallsAt
  <2>2. op.of = IF at = 26 THEN "video" ELSE IF at = 29 THEN "nonVideo" ELSE "corrupted"
    BY <2>1, ProgramTable DEF Op
  <2>3. /\ Observed.answer = "200" /\ Observed.n = Cardinality(Archives(op.of))
        /\ Observed.id = op.of /\ Observed.keys = Archives(op.of)
    BY <1>2 DEF Observed
  <2>4. CASE at = 26
    <3>1. request["video"] = "COMPLETED"
      BY <2>4 DEF RequestsInv
    <3>2. Archives("video") = (IF fault = "unscopedKey" THEN {} ELSE {"video"})
                                \cup (IF fault = "archiveTwice" THEN {"extra"} ELSE {})
      BY <3>1 DEF Archives, ArchiveKey, If
    <3>3. fault = "archiveTwice" => Cardinality(Archives("video")) = 2
      <4>1. Cardinality({"video"}) = 1 /\ IsFiniteSet({"video"})
        BY FS_Singleton
      <4>2. "extra" \notin {"video"}
        OBVIOUS
      <4>3. Cardinality({"video"} \cup {"extra"}) = Cardinality({"video"}) + 1
        BY ONLY <4>1, <4>2, FS_AddElement
      <4>. QED BY <3>2, <4>1, <4>3
    <3>4. fault \notin {"archiveTwice", "unscopedKey"} => Cardinality(Archives("video")) = 1
      BY <3>2, FS_Singleton
    <3>5. fault = None => Archives("video") = {"video"}
      BY <3>2 DEF None
    <3>. QED BY <2>2, <2>3, <2>4, <3>3, <3>4, <3>5
         DEF Says, SaysStatus, SaysNumber, SaysRequest, SaysKeys
  <2>5. CASE at \in {29, 37}
    <3>1. op.of \in Awaited /\ op.of \in {"nonVideo", "corrupted"}
      BY <2>2, <2>5 DEF Awaited
    <3>2. request[op.of] # "COMPLETED"
      <4>1. CASE at = 29
        <5>1. fault # "nonVideoAccepted"
          BY <4>1 DEF CaughtInv, CaughtAt, None
        <5>. QED BY <2>2, <3>1, <4>1, <5>1 DEF RequestsInv, Ends, None
      <4>2. CASE at = 37
        BY <2>2, <3>1, <4>2 DEF RequestsInv, Ends, None
      <4>. QED BY <2>5, <4>1, <4>2
    <3>3. Archives(op.of) = IF fault = "archiveLeft" THEN {op.of} ELSE {}
      BY <3>2 DEF Archives, If
    <3>4. Cardinality(Archives(op.of)) = IF fault = "archiveLeft" THEN 1 ELSE 0
      BY <3>3, FS_Singleton, FS_EmptySet
    <3>. QED BY <2>3, <2>5, <3>4 DEF Says, SaysStatus, SaysNumber, SaysRequest, SaysKeys
  <2>. QED BY <2>1, <2>4, <2>5
<1>. QED BY <1>1, <1>2 DEF Bucket

\* The ranks of a page follow those of the pages before it.
LEMMA PageRanks ==
  ASSUME NEW page \in Nat \ {0}
  PROVE  /\ (page - 1) * PageSize \in Nat /\ PageSize \in Nat \ {0}
         /\ page * PageSize = (page - 1) * PageSize + PageSize
         /\ (page + 1 - 1) * PageSize = page * PageSize
BY ConstantsAssumption

\* No page holds more than PageSize requests.
LEMMA PageBounded ==
  ASSUME NEW list \in Seq(Requests), NEW page \in Nat \ {0}
  PROVE  Cardinality(PageOf(list, page)) \in Nat /\ Cardinality(PageOf(list, page)) <= PageSize
<1> DEFINE p == (page - 1) * PageSize
           ranks == {k \in 1 .. Len(list) : p < k /\ k <= page * PageSize}
           f == [k \in ranks |-> list[Len(list) + 1 - k]]
<1>1. p \in Nat /\ PageSize \in Nat \ {0} /\ page * PageSize = p + PageSize
  BY PageRanks
<1>2. PageOf(list, page) = {list[Len(list) + 1 - k] : k \in ranks}
  BY DEF PageOf
<1>3. Len(list) \in Nat
  OBVIOUS
<1>4. ranks \subseteq p + 1 .. p + PageSize
  BY <1>1, <1>3
<1>5. IsFiniteSet(p + 1 .. p + PageSize) /\ Cardinality(p + 1 .. p + PageSize) = PageSize
  BY <1>1, FS_Interval
<1> HIDE DEF p, ranks
<1>6. IsFiniteSet(ranks) /\ Cardinality(ranks) <= PageSize
  BY <1>4, <1>5, FS_Subset
<1>7. f \in Surjection(ranks, PageOf(list, page))
  BY <1>2 DEF Surjection
<1> HIDE DEF f
<1>8. IsFiniteSet(PageOf(list, page)) /\ Cardinality(PageOf(list, page)) <= Cardinality(ranks)
  BY <1>6, <1>7, FS_Surjection
<1>9. Cardinality(ranks) \in Nat /\ Cardinality(PageOf(list, page)) \in Nat
  BY <1>6, <1>8, FS_CardinalityType
<1>. QED BY <1>1, <1>6, <1>8, <1>9

\* A page adds the items of its ranks; when it is the last the listing makes, no
\* item is left out but one of a stranger's.
LEMMA PageAdds ==
  ASSUME TypeOK, NEW list \in Seq(Requests), ReadSoFar(list)
  PROVE  LET items == PageOf(list, listing.page)
             ids == listing.ids \cup items
             read == listing.read + Cardinality(items)
         IN  /\ ids \subseteq Range(list) /\ read <= listing.page * PageSize
             /\ \A k \in 1 .. Len(list) : k <= listing.page * PageSize =>
                  list[Len(list) + 1 - k] \in ids \cup {"strangers"}
             /\ items = {} \/ read >= Len(list) => Range(list) \subseteq ids \cup {"strangers"}
<1> DEFINE page == listing.page
           items == PageOf(list, page)
           ids == listing.ids \cup items
           read == listing.read + Cardinality(items)
           p == (page - 1) * PageSize
<1>1. page \in Nat \ {0} /\ listing.read \in Nat
  BY DEF TypeOK, Listing
<1>2. p \in Nat /\ PageSize \in Nat \ {0} /\ page * PageSize = p + PageSize
  BY <1>1, PageRanks
<1>3. /\ listing.ids \subseteq Range(list) /\ listing.read <= p
      /\ \A k \in 1 .. Len(list) : k <= p => list[Len(list) + 1 - k] \in listing.ids \cup {"strangers"}
  BY DEF ReadSoFar
<1>4. Len(list) \in Nat /\ DOMAIN list = 1 .. Len(list)
  OBVIOUS
<1>5. items = {list[Len(list) + 1 - k] : k \in {k \in 1 .. Len(list) : p < k /\ k <= p + PageSize}}
  BY <1>2 DEF PageOf
<1>6. Cardinality(items) \in Nat /\ Cardinality(items) <= PageSize
  BY <1>1, PageBounded
<1> HIDE DEF page, p
<1>7. items \subseteq Range(list)
  BY <1>4, <1>5 DEF Range
<1>8. \A k \in 1 .. Len(list) : p < k /\ k <= p + PageSize => list[Len(list) + 1 - k] \in items
  BY <1>5
<1>9. items = {} => Len(list) <= p
  <2> SUFFICES ASSUME Len(list) > p PROVE items # {}
    BY <1>2, <1>4
  <2>1. p + 1 \in 1 .. Len(list) /\ p < p + 1 /\ p + 1 <= p + PageSize
    BY <1>2, <1>4
  <2>. QED BY <1>8, <2>1
<1> HIDE DEF items
<1>10. read <= page * PageSize /\ read <= p + PageSize
  BY <1>1, <1>2, <1>3, <1>6
<1>11. \A k \in 1 .. Len(list) : k <= p + PageSize => list[Len(list) + 1 - k] \in ids \cup {"strangers"}
  <2> TAKE k \in 1 .. Len(list)
  <2>1. k <= p \/ p < k
    BY <1>2
  <2>. QED BY <1>3, <1>8, <2>1
<1>12. items = {} \/ read >= Len(list) => Len(list) <= p + PageSize
  BY <1>1, <1>2, <1>4, <1>6, <1>9, <1>10
<1>13. ASSUME Len(list) <= p + PageSize, NEW i \in 1 .. Len(list)
       PROVE  list[i] \in ids \cup {"strangers"}
  <2>1. Len(list) + 1 - i \in 1 .. Len(list) /\ Len(list) + 1 - i <= p + PageSize
    BY <1>2, <1>4, <1>13
  <2>2. list[Len(list) + 1 - (Len(list) + 1 - i)] \in ids \cup {"strangers"}
    BY <1>11, <2>1
  <2>3. Len(list) + 1 - (Len(list) + 1 - i) = i
    BY <1>4
  <2>. QED BY <2>2, <2>3
<1>14. items = {} \/ read >= Len(list) => Range(list) \subseteq ids \cup {"strangers"}
  BY <1>4, <1>12, <1>13 DEF Range
<1>15. ids \subseteq Range(list)
  BY <1>3, <1>7
<1>16. /\ ids \subseteq Range(list) /\ read <= page * PageSize
       /\ \A k \in 1 .. Len(list) : k <= page * PageSize =>
            list[Len(list) + 1 - k] \in ids \cup {"strangers"}
       /\ items = {} \/ read >= Len(list) => Range(list) \subseteq ids \cup {"strangers"}
  BY <1>2, <1>10, <1>11, <1>14, <1>15
<1>. QED BY <1>16 DEF page, items

\* The list that is being read, and who is in it.
LEMMA ListIs ==
  ASSUME TypeOK, ~Ended, op.call = "listAll"
  PROVE  /\ at \in {44, 45} /\ op.call \notin Bucket \cup {"total"}
         /\ ListOf(op.by) = ListOf(IF at = 44 THEN "alice" ELSE "bob")
         /\ ListOf(op.by) \in Seq(Requests)
<1>1. at \in {44, 45} /\ op = Program[at]
  BY CallsAt
<1>2. op.by = IF at = 44 THEN "alice" ELSE "bob"
  BY <1>1, ProgramTable DEF Op
<1>3. created["alice"] \in Seq(Requests) /\ created["bob"] \in Seq(Requests)
  BY DEF TypeOK, Users
<1>4. ListOf(op.by) \in Seq(Requests)
  BY <1>2, <1>3, ConcatProperties DEF ListOf
<1>. QED BY <1>1, <1>2, <1>4 DEF Bucket

\* A list holds what its owner created, and what a leak adds to it.
LEMMA OwnersInLists ==
  ASSUME TypeOK, OwnersInv, at \in {44, 45}
  PROVE  IF at = 44
         THEN /\ Awaited \subseteq Range(ListOf("alice")) /\ "bobs" \notin Range(ListOf("alice"))
         ELSE IF fault = "listLeaks"
         THEN {"video", "bobs"} \subseteq Range(ListOf("bob"))
         ELSE Range(ListOf("bob")) = {"bobs"}
<1>1. Awaited \subseteq Range(created["alice"]) /\ "bobs" \notin Range(created["alice"])
  BY DEF OwnersInv, Awaited, Sent
<1>2. CASE at = 44
  BY <1>1, <1>2 DEF ListOf
<1>3. CASE at = 45
  <2>1. created["bob"] = <<"bobs">>
    BY <1>3 DEF OwnersInv
  <2>2. Range(<<"bobs">>) = {"bobs"}
    BY DEF Range
  <2>3. Range(created["alice"] \o created["bob"]) = Range(created["alice"]) \cup Range(created["bob"])
    <3>1. created["alice"] \in Seq(Requests) /\ created["bob"] \in Seq(Requests)
      BY DEF TypeOK, Users
    <3>. QED BY <3>1, RangeConcatenation
  <2>. QED BY <1>1, <1>3, <2>1, <2>2, <2>3 DEF ListOf, Awaited
<1>. QED BY <1>2, <1>3

\* A page of a listing ends it, and then all of it has been read, or reads on.
LEMMA ListPageSees ==
  ASSUME TypeOK, PodInv, Truths, ListPage
  PROVE  \/ \E c : Sees(c) /\ Finish(c)
         \/ /\ at \in {44, 45} /\ ListInv' /\ phase' = "first" /\ phase # "delete"
            /\ UNCHANGED <<at, ctx, problem>>
<1> DEFINE list == ListOf(op.by)
           items == PageOf(list, listing.page)
           ids == listing.ids \cup items
           read == listing.read + Cardinality(items)
<1>0. SeenInv /\ OwnersInv /\ ListInv
  BY DEF Truths, ServerInv
<1>1. ~Ended /\ op.call = "listAll" /\ phase # "delete"
  BY DEF ListPage, Doing, Authorized
<1>2. /\ at \in {44, 45} /\ op.call \notin Bucket /\ op.call # "total" /\ list \in Seq(Requests)
      /\ list = ListOf(IF at = 44 THEN "alice" ELSE "bob")
  BY <1>1, ListIs
<1>3. ReadSoFar(list)
  BY <1>0, <1>2 DEF ListInv
<1>4. /\ ids \subseteq Range(list) /\ read <= listing.page * PageSize
      /\ \A k \in 1 .. Len(list) : k <= listing.page * PageSize =>
           list[Len(list) + 1 - k] \in ids \cup {"strangers"}
      /\ items = {} \/ read >= Len(list) => Range(list) \subseteq ids \cup {"strangers"}
  BY <1>2, <1>3, PageAdds
<1>5. IF items = {} \/ read >= Len(list)
      THEN See(If("internalFields", "exposed", "200"), read, None, ids)
      ELSE /\ listing' = [page |-> listing.page + 1, ids |-> ids, read |-> read]
           /\ phase' = "first"
           /\ UNCHANGED <<at, late, ctx, problem>>
  BY DEF ListPage
<1>6. UNCHANGED <<created, fault>>
  BY DEF ListPage, serverVars
<1> HIDE DEF ids, read, items
<1>7. CASE items = {} \/ read >= Len(list)
  <2>1. SaysKeys(fault, at, ids)
    <3>1. Range(list) \subseteq ids \cup {"strangers"} /\ ids \subseteq Range(list)
      BY <1>4, <1>7
    <3>2. CASE at = 44
      <4>1. Awaited \subseteq Range(list) /\ "bobs" \notin Range(list)
        BY <1>0, <1>2, <3>2, OwnersInLists
      <4>2. "strangers" \notin Awaited
        BY DEF Awaited
      <4>3. Awaited \subseteq ids /\ "bobs" \notin ids
        BY <3>1, <4>1, <4>2
      <4>. QED BY <3>2, <4>3 DEF SaysKeys
    <3>3. CASE at = 45
      <4>1. IF fault = "listLeaks" THEN {"video", "bobs"} \subseteq Range(list)
            ELSE Range(list) = {"bobs"}
        BY <1>0, <1>2, <3>3, OwnersInLists
      <4>2. "bobs" \in ids /\ IF fault = "listLeaks" THEN "video" \in ids ELSE ids = {"bobs"}
        BY <3>1, <4>1
      <4>. QED BY <3>3, <4>2 DEF SaysKeys
    <3>. QED BY <1>2, <3>2, <3>3
  <2>2. SaysStatus(fault, at, If("internalFields", "exposed", "200"))
    BY <1>2 DEF SaysStatus, If
  <2>3. SaysNumber(fault, at, read) /\ SaysRequest(fault, at, None)
    <3>1. at \in {44, 45}
      BY <1>2
    <3>. QED BY <3>1, Unsaid
  <2>. QED BY <1>0, <1>1, <1>2, <1>5, <1>7, <2>1, <2>2, <2>3, SeeSees
<1>8. CASE ~(items = {} \/ read >= Len(list))
  <2>1. /\ listing' = [page |-> listing.page + 1, ids |-> ids, read |-> read]
        /\ phase' = "first" /\ UNCHANGED <<at, ctx, problem>>
    BY <1>5, <1>8
  <2>2. ListOf(IF at = 44 THEN "alice" ELSE "bob")' = list
    BY <1>2, <1>6, <2>1 DEF ListOf
  <2>3. listing.page \in Nat \ {0}
    BY DEF TypeOK, Listing
  <2>4. /\ listing'.page = listing.page + 1 /\ listing'.ids = ids /\ listing'.read = read
        /\ (listing'.page - 1) * PageSize = listing.page * PageSize
    BY <2>1, <2>3, PageRanks
  <2>5. /\ listing'.ids \subseteq Range(list)
        /\ listing'.read <= (listing'.page - 1) * PageSize
        /\ \A k \in 1 .. Len(list) : k <= (listing'.page - 1) * PageSize =>
             list[Len(list) + 1 - k] \in listing'.ids \cup {"strangers"}
    BY <1>4, <2>4
  <2>6. ReadSoFar(ListOf(IF at = 44 THEN "alice" ELSE "bob"))'
    BY <2>2, <2>5 DEF ReadSoFar
  <2>. QED BY <1>1, <1>2, <2>1, <2>6 DEF ListInv
<1>. QED BY <1>7, <1>8

-----------------------------------------------------------------------------
(* What the platform holds.                                                *)

\* The positions after which something new is due of the platform.
Marks == {4, 5, 6, 7, 14, 16, 17, 19, 31, 34, 35, 38, 42, 43}

\* Nothing new is due.
LEMMA ServerKept ==
  ASSUME TypeOK, ServerInv, UNCHANGED <<serverVars, fault>>,
         at' = at \/ (at' = at + 1 /\ at \notin Marks)
  PROVE  ServerInv'
<1>1. at \in Nat
  BY ProgramPosed DEF TypeOK
<1>2. UNCHANGED <<uploads, created, request, delivery, fault>>
  BY DEF serverVars
<1>3. UploadsInv'
  BY <1>1, <1>2 DEF ServerInv, UploadsInv, Sent, Uploads, Marks
<1>4. RequestsInv'
  BY <1>1, <1>2 DEF ServerInv, RequestsInv, Ends, Marks
<1>5. OwnersInv'
  BY <1>1, <1>2 DEF ServerInv, OwnersInv, Sent, Awaited, Marks
<1>. QED BY <1>3, <1>4, <1>5 DEF ServerInv

\* A new request comes last among its user's.
LEMMA CreatesLast ==
  ASSUME TypeOK, NEW user \in Users, NEW r \in Requests, Creates(user, r)
  PROVE  /\ Range(created'[user]) = Range(created[user]) \cup {r}
         /\ created'[user] = Append(created[user], r)
         /\ Len(created'[user]) = Len(created[user]) + 1 /\ Len(created[user]) \in Nat
         /\ \A other \in Users : other # user => created'[other] = created[other]
         /\ request'[r] = "inFlight"
         /\ \A other \in Requests : other # r => request'[other] = request[other]
<1>1. created' = [created EXCEPT ![user] = Append(created[user], r)]
  BY DEF Creates
<1>2. created = [u \in Users |-> created[u]]
  BY DEF TypeOK
<1>3. created'[user] = Append(created[user], r)
  BY <1>1, <1>2
<1>4. created[user] \in Seq(Requests)
  BY DEF TypeOK
<1>5. /\ Len(created'[user]) = Len(created[user]) + 1 /\ Len(created[user]) \in Nat
      /\ Range(created'[user]) = Range(created[user]) \cup {r}
  <2>1. /\ Len(Append(created[user], r)) = Len(created[user]) + 1 /\ Len(created[user]) \in Nat
        /\ DOMAIN Append(created[user], r) = 1 .. Len(Append(created[user], r))
        /\ DOMAIN created[user] = 1 .. Len(created[user])
        /\ \A k \in 1 .. Len(created[user]) : Append(created[user], r)[k] = created[user][k]
        /\ Append(created[user], r)[Len(created[user]) + 1] = r
    BY <1>4, AppendAny
  <2>. QED BY <1>3, <2>1 DEF Range
<1>6. \A other \in Users : other # user => created'[other] = created[other]
  BY <1>1, <1>2
<1>7. /\ request'[r] = "inFlight"
      /\ \A other \in Requests : other # r => request'[other] = request[other]
  BY DEF Creates, TypeOK
<1>. QED BY <1>3, <1>5, <1>6, <1>7

\* Every upload has its place.
LEMMA SentAt ==
  /\ \A u \in Uploads : Sent[u] \in {4, 6, 14, 16, 34, 42}
  /\ \A u, v \in Uploads : Sent[u] = Sent[v] => u = v
BY DEF Sent, Uploads

\* An upload that is sent is open.
LEMMA AfterUpload ==
  ASSUME TypeOK, ServerInv, Upload, at' = at + 1
  PROVE  ServerInv'
<1>1. /\ at \in {4, 6, 14, 16, 34, 42} /\ at = Sent[op.of]
      /\ uploads' = [uploads EXCEPT ![op.of] = "open"]
      /\ UNCHANGED <<created, request, delivery, fault>>
  BY CallsAt DEF Upload, Doing
<1>2. op.of \in Uploads
  BY CallNames DEF Upload, Doing, OfUpload
<1>3. \A u \in Uploads : uploads'[u] = IF u = op.of THEN "open" ELSE uploads[u]
  BY <1>1 DEF TypeOK
<1>4. UploadsInv'
  <2>1. ASSUME NEW u \in Uploads
        PROVE  /\ at' <= Sent[u] => uploads'[u] = None
               /\ at' = Sent[u] + 1 => uploads'[u] = "open"
               /\ u \notin {"second", "invalid"} /\ at' > Sent[u] + 1 => uploads'[u] = "confirmed"
               /\ uploads'[u] # "confirmed" => request'[u] = None
    <3>1. /\ at <= Sent[u] => uploads[u] = None
          /\ u \notin {"second", "invalid"} /\ at > Sent[u] + 1 => uploads[u] = "confirmed"
          /\ uploads[u] # "confirmed" => request[u] = None
      BY DEF ServerInv, UploadsInv
    <3>2. Sent[u] \in {4, 6, 14, 16, 34, 42} /\ (Sent[u] = at => u = op.of)
      BY <1>1, <1>2, SentAt
    <3>. QED BY <1>1, <1>3, <3>1, <3>2 DEF None
  <2>2. at' # 18
    BY <1>1
  <2>. QED BY <2>1, <2>2 DEF UploadsInv
<1>5. RequestsInv'
  BY <1>1 DEF ServerInv, RequestsInv, Ends
<1>6. OwnersInv'
  BY <1>1 DEF ServerInv, OwnersInv, Sent, Awaited
<1>. QED BY <1>4, <1>5, <1>6 DEF ServerInv

\* A request that is created is in flight and its owner's.
LEMMA CreatedRequest ==
  ASSUME TypeOK, ServerInv, NEW user \in Users, NEW r \in Requests, Creates(user, r),
         UNCHANGED <<delivery, fault>>, at' = at \/ (at' = at + 1 /\ at \notin {19, 31, 38}),
         r \in Awaited => request[r] = None
  PROVE  RequestsInv'
<1>1. \A other \in Requests : request'[other] = IF other = r THEN "inFlight" ELSE request[other]
  BY CreatesLast
<1>2. Awaited \subseteq Requests /\ at \in Nat
  BY ProgramPosed DEF Awaited, Requests, Uploads, TypeOK
<1>3. RequestsInv
  BY DEF ServerInv
<1>4. \A a \in Awaited : request'[a] \in {None, "inFlight", Ends(fault, a)}
  BY <1>1, <1>2, <1>3 DEF RequestsInv
<1>5. \A a \in Awaited : request[a] = None => delivery[a] = None
  BY <1>3 DEF RequestsInv, Ends, None
<1>6. \A a \in Awaited : delivery[a] # None => request'[a] = Ends(fault, a)
  BY <1>1, <1>2, <1>3, <1>5 DEF RequestsInv
<1>7. at' > 19 => request'["video"] = "COMPLETED"
  BY <1>1, <1>2, <1>3 DEF RequestsInv, Awaited, None
<1>. QED BY <1>2, <1>3, <1>4, <1>6, <1>7 DEF RequestsInv, Ends

\* A new request that is not bob's is alice's.
LEMMA CreatedForAlice ==
  ASSUME TypeOK, ServerInv, NEW r \in Requests, Creates("alice", r), r # "bobs",
         UNCHANGED fault, at' \in Nat, at' > 43 <=> at > 43,
         \A u \in Awaited : at' > Sent[u] + 1 => u = r \/ at > Sent[u] + 1
  PROVE  OwnersInv'
<1>1. /\ Range(created'["alice"]) = Range(created["alice"]) \cup {r}
      /\ created'["bob"] = created["bob"]
  BY CreatesLast DEF Users
<1>. QED BY <1>1 DEF ServerInv, OwnersInv

\* A confirmation that creates nothing.
LEMMA CreatedForNobody ==
  ASSUME TypeOK, ServerInv, CreatesNothing, UNCHANGED <<delivery, fault>>,
         at' = at + 1, at \notin {5, 7, 19, 31, 35, 38, 43}
  PROVE  RequestsInv' /\ OwnersInv'
<1>1. at \in Nat /\ UNCHANGED <<created, request>>
  BY ProgramPosed DEF TypeOK, CreatesNothing
<1>2. RequestsInv'
  BY <1>1 DEF ServerInv, RequestsInv, Ends
<1>3. OwnersInv'
  BY <1>1 DEF ServerInv, OwnersInv, Sent, Awaited
<1>. QED BY <1>2, <1>3

\* A confirmation makes the upload a request, or leaves things as they were.
LEMMA AfterConfirm ==
  ASSUME TypeOK, ServerInv, Confirm, at' = at + 1
  PROVE  ServerInv'
<1>0. UploadsInv /\ RequestsInv /\ OwnersInv
  BY DEF ServerInv
<1>1. at \in {5, 7, 9, 12, 15, 17, 18, 35, 43} /\ ~Ended /\ op = Program[at]
  BY <1>0, ConfirmDoes, CallsAt
<1>2. UNCHANGED <<delivery, fault>>
  BY DEF Confirm
<1>3. \A u \in Uploads :
        /\ at <= Sent[u] => uploads[u] = None
        /\ at = Sent[u] + 1 => uploads[u] = "open"
        /\ u \notin {"second", "invalid"} /\ at > Sent[u] + 1 => uploads[u] = "confirmed"
        /\ uploads[u] # "confirmed" => request[u] = None
  BY <1>0 DEF UploadsInv
<1>4. \A u \in Uploads : Sent[u] \in {4, 6, 14, 16, 34, 42}
  BY SentAt
<1>5. CASE at \in {5, 7, 35, 43}
  <2>1. /\ Creates(op.by, op.of) /\ uploads' = [uploads EXCEPT ![op.of] = "confirmed"]
    BY <1>0, <1>5, ConfirmDoes
  <2>2. /\ op.of \in Uploads /\ op.of \in Requests /\ at = Sent[op.of] + 1
        /\ op.by = (IF at = 43 THEN "bob" ELSE "alice") /\ op.by \in Users
        /\ op.of = "bobs" <=> at = 43
    BY <1>1, <1>5, ProgramTable DEF Op, Sent, Uploads, Requests, Users
  <2>3. uploads[op.of] = "open" /\ request[op.of] = None
    BY <1>3, <2>2
  <2>4. /\ \A u \in Uploads : uploads'[u] = IF u = op.of THEN "confirmed" ELSE uploads[u]
        /\ \A u \in Requests : u # op.of => request'[u] = request[u]
    BY <2>1, <2>2, CreatesLast DEF TypeOK
  <2>5. ASSUME NEW u \in Uploads
        PROVE  /\ at' <= Sent[u] => uploads'[u] = None
               /\ at' = Sent[u] + 1 => uploads'[u] = "open"
               /\ u \notin {"second", "invalid"} /\ at' > Sent[u] + 1 => uploads'[u] = "confirmed"
               /\ uploads'[u] # "confirmed" => request'[u] = None
    <3>1. Sent[u] \in {4, 6, 14, 16, 34, 42} /\ u \in Requests /\ (Sent[u] = Sent[op.of] => u = op.of)
      BY <2>2, SentAt DEF Requests
    <3>2. CASE u = op.of
      <4>1. at = Sent[u] + 1 /\ uploads'[u] = "confirmed"
        BY <2>2, <2>4, <3>2
      <4>. QED BY <1>5, <3>1, <4>1
    <3>3. CASE u # op.of
      <4>1. uploads'[u] = uploads[u] /\ request'[u] = request[u]
        BY <2>4, <3>1, <3>3
      <4>2. Sent[u] # Sent[op.of] /\ Sent[op.of] = at - 1
        BY <1>5, <2>2, <3>1, <3>3, SentAt
      <4>3. /\ at <= Sent[u] => uploads[u] = None
            /\ at = Sent[u] + 1 => uploads[u] = "open"
            /\ u \notin {"second", "invalid"} /\ at > Sent[u] + 1 => uploads[u] = "confirmed"
            /\ uploads[u] # "confirmed" => request[u] = None
        BY <1>3
      <4>. QED BY <1>5, <3>1, <4>1, <4>2, <4>3
    <3>. QED BY <3>2, <3>3
  <2>6. UploadsInv'
    BY <1>5, <2>5 DEF UploadsInv
  <2>7. RequestsInv'
    BY <1>2, <1>5, <2>1, <2>2, <2>3, CreatedRequest
  <2>8. OwnersInv'
    <3>1. CASE at = 43
      <4>1. created["bob"] = <<>> /\ created'["bob"] = Append(created["bob"], "bobs")
            /\ created'["alice"] = created["alice"]
        BY <1>0, <2>1, <2>2, <3>1, CreatesLast DEF OwnersInv, Users
      <4>2. created'["bob"] = <<"bobs">>
        BY <4>1
      <4>. QED BY <1>0, <3>1, <4>1, <4>2 DEF OwnersInv, Sent, Awaited
    <3>2. CASE at # 43
      <4>1. \A u \in Awaited : at' > Sent[u] + 1 => u = op.of \/ at > Sent[u] + 1
        <5>1. \A u \in Awaited : u \in Uploads
          BY DEF Awaited, Uploads
        <5>. QED BY <1>5, <2>2, <5>1, SentAt
      <4>2. at' \in Nat /\ (at' > 43 <=> at > 43)
        BY <1>5, <3>2
      <4>. QED BY <1>2, <2>1, <2>2, <3>2, <4>1, <4>2, CreatedForAlice
    <3>. QED BY <3>1, <3>2
  <2>. QED BY <2>6, <2>7, <2>8 DEF ServerInv
<1>6. CASE at \in {9, 12, 15, 17, 18}
  <2> DEFINE r == IF at = 15 THEN "second" ELSE IF at = 17 THEN "invalid" ELSE "extra"
  <2>1. \/ CreatesNothing /\ (at = 15 => uploads' = uploads)
        \/ /\ Creates("alice", r)
           /\ r \in Uploads => uploads' = [uploads EXCEPT ![r] = "confirmed"]
    BY <1>0, <1>6, ConfirmDoes DEF Uploads
  <2>2. at \in {9, 12, 18} => uploads' = uploads
    BY <1>0, <1>6, ConfirmDoes
  <2>3. at = 17 => \E to \in {"open", "gone", "confirmed"} : uploads' = [uploads EXCEPT !["invalid"] = to]
    BY <1>0, ConfirmDoes
  <2>4. at = 17 => uploads'["invalid"] = IF fault = "invalidAccepted" THEN "confirmed"
                                         ELSE IF fault = "invalidKept" THEN "open" ELSE "gone"
    BY <1>0, ConfirmDoes DEF TypeOK, Uploads
  <2>5. r \in Requests /\ r # "bobs" /\ r \notin Awaited /\ Uploads \subseteq Requests /\ "alice" \in Users
    BY DEF Requests, Uploads, Awaited, Users
  <2>6. \A u \in Uploads : u \in {"second", "invalid"} \/ uploads'[u] = uploads[u]
    <3>1. uploads = [u \in Uploads |-> uploads[u]]
      BY DEF TypeOK
    <3>2. at = 15 => uploads' = uploads \/ uploads' = [uploads EXCEPT !["second"] = "confirmed"]
      BY <2>1 DEF Uploads
    <3>. QED BY <1>6, <2>2, <2>3, <3>1, <3>2
  <2>7. \A u \in Uploads : u # r => request'[u] = request[u]
    BY <2>1, <2>5, CreatesLast DEF CreatesNothing
  <2>8. at # 17 => uploads'["invalid"] = uploads["invalid"]
    BY <1>6, <2>1, <2>2 DEF TypeOK, Uploads
  <2>9. at # 15 => uploads'["second"] = uploads["second"]
    BY <1>6, <2>2, <2>3 DEF TypeOK, Uploads
  <2>10. at = 15 => uploads'["second"] = "confirmed" \/ UNCHANGED <<uploads, request>>
    BY <2>1 DEF TypeOK, Uploads, CreatesNothing
  <2>11. at = 17 => uploads'["invalid"] = "confirmed" \/ UNCHANGED request
    BY <2>1 DEF TypeOK, Uploads, CreatesNothing
  <2>12. UploadsInv'
    <3>1. ASSUME NEW u \in Uploads
          PROVE  /\ at' <= Sent[u] => uploads'[u] = None
                 /\ at' = Sent[u] + 1 => uploads'[u] = "open"
                 /\ u \notin {"second", "invalid"} /\ at' > Sent[u] + 1 => uploads'[u] = "confirmed"
                 /\ uploads'[u] # "confirmed" => request'[u] = None
      <4>1. /\ at <= Sent[u] => uploads[u] = None
            /\ at = Sent[u] + 1 => uploads[u] = "open"
            /\ u \notin {"second", "invalid"} /\ at > Sent[u] + 1 => uploads[u] = "confirmed"
            /\ uploads[u] # "confirmed" => request[u] = None
        BY <1>3
      <4>2. /\ Sent[u] \in {4, 6, 14, 16, 34, 42}
            /\ u = "second" => Sent[u] = 14
            /\ u = "invalid" => Sent[u] = 16
            /\ u \notin {"second", "invalid"} => Sent[u] \notin {14, 16}
        BY SentAt DEF Sent, Uploads
      <4>3. CASE u \notin {"second", "invalid"}
        <5>1. uploads'[u] = uploads[u] /\ request'[u] = request[u]
          BY <2>6, <2>7, <4>3, <2>5 DEF Uploads
        <5>. QED BY <1>6, <4>1, <4>2, <4>3, <5>1
      <4>4. CASE u = "second"
        <5>1. request'[u] = request[u] \/ uploads'[u] = "confirmed"
          BY <1>6, <2>7, <2>10, <4>4
        <5>2. at < 15 => uploads'[u] = uploads[u]
          BY <2>9, <4>4
        <5>. QED BY <1>6, <2>9, <4>1, <4>2, <4>4, <5>1, <5>2
      <4>5. CASE u = "invalid"
        <5>1. request'[u] = request[u] \/ uploads'[u] = "confirmed"
          BY <1>6, <2>7, <2>11, <4>5
        <5>. QED BY <1>6, <2>8, <4>1, <4>2, <4>5, <5>1
      <4>. QED BY <4>3, <4>4, <4>5
    <3>2. at' = 18 => uploads'["invalid"] = IF fault' = "invalidAccepted" THEN "confirmed"
                                     ELSE IF fault' = "invalidKept" THEN "open" ELSE "gone"
      BY <1>2, <1>6, <2>4
    <3>. QED BY <3>1, <3>2 DEF UploadsInv
  <2>13. RequestsInv' /\ OwnersInv'
    <3>1. CASE CreatesNothing
      BY <1>2, <1>6, <3>1, CreatedForNobody
    <3>2. CASE Creates("alice", r)
      <4>1. \A u \in Awaited : at' > Sent[u] + 1 => u = r \/ at > Sent[u] + 1
        BY <1>6 DEF Awaited, Sent
      <4>2. at' \in Nat /\ (at' > 43 <=> at > 43)
        BY <1>6
      <4>3. OwnersInv'
        BY <1>2, <2>5, <3>2, <4>1, <4>2, CreatedForAlice
      <4>4. RequestsInv'
        BY <1>2, <1>6, <2>5, <3>2, CreatedRequest
      <4>. QED BY <4>3, <4>4
    <3>. QED BY <2>1, <3>1, <3>2
  <2>. QED BY <2>12, <2>13 DEF ServerInv
<1>. QED BY <1>1, <1>5, <1>6

\* A poll that is answered has seen what is due from then on.
LEMMA AfterPoll ==
  ASSUME TypeOK, ServerInv, at' = at + 1,
         AwaitTerminal \/ AwaitDelivery \/ (AwaitDownload /\ request[op.of] = "COMPLETED")
  PROVE  ServerInv'
<1>1. UNCHANGED <<uploads, created, request, delivery, fault>>
  BY DEF AwaitTerminal, AwaitDelivery, AwaitDownload, serverVars
<1>2. at \in {19, 21, 24, 27, 30, 31, 36, 38} /\ ~Ended /\ op = Program[at]
  BY CallsAt DEF AwaitTerminal, AwaitDelivery, AwaitDownload, Doing
<1>3. UploadsInv' /\ OwnersInv'
  <2>1. UploadsInv'
    BY <1>1, <1>2 DEF ServerInv, UploadsInv, Sent, Uploads
  <2>2. OwnersInv'
    BY <1>1, <1>2 DEF ServerInv, OwnersInv, Sent, Awaited
  <2>. QED BY <2>1, <2>2
<1>4. /\ op.of = "video" /\ op.call = "download" <=> at = 19
      /\ op.of = "nonVideo" /\ op.call = "delivery" <=> at = 31
      /\ op.of = "corrupted" /\ op.call = "delivery" <=> at = 38
  BY <1>2, ProgramTable DEF Op
<1>5. at = 19 => request["video"] = "COMPLETED"
  BY <1>4 DEF AwaitTerminal, AwaitDelivery, Doing
<1>6. /\ at = 31 => delivery["nonVideo"] \notin {None, "recorded"}
      /\ at = 38 => delivery["corrupted"] \notin {None, "recorded"}
  BY <1>4 DEF AwaitTerminal, AwaitDownload, AwaitDelivery, Doing, None
<1>7. RequestsInv'
  BY <1>1, <1>2, <1>5, <1>6 DEF ServerInv, RequestsInv, Ends
<1>. QED BY <1>3, <1>7 DEF ServerInv

\* The platform goes on: requests end, deliveries are recorded and mailed.
LEMMA AfterSettle ==
  ASSUME TypeOK, ServerInv, NEW r \in Awaited, Settle(r)
  PROVE  ServerInv' /\ request'["strangers"] = request["strangers"]
<1>1. /\ request[r] = "inFlight" /\ request' = [request EXCEPT ![r] = Ends(fault, r)]
      /\ UNCHANGED <<uploads, created, delivery, at, fault>>
  BY FateIsEnd DEF Settle, runVars
<1>2. /\ r \in Uploads /\ r \in Requests /\ Awaited \subseteq Requests /\ Uploads \subseteq Requests
      /\ r # "strangers" /\ "strangers" \in Requests
  BY DEF Awaited, Uploads, Requests
<1>3. \A q \in Requests : request'[q] = IF q = r THEN Ends(fault, r) ELSE request[q]
  BY <1>1 DEF TypeOK
<1>4. UploadsInv'
  <2>1. UploadsInv
    BY DEF ServerInv
  <2>2. uploads[r] = "confirmed"
    BY <1>1, <1>2, <2>1 DEF UploadsInv, None
  <2>3. \A u \in Uploads : uploads[u] # "confirmed" => request'[u] = None
    BY <1>2, <1>3, <2>1, <2>2 DEF UploadsInv
  <2>. QED BY <1>1, <2>1, <2>3 DEF UploadsInv, Sent
<1>5. RequestsInv'
  <2>1. RequestsInv
    BY DEF ServerInv
  <2>2. \A a \in Awaited : request'[a] \in {None, "inFlight", Ends(fault, a)}
    BY <1>2, <1>3, <2>1 DEF RequestsInv
  <2>3. \A a \in Awaited : delivery[a] # None => request'[a] = Ends(fault, a)
    BY <1>2, <1>3, <2>1 DEF RequestsInv
  <2>4. at > 19 => request'["video"] = "COMPLETED"
    BY <1>1, <1>2, <1>3, <2>1 DEF RequestsInv, Awaited
  <2>. QED BY <1>1, <2>1, <2>2, <2>3, <2>4 DEF RequestsInv, Ends
<1>6. OwnersInv'
  BY <1>1 DEF ServerInv, OwnersInv, Sent
<1>. QED BY <1>2, <1>3, <1>4, <1>5, <1>6 DEF ServerInv

\* A request that is notified has ended.
LEMMA AfterNotify ==
  ASSUME TypeOK, ServerInv, NEW r \in Awaited, Notify(r)
  PROVE  ServerInv'
<1>1. UNCHANGED <<uploads, created, request, at, fault>>
  BY DEF Notify, runVars
<1>2. \/ request[r] \in TERMINAL /\ delivery[r] = None /\ delivery' = [delivery EXCEPT ![r] = "recorded"]
      \/ /\ delivery[r] = "recorded"
         /\ delivery' = [delivery EXCEPT ![r] = IF fault = "emailLost" THEN "error" ELSE "sent"]
  BY DEF Notify, If
<1>3. UploadsInv' /\ OwnersInv'
  BY <1>1 DEF ServerInv, UploadsInv, OwnersInv, Sent
<1>4. RequestsInv
  BY DEF ServerInv
<1>5. \E to \in {"recorded", IF fault = "emailLost" THEN "error" ELSE "sent"} :
        \A a \in Awaited : delivery'[a] = IF a = r THEN to ELSE delivery[a]
  BY <1>2 DEF TypeOK
<1>6. request[r] = Ends(fault, r)
  BY <1>2, <1>4 DEF RequestsInv, TERMINAL, None
<1>7. \A a \in Awaited :
        delivery'[a] \in {None, "recorded", IF fault = "emailLost" THEN "error" ELSE "sent"}
  BY <1>4, <1>5 DEF RequestsInv
<1>8. \A a \in Awaited : delivery'[a] # None => request[a] = Ends(fault, a)
  BY <1>4, <1>5, <1>6 DEF RequestsInv
<1>9. \A a \in Awaited :
        delivery[a] \notin {None, "recorded"} => delivery'[a] \notin {None, "recorded"}
  <2>1. delivery[r] \in {None, "recorded"}
    BY <1>2
  <2>. QED BY <1>5, <2>1
<1>10. "nonVideo" \in Awaited /\ "corrupted" \in Awaited
  BY DEF Awaited
<1>11. RequestsInv'
  BY <1>1, <1>4, <1>7, <1>8, <1>9, <1>10 DEF RequestsInv, Ends
<1>. QED BY <1>3, <1>11 DEF ServerInv

\* Another client adds a request to alice's.
LEMMA AfterStranger ==
  ASSUME TypeOK, ServerInv, StrangerConfirms
  PROVE  ServerInv'
<1>1. Creates("alice", "strangers") /\ UNCHANGED <<uploads, delivery, at, fault>>
  BY DEF StrangerConfirms, runVars
<1>2. /\ "strangers" \in Requests /\ "strangers" \notin Uploads /\ "strangers" \notin Awaited
      /\ "strangers" # "bobs" /\ Uploads \subseteq Requests /\ "alice" \in Users
  BY DEF Requests, Uploads, Awaited, Users
<1>3. at \in Nat
  BY ProgramPosed DEF TypeOK
<1>4. RequestsInv'
  BY <1>1, <1>2, CreatedRequest
<1>5. OwnersInv'
  BY <1>1, <1>2, <1>3, CreatedForAlice
<1>6. \A u \in Uploads : request'[u] = request[u]
  BY <1>1, <1>2, CreatesLast
<1>7. UploadsInv'
  BY <1>1, <1>6 DEF ServerInv, UploadsInv, Sent
<1>. QED BY <1>4, <1>5, <1>7 DEF ServerInv

-----------------------------------------------------------------------------
(* The totals around a replay, and the lists while they are read.          *)

\* The calls of a replay stand between two totals.
LEMMA ReplayAt ==
  ASSUME NEW i \in {8, 9, 11, 12}
  PROVE  /\ StepAt(i + 1) = StepAt(i)
         /\ StepAt(i) = IF i < 10 THEN "confirmationReplay" ELSE "secondKeyReplays"
         /\ Program[i].call = "total" <=> i \in {8, 11}
         /\ Begin[StepAt(i)] = IF i < 10 THEN 8 ELSE 11
BY ProgramTable DEF Op, StepAt, Begin

\* An observation has a number.
LEMMA SeenNumber ==
  ASSUME TypeOK, NEW s \in Steps, NEW k \in 1 .. Len(ctx[s])
  PROVE  ctx[s][k].n \in Nat
<1>1. ctx[s] \in Seq(Observation)
  BY DEF TypeOK
<1>2. ctx[s][k] \in Observation
  BY <1>1
<1>. QED BY <1>2 DEF Observation

\* How many observations the current step has.
LEMMA SeenLength ==
  ASSUME SeenInv, at \in 1 .. 48
  PROVE  Len(ctx[StepAt(at)]) = (at - Begin[StepAt(at)]) + (IF phase = "delete" THEN 1 ELSE 0)
BY DEF SeenInv

\* After the call of a replay before its last, the first total is the one due.
LEMMA AfterTotals ==
  ASSUME TypeOK, ~Ended, SeenInv, TotalsInv, NEW c, Sees(c), Finish(c), at' = at + 1,
         UNCHANGED fault, request'["strangers"] = request["strangers"],
         at \in {8, 11} => UNCHANGED created,
         at \in {9, 12} =>
           Len(created'["alice"]) = Len(created["alice"]) +
             (IF fault = (IF at = 9 THEN "replayCreates" ELSE "secondKeyCreates") THEN 1 ELSE 0)
  PROVE  TotalsInv'
<1> DEFINE here == StepAt(at)
           n == c[here][1].n
           m == Len(created["alice"])
<1>1. at \in 1 .. 48
  BY CallsAt
<1>2. m \in Nat
  BY DEF TypeOK, Users
<1>3. CASE at \in {8, 9, 11, 12}
  <2>1. /\ StepAt(at + 1) = here
        /\ here = IF at < 10 THEN "confirmationReplay" ELSE "secondKeyReplays"
        /\ op.call = "total" <=> at \in {8, 11}
        /\ Begin[here] = IF at < 10 THEN 8 ELSE 11
    BY <1>3, ReplayAt DEF op
  <2>2. ctx' = c
    <3>1. op.step = here /\ at # 48 /\ Len(Program) = 48
      BY <1>3, ProgramTable DEF op, StepAt
    <3>. QED BY <2>1, <3>1 DEF Finish, StepAt
  <2>3. at \in {8, 11} => n = m
    BY <2>1 DEF Sees
  <2>4. at \in {9, 12} => c[here][1] = ctx[here][1] /\ ctx[here][1].n \in Nat
    <3>1. at \in {9, 12} => Len(ctx[here]) \in Nat /\ Len(ctx[here]) >= 1
      <4>1. Len(ctx[here]) = (at - Begin[here]) + (IF phase = "delete" THEN 1 ELSE 0)
        BY <1>1, SeenLength
      <4>. QED BY <2>1, <4>1
    <3>2. at \in {9, 12} => 1 \in 1 .. Len(ctx[here])
      BY <3>1
    <3>3. here \in Steps
      BY <1>1, StepAtTyped
    <3>. QED BY <3>2, <3>3, SeenNumber DEF Sees
  <2>5. at = 9 => n = ctx["confirmationReplay"][1].n /\ n \in Nat
    BY <2>1, <2>4
  <2>6. at = 12 => n = ctx["secondKeyReplays"][1].n /\ n \in Nat
    BY <2>1, <2>4
  <2>7. at \in {8, 9} => ctx'["confirmationReplay"][1].n = n
    BY <2>1, <2>2
  <2>8. at \in {11, 12} => ctx'["secondKeyReplays"][1].n = n
    BY <2>1, <2>2
  <2> HIDE DEF n
  <2>9. CASE at = 8
    BY <1>2, <2>3, <2>7, <2>9 DEF TotalsInv, TotalStands
  <2>10. CASE at = 9
    <3>1. n <= m /\ (request["strangers"] = None => n = m)
      BY <2>5, <2>10 DEF TotalsInv, TotalStands
    <3>2. IF fault' = "replayCreates" THEN n < Len(created'["alice"])
          ELSE request'["strangers"] = None => n = Len(created'["alice"])
      <4>1. Len(created'["alice"]) = m + (IF fault = "replayCreates" THEN 1 ELSE 0)
        BY <2>10
      <4>2. fault' = fault /\ (request'["strangers"] = None => request["strangers"] = None)
        OBVIOUS
      <4> HIDE DEF m
      <4>3. n \in Nat
        BY <2>5, <2>10
      <4>. QED BY ONLY <1>2, <3>1, <4>1, <4>2, <4>3
    <3>. QED BY <2>7, <2>10, <3>2 DEF TotalsInv, ReplayStands
  <2>11. CASE at = 11
    BY <1>2, <2>3, <2>8, <2>11 DEF TotalsInv, TotalStands
  <2>12. CASE at = 12
    <3>1. n <= m /\ (request["strangers"] = None => n = m)
      BY <2>6, <2>12 DEF TotalsInv, TotalStands
    <3>2. IF fault' = "secondKeyCreates" THEN n < Len(created'["alice"])
          ELSE request'["strangers"] = None => n = Len(created'["alice"])
      <4>1. Len(created'["alice"]) = m + (IF fault = "secondKeyCreates" THEN 1 ELSE 0)
        <5>1. at \in {9, 12} /\ at # 9
          BY <2>12
        <5>. QED BY <5>1
      <4>2. fault' = fault /\ (request'["strangers"] = None => request["strangers"] = None)
        OBVIOUS
      <4> HIDE DEF m
      <4>3. n \in Nat
        BY <2>6, <2>12
      <4>. QED BY ONLY <1>2, <3>1, <4>1, <4>2, <4>3
    <3>. QED BY <2>8, <2>12, <3>2 DEF TotalsInv, ReplayStands
  <2>. QED BY <1>3, <2>9, <2>10, <2>11, <2>12
<1>4. CASE at \notin {8, 9, 11, 12}
  BY <1>1, <1>4 DEF TotalsInv
<1>. QED BY <1>3, <1>4

\* Nothing is created.
LEMMA TotalsKept ==
  ASSUME TotalsInv, UNCHANGED <<at, ctx, created, fault>>,
         request'["strangers"] = request["strangers"]
  PROVE  TotalsInv'
BY DEF TotalsInv, TotalStands, ReplayStands

\* Every listing begins on the first page.
LEMMA AfterListing ==
  ASSUME TypeOK, ~Ended, at' = at + 1, listing' = NewListing
  PROVE  ListInv'
<1>1. /\ listing'.ids = {} /\ listing'.read = 0 /\ listing'.page = 1
  BY DEF NewListing
<1>2. (1 - 1) * PageSize = 0
  BY ConstantsAssumption
<1>3. \A list, k : k \in 1 .. Len(list) => ~(k <= 0)
  OBVIOUS
<1>4. \A list : listing'.ids \subseteq Range(list) /\ listing'.read <= 0
  BY <1>1
<1>5. ReadSoFar(ListOf("alice"))' /\ ReadSoFar(ListOf("bob"))'
  BY <1>1, <1>2, <1>3, <1>4 DEF ReadSoFar
<1>. QED BY <1>5 DEF ListInv

\* Another client's request adds to the total: the one read before is behind.
LEMMA StrangerInTotals ==
  ASSUME TypeOK, TotalsInv, StrangerConfirms,
         at \in {9, 10} => ctx["confirmationReplay"][1].n \in Nat,
         at \in {12, 13} => ctx["secondKeyReplays"][1].n \in Nat
  PROVE  TotalsInv'
<1>1. UNCHANGED <<at, ctx, fault>> /\ Creates("alice", "strangers")
  BY DEF StrangerConfirms, runVars
<1>2. /\ Len(created'["alice"]) = Len(created["alice"]) + 1 /\ Len(created["alice"]) \in Nat
      /\ request'["strangers"] # None
  BY <1>1, CreatesLast DEF Users, Requests, None
<1>3. at = 9 => TotalStands(ctx["confirmationReplay"][1].n)'
  BY <1>1, <1>2 DEF TotalsInv, TotalStands
<1>4. at = 10 => ReplayStands(ctx["confirmationReplay"][1].n, "replayCreates")'
  BY <1>1, <1>2 DEF TotalsInv, ReplayStands
<1>5. at = 12 => TotalStands(ctx["secondKeyReplays"][1].n)'
  BY <1>1, <1>2 DEF TotalsInv, TotalStands
<1>6. at = 13 => ReplayStands(ctx["secondKeyReplays"][1].n, "secondKeyCreates")'
  BY <1>1, <1>2 DEF TotalsInv, ReplayStands
<1>. QED BY <1>1, <1>3, <1>4, <1>5, <1>6 DEF TotalsInv

\* An item that is added moves those before it one position on.
LEMMA ShiftedList ==
  ASSUME TypeOK, NEW l \in Nat, NEW m \in Nat, NEW old, NEW new,
         Len(old) = l + m, DOMAIN old = 1 .. l + m,
         Len(new) = l + 1 + m, DOMAIN new = 1 .. l + 1 + m,
         \A k \in 1 .. l + 1 + m :
           new[k] = IF k <= l THEN old[k] ELSE IF k = l + 1 THEN "strangers" ELSE old[k - 1],
         ReadSoFar(old)
  PROVE  ReadSoFar(new)
<1> DEFINE p == (listing.page - 1) * PageSize
<1>1. l \in Nat /\ m \in Nat /\ p \in Nat
  BY PageRanks DEF TypeOK, Listing
<1> HIDE DEF p
<1>5. \A k \in 1 .. l + 1 + m :
        new[k] = IF k <= l THEN old[k] ELSE IF k = l + 1 THEN "strangers" ELSE old[k - 1]
  OBVIOUS
<1>6. /\ listing.ids \subseteq Range(old) /\ listing.read <= p
      /\ \A k \in 1 .. l + m : k <= p => old[(l + m) + 1 - k] \in listing.ids \cup {"strangers"}
  BY DEF ReadSoFar, p
<1>7. Range(old) \subseteq Range(new)
  <2>1. ASSUME NEW k \in 1 .. l + m PROVE \E j \in 1 .. l + 1 + m : new[j] = old[k]
    <3>1. CASE k <= l
      BY <1>1, <1>5, <3>1
    <3>2. CASE k > l
      <4>1. k + 1 \in 1 .. l + 1 + m /\ ~(k + 1 <= l) /\ k + 1 # l + 1 /\ (k + 1) - 1 = k
        BY <1>1, <3>2
      <4>. QED BY <1>5, <4>1
    <3>. QED BY <1>1, <3>1, <3>2
  <2>. QED BY <2>1 DEF Range
<1>8. ASSUME NEW k \in 1 .. l + 1 + m, k <= p
      PROVE  new[(l + 1 + m) + 1 - k] \in listing.ids \cup {"strangers"}
  <2> DEFINE j == (l + 1 + m) + 1 - k
  <2>1. j \in 1 .. l + 1 + m
    BY <1>1, <1>8
  <2>2. CASE j <= l
    <3>1. k - 1 \in 1 .. l + m /\ k - 1 <= p /\ (l + m) + 1 - (k - 1) = j
      BY <1>1, <1>8, <2>1, <2>2
    <3>2. new[j] = old[j]
      BY <1>5, <2>1, <2>2
    <3>. QED BY <1>6, <3>1, <3>2
  <2>3. CASE j = l + 1
    <3>1. new[j] = "strangers"
      BY <1>1, <1>5, <2>1, <2>3
    <3>. QED BY <3>1
  <2>4. CASE j > l + 1
    <3>1. k \in 1 .. l + m /\ (l + m) + 1 - k = j - 1
      BY <1>1, <1>8, <2>1, <2>4
    <3>2. new[j] = old[j - 1]
      BY <1>1, <1>5, <2>1, <2>4
    <3>. QED BY <1>6, <1>8, <3>1, <3>2
  <2>. QED BY <1>1, <2>1, <2>2, <2>3, <2>4
<1>9. /\ listing.ids \subseteq Range(new)
      /\ \A k \in 1 .. l + 1 + m : k <= p => new[(l + 1 + m) + 1 - k] \in listing.ids \cup {"strangers"}
  BY <1>6, <1>7, <1>8
<1>. QED BY <1>6, <1>9 DEF ReadSoFar, p

\* Another client's request moves the items of alice's list.
LEMMA StrangerInList ==
  ASSUME TypeOK, NEW list \in Seq(Requests), NEW more \in Seq(Requests), ReadSoFar(list \o more)
  PROVE  ReadSoFar(Append(list, "strangers") \o more)
<1> DEFINE old == list \o more
           new == Append(list, "strangers") \o more
           l == Len(list)
           m == Len(more)
<1>1. l \in Nat /\ m \in Nat
  OBVIOUS
<1>2. /\ Append(list, "strangers") \in Seq(Requests) /\ Len(Append(list, "strangers")) = l + 1
      /\ \A k \in 1 .. l : Append(list, "strangers")[k] = list[k]
      /\ Append(list, "strangers")[l + 1] = "strangers"
  BY AppendProperties DEF Requests
<1>3. /\ Len(old) = l + m
      /\ \A k \in 1 .. l + m : old[k] = IF k <= l THEN list[k] ELSE more[k - l]
      /\ DOMAIN old = 1 .. l + m
  BY ConcatProperties
<1>4. /\ Len(new) = l + 1 + m
      /\ \A k \in 1 .. l + 1 + m :
           new[k] = IF k <= l + 1 THEN Append(list, "strangers")[k] ELSE more[k - (l + 1)]
      /\ DOMAIN new = 1 .. l + 1 + m
  BY <1>2, ConcatProperties
<1> HIDE DEF l, m, old, new
<1>5. ASSUME NEW k \in 1 .. l + 1 + m
      PROVE  new[k] = IF k <= l THEN old[k] ELSE IF k = l + 1 THEN "strangers" ELSE old[k - 1]
  <2>1. CASE k <= l
    BY ONLY <1>1, <1>2, <1>3, <1>4, <2>1, k \in 1 .. l + 1 + m
  <2>2. CASE k = l + 1
    BY ONLY <1>1, <1>2, <1>4, <2>2, k \in 1 .. l + 1 + m
  <2>3. CASE k > l + 1
    <3>1. k - 1 \in 1 .. l + m /\ ~(k - 1 <= l) /\ (k - 1) - l = k - (l + 1)
      BY ONLY <1>1, <2>3, k \in 1 .. l + 1 + m
    <3>2. new[k] = more[k - (l + 1)]
      BY ONLY <1>1, <1>4, <2>3, k \in 1 .. l + 1 + m
    <3>. QED BY ONLY <1>1, <1>3, <2>3, <3>1, <3>2, k \in 1 .. l + 1 + m
  <2>4. k <= l \/ k = l + 1 \/ k > l + 1
    BY ONLY <1>1, k \in 1 .. l + 1 + m
  <2>. QED BY <2>1, <2>2, <2>3, <2>4
<1>6. ReadSoFar(old)
  BY DEF old
<1>7. ReadSoFar(new)
  BY ONLY TypeOK, <1>1, <1>3, <1>4, <1>5, <1>6, ShiftedList
<1>. QED BY <1>7 DEF new

-----------------------------------------------------------------------------
(* The verdicts.                                                           *)

\* Each step's check.
LEMMA HoldsAt ==
  ASSUME NEW c
  PROVE  /\ Holds("apiHealth", c) <=>
              (Answers(c["apiHealth"]) = <<"200">>)
         /\ Holds("anonymousRefused", c) <=>
              (Answers(c["anonymousRefused"]) = <<"401">>)
         /\ Holds("oldCreateGone", c) <=>
              (Answers(c["oldCreateGone"]) = <<"404">>)
         /\ Holds("uploadConfirmed", c) <=>
              (\A i \in DOMAIN c["uploadConfirmed"] : c["uploadConfirmed"][i].answer = "201")
         /\ Holds("confirmationReplay", c) <=>
              (Replayed(c["confirmationReplay"]))
         /\ Holds("secondKeyReplays", c) <=>
              (Replayed(c["secondKeyReplays"]))
         /\ Holds("keyReuseConflict", c) <=>
              (KeyReuseConflict(c["keyReuseConflict"]))
         /\ Holds("invalidPartsRejected", c) <=>
              (InvalidPartsRejected(c["invalidPartsRejected"]))
         /\ Holds("downloadIssued", c) <=>
              (DownloadIssued(c["downloadIssued"]))
         /\ Holds("anonymousAccess", c) <=>
              (Answers(c["anonymousAccess"]) = <<"403">>)
         /\ Holds("bucketLifecycle", c) <=>
              (Answers(c["bucketLifecycle"]) = <<"owned">>)
         /\ Holds("videoCompleted", c) <=>
              (EndedAs(c["videoCompleted"][1], "video", "COMPLETED"))
         /\ Holds("keyScope", c) <=>
              (c["videoCompleted"][1].keys = {"video"})
         /\ Holds("archiveObject", c) <=>
              (ArchiveObject(c["archiveObject"][1], c["videoCompleted"][1].keys))
         /\ Holds("rejection", c) <=>
              (EndedAs(c["rejection"][1], "nonVideo", "FORMATO_INVALIDO"))
         /\ Holds("archiveCount", c) <=>
              (c["downloadIssued"][2].n = EXPECTED_FRAMES)
         /\ Holds("noArchive", c) <=>
              (c["noArchive"][1].n = 0)
         /\ Holds("videoDelivery", c) <=>
              (OneOf(c["videoDelivery"][1], "video"))
         /\ Holds("deliverySentence", c) <=>
              (Delivered(c["deliverySentence"][1], "nonVideo", "FORMATO_INVALIDO"))
         /\ Holds("singleDelivery", c) <=>
              (DeliveredOnce(c["singleDelivery"][1]))
         /\ Holds("failureEmail", c) <=>
              (Mailed(c["failureEmail"][1], "alice"))
         /\ Holds("processingFailure", c) <=>
              (c["processingFailure"][1].answer = "201" /\ c["processingFailure"][2].answer = "201"
              /\ EndedAs(c["processingFailure"][3], "corrupted", "PROCESSAMENTO_FALHOU"))
         /\ Holds("failureArchive", c) <=>
              (c["failureArchive"][1].n = 0)
         /\ Holds("failureDelivery", c) <=>
              (Delivered(c["failureDelivery"][1], "corrupted", "PROCESSAMENTO_FALHOU") /\ DeliveredOnce(c["failureDelivery"][2]))
         /\ Holds("processingFailureEmail", c) <=>
              (Mailed(c["processingFailureEmail"][1], "alice"))
         /\ Holds("failureReason", c) <=>
              (c["failureReason"][1].answer = "200" /\ OneOf(c["failureReason"][1], "corrupted"))
         /\ Holds("bobRequestCreated", c) <=>
              (\A i \in DOMAIN c["bobRequestCreated"] : c["bobRequestCreated"][i].answer = "201")
         /\ Holds("listsDisjoint", c) <=>
              (ListsDisjoint(c["listsDisjoint"][1].keys, c["listsDisjoint"][2].keys))
         /\ Holds("crossRead", c) <=>
              (CrossOwnerNotFound(c["crossRead"]))
         /\ Holds("crossDownload", c) <=>
              (CrossOwnerNotFound(c["crossDownload"]))
         /\ Holds("noInternalFields", c) <=>
              (c["listsDisjoint"][1].answer = "200")
BY ZenonT(60) DEF Holds

\* The answers of a step, one by one.
LEMMA AnswersAt ==
  ASSUME NEW seen
  PROVE  /\ DOMAIN seen = 1 .. 1 =>
              \A x : Answers(seen) = <<x>> <=> seen[1].answer = x
         /\ DOMAIN seen = 1 .. 2 =>
              \A x, y : Answers(seen) = <<x, y>> <=> seen[1].answer = x /\ seen[2].answer = y
         /\ DOMAIN seen = 1 .. 3 =>
              \A x, y, z : Answers(seen) = <<x, y, z>> <=>
                seen[1].answer = x /\ seen[2].answer = y /\ seen[3].answer = z
<1>1. ASSUME DOMAIN seen = 1 .. 1, NEW x
      PROVE  Answers(seen) = <<x>> <=> seen[1].answer = x
  BY <1>1 DEF Answers
<1>2. ASSUME DOMAIN seen = 1 .. 2, NEW x, NEW y
      PROVE  Answers(seen) = <<x, y>> <=> seen[1].answer = x /\ seen[2].answer = y
  BY <1>2 DEF Answers
<1>3. ASSUME DOMAIN seen = 1 .. 3, NEW x, NEW y, NEW z
      PROVE  Answers(seen) = <<x, y, z>> <=>
                seen[1].answer = x /\ seen[2].answer = y /\ seen[3].answer = z
  BY <1>3 DEF Answers
<1>. QED BY <1>1, <1>2, <1>3

\* What the calls of a step are seen to say when its last one, or a later one, is
\* answered.
LEMMA CallsSay ==
  ASSUME TypeOK, ~Ended, NEW c, Sees(c), op.call # "check", NEW s, s = StepAt(at)
  PROVE  /\ DOMAIN c[s] = 1 .. at + 1 - Begin[s]
         /\ \A i \in Begin[s] .. at : Says(fault, i, c[s][i + 1 - Begin[s]])
<1>1. at \in 1 .. 48 /\ Begin[s] \in 1 .. at
  BY CallsAt, BeginAt
<1>2. Len(c[s]) = at + 1 - Begin[s] /\ DOMAIN c[s] = 1 .. Len(c[s])
  BY DEF Sees, SeenWith
<1>3. \A k \in 1 .. Len(c[s]) : Says(fault, Begin[s] + k - 1, c[s][k])
  BY DEF Sees, SeenWith
<1>4. ASSUME NEW i \in Begin[s] .. at PROVE Says(fault, i, c[s][i + 1 - Begin[s]])
  <2>1. i + 1 - Begin[s] \in 1 .. Len(c[s]) /\ Begin[s] + (i + 1 - Begin[s]) - 1 = i
    BY <1>1, <1>2
  <2>. QED BY <1>3, <2>1
<1>. QED BY <1>2, <1>4

\* What later checks read is still known.
LEMMA Recalled ==
  ASSUME TypeOK, ~Ended, SeenInv, NEW c, Sees(c)
  PROVE  /\ at \in {25, 26} => Says(fault, 24, c["videoCompleted"][1])
         /\ at = 28 => Says(fault, 20, c["downloadIssued"][2])
         /\ at = 48 => Says(fault, 44, c["listsDisjoint"][1])
<1>1. ASSUME NEW s \in Steps, NEW k \in 1 .. Len(ctx[s]), s # StepAt(at)
      PROVE  Says(fault, Begin[s] + k - 1, c[s][k])
  <2>1. c[s] = ctx[s]
    BY <1>1 DEF Sees, SeenWith
  <2>. QED BY <1>1, <2>1 DEF SeenInv
<1>2. at \in 1 .. 48
  BY CallsAt
<1>3. ASSUME at \in {25, 26} PROVE Says(fault, 24, c["videoCompleted"][1])
  <2>1. "videoCompleted" \in Steps /\ "videoCompleted" # StepAt(at)
    BY <1>3, ReadLaterAt
  <2>2. 1 \in 1 .. Len(ctx["videoCompleted"]) /\ Begin["videoCompleted"] + 1 - 1 = 24
    <3>1. Len(ctx["videoCompleted"]) = 1
      BY <1>3 DEF SeenInv
    <3>. QED BY <3>1 DEF Begin
  <2>. QED BY <1>1, <2>1, <2>2
<1>4. ASSUME at = 28 PROVE Says(fault, 20, c["downloadIssued"][2])
  <2>1. "downloadIssued" \in Steps /\ "downloadIssued" # StepAt(at)
    BY <1>4, ReadLaterAt
  <2>2. 2 \in 1 .. Len(ctx["downloadIssued"]) /\ Begin["downloadIssued"] + 2 - 1 = 20
    <3>1. Len(ctx["downloadIssued"]) = 3
      BY <1>4 DEF SeenInv
    <3>. QED BY <3>1 DEF Begin
  <2>. QED BY <1>1, <2>1, <2>2
<1>5. ASSUME at = 48 PROVE Says(fault, 44, c["listsDisjoint"][1])
  <2>1. "listsDisjoint" \in Steps /\ "listsDisjoint" # StepAt(at)
    BY <1>5, ReadLaterAt
  <2>2. 1 \in 1 .. Len(ctx["listsDisjoint"]) /\ Begin["listsDisjoint"] + 1 - 1 = 44
    <3>1. Len(ctx["listsDisjoint"]) = 2
      BY <1>5 DEF SeenInv
    <3>. QED BY <3>1 DEF Begin
  <2>. QED BY <1>1, <2>1, <2>2
<1>. QED BY <1>3, <1>4, <1>5

\* The faults a step's last call tells.
LEMMA CaughtWhere ==
  ASSUME NEW f \in KnownFaults
  PROVE  /\ CaughtAt[f] \in {2, 3, 10, 13, 15, 18, 19, 21, 22, 23, 25, 26, 27, 28, 29, 32, 33,
                             36, 41, 45, 46, 47, 48}
         /\ CaughtAt[f] = 2 => f = "anonymousAccepted"
         /\ CaughtAt[f] = 3 => f = "oldCreateLives"
         /\ CaughtAt[f] = 10 => f = "replayCreates"
         /\ CaughtAt[f] = 13 => f = "secondKeyCreates"
         /\ CaughtAt[f] = 15 => f = "keyReused"
         /\ CaughtAt[f] = 18 => f \in {"invalidAccepted", "invalidKept"}
         /\ CaughtAt[f] = 19 => f = "videoFails"
         /\ CaughtAt[f] = 21 => f \in {"foreignArchiveIssued", "mixedRecords"}
         /\ CaughtAt[f] = 22 => f = "publicBucket"
         /\ CaughtAt[f] = 23 => f = "lifecycleLost"
         /\ CaughtAt[f] = 25 => f = "unscopedKey"
         /\ CaughtAt[f] = 26 => f = "archiveTwice"
         /\ CaughtAt[f] = 27 => f = "nonVideoAccepted"
         /\ CaughtAt[f] = 28 => f = "shortArchive"
         /\ CaughtAt[f] = 29 => f = "archiveLeft"
         /\ CaughtAt[f] = 32 => f = "deliveredTwice"
         /\ CaughtAt[f] = 33 => f \in {"emailLost", "emailedTwice", "wrongRecipient"}
         /\ CaughtAt[f] = 36 => f = "corruptedMiscoded"
         /\ CaughtAt[f] = 41 => f = "readMixed"
         /\ CaughtAt[f] = 45 => f = "listLeaks"
         /\ CaughtAt[f] = 46 => f = "readLeaks"
         /\ CaughtAt[f] = 47 => f = "downloadLeaks"
         /\ CaughtAt[f] = 48 => f = "internalFields"
BY DEF KnownFaults, CaughtAt

\* The verdict at the last call of a step: what is sound passes, but for the totals
\* around a replay that another client adds to, and a fault that is told there does
\* not.
Judged(c) ==
  /\ fault = None /\ (at \in {10, 13} => request["strangers"] = None) => Holds(StepAt(at), c)
  /\ Holds(StepAt(at), c) /\ fault # None => CaughtAt[fault] # at

\* The steps of one call.
LEMMA SingleCalls ==
  ASSUME NEW i \in {1, 2, 3, 22, 23, 24, 26, 27, 29, 30, 31, 32, 33, 37, 40, 41, 46, 47}
  PROVE  /\ Program[i].call # "check" /\ Begin[StepAt(i)] = i
         /\ i = 1 => StepAt(i) = "apiHealth"
         /\ i = 2 => StepAt(i) = "anonymousRefused"
         /\ i = 3 => StepAt(i) = "oldCreateGone"
         /\ i = 22 => StepAt(i) = "anonymousAccess"
         /\ i = 23 => StepAt(i) = "bucketLifecycle"
         /\ i = 24 => StepAt(i) = "videoCompleted"
         /\ i = 26 => StepAt(i) = "archiveObject"
         /\ i = 27 => StepAt(i) = "rejection"
         /\ i = 29 => StepAt(i) = "noArchive"
         /\ i = 30 => StepAt(i) = "videoDelivery"
         /\ i = 31 => StepAt(i) = "deliverySentence"
         /\ i = 32 => StepAt(i) = "singleDelivery"
         /\ i = 33 => StepAt(i) = "failureEmail"
         /\ i = 37 => StepAt(i) = "failureArchive"
         /\ i = 40 => StepAt(i) = "processingFailureEmail"
         /\ i = 41 => StepAt(i) = "failureReason"
         /\ i = 46 => StepAt(i) = "crossRead"
         /\ i = 47 => StepAt(i) = "crossDownload"
BY ProgramTable DEF Op, StepAt, Begin

\* The one observation of such a step is what its call returns.
LEMMA SingleSays ==
  ASSUME TypeOK, ~Ended, NEW c, Sees(c), NEW s, s = StepAt(at),
         at \in {1, 2, 3, 22, 23, 24, 26, 27, 29, 30, 31, 32, 33, 37, 40, 41, 46, 47}
  PROVE  DOMAIN c[s] = 1 .. 1 /\ Says(fault, at, c[s][1])
<1>1. op.call # "check" /\ Begin[s] = at
  BY SingleCalls DEF op
<1>. QED BY <1>1, CallsSay

\* A fault is a known one, and has not gone by.
LEMMA Faulty ==
  ASSUME TypeOK, CaughtInv
  PROVE  fault # None => fault \in KnownFaults /\ CaughtAt[fault] >= at
BY ConstantsAssumption DEF TypeOK, CaughtInv

\* A verdict is as due when the check passes what is sound and fails the faults
\* that are told there.
LEMMA Judging ==
  ASSUME TypeOK, CaughtInv, NEW c, NEW told,
         \A f \in KnownFaults : CaughtAt[f] = at => f \in told,
         fault = None /\ (at \in {10, 13} => request["strangers"] = None) => Holds(StepAt(at), c),
         fault \in told => ~Holds(StepAt(at), c)
  PROVE  Judged(c)
BY Faulty DEF Judged

\* Where no fault is told, a check only has to pass what is sound.
LEMMA JudgingSound ==
  ASSUME TypeOK, CaughtInv, NEW c, \A f \in KnownFaults : CaughtAt[f] # at,
         fault = None /\ (at \in {10, 13} => request["strangers"] = None) => Holds(StepAt(at), c)
  PROVE  Judged(c)
BY Faulty DEF Judged

\* The steps of one call are judged by what it says.
LEMMA SingleJudged ==
  ASSUME TypeOK, ~Ended, SeenInv, CaughtInv, NEW c, Sees(c),
         at \in {1, 2, 3, 22, 23, 24, 26, 27, 29, 30, 31, 32, 33, 37, 40, 41, 46, 47}
  PROVE  Judged(c)
<1> DEFINE s == StepAt(at)
           said == c[s][1]
<1>1. /\ DOMAIN c[s] = 1 .. 1
      /\ SaysStatus(fault, at, said.answer) /\ SaysNumber(fault, at, said.n)
      /\ SaysRequest(fault, at, said.id) /\ SaysKeys(fault, at, said.keys)
  BY SingleSays DEF Says
<1>2. \A x : Answers(c[s]) = <<x>> <=> said.answer = x
  BY <1>1, AnswersAt
<1> HIDE DEF s, said
<1>3. CASE at = 1
  <2>1. s = "apiHealth"
    BY <1>3, SingleCalls DEF s
  <2>2. Holds(s, c) <=> said.answer = "200"
    BY <1>2, <2>1, HoldsAt DEF said
  <2>3. \A f \in KnownFaults : CaughtAt[f] # at
    BY <1>3, CaughtWhere
  <2>4. fault = None => said.answer = "200"
    BY <1>1, <1>3 DEF SaysStatus, None
  <2>. QED BY <2>2, <2>3, <2>4, JudgingSound DEF s
<1>4. CASE at = 2
  <2>1. s = "anonymousRefused"
    BY <1>4, SingleCalls DEF s
  <2>2. Holds(s, c) <=> said.answer = "401"
    BY <1>2, <2>1, HoldsAt DEF said
  <2>3. \A f \in KnownFaults : CaughtAt[f] = at => f \in {"anonymousAccepted"}
    BY <1>4, CaughtWhere
  <2>4. fault = None => said.answer = "401"
    BY <1>1, <1>4 DEF SaysStatus, None
  <2>5. fault \in {"anonymousAccepted"} => ~(said.answer = "401")
    BY <1>1, <1>4 DEF SaysStatus, None
  <2>. QED BY <2>2, <2>3, <2>4, <2>5, Judging DEF s
<1>5. CASE at = 3
  <2>1. s = "oldCreateGone"
    BY <1>5, SingleCalls DEF s
  <2>2. Holds(s, c) <=> said.answer = "404"
    BY <1>2, <2>1, HoldsAt DEF said
  <2>3. \A f \in KnownFaults : CaughtAt[f] = at => f \in {"oldCreateLives"}
    BY <1>5, CaughtWhere
  <2>4. fault = None => said.answer = "404"
    BY <1>1, <1>5 DEF SaysStatus, None
  <2>5. fault \in {"oldCreateLives"} => ~(said.answer = "404")
    BY <1>1, <1>5 DEF SaysStatus, None
  <2>. QED BY <2>2, <2>3, <2>4, <2>5, Judging DEF s
<1>6. CASE at = 22
  <2>1. s = "anonymousAccess"
    BY <1>6, SingleCalls DEF s
  <2>2. Holds(s, c) <=> said.answer = "403"
    BY <1>2, <2>1, HoldsAt DEF said
  <2>3. \A f \in KnownFaults : CaughtAt[f] = at => f \in {"publicBucket"}
    BY <1>6, CaughtWhere
  <2>4. fault = None => said.answer = "403"
    BY <1>1, <1>6 DEF SaysStatus, None
  <2>5. fault \in {"publicBucket"} => ~(said.answer = "403")
    BY <1>1, <1>6 DEF SaysStatus, None
  <2>. QED BY <2>2, <2>3, <2>4, <2>5, Judging DEF s
<1>7. CASE at = 23
  <2>1. s = "bucketLifecycle"
    BY <1>7, SingleCalls DEF s
  <2>2. Holds(s, c) <=> said.answer = "owned"
    BY <1>2, <2>1, HoldsAt DEF said
  <2>3. \A f \in KnownFaults : CaughtAt[f] = at => f \in {"lifecycleLost"}
    BY <1>7, CaughtWhere
  <2>4. fault = None => said.answer = "owned"
    BY <1>1, <1>7 DEF SaysStatus, None
  <2>5. fault \in {"lifecycleLost"} => ~(said.answer = "owned")
    BY <1>1, <1>7 DEF SaysStatus, None
  <2>. QED BY <2>2, <2>3, <2>4, <2>5, Judging DEF s
<1>8. CASE at = 46
  <2>1. s = "crossRead"
    BY <1>8, SingleCalls DEF s
  <2>2. Holds(s, c) <=> said.answer = "404"
    BY <1>2, <2>1, HoldsAt DEF said, CrossOwnerNotFound
  <2>3. \A f \in KnownFaults : CaughtAt[f] = at => f \in {"readLeaks"}
    BY <1>8, CaughtWhere
  <2>4. fault = None => said.answer = "404"
    BY <1>1, <1>8 DEF SaysStatus, None
  <2>5. fault \in {"readLeaks"} => ~(said.answer = "404")
    BY <1>1, <1>8 DEF SaysStatus, None
  <2>. QED BY <2>2, <2>3, <2>4, <2>5, Judging DEF s
<1>9. CASE at = 47
  <2>1. s = "crossDownload"
    BY <1>9, SingleCalls DEF s
  <2>2. Holds(s, c) <=> said.answer = "404"
    BY <1>2, <2>1, HoldsAt DEF said, CrossOwnerNotFound
  <2>3. \A f \in KnownFaults : CaughtAt[f] = at => f \in {"downloadLeaks"}
    BY <1>9, CaughtWhere
  <2>4. fault = None => said.answer = "404"
    BY <1>1, <1>9 DEF SaysStatus, None
  <2>5. fault \in {"downloadLeaks"} => ~(said.answer = "404")
    BY <1>1, <1>9 DEF SaysStatus, None
  <2>. QED BY <2>2, <2>3, <2>4, <2>5, Judging DEF s
<1>10. CASE at = 24
  <2>1. s = "videoCompleted"
    BY <1>10, SingleCalls DEF s
  <2>2. Holds(s, c) <=> said.id = "video" /\ said.answer = "COMPLETED"
    BY <1>2, <2>1, HoldsAt DEF said, EndedAs, OneOf
  <2>3. \A f \in KnownFaults : CaughtAt[f] # at
    BY <1>10, CaughtWhere
  <2>4. fault = None => said.id = "video" /\ said.answer = "COMPLETED"
    BY <1>1, <1>10 DEF SaysStatus, SaysRequest, None
  <2>. QED BY <2>2, <2>3, <2>4, JudgingSound DEF s
<1>11. CASE at = 26
  <2>0. fault = None => c["videoCompleted"][1].keys = {"video"}
    BY <1>11, Recalled DEF Says, SaysKeys, None
  <2>1. s = "archiveObject"
    BY <1>11, SingleCalls DEF s
  <2>2. Holds(s, c) <=> said.id = "video" /\ said.n = 1 /\ said.keys = c["videoCompleted"][1].keys
    BY <1>2, <2>1, HoldsAt DEF said, ArchiveObject, OneOf
  <2>3. \A f \in KnownFaults : CaughtAt[f] = at => f \in {"archiveTwice"}
    BY <1>11, CaughtWhere
  <2>4. fault = None => said.id = "video" /\ said.n = 1 /\ said.keys = c["videoCompleted"][1].keys
    BY <1>1, <1>11, <2>0 DEF SaysNumber, SaysRequest, SaysKeys, None
  <2>5. fault \in {"archiveTwice"} => ~(said.id = "video" /\ said.n = 1 /\ said.keys = c["videoCompleted"][1].keys)
    BY <1>1, <1>11 DEF SaysNumber, SaysRequest, SaysKeys, None
  <2>. QED BY <2>2, <2>3, <2>4, <2>5, Judging DEF s
<1>12. CASE at = 27
  <2>1. s = "rejection"
    BY <1>12, SingleCalls DEF s
  <2>2. Holds(s, c) <=> said.id = "nonVideo" /\ said.answer = "FORMATO_INVALIDO"
    BY <1>2, <2>1, HoldsAt DEF said, EndedAs, OneOf
  <2>3. \A f \in KnownFaults : CaughtAt[f] = at => f \in {"nonVideoAccepted"}
    BY <1>12, CaughtWhere
  <2>4. fault = None => said.id = "nonVideo" /\ said.answer = "FORMATO_INVALIDO"
    BY <1>1, <1>12 DEF SaysStatus, SaysRequest, Ends, None
  <2>5. fault \in {"nonVideoAccepted"} => ~(said.id = "nonVideo" /\ said.answer = "FORMATO_INVALIDO")
    BY <1>1, <1>12 DEF SaysStatus, SaysRequest, Ends, None
  <2>. QED BY <2>2, <2>3, <2>4, <2>5, Judging DEF s
<1>13. CASE at = 29
  <2>1. s = "noArchive"
    BY <1>13, SingleCalls DEF s
  <2>2. Holds(s, c) <=> said.n = 0
    BY <1>2, <2>1, HoldsAt DEF said
  <2>3. \A f \in KnownFaults : CaughtAt[f] = at => f \in {"archiveLeft"}
    BY <1>13, CaughtWhere
  <2>4. fault = None => said.n = 0
    BY <1>1, <1>13 DEF SaysNumber, None
  <2>5. fault \in {"archiveLeft"} => ~(said.n = 0)
    BY <1>1, <1>13 DEF SaysNumber, None
  <2>. QED BY <2>2, <2>3, <2>4, <2>5, Judging DEF s
<1>14. CASE at = 30
  <2>1. s = "videoDelivery"
    BY <1>14, SingleCalls DEF s
  <2>2. Holds(s, c) <=> said.id = "video"
    BY <1>2, <2>1, HoldsAt DEF said, OneOf
  <2>3. \A f \in KnownFaults : CaughtAt[f] # at
    BY <1>14, CaughtWhere
  <2>4. fault = None => said.id = "video"
    BY <1>1, <1>14 DEF SaysRequest, None
  <2>. QED BY <2>2, <2>3, <2>4, JudgingSound DEF s
<1>15. CASE at = 31
  <2>1. s = "deliverySentence"
    BY <1>15, SingleCalls DEF s
  <2>2. Holds(s, c) <=> said.id = "nonVideo" /\ said.answer = "FORMATO_INVALIDO"
    BY <1>2, <2>1, HoldsAt DEF said, Delivered, OneOf
  <2>3. \A f \in KnownFaults : CaughtAt[f] # at
    BY <1>15, CaughtWhere
  <2>4. fault = None => said.id = "nonVideo" /\ said.answer = "FORMATO_INVALIDO"
    BY <1>1, <1>15 DEF SaysStatus, SaysRequest, Ends, None
  <2>. QED BY <2>2, <2>3, <2>4, JudgingSound DEF s
<1>16. CASE at = 32
  <2>1. s = "singleDelivery"
    BY <1>16, SingleCalls DEF s
  <2>2. Holds(s, c) <=> said.n = 1
    BY <1>2, <2>1, HoldsAt DEF said, DeliveredOnce
  <2>3. \A f \in KnownFaults : CaughtAt[f] = at => f \in {"deliveredTwice"}
    BY <1>16, CaughtWhere
  <2>4. fault = None => said.n = 1
    BY <1>1, <1>16 DEF SaysNumber, None
  <2>5. fault \in {"deliveredTwice"} => ~(said.n = 1)
    BY <1>1, <1>16 DEF SaysNumber, None
  <2>. QED BY <2>2, <2>3, <2>4, <2>5, Judging DEF s
<1>17. CASE at = 33
  <2>1. s = "failureEmail"
    BY <1>17, SingleCalls DEF s
  <2>2. Holds(s, c) <=> said.n = 1 /\ said.answer = "alice"
    BY <1>2, <2>1, HoldsAt DEF said, Mailed
  <2>3. \A f \in KnownFaults : CaughtAt[f] = at => f \in {"emailLost", "emailedTwice", "wrongRecipient"}
    BY <1>17, CaughtWhere
  <2>4. fault = None => said.n = 1 /\ said.answer = "alice"
    BY <1>1, <1>17 DEF SaysNumber, SaysStatus, None
  <2>5. fault \in {"emailLost", "emailedTwice", "wrongRecipient"} => ~(said.n = 1 /\ said.answer = "alice")
    BY <1>1, <1>17 DEF SaysNumber, SaysStatus, None
  <2>. QED BY <2>2, <2>3, <2>4, <2>5, Judging DEF s
<1>18. CASE at = 37
  <2>1. s = "failureArchive"
    BY <1>18, SingleCalls DEF s
  <2>2. Holds(s, c) <=> said.n = 0
    BY <1>2, <2>1, HoldsAt DEF said
  <2>3. \A f \in KnownFaults : CaughtAt[f] # at
    BY <1>18, CaughtWhere
  <2>4. fault = None => said.n = 0
    BY <1>1, <1>18 DEF SaysNumber, None
  <2>. QED BY <2>2, <2>3, <2>4, JudgingSound DEF s
<1>19. CASE at = 40
  <2>1. s = "processingFailureEmail"
    BY <1>19, SingleCalls DEF s
  <2>2. Holds(s, c) <=> said.n = 1 /\ said.answer = "alice"
    BY <1>2, <2>1, HoldsAt DEF said, Mailed
  <2>3. \A f \in KnownFaults : CaughtAt[f] # at
    BY <1>19, CaughtWhere
  <2>4. fault = None => said.n = 1 /\ said.answer = "alice"
    BY <1>1, <1>19 DEF SaysNumber, SaysStatus, None
  <2>. QED BY <2>2, <2>3, <2>4, JudgingSound DEF s
<1>20. CASE at = 41
  <2>1. s = "failureReason"
    BY <1>20, SingleCalls DEF s
  <2>2. Holds(s, c) <=> said.answer = "200" /\ said.id = "corrupted"
    BY <1>2, <2>1, HoldsAt DEF said, OneOf
  <2>3. \A f \in KnownFaults : CaughtAt[f] = at => f \in {"readMixed"}
    BY <1>20, CaughtWhere
  <2>4. fault = None => said.answer = "200" /\ said.id = "corrupted"
    BY <1>1, <1>20 DEF SaysStatus, SaysRequest, None
  <2>5. fault \in {"readMixed"} => ~(said.answer = "200" /\ said.id = "corrupted")
    BY <1>1, <1>20 DEF SaysStatus, SaysRequest, None
  <2>. QED BY <2>2, <2>3, <2>4, <2>5, Judging DEF s
<1>. QED BY <1>3, <1>4, <1>5, <1>6, <1>7, <1>8, <1>9, <1>10, <1>11, <1>12, <1>13, <1>14,
     <1>15, <1>16, <1>17, <1>18, <1>19, <1>20

\* The steps of several calls.
LEMMA SeveralCalls ==
  ASSUME NEW i \in {7, 10, 13, 15, 18, 21, 36, 39, 43, 45}
  PROVE  /\ Program[i].call # "check"
         /\ i = 7 => StepAt(i) = "uploadConfirmed" /\ Begin[StepAt(i)] = 4
         /\ i = 10 => StepAt(i) = "confirmationReplay" /\ Begin[StepAt(i)] = 8
         /\ i = 13 => StepAt(i) = "secondKeyReplays" /\ Begin[StepAt(i)] = 11
         /\ i = 15 => StepAt(i) = "keyReuseConflict" /\ Begin[StepAt(i)] = 14
         /\ i = 18 => StepAt(i) = "invalidPartsRejected" /\ Begin[StepAt(i)] = 16
         /\ i = 21 => StepAt(i) = "downloadIssued" /\ Begin[StepAt(i)] = 19
         /\ i = 36 => StepAt(i) = "processingFailure" /\ Begin[StepAt(i)] = 34
         /\ i = 39 => StepAt(i) = "failureDelivery" /\ Begin[StepAt(i)] = 38
         /\ i = 43 => StepAt(i) = "bobRequestCreated" /\ Begin[StepAt(i)] = 42
         /\ i = 45 => StepAt(i) = "listsDisjoint" /\ Begin[StepAt(i)] = 44
BY ProgramTable DEF Op, StepAt, Begin

\* Two calls.
LEMMA PairSays ==
  ASSUME TypeOK, ~Ended, NEW c, Sees(c), NEW s, s = StepAt(at), at \in {15, 39, 43, 45}
  PROVE  DOMAIN c[s] = 1 .. 2 /\ Says(fault, at - 1, c[s][1]) /\ Says(fault, at, c[s][2])
<1>1. op.call # "check" /\ Begin[s] = at - 1
  BY SeveralCalls DEF op
<1>2. at - 1 \in Begin[s] .. at /\ at \in Begin[s] .. at
  BY <1>1
<1>3. (at - 1) + 1 - Begin[s] = 1 /\ at + 1 - Begin[s] = 2
  BY <1>1
<1>4. /\ DOMAIN c[s] = 1 .. at + 1 - Begin[s]
      /\ \A i \in Begin[s] .. at : Says(fault, i, c[s][i + 1 - Begin[s]])
  BY <1>1, CallsSay
<1>5. Says(fault, at - 1, c[s][1])
  BY <1>2, <1>3, <1>4
<1>6. Says(fault, at, c[s][2])
  BY <1>2, <1>3, <1>4
<1>. QED BY <1>3, <1>4, <1>5, <1>6

\* Three calls.
LEMMA TripleSays ==
  ASSUME TypeOK, ~Ended, NEW c, Sees(c), NEW s, s = StepAt(at), at \in {10, 13, 18, 21, 36}
  PROVE  /\ DOMAIN c[s] = 1 .. 3 /\ Says(fault, at - 2, c[s][1])
         /\ Says(fault, at - 1, c[s][2]) /\ Says(fault, at, c[s][3])
<1>1. op.call # "check" /\ Begin[s] = at - 2
  BY SeveralCalls DEF op
<1>2. at - 2 \in Begin[s] .. at /\ at - 1 \in Begin[s] .. at /\ at \in Begin[s] .. at
  BY <1>1
<1>3. (at - 2) + 1 - Begin[s] = 1 /\ (at - 1) + 1 - Begin[s] = 2 /\ at + 1 - Begin[s] = 3
  BY <1>1
<1>4. /\ DOMAIN c[s] = 1 .. at + 1 - Begin[s]
      /\ \A i \in Begin[s] .. at : Says(fault, i, c[s][i + 1 - Begin[s]])
  BY <1>1, CallsSay
<1>5. Says(fault, at - 2, c[s][1])
  BY <1>2, <1>3, <1>4
<1>6. Says(fault, at - 1, c[s][2])
  BY <1>2, <1>3, <1>4
<1>7. Says(fault, at, c[s][3])
  BY <1>2, <1>3, <1>4
<1>. QED BY <1>3, <1>4, <1>5, <1>6, <1>7

\* The uploads of alice and bob are created.
LEMMA UploadsJudged ==
  ASSUME TypeOK, ~Ended, CaughtInv, NEW c, Sees(c), at \in {7, 43}
  PROVE  Judged(c)
<1> DEFINE s == StepAt(at)
<1>1. /\ op.call # "check" /\ Begin[s] = (IF at = 7 THEN 4 ELSE 42)
      /\ s = IF at = 7 THEN "uploadConfirmed" ELSE "bobRequestCreated"
  BY SeveralCalls DEF op
<1>2. /\ DOMAIN c[s] = 1 .. at + 1 - Begin[s]
      /\ \A i \in Begin[s] .. at : Says(fault, i, c[s][i + 1 - Begin[s]])
  BY <1>1, CallsSay
<1> HIDE DEF s
<1>3. ASSUME NEW k \in DOMAIN c[s] PROVE c[s][k].answer = "201"
  <2>1. /\ k + Begin[s] - 1 \in Begin[s] .. at /\ (k + Begin[s] - 1) + 1 - Begin[s] = k
        /\ k + Begin[s] - 1 \in {4, 5, 6, 7, 42, 43}
    BY <1>1, <1>2
  <2>2. SaysStatus(fault, k + Begin[s] - 1, c[s][k].answer)
    BY <1>2, <2>1 DEF Says
  <2>. QED BY <2>1, <2>2 DEF SaysStatus
<1>4. Holds(s, c)
  BY <1>1, <1>3, HoldsAt
<1>5. \A f \in KnownFaults : CaughtAt[f] # at
  BY CaughtWhere
<1>. QED BY <1>4, <1>5, JudgingSound DEF s

\* A replay creates nothing.
LEMMA ReplayJudged ==
  ASSUME TypeOK, ~Ended, SeenInv, TotalsInv, CaughtInv, NEW c, Sees(c), at \in {10, 13}
  PROVE  Judged(c)
<1> DEFINE s == StepAt(at)
           n == c[s][1].n
           m == Len(created["alice"])
<1>1. /\ op.call = "total" /\ Begin[s] = at - 2
      /\ s = IF at = 10 THEN "confirmationReplay" ELSE "secondKeyReplays"
  BY ProgramTable DEF op, Op, StepAt, Begin
<1>2. /\ DOMAIN c[s] = 1 .. 3 /\ Says(fault, at - 2, c[s][1])
      /\ Says(fault, at - 1, c[s][2]) /\ Says(fault, at, c[s][3])
  BY TripleSays
<1>3. c[s][3].n = m
  <2>1. at + 1 - Begin[s] = 3
    BY <1>1
  <2>. QED BY <1>1, <2>1 DEF Sees
<1>4. c[s][1] = ctx[s][1] /\ ctx[s][1].n \in Nat
  <2>1. at \in 1 .. 48 /\ s \in Steps
    BY CallsAt, StepAtTyped
  <2>2. Len(ctx[s]) = (at - Begin[s]) + (IF phase = "delete" THEN 1 ELSE 0)
    BY <2>1, SeenLength
  <2>3. 1 \in 1 .. Len(ctx[s])
    BY <1>1, <2>2
  <2>. QED BY <2>1, <2>3, SeenNumber DEF Sees
<1>5. n \in Nat /\ m \in Nat
  BY <1>4 DEF TypeOK, Users
<1> DEFINE faulty == IF at = 10 THEN "replayCreates" ELSE "secondKeyCreates"
<1>6. ReplayStands(n, faulty)
  <2>1. at = 10 => n = ctx["confirmationReplay"][1].n
    BY <1>1, <1>4
  <2>2. at = 13 => n = ctx["secondKeyReplays"][1].n
    BY <1>1, <1>4
  <2>. QED BY <2>1, <2>2 DEF TotalsInv
<1>7. c[s][1].answer = "200" /\ c[s][2].answer = "200" /\ c[s][3].answer = "200" /\ c[s][2].id = "video"
  <2>1. /\ SaysStatus(fault, at - 2, c[s][1].answer) /\ SaysStatus(fault, at - 1, c[s][2].answer)
        /\ SaysStatus(fault, at, c[s][3].answer) /\ SaysRequest(fault, at - 1, c[s][2].id)
    BY <1>2 DEF Says
  <2>2. /\ at \in {8, 9, 10, 11, 12, 13} /\ at - 1 \in {8, 9, 10, 11, 12, 13}
        /\ at - 2 \in {8, 9, 10, 11, 12, 13} /\ at - 1 \in {9, 12}
    OBVIOUS
  <2>. QED BY <2>1, <2>2 DEF SaysStatus, SaysRequest
<1> HIDE DEF s
<1>8. Answers(c[s]) = <<"200", "200", "200">>
  BY <1>2, <1>7, AnswersAt
<1>9. Holds(s, c) <=> n = m
  <2>1. Replayed(c[s]) <=> n = m
    BY <1>3, <1>7, <1>8 DEF Replayed, OneOf
  <2>. QED BY <1>1, <2>1, HoldsAt
<1> HIDE DEF n, m
<1>10. fault = None /\ request["strangers"] = None => Holds(s, c)
  BY <1>6, <1>9 DEF ReplayStands, None, m
<1>11. fault \in {faulty} => ~Holds(s, c)
  BY <1>5, <1>6, <1>9 DEF ReplayStands, m
<1>12. \A f \in KnownFaults : CaughtAt[f] = at => f \in {faulty}
  BY CaughtWhere
<1>. QED BY <1>10, <1>11, <1>12, Judging DEF s

\* The other steps of several calls.
LEMMA SeveralJudged ==
  ASSUME TypeOK, ~Ended, SeenInv, CaughtInv, NEW c, Sees(c), at \in {15, 18, 21, 36, 39, 45}
  PROVE  Judged(c)
<1> DEFINE s == StepAt(at)
           first == c[s][1]
           second == c[s][2]
           third == c[s][3]
<1>1. at \in {15, 39, 45} =>
        DOMAIN c[s] = 1 .. 2 /\ Says(fault, at - 1, first) /\ Says(fault, at, second)
  BY PairSays
<1>2. at \in {18, 21, 36} =>
        /\ DOMAIN c[s] = 1 .. 3 /\ Says(fault, at - 2, first)
        /\ Says(fault, at - 1, second) /\ Says(fault, at, third)
  BY TripleSays
<1>3. /\ DOMAIN c[s] = 1 .. 2 =>
           \A x, y : Answers(c[s]) = <<x, y>> <=> first.answer = x /\ second.answer = y
      /\ DOMAIN c[s] = 1 .. 3 =>
           \A x, y, z : Answers(c[s]) = <<x, y, z>> <=>
             first.answer = x /\ second.answer = y /\ third.answer = z
  BY AnswersAt
<1> HIDE DEF s, first, second, third
<1>4. CASE at = 15
  <2>1. s = "keyReuseConflict"
    BY <1>4, SeveralCalls DEF s
  <2>2. DOMAIN c[s] = 1 .. 2 /\ Says(fault, 14, first) /\ Says(fault, 15, second)
    BY <1>1, <1>4
  <2>3. first.answer = "201" /\ second.answer = IF fault = "keyReused" THEN "201" ELSE "409"
    BY <2>2 DEF Says, SaysStatus
  <2>4. Holds(s, c) <=> first.answer = "201" /\ second.answer = "409"
    <3>1. Holds(s, c) <=> KeyReuseConflict(c[s])
      BY <2>1, HoldsAt
    <3>. QED BY <1>3, <2>2, <3>1 DEF KeyReuseConflict
  <2>5. \A f \in KnownFaults : CaughtAt[f] = at => f \in {"keyReused"}
    BY <1>4, CaughtWhere
  <2>6. (fault = None => Holds(s, c)) /\ (fault \in {"keyReused"} => ~Holds(s, c))
    BY <2>3, <2>4 DEF None
  <2>. QED BY <2>5, <2>6, Judging DEF s
<1>5. CASE at = 18
  <2>1. s = "invalidPartsRejected"
    BY <1>5, SeveralCalls DEF s
  <2>2. /\ DOMAIN c[s] = 1 .. 3 /\ Says(fault, 16, first)
        /\ Says(fault, 17, second) /\ Says(fault, 18, third)
    BY <1>2, <1>5
  <2>3. /\ first.answer = "201"
        /\ second.answer = IF fault = "invalidAccepted" THEN "201" ELSE "400"
        /\ third.answer = IF fault = "invalidAccepted" THEN "200"
                          ELSE IF fault = "invalidKept" THEN "400" ELSE "404"
    BY <2>2 DEF Says, SaysStatus
  <2>4. Holds(s, c) <=> first.answer = "201" /\ second.answer = "400" /\ third.answer = "404"
    <3>1. Holds(s, c) <=> InvalidPartsRejected(c[s])
      BY <2>1, HoldsAt
    <3>. QED BY <1>3, <2>2, <3>1 DEF InvalidPartsRejected
  <2>5. \A f \in KnownFaults : CaughtAt[f] = at => f \in {"invalidAccepted", "invalidKept"}
    BY <1>5, CaughtWhere
  <2>6. /\ fault = None => Holds(s, c)
        /\ fault \in {"invalidAccepted", "invalidKept"} => ~Holds(s, c)
    BY <2>3, <2>4 DEF None
  <2>. QED BY <2>5, <2>6, Judging DEF s
<1>6. CASE at = 21
  <2>1. s = "downloadIssued"
    BY <1>6, SeveralCalls DEF s
  <2>2. Says(fault, 19, first) /\ Says(fault, 20, second) /\ Says(fault, 21, third)
    BY <1>2, <1>6
  <2>3. /\ first.answer = "200" /\ second.answer = "200"
        /\ third.id = IF fault = "mixedRecords" THEN "strangers" ELSE "video"
    BY <2>2 DEF Says, SaysStatus, SaysRequest
  <2>4. /\ fault = "foreignArchiveIssued" => first.keys = {"extra"} /\ third.keys = {"video"}
        /\ fault = None => first.keys = {"video"} /\ third.keys = {"video"}
    BY <2>2 DEF Says, SaysKeys, None
  <2>5. Holds(s, c) <=> /\ first.answer = "200" /\ second.answer = "200"
                        /\ third.id = "video" /\ first.keys = third.keys
    BY <2>1, HoldsAt DEF DownloadIssued, OneOf, first, second, third
  <2>6. \A f \in KnownFaults : CaughtAt[f] = at => f \in {"foreignArchiveIssued", "mixedRecords"}
    BY <1>6, CaughtWhere
  <2>7. /\ fault = None => Holds(s, c)
        /\ fault \in {"foreignArchiveIssued", "mixedRecords"} => ~Holds(s, c)
    BY <2>3, <2>4, <2>5 DEF None
  <2>. QED BY <2>6, <2>7, Judging DEF s
<1>7. CASE at = 36
  <2>1. s = "processingFailure"
    BY <1>7, SeveralCalls DEF s
  <2>2. Says(fault, 34, first) /\ Says(fault, 35, second) /\ Says(fault, 36, third)
    BY <1>2, <1>7
  <2>3. /\ first.answer = "201" /\ second.answer = "201"
        /\ third.answer = Ends(fault, "corrupted")
        /\ third.id = IF fault = "mixedRecords" THEN "strangers" ELSE "corrupted"
    BY <2>2 DEF Says, SaysStatus, SaysRequest
  <2>4. Holds(s, c) <=> /\ first.answer = "201" /\ second.answer = "201"
                        /\ third.id = "corrupted" /\ third.answer = "PROCESSAMENTO_FALHOU"
    BY <2>1, HoldsAt DEF EndedAs, OneOf, first, second, third
  <2>5. \A f \in KnownFaults : CaughtAt[f] = at => f \in {"corruptedMiscoded"}
    BY <1>7, CaughtWhere
  <2>6. (fault = None => Holds(s, c)) /\ (fault \in {"corruptedMiscoded"} => ~Holds(s, c))
    BY <2>3, <2>4 DEF Ends, None
  <2>. QED BY <2>5, <2>6, Judging DEF s
<1>8. CASE at = 39
  <2>1. s = "failureDelivery"
    BY <1>8, SeveralCalls DEF s
  <2>2. Says(fault, 38, first) /\ Says(fault, 39, second)
    BY <1>1, <1>8
  <2>3. /\ first.id = "corrupted" /\ first.answer = Ends(fault, "corrupted")
        /\ second.n = IF fault = "deliveredTwice" THEN 2 ELSE 1
    BY <2>2 DEF Says, SaysStatus, SaysNumber, SaysRequest
  <2>4. Holds(s, c) <=> /\ first.id = "corrupted" /\ first.answer = "PROCESSAMENTO_FALHOU"
                        /\ second.n = 1
    BY <2>1, HoldsAt DEF Delivered, DeliveredOnce, OneOf, first, second
  <2>5. \A f \in KnownFaults : CaughtAt[f] # at
    BY <1>8, CaughtWhere
  <2>6. fault = None => Holds(s, c)
    BY <2>3, <2>4 DEF Ends, None
  <2>. QED BY <2>5, <2>6, JudgingSound DEF s
<1>9. CASE at = 45
  <2>1. s = "listsDisjoint"
    BY <1>9, SeveralCalls DEF s
  <2>2. Says(fault, 44, first) /\ Says(fault, 45, second)
    BY <1>1, <1>9
  <2>3. /\ Awaited \subseteq first.keys /\ "bobs" \notin first.keys /\ "bobs" \in second.keys
        /\ IF fault = "listLeaks" THEN "video" \in second.keys ELSE second.keys = {"bobs"}
    BY <2>2 DEF Says, SaysKeys
  <2>4. Holds(s, c) <=> ListsDisjoint(first.keys, second.keys)
    BY <2>1, HoldsAt DEF first, second
  <2>5. \A f \in KnownFaults : CaughtAt[f] = at => f \in {"listLeaks"}
    BY <1>9, CaughtWhere
  <2>6. (fault = None => Holds(s, c)) /\ (fault \in {"listLeaks"} => ~Holds(s, c))
    BY <2>3, <2>4 DEF ListsDisjoint, Awaited, None
  <2>. QED BY <2>5, <2>6, Judging DEF s
<1>. QED BY <1>4, <1>5, <1>6, <1>7, <1>8, <1>9

\* The checks that observe nothing of their own.
LEMMA ChecksJudged ==
  ASSUME TypeOK, ~Ended, SeenInv, CaughtInv, NEW c, Sees(c), at \in {25, 28, 48}
  PROVE  Judged(c)
<1> DEFINE s == StepAt(at)
<1>1. CASE at = 25
  <2>1. s = "keyScope"
    BY <1>1, ProgramTable DEF Op, StepAt
  <2>2. c["videoCompleted"][1].keys = IF fault = "unscopedKey" THEN {"strangers"} ELSE {"video"}
    BY <1>1, Recalled DEF Says, SaysKeys
  <2>3. \A f \in KnownFaults : CaughtAt[f] = at => f \in {"unscopedKey"}
    BY <1>1, CaughtWhere
  <2>4. (fault = None => Holds(s, c)) /\ (fault \in {"unscopedKey"} => ~Holds(s, c))
    BY <2>1, <2>2, HoldsAt DEF None
  <2>. QED BY <2>3, <2>4, Judging
<1>2. CASE at = 28
  <2>1. s = "archiveCount"
    BY <1>2, ProgramTable DEF Op, StepAt
  <2>2. c["downloadIssued"][2].n = IF fault = "shortArchive" THEN 7 ELSE 8
    BY <1>2, Recalled DEF Says, SaysNumber, EXPECTED_FRAMES
  <2>3. \A f \in KnownFaults : CaughtAt[f] = at => f \in {"shortArchive"}
    BY <1>2, CaughtWhere
  <2>4. Holds(s, c) <=> c["downloadIssued"][2].n = 8
    BY <2>1, HoldsAt DEF EXPECTED_FRAMES
  <2>5. (fault = None => Holds(s, c)) /\ (fault \in {"shortArchive"} => ~Holds(s, c))
    BY <2>2, <2>4 DEF None
  <2>. QED BY <2>3, <2>5, Judging
<1>3. CASE at = 48
  <2>1. s = "noInternalFields"
    BY <1>3, ProgramTable DEF Op, StepAt
  <2>2. c["listsDisjoint"][1].answer = IF fault = "internalFields" THEN "exposed" ELSE "200"
    BY <1>3, Recalled DEF Says, SaysStatus
  <2>3. \A f \in KnownFaults : CaughtAt[f] = at => f \in {"internalFields"}
    BY <1>3, CaughtWhere
  <2>4. (fault = None => Holds(s, c)) /\ (fault \in {"internalFields"} => ~Holds(s, c))
    BY <2>1, <2>2, HoldsAt DEF None
  <2>. QED BY <2>3, <2>4, Judging
<1>. QED BY <1>1, <1>2, <1>3

\* Where a step ends, its verdict is as due; elsewhere no fault is told, but for a
\* video that fails, which the download waits for.
LEMMA EndsAt ==
  ASSUME NEW i \in 1 .. 48
  PROVE  (i = 48 \/ StepAt(i + 1) # StepAt(i)) <=>
         i \in {1, 2, 3, 7, 10, 13, 15, 18} \cup {21, 22, 23, 24, 25, 26, 27, 28}
                 \cup {29, 30, 31, 32, 33, 36, 37, 39} \cup {40, 41, 43, 45, 46, 47, 48}
<1>1. ASSUME NEW j \in 1 .. 47
      PROVE  StepAt(j + 1) # StepAt(j) <=>
             j \in {1, 2, 3, 7, 10, 13, 15, 18} \cup {21, 22, 23, 24, 25, 26, 27, 28}
                 \cup {29, 30, 31, 32, 33, 36, 37, 39} \cup {40, 41, 43, 45, 46, 47, 48}
  BY ProgramTable DEF Op, StepAt
<1>. QED BY <1>1

\* The end of a call: the run goes on to the next when the check passes, and then
\* no fault has gone by; a check that fails is right to.
LEMMA FinishJudged ==
  ASSUME TypeOK, ~Ended, SeenInv, TotalsInv, CaughtInv, UNCHANGED fault,
         at = 19 => fault # "videoFails",
         request["strangers"] # None => request'["strangers"] # None,
         NEW c, Sees(c), Finish(c)
  PROVE  CaughtInv' /\ NoFalseAlarm' /\ problem' \in {None, "check"}
<1> DEFINE last == at = 48 \/ StepAt(at + 1) # StepAt(at)
<1>1. at \in 1 .. 48 /\ op.step = StepAt(at) /\ problem = None
  BY CallsAt DEF StepAt, Ended
<1>2. last => Judged(c)
  <2>1. last => at \in {1, 2, 3, 7, 10, 13, 15, 18} \cup {21, 22, 23, 24, 25, 26, 27, 28}
                 \cup {29, 30, 31, 32, 33, 36, 37, 39} \cup {40, 41, 43, 45, 46, 47, 48}
    BY <1>1, EndsAt
  <2>. QED BY <2>1, SingleJudged, UploadsJudged, ReplayJudged, SeveralJudged, ChecksJudged
<1>3. ~last /\ fault # None => CaughtAt[fault] # at
  <2>1. ~last => at \notin {1, 2, 3, 7, 10, 13, 15, 18} \cup {21, 22, 23, 24, 25, 26, 27, 28}
                 \cup {29, 30, 31, 32, 33, 36, 37, 39} \cup {40, 41, 43, 45, 46, 47, 48}
    BY <1>1, EndsAt
  <2>2. fault # None => fault \in KnownFaults
    BY Faulty
  <2>3. ASSUME ~last, fault # None, CaughtAt[fault] = at PROVE FALSE
    <3>1. at = 19
      BY <2>1, <2>2, <2>3, CaughtWhere
    <3>2. fault = "videoFails"
      BY <2>2, <2>3, <3>1, CaughtWhere
    <3>. QED BY <3>1, <3>2
  <2>. QED BY <2>3
<1>4. /\ at' = IF ~last \/ Holds(StepAt(at), c) THEN at + 1 ELSE at
      /\ problem' = IF ~last \/ Holds(StepAt(at), c) THEN None ELSE "check"
  BY <1>1, ProgramTable DEF Finish, StepAt
<1>5. CaughtInv'
  <2>1. fault # None => CaughtAt[fault] >= at /\ CaughtAt[fault] \in Nat
    BY Faulty, CaughtWhere
  <2>2. at' = at + 1 /\ fault # None => CaughtAt[fault] # at
    BY <1>1, <1>2, <1>3, <1>4 DEF Judged
  <2>. QED BY <1>1, <1>4, <2>1, <2>2 DEF CaughtInv
<1>6. NoFalseAlarm'
  <2> SUFFICES ASSUME problem' = "check", fault' = None
               PROVE  /\ op'.step \in {"confirmationReplay", "secondKeyReplays"}
                      /\ request'["strangers"] # None
    BY DEF NoFalseAlarm
  <2>1. last /\ ~Holds(StepAt(at), c) /\ at' = at
    BY <1>4 DEF None
  <2>2. at \in {10, 13} /\ request["strangers"] # None
    BY <1>2, <2>1 DEF Judged
  <2>3. op' = op
    BY <2>1 DEF op
  <2>4. StepAt(at) \in {"confirmationReplay", "secondKeyReplays"}
    BY <2>2, SeveralCalls
  <2>. QED BY <1>1, <2>2, <2>3, <2>4
<1>. QED BY <1>4, <1>5, <1>6

-----------------------------------------------------------------------------
(* Every step keeps it.                                                    *)

\* While the run goes on, what it knows is true.
LEMMA Going ==
  ASSUME ~Ended, JudgeInv
  PROVE  problem = None /\ Truths /\ SeenInv /\ ServerInv /\ TotalsInv /\ ListInv /\ CaughtInv
BY DEF Ended, JudgeInv, Truths

\* A call that fails ends the run without a verdict.
LEMMA Failing ==
  ASSUME JudgeInv, problem' \notin {None, "check"}, UNCHANGED <<at, fault>>
  PROVE  JudgeInv'
BY DEF JudgeInv, CaughtInv, NoFalseAlarm

\* So do the failures of the model.
LEMMA FailJudged ==
  ASSUME JudgeInv, NEW why \in {"late", "call", "refusedTwice", "pod"}, Fail(why), UNCHANGED fault
  PROVE  JudgeInv'
BY Failing DEF Fail, None

\* A call that changes its phase only, and the platform's steps that a call does
\* not see.
LEMMA Quiet ==
  ASSUME ~Ended, TypeOK, JudgeInv, UNCHANGED <<at, ctx, problem, listing, serverVars, fault>>,
         phase' = "delete" <=> phase = "delete"
  PROVE  JudgeInv'
<1>1. Truths /\ CaughtInv /\ problem = None
  BY Going
<1>2. UNCHANGED <<uploads, created, request, delivery>>
  BY DEF serverVars
<1>3. SeenInv'
  <2>1. SeenInv /\ StepAt(at)' = StepAt(at)
    BY <1>1 DEF Truths, StepAt
  <2>. QED BY <2>1 DEF SeenInv
<1>4. ServerInv'
  BY <1>1, ServerKept DEF Truths
<1>5. TotalsInv'
  BY <1>1, <1>2, TotalsKept DEF Truths
<1>6. ListInv'
  BY <1>1, <1>2 DEF Truths, ListInv, ReadSoFar, ListOf
<1>7. CaughtInv' /\ NoFalseAlarm'
  BY <1>1 DEF CaughtInv, NoFalseAlarm, None
<1>. QED BY <1>3, <1>4, <1>5, <1>6, <1>7 DEF JudgeInv, Truths

\* A call that goes on to another phase.
LEMMA MoveJudged ==
  ASSUME ~Ended, TypeOK, JudgeInv, NEW to \in {"first", "refresh", "second", "waiting", "giveUp"},
         Move(to), phase # "delete", UNCHANGED <<serverVars, fault>>
  PROVE  JudgeInv'
BY Quiet DEF Move

\* The platform's steps that a call may see.
LEMMA Unseen ==
  ASSUME ~Ended, TypeOK, JudgeInv, UNCHANGED <<runVars, fault>>, ServerInv', TotalsInv', ListInv'
  PROVE  JudgeInv'
<1>1. Truths /\ CaughtInv /\ problem = None /\ UNCHANGED <<at, phase, ctx, problem>>
  BY Going DEF runVars
<1>2. SeenInv'
  <2>1. SeenInv /\ StepAt(at)' = StepAt(at)
    BY <1>1 DEF Truths, StepAt
  <2>. QED BY <1>1, <2>1 DEF SeenInv
<1>3. CaughtInv' /\ NoFalseAlarm'
  BY <1>1 DEF CaughtInv, NoFalseAlarm, None
<1>. QED BY <1>2, <1>3 DEF JudgeInv, Truths

\* A call that is answered.
LEMMA Answered ==
  ASSUME ~Ended, TypeOK, JudgeInv, UNCHANGED fault, NEW c, Sees(c), Finish(c),
         at = 19 => fault # "videoFails",
         at' = at + 1 => ServerInv',
         request'["strangers"] = request["strangers"],
         at \in {8, 11} => UNCHANGED created,
         at \in {9, 12} =>
           Len(created'["alice"]) = Len(created["alice"]) +
             (IF fault = (IF at = 9 THEN "replayCreates" ELSE "secondKeyCreates") THEN 1 ELSE 0)
  PROVE  JudgeInv'
<1>1. SeenInv /\ TotalsInv /\ CaughtInv
  BY Going
<1>2. CaughtInv' /\ NoFalseAlarm' /\ problem' \in {None, "check"}
  BY <1>1, FinishJudged
<1>3. ASSUME problem' = None PROVE Truths'
  <2>1. SeenInv' /\ at' = at + 1 /\ listing' = NewListing
    BY <1>1, <1>3, FinishSeen DEF Sees
  <2>2. ServerInv'
    BY <2>1
  <2>3. TotalsInv'
    BY <1>1, <2>1, AfterTotals
  <2>4. ListInv'
    BY <2>1, AfterListing
  <2>. QED BY <2>1, <2>2, <2>3, <2>4 DEF Truths
<1>. QED BY <1>2, <1>3 DEF JudgeInv

\* Only these calls leave something new due of the platform.
LEMMA MarksAt ==
  ASSUME TypeOK, ~Ended
  PROVE  /\ at \in Marks => op.call \in {"upload", "confirm", "download", "delivery"}
         /\ at \in {9, 12} => op.call \in {"confirm", "confirmOtherKey"}
<1>1. at \in Marks => Program[at].call \in {"upload", "confirm", "download", "delivery"}
  BY ProgramTable DEF Op, Marks
<1>2. at \in {9, 12} => Program[at].call \in {"confirm", "confirmOtherKey"}
  BY ProgramTable DEF Op
<1>. QED BY <1>1, <1>2 DEF op

\* A call that is answered and reads only.
LEMMA ReadAnswered ==
  ASSUME ~Ended, TypeOK, JudgeInv, UNCHANGED <<serverVars, fault>>, NEW c, Sees(c), Finish(c),
         op.call \notin {"upload", "confirm", "confirmOtherKey", "download", "delivery"}
  PROVE  JudgeInv'
<1>1. at \notin Marks /\ at \notin {9, 12} /\ at # 19
  BY MarksAt DEF Marks
<1>2. UNCHANGED <<created, request>>
  BY DEF serverVars
<1>3. at' = at + 1 => ServerInv'
  BY <1>1, Going, ServerKept
<1>. QED BY <1>1, <1>2, <1>3, Answered

\* The calls that only read.
LEMMA ReadsJudged ==
  ASSUME ~Ended, TypeOK, PodInv, JudgeInv, ReadOutside \/ ReadAs \/ AwaitHealth
  PROVE  JudgeInv'
<1>1. /\ UNCHANGED <<serverVars, fault>>
      /\ op.call \notin {"upload", "confirm", "confirmOtherKey", "download", "delivery"}
  BY DEF ReadOutside, ReadAs, AwaitHealth, AnonymousApiStatuses, AnonymousStatuses, FetchArchive,
     CountDeliveries, SearchMailpit, OldCreateAs, TotalAs, ReadRequestAs, DownloadAs, Doing
<1>2. \E c : Sees(c) /\ Finish(c)
  BY Going, ReadsSee
<1>. QED BY <1>1, <1>2, ReadAnswered

\* A page of a listing.
LEMMA ListingJudged ==
  ASSUME ~Ended, TypeOK, PodInv, JudgeInv, ListPage
  PROVE  JudgeInv'
<1>1. /\ UNCHANGED <<serverVars, fault>> /\ op.call = "listAll"
  BY DEF ListPage, Doing
<1>2. Truths /\ problem = None /\ CaughtInv
  BY Going
<1>3. CASE \E c : Sees(c) /\ Finish(c)
  BY <1>1, <1>3, ReadAnswered
<1>4. CASE /\ at \in {44, 45} /\ ListInv' /\ phase' = "first" /\ phase # "delete"
           /\ UNCHANGED <<at, ctx, problem>>
  <2>1. SeenInv'
    <3>1. SeenInv /\ StepAt(at)' = StepAt(at)
      BY <1>2, <1>4 DEF Truths, StepAt
    <3>. QED BY <1>1, <1>4, <3>1 DEF SeenInv
  <2>2. ServerInv'
    BY <1>1, <1>2, <1>4, ServerKept DEF Truths
  <2>3. TotalsInv'
    BY <1>1, <1>2, <1>4, TotalsKept DEF Truths, serverVars
  <2>4. CaughtInv' /\ NoFalseAlarm'
    BY <1>1, <1>2, <1>4 DEF CaughtInv, NoFalseAlarm, None
  <2>. QED BY <1>4, <2>1, <2>2, <2>3, <2>4 DEF JudgeInv, Truths
<1>. QED BY <1>2, <1>3, <1>4, ListPageSees

\* The uploads and confirmations.
LEMMA CreationJudged ==
  ASSUME ~Ended, TypeOK, PodInv, JudgeInv, Upload \/ Confirm
  PROVE  JudgeInv'
<1>1. Truths /\ ServerInv /\ UploadsInv
  BY Going DEF ServerInv
<1>2. \E c : Sees(c) /\ Finish(c)
  BY <1>1, CreationSees
<1>3. at' = at + 1 => ServerInv'
  BY <1>1, AfterUpload, AfterConfirm
<1>4. UNCHANGED fault
  BY DEF Upload, Confirm
<1>5. CASE Upload
  <2>1. op.call = "upload" /\ UNCHANGED <<created, request>>
    BY <1>5 DEF Upload, Doing
  <2>2. at \in {4, 6, 14, 16, 34, 42}
    BY <2>1, CallsAt
  <2>3. at # 19 /\ at \notin {9, 12}
    BY <2>2
  <2>. QED BY <1>2, <1>3, <1>4, <2>1, <2>3, Answered
<1>6. CASE Confirm
  <2>1. at \in {5, 7, 9, 12, 15, 17, 18, 35, 43}
    BY <1>1, <1>6, ConfirmDoes
  <2>2. CreatesNothing \/ \E user \in Users, r \in Requests \ {"strangers"} : Creates(user, r)
    <3>1. op.by \in Users /\ op.of \in Uploads
      BY <1>6, CallNames DEF Confirm, Doing, OfUpload
    <3>2. op.of \in Requests \ {"strangers"} /\ "extra" \in Requests \ {"strangers"}
      BY <3>1 DEF Requests, Uploads
    <3>. QED BY <1>6, <3>1, <3>2 DEF Confirm, ConfirmOpen, ConfirmAgain, ConfirmGone
  <2>3. request'["strangers"] = request["strangers"]
    BY <2>2, CreatesLast DEF CreatesNothing, Requests
  <2>4. at \in {9, 12} =>
          Len(created'["alice"]) = Len(created["alice"]) +
            (IF fault = (IF at = 9 THEN "replayCreates" ELSE "secondKeyCreates") THEN 1 ELSE 0)
    <3>1. at \in {9, 12} =>
            IF fault = (IF at = 9 THEN "replayCreates" ELSE "secondKeyCreates")
            THEN Creates("alice", "extra") ELSE CreatesNothing
      BY <1>1, <1>6, ConfirmDoes
    <3>2. Creates("alice", "extra") => Len(created'["alice"]) = Len(created["alice"]) + 1
      BY CreatesLast DEF Users, Requests
    <3>3. Len(created["alice"]) \in Nat
      BY DEF TypeOK, Users
    <3>4. CreatesNothing => Len(created'["alice"]) = Len(created["alice"]) + 0
      BY <3>3 DEF CreatesNothing
    <3>. QED BY <3>1, <3>2, <3>4
  <2>5. at # 19 /\ at \notin {8, 11}
    BY <2>1
  <2>. QED BY <1>2, <1>3, <1>4, <2>3, <2>4, <2>5, Answered
<1>. QED BY <1>5, <1>6

\* The polls of what moves.
LEMMA PollsJudged ==
  ASSUME ~Ended, TypeOK, PodInv, JudgeInv, AwaitTerminal \/ AwaitDelivery \/ AwaitDownload
  PROVE  JudgeInv'
<1>1. UNCHANGED <<created, request, serverVars, fault>>
  BY DEF AwaitTerminal, AwaitDelivery, AwaitDownload, serverVars
<1>2. Truths /\ ServerInv /\ RequestsInv
  BY Going DEF ServerInv
<1>3. CASE AwaitTerminal \/ AwaitDelivery \/ (AwaitDownload /\ request[op.of] = "COMPLETED")
  <2>1. \E c : Sees(c) /\ Finish(c)
    BY <1>2, <1>3, PollsSee
  <2>2. at' = at + 1 => ServerInv'
    BY <1>2, <1>3, AfterPoll
  <2>3. at \notin {8, 9, 11, 12}
    BY <1>3, CallsAt DEF AwaitTerminal, AwaitDelivery, AwaitDownload, Doing
  <2>4. at = 19 => fault # "videoFails"
    <3>1. at = 19 => op.call = "download" /\ op.of = "video"
      BY ProgramTable DEF op, Op
    <3>2. at = 19 => request["video"] = "COMPLETED"
      BY <1>3, <3>1 DEF AwaitTerminal, AwaitDelivery, Doing
    <3>. QED BY <1>2, <3>2 DEF RequestsInv, Awaited, Ends, None
  <2>. QED BY <1>1, <2>1, <2>2, <2>3, <2>4, Answered
<1>4. CASE AwaitDownload /\ request[op.of] # "COMPLETED"
  <2>1. phase = "second" /\ Move("first")
    BY <1>4 DEF AwaitDownload
  <2>. QED BY <1>1, <2>1, MoveJudged
<1>. QED BY <1>3, <1>4

\* A step without calls.
LEMMA JustCheckJudged ==
  ASSUME ~Ended, TypeOK, PodInv, JudgeInv, JustCheck
  PROVE  JudgeInv'
<1>1. op.call = "check" /\ Finish(ctx) /\ UNCHANGED <<serverVars, fault>>
  BY DEF JustCheck, Doing
<1>2. at \in 1 .. 48 /\ StepAt(at) \in Steps
  BY CallsAt, StepAtTyped
<1>3. SeenInv
  BY Going
<1>4. DOMAIN ctx[StepAt(at)] = 1 .. Len(ctx[StepAt(at)])
  <2>1. ctx[StepAt(at)] \in Seq(Observation)
    BY <1>2 DEF TypeOK
  <2>. QED BY <2>1
<1>5. ctx = [s \in Steps |-> ctx[s]]
  BY DEF TypeOK
<1>6. Sees(ctx)
  BY <1>1, <1>2, <1>3, <1>4, <1>5 DEF Sees, SeenWith, SeenInv
<1>. QED BY <1>1, <1>6, ReadAnswered

\* The observations through the pod.
LEMMA PodJudged ==
  ASSUME ~Ended, TypeOK, PodInv, JudgeInv, CreatePod \/ CreatePodUnreported \/ SeePod \/ DeletePod
  PROVE  JudgeInv'
<1>1. UNCHANGED <<serverVars, fault>>
  BY DEF CreatePod, CreatePodUnreported, SeePod, DeletePod
<1>2. SeenInv /\ Truths /\ CaughtInv /\ problem = None
  BY Going
<1>3. at \in 1 .. 48 /\ StepAt(at) \in Steps /\ op.step = StepAt(at)
  BY CallsAt, StepAtTyped DEF StepAt
<1>4. CASE CreatePod
  <2>1. Move("waiting") /\ phase # "delete"
    BY <1>4 DEF CreatePod
  <2>. QED BY <1>1, <2>1, MoveJudged
<1>5. CASE CreatePodUnreported
  BY <1>1, <1>5, FailJudged DEF CreatePodUnreported
<1>6. CASE SeePod
  <2>1. phase = "waiting" /\ op.call \in Bucket
    BY <1>6 DEF SeePod, PodInv, PodPhases
  <2>2. CASE Move("giveUp")
    BY <1>1, <2>1, <2>2, MoveJudged
  <2>3. CASE ctx' = Observing /\ phase' = "delete" /\ UNCHANGED <<at, late, listing, problem>>
    <3>1. Says(fault, at, Observed)
      BY <1>2, <2>1, BucketSays DEF Truths, ServerInv
    <3>2. op.call # "total" /\ op.call # "check"
      BY <2>1 DEF Bucket
    <3>3. Sees(ctx')
      BY <1>2, <2>1, <2>3, <3>1, <3>2, AddedSees DEF Observing
    <3>4. SeenInv'
      <4>1. /\ \A s \in Steps : s # StepAt(at) => ctx'[s] = ctx[s]
            /\ \A k \in 1 .. Len(ctx'[StepAt(at)]) :
                 Says(fault, Begin[StepAt(at)] + k - 1, ctx'[StepAt(at)][k])
            /\ Len(ctx'[StepAt(at)]) = at + 1 - Begin[StepAt(at)]
        BY <3>2, <3>3 DEF Sees, SeenWith
      <4>2. Begin[StepAt(at)] \in 1 .. at
        BY <1>3, BeginAt
      <4>3. \A s \in Steps : Begin[s] > at => ctx'[s] = <<>>
        <5>1. \A s \in Steps : Begin[s] > at => ctx[s] = <<>>
          BY <1>2 DEF SeenInv
        <5>2. ~(Begin[StepAt(at)] > at)
          BY <1>3, <4>2
        <5>3. \A s \in Steps : s # StepAt(at) => ctx'[s] = ctx[s]
          BY <4>1
        <5>. QED BY ONLY <5>1, <5>2, <5>3
      <4>4. Len(ctx'[StepAt(at)]) = (at - Begin[StepAt(at)]) + 1
        <5>1. Len(ctx'[StepAt(at)]) = at + 1 - Begin[StepAt(at)]
          BY <4>1
        <5>. QED BY ONLY <1>3, <4>2, <5>1
      <4>5. \A s \in Steps : \A k \in 1 .. Len(ctx'[s]) : Says(fault, Begin[s] + k - 1, ctx'[s][k])
        BY <1>2, <4>1 DEF SeenInv
      <4>6. /\ at > 21 => Len(ctx'["downloadIssued"]) = 3
            /\ at > 24 => Len(ctx'["videoCompleted"]) = 1
            /\ at > 45 => Len(ctx'["listsDisjoint"]) = 2
        <5>1. at > 21 => "downloadIssued" # StepAt(at) /\ "downloadIssued" \in Steps
          BY <1>3, ReadLaterAt
        <5>2. at > 24 => "videoCompleted" # StepAt(at) /\ "videoCompleted" \in Steps
          BY <1>3, ReadLaterAt
        <5>3. at > 45 => "listsDisjoint" # StepAt(at) /\ "listsDisjoint" \in Steps
          BY <1>3, ReadLaterAt
        <5>. QED BY <1>2, <4>1, <5>1, <5>2, <5>3 DEF SeenInv
      <4>7. StepAt(at)' = StepAt(at) /\ at' = at /\ fault' = fault /\ phase' = "delete"
        BY <1>1, <2>3 DEF StepAt
      <4>. QED BY <4>3, <4>4, <4>5, <4>6, <4>7 DEF SeenInv
    <3>5. ServerInv'
      BY <1>1, <1>2, <2>3, ServerKept DEF Truths
    <3>6. TotalsInv' /\ ListInv'
      <4>1. at \in {23, 26, 29, 37}
        BY <2>1, CallsAt DEF Bucket
      <4>2. listing = NewListing
        BY <1>2, <4>1 DEF Truths, ListInv
      <4>. QED BY <2>3, <4>1, <4>2 DEF TotalsInv, ListInv, NewListing
    <3>7. CaughtInv' /\ NoFalseAlarm'
      BY <1>1, <1>2, <2>3 DEF CaughtInv, NoFalseAlarm, None
    <3>. QED BY <3>4, <3>5, <3>6, <3>7 DEF JudgeInv, Truths
  <2>. QED BY <1>6, <2>2, <2>3 DEF SeePod
<1>7. CASE DeletePod
  <2>1. op.call \in Bucket
    BY <1>7 DEF DeletePod, PodInv, PodPhases
  <2>2. CASE phase = "delete"
    <3>1. Finish(ctx)
      BY <1>7, <2>2 DEF DeletePod
    <3>2. DOMAIN ctx[StepAt(at)] = 1 .. Len(ctx[StepAt(at)])
      <4>1. ctx[StepAt(at)] \in Seq(Observation)
        BY <1>3 DEF TypeOK
      <4>. QED BY <4>1
    <3>3. Len(ctx[StepAt(at)]) = at + 1 - Begin[StepAt(at)]
      <4>1. Len(ctx[StepAt(at)]) = (at - Begin[StepAt(at)]) + 1
        BY <1>2, <1>3, <2>2, SeenLength
      <4>2. Begin[StepAt(at)] \in 1 .. at
        BY <1>3, BeginAt
      <4>. QED BY <1>3, <4>1, <4>2
    <3>4. ctx = [s \in Steps |-> ctx[s]]
      BY DEF TypeOK
    <3>5. \A k \in 1 .. Len(ctx[StepAt(at)]) :
            Says(fault, Begin[StepAt(at)] + k - 1, ctx[StepAt(at)][k])
      BY <1>2, <1>3 DEF SeenInv
    <3>6. op.call \notin {"total", "upload", "confirm", "confirmOtherKey", "download", "delivery"}
      BY <2>1 DEF Bucket
    <3>7. Sees(ctx)
      BY <3>2, <3>3, <3>4, <3>5, <3>6 DEF Sees, SeenWith
    <3>. QED BY <1>1, <3>1, <3>6, <3>7, ReadAnswered
  <2>3. CASE phase # "delete"
    <3>1. Fail("pod")
      BY <1>7, <2>3 DEF DeletePod
    <3>. QED BY <1>1, <3>1, FailJudged
  <2>. QED BY <2>2, <2>3
<1>. QED BY <1>4, <1>5, <1>6, <1>7

\* Nothing is added to a list.
LEMMA EmptyAdded ==
  ASSUME NEW list \in Seq(Requests)
  PROVE  list = list \o <<>>
BY ConcatEmptySeq

\* The lists while they are read: another client's request is among alice's.
LEMMA StrangerInLists ==
  ASSUME TypeOK, OwnersInv, ListInv, StrangerConfirms
  PROVE  ListInv'
<1>1. UNCHANGED <<at, listing, fault>> /\ Creates("alice", "strangers")
  BY DEF StrangerConfirms, runVars
<1>2. /\ created'["alice"] = Append(created["alice"], "strangers")
      /\ created'["bob"] = created["bob"]
  BY <1>1, CreatesLast DEF Users, Requests
<1>3. created["alice"] \in Seq(Requests) /\ created["bob"] \in Seq(Requests)
  BY DEF TypeOK, Users
<1>4. CASE at = 44
  <2>1. ReadSoFar(created["alice"])
    BY <1>4 DEF ListInv, ListOf
  <2>2. created["alice"] = created["alice"] \o <<>>
    BY <1>3, EmptyAdded
  <2>3. Append(created["alice"], "strangers") = Append(created["alice"], "strangers") \o <<>>
    BY <1>3, EmptyAdded DEF Requests
  <2>4. ReadSoFar(Append(created["alice"], "strangers") \o <<>>)
    <3>1. <<>> \in Seq(Requests)
      OBVIOUS
    <3>. QED BY <1>3, <2>1, <2>2, <3>1, StrangerInList
  <2>5. ReadSoFar(created'["alice"])
    BY <1>2, <2>3, <2>4
  <2>. QED BY <1>1, <1>4, <2>5 DEF ListInv, ListOf, ReadSoFar
<1>5. CASE at = 45 /\ fault = "listLeaks"
  <2>1. ReadSoFar(created["alice"] \o created["bob"])
    BY <1>5 DEF ListInv, ListOf
  <2>2. ReadSoFar(created'["alice"] \o created'["bob"])
    BY <1>2, <1>3, <2>1, StrangerInList
  <2>3. ListOf("bob")' = created'["alice"] \o created'["bob"]
    BY <1>1, <1>5 DEF ListOf
  <2>4. at' = 45 /\ UNCHANGED listing
    BY <1>1, <1>5
  <2>5. ReadSoFar(ListOf("bob"))'
    BY <2>2, <2>3, <2>4 DEF ReadSoFar
  <2>. QED BY <2>4, <2>5 DEF ListInv
<1>6. CASE at = 45 /\ fault # "listLeaks"
  BY <1>1, <1>2, <1>6 DEF ListInv, ListOf, ReadSoFar
<1>7. CASE at \notin {44, 45}
  BY <1>1, <1>7 DEF ListInv
<1>. QED BY <1>4, <1>5, <1>6, <1>7

\* The total read before a replay is a number.
LEMMA TotalRead ==
  ASSUME TypeOK, ~Ended, SeenInv
  PROVE  /\ at \in {9, 10} => ctx["confirmationReplay"][1].n \in Nat
         /\ at \in {12, 13} => ctx["secondKeyReplays"][1].n \in Nat
<1>1. at \in {9, 10, 12, 13} =>
        /\ StepAt(at) = IF at < 11 THEN "confirmationReplay" ELSE "secondKeyReplays"
        /\ Begin[StepAt(at)] = IF at < 11 THEN 8 ELSE 11
  BY ProgramTable DEF Op, StepAt, Begin
<1>2. at \in 1 .. 48 /\ StepAt(at) \in Steps
  BY CallsAt, StepAtTyped
<1>3. Len(ctx[StepAt(at)]) = (at - Begin[StepAt(at)]) + (IF phase = "delete" THEN 1 ELSE 0)
  BY <1>2, SeenLength
<1>4. at \in {9, 10, 12, 13} => 1 \in 1 .. Len(ctx[StepAt(at)])
  BY <1>1, <1>3
<1>5. at \in {9, 10, 12, 13} => ctx[StepAt(at)][1].n \in Nat
  BY <1>2, <1>4, SeenNumber
<1>. QED BY <1>1, <1>5

\* The platform and alice's other client.
LEMMA PlatformJudged ==
  ASSUME TypeOK, JudgeInv, Platform
  PROVE  JudgeInv'
<1>1. ~Ended
  BY DEF Platform
<1>2. Truths /\ SeenInv /\ ServerInv /\ OwnersInv /\ TotalsInv /\ ListInv /\ problem = None
  BY <1>1, Going DEF ServerInv
<1>3. CASE ApiStarts
  <2>1. UNCHANGED <<runVars, uploads, created, request, delivery, fault>>
    BY <1>3 DEF ApiStarts
  <2>2. UNCHANGED <<at, ctx, listing>>
    BY <2>1 DEF runVars
  <2>3. ServerInv'
    BY <1>2, <2>1, <2>2 DEF ServerInv, UploadsInv, RequestsInv, OwnersInv
  <2>4. TotalsInv'
    BY <1>2, <2>1, <2>2, TotalsKept
  <2>5. ListInv'
    BY <1>2, <2>1, <2>2 DEF ListInv, ReadSoFar, ListOf
  <2>. QED BY <1>1, <2>1, <2>3, <2>4, <2>5, Unseen
<1>4. CASE PodEnds
  <2>1. UNCHANGED <<at, phase, ctx, problem, listing, serverVars, fault>>
    BY <1>4 DEF PodEnds, runVars
  <2>. QED BY <1>1, <2>1, Quiet
<1>5. ASSUME NEW user \in Users, TokenExpires(user)
      PROVE  JudgeInv'
  <2>1. UNCHANGED <<at, phase, ctx, problem, listing, serverVars, fault>>
    BY <1>5 DEF TokenExpires, runVars
  <2>. QED BY <1>1, <2>1, Quiet
<1>6. ASSUME NEW r \in Awaited, Settle(r) \/ Notify(r)
      PROVE  JudgeInv'
  <2>1. UNCHANGED <<created, runVars, fault>>
    BY <1>6 DEF Settle, Notify
  <2>2. ServerInv' /\ request'["strangers"] = request["strangers"]
    BY <1>2, <1>6, AfterSettle, AfterNotify DEF Notify
  <2>3. UNCHANGED <<at, ctx, listing>>
    BY <2>1 DEF runVars
  <2>4. TotalsInv'
    BY <1>2, <2>1, <2>2, <2>3, TotalsKept
  <2>5. ListInv'
    BY <1>2, <2>1, <2>3 DEF ListInv, ReadSoFar, ListOf
  <2>. QED BY <1>1, <2>1, <2>2, <2>4, <2>5, Unseen
<1>7. CASE StrangerConfirms
  <2>1. UNCHANGED <<runVars, fault>>
    BY <1>7 DEF StrangerConfirms
  <2>2. ServerInv'
    BY <1>2, <1>7, AfterStranger
  <2>3. TotalsInv'
    BY <1>1, <1>2, <1>7, TotalRead, StrangerInTotals
  <2>4. ListInv'
    BY <1>2, <1>7, StrangerInLists
  <2>. QED BY <1>1, <2>1, <2>2, <2>3, <2>4, Unseen
<1>. QED BY <1>3, <1>4, <1>5, <1>6, <1>7 DEF Platform

\* The tokens, the deadline, and the calls that fail.
LEMMA OthersJudged ==
  ASSUME TypeOK, JudgeInv,
         GetToken \/ Unauthorized \/ RefreshToken \/ GiveUp \/ CallFails \/ Deadline
  PROVE  JudgeInv'
<1>1. ~Ended /\ UNCHANGED <<serverVars, fault>>
  BY DEF GetToken, Unauthorized, RefreshToken, GiveUp, CallFails, Deadline
<1>2. UNCHANGED <<uploads, created, request, delivery>>
  BY <1>1 DEF serverVars
<1>3. CASE GetToken \/ Deadline
  <2>1. UNCHANGED <<at, phase, ctx, problem, listing>>
    BY <1>3 DEF GetToken, Deadline, runVars
  <2>. QED BY <1>1, <1>2, <2>1, Quiet
<1>4. CASE Unauthorized
  <2>1. (phase = "first" /\ Move("refresh")) \/ Fail("refusedTwice")
    BY <1>4 DEF Unauthorized
  <2>. QED BY <1>1, <2>1, MoveJudged, FailJudged
<1>5. CASE RefreshToken
  <2>1. phase = "refresh" /\ Move("second")
    BY <1>5 DEF RefreshToken
  <2>. QED BY <1>1, <2>1, MoveJudged
<1>6. CASE GiveUp
  <2>1. Fail("late")
    BY <1>6 DEF GiveUp
  <2>. QED BY <1>1, <2>1, FailJudged
<1>7. CASE CallFails
  <2>1. Fail("call")
    BY <1>7 DEF CallFails
  <2>. QED BY <1>1, <2>1, FailJudged
<1>. QED BY <1>3, <1>4, <1>5, <1>6, <1>7

\* The state that does not change.
LEMMA StillJudged ==
  ASSUME JudgeInv, UNCHANGED vars
  PROVE  JudgeInv'
<1>1. UNCHANGED <<at, phase, listing, ctx, problem, fault, uploads, created, request, delivery>>
  BY DEF vars, runVars, serverVars
<1>2. op' = op /\ StepAt(at)' = StepAt(at)
  BY <1>1 DEF op, StepAt
<1>3. SeenInv => SeenInv'
  BY <1>1, <1>2 DEF SeenInv
<1>4. ServerInv => ServerInv'
  BY <1>1 DEF ServerInv, UploadsInv, RequestsInv, OwnersInv
<1>5. TotalsInv => TotalsInv'
  BY <1>1 DEF TotalsInv, TotalStands, ReplayStands
<1>6. ListInv => ListInv'
  BY <1>1 DEF ListInv, ReadSoFar, ListOf
<1>7. CaughtInv' /\ NoFalseAlarm'
  BY <1>1, <1>2 DEF JudgeInv, CaughtInv, NoFalseAlarm
<1>. QED BY <1>1, <1>3, <1>4, <1>5, <1>6, <1>7 DEF JudgeInv, Truths

\* Every step keeps it.
LEMMA NextJudged ==
  ASSUME TypeOK, PodInv, JudgeInv, [Next]_vars
  PROVE  JudgeInv'
<1>1. CASE SmokeStep
  <2>1. CASE GetToken \/ Unauthorized \/ RefreshToken \/ GiveUp
    BY <2>1, OthersJudged
  <2>2. CASE ~(GetToken \/ Unauthorized \/ RefreshToken \/ GiveUp)
    <3>1. ~Ended
      BY <1>1, <2>2 DEF SmokeStep, JustCheck, Upload, Confirm, ReadOutside, ReadAs, ListPage,
         AnonymousApiStatuses, AnonymousStatuses, FetchArchive, CountDeliveries, SearchMailpit,
         AwaitHealth, AwaitDownload, AwaitTerminal, AwaitDelivery, CreatePod, SeePod, DeletePod,
         Doing
    <3>2. CASE JustCheck BY <3>1, <3>2, JustCheckJudged
    <3>3. CASE Upload \/ Confirm BY <3>1, <3>3, CreationJudged
    <3>4. CASE ReadOutside \/ ReadAs \/ AwaitHealth BY <3>1, <3>4, ReadsJudged
    <3>5. CASE ListPage BY <3>1, <3>5, ListingJudged
    <3>6. CASE AwaitDownload \/ AwaitTerminal \/ AwaitDelivery BY <3>1, <3>6, PollsJudged
    <3>7. CASE CreatePod \/ SeePod \/ DeletePod BY <3>1, <3>7, PodJudged
    <3>. QED BY <1>1, <2>2, <3>2, <3>3, <3>4, <3>5, <3>6, <3>7 DEF SmokeStep
  <2>. QED BY <2>1, <2>2
<1>2. CASE CallFails \/ Deadline BY <1>2, OthersJudged
<1>3. CASE CreatePodUnreported
  <2>1. ~Ended BY <1>3 DEF CreatePodUnreported
  <2>. QED BY <1>3, <2>1, PodJudged
<1>4. CASE Platform BY <1>4, PlatformJudged
<1>5. CASE UNCHANGED vars BY <1>5, StillJudged
<1>. QED BY <1>1, <1>2, <1>3, <1>4, <1>5 DEF Next

\* Before the first call nothing was observed or created.
LEMMA InitJudged == Init => JudgeInv
<1> SUFFICES ASSUME Init PROVE JudgeInv
  OBVIOUS
<1>1. at = 1 /\ problem = None /\ phase = "first" /\ listing = NewListing
  BY DEF Init
<1>2. SeenInv
  <2>1. \A s \in Steps : ctx[s] = <<>>
    BY DEF Init
  <2>2. StepAt(1) \in Steps /\ Begin[StepAt(1)] = 1
    <3>1. StepAt(1) \in Steps
      BY StepAtTyped
    <3>2. Begin[StepAt(1)] \in 1 .. 1
      BY BeginAt
    <3>. QED BY <3>1, <3>2
  <2>3. Len(<<>>) = 0
    OBVIOUS
  <2>4. \A s \in Steps : Len(ctx[s]) = 0
    BY <2>1, <2>3
  <2>5. Len(ctx[StepAt(at)]) = (at - Begin[StepAt(at)]) + (IF phase = "delete" THEN 1 ELSE 0)
    BY <1>1, <2>2, <2>4
  <2>6. \A s \in Steps : \A k \in 1 .. Len(ctx[s]) : Says(fault, Begin[s] + k - 1, ctx[s][k])
    BY <2>4
  <2>. QED BY <1>1, <2>1, <2>5, <2>6 DEF SeenInv
<1>3. UploadsInv
  <2>1. \A u \in Uploads : uploads[u] = None /\ request[u] = None
    BY DEF Init, Uploads, Requests
  <2>2. \A u \in Uploads : Sent[u] \in {4, 6, 14, 16, 34, 42}
    BY SentAt
  <2>. QED BY <1>1, <2>1, <2>2 DEF UploadsInv
<1>4. RequestsInv
  BY <1>1 DEF Init, RequestsInv, Awaited, Uploads, Requests
<1>5. OwnersInv
  <2>1. created["alice"] = <<>> /\ created["bob"] = <<>>
    BY DEF Init, Users
  <2>2. Range(<<>>) = {}
    BY DEF Range
  <2>3. \A u \in Awaited : Sent[u] \in {4, 6, 14, 16, 34, 42}
    BY SentAt DEF Awaited, Uploads
  <2>. QED BY <1>1, <2>1, <2>2, <2>3 DEF OwnersInv
<1>6. TotalsInv /\ ListInv
  BY <1>1 DEF TotalsInv, ListInv
<1>7. fault # None => 1 <= CaughtAt[fault]
  <2>1. fault # None => fault \in KnownFaults
    BY ConstantsAssumption DEF Init
  <2>. QED BY <2>1, CaughtWhere
<1>8. CaughtInv /\ NoFalseAlarm
  BY <1>1, <1>7 DEF CaughtInv, NoFalseAlarm, None
<1>. QED BY <1>2, <1>3, <1>4, <1>5, <1>6, <1>8 DEF JudgeInv, Truths, ServerInv

\* NoFalseAlarm, for any faults, page size and number of expiring tokens: however
\* the platform's progress, expiring tokens and another client's requests
\* interleave with the calls, no check of runStep blames a sound platform, but
\* for the totals around a replay.
THEOREM NothingSoundIsBlamed == Spec => []NoFalseAlarm
<1>1. JudgeInv => NoFalseAlarm
  BY DEF JudgeInv
<1>. QED BY <1>1, InitTyped, InitPod, InitJudged, NextTyped, NextPod, NextJudged, PTL DEF Spec

\* FaultsCaught, for any faults, page size and number of expiring tokens: runSteps
\* never comes to its end on a platform that has one of the faults.
THEOREM FaultsAreCaught == Spec => []FaultsCaught
<1>1. TypeOK /\ JudgeInv => FaultsCaught
  <2> SUFFICES ASSUME TypeOK, JudgeInv, Passed, fault # None PROVE FALSE
    BY DEF FaultsCaught
  <2>1. at = 49
    <3>1. Len(Program) = 48
      BY ProgramTable
    <3>. QED BY <3>1 DEF Passed
  <2>2. CaughtAt[fault] \in 1 .. 48
    <3>1. fault \in KnownFaults
      BY Faulty DEF JudgeInv
    <3>. QED BY <3>1, CaughtWhere
  <2>3. at <= CaughtAt[fault]
    BY DEF JudgeInv, CaughtInv
  <2>. QED BY <2>1, <2>2, <2>3
<1>. QED BY <1>1, InitTyped, InitPod, InitJudged, NextTyped, NextPod, NextJudged, PTL DEF Spec
=============================================================================
