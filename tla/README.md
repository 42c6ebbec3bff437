# Verification of fiap-x-platform

TLA+ models of the platform repository: what its scripts do to a cluster, a
bucket, GitHub and the running pipeline, checked with TLC on small instances
and, for the properties that matter most, proved with TLAPS for every value of
the constants.

## 1. The system

The repository holds no service. The four services (fiap-x-api,
processing-catalog, processing-worker, notification-service) are built
elsewhere and published as images. This repository owns what holds them
together: manifests, broker definitions, the bucket's retention, the database
bootstrap, and about thirty scripts, most of them in `scripts/*.mjs`, that bring the platform up
and test it. The scripts are single-threaded and synchronous. The
concurrency is between them: each call is a separate `kubectl`, `kind`, `gh`,
`aws` or HTTP exchange, none of the scripts takes a lock, and an operator, a
controller, a second invocation or the pipeline can act between any two calls.

| Component | State it keeps | Operations | Talks to |
|---|---|---|---|
| Local cluster (`scripts/k8s-up.mjs`, `k8s-down.mjs`) | the kind cluster, ConfigMap `fiapx-host`, seven Secrets, KEDA, the applied topology, Job `storage-init` | up (decide, create, provision, install KEDA, apply, wait), down | Docker, kind, the API server, KEDA, the Job controller |
| Storage bootstrap (`storage/bootstrap.sh`, `k8s/storage-init-job.yaml`) | a bucket, its policy, its lifecycle rules | create, assert no policy, compare, put, verify; the Job's retries | MinIO/S3 |
| Required checks (`scripts/apply-required-checks.mjs`, `scripts/check-ci-governance.mjs --live`) | the `protect main` rulesets | dry run, apply, live check | GitHub's rulesets API |
| Load test (`scripts/load-test.mjs`) | none of its own: N videos in flight, one token | drive a video, summarize | Keycloak, the API, presigned URLs |
| Smoke (`scripts/smoke-local-integration.mjs`, `get-token.mjs`) | the run's context, a renewable token, one-shot pods | 32 ordered steps with polls | API, Catalog, Keycloak, object storage, Mailpit, PostgreSQL, RabbitMQ |
| Message topology (`rabbitmq/definitions.json`, `k8s/worker-scaling.yaml`, `k8s/worker.yaml`) | queues, bindings, delivery limits, the Worker's replicas | publish, deliver, reject, dead-letter, scale | the services, KEDA |
| Context guard (`scripts/kube.mjs`) | none | run a tool against `kind-fiapx` only | kubectl, kind |
| Database (`db/`, `scripts/generate-db-script.mjs`) | schemas, roles, a generated script | extract, generate, compare | the services' migrations |
| CI workflow guard (`scripts/check-ci-governance.mjs`, `.github/workflows/ci.yml`, `ci/required-checks.json`) | none; GitHub keeps the run of each job | read the workflow, list problems | GitHub Actions |
| Storage scenarios (`scripts/check-storage-bootstrap.mjs`) | one scratch bucket per scenario | prepare, run, observe, judge, remove | MinIO, the bootstrap |
| Live checks (`check-kubernetes --live`, `check-observability --live`) | the readings of one check | read the workloads and the replicas, probe, poll Prometheus, read the dashboard | the API server or Compose, Prometheus, Grafana |
| Offline checks (`check-kubernetes`, `check-observability`, `check-identity`, `check-no-storage-writes`, `check-worker-sizing`, `check-docs-links`) | none | read files, list problems | the file system |

What is hard in it, and what would be correct:

- *Interleaved runs of k8s-up.* The decision about the cluster, the list of
  Secrets and the state of the bootstrap Job are read by one call and used by
  later ones. Correct means: one cluster life has one host-port map and one
  RabbitMQ user, no credential is rotated under running pods, nothing is applied onto a
  half-provisioned cluster, and a run that reports ready ran a bootstrap.
- *A check-then-write on a bucket.* The script compares with several reads and
  replaces the whole lifecycle configuration with one put. Correct means: success
  implies a private bucket with exactly the three rules, foreign rules survive,
  and a repeated run writes nothing.
- *Read-modify-write of a ruleset.* GitHub's PUT replaces the ruleset and knows
  no version. Correct means: the write touches the list of checks alone, what is behind
  an applier is as its file says, and a passing live check is true.
- *Verdicts over an asynchronous pipeline.* Load test and smoke poll with
  deadlines, with a token that expires, against requests that move on their own. Correct
  means: a pass is never false, and every run ends.
- *A guard that is part of what it guards.* A pull request may edit the workflow that
  judges it, and the services' migrations move while it does. Correct means: whatever
  merges ran the whole stack, reaches no other cluster by a call the scan is made to find, and commits
  the script the migrations generate; and a change that is fine is not stopped.
- *A check of a check.* The scenarios vouch for the bootstrap. Correct means: no defect a
  scenario could tell apart goes unnoticed, an interrupted check leaves nothing in the way.
- *Readings of different moments.* The live checks read the replicas with one call and
  Prometheus' targets with another, while replicas come and go. Correct means: a pass is
  true, a stack at rest is not blamed, and no round begins after the deadline.
- *Redelivery.* Replicas crash, are scaled in, requeue. Correct means: no message is lost, one that
  kills its consumer is given up, sound work is not, what fails in another way than a transient one
  settles, and the replica count follows the backlog.

`PROJECT.json` lists every hazard at its line with the properties that cover it.

## 2. Modules

| Module | Models | State and actions |
|---|---|---|
| `ClusterLifecycle` | `k8s-up.mjs`, `k8s-down.mjs` | one action per external call; `pc`/`mem` are a run's program counter and its local variables; `Environment` is Docker, the controllers and the operator |
| `ClusterPromise` | the header of `k8s-up.mjs`, steps 2 and 3 | abstract: one map and one user per cluster life |
| `ClusterLifecycleProofs` | | theorems |
| `StorageBootstrap` | `storage/bootstrap.sh` and its Job | one action per `aws` call of each pod; a rule is *right* when the script's query counts it and *wrong* otherwise |
| `RequiredChecks` | `apply-required-checks.mjs`, `check-ci-governance.mjs --live` | one action per `gh` call; a ruleset is its checks, whether it guards the default branch, and the rest |
| `RequiredChecksProofs` | | theorems |
| `LoadTest` | `load-test.mjs` | one action per HTTP call of each video |
| `LoadTestProofs` | | theorems |
| `SmokeRun` | `smoke-local-integration.mjs` | one action per call of the ordered steps; `Program` is `SMOKE_STEPS` flattened into its calls, `Holds` their checks; the platform is external and may have one fault |
| `SmokeRunProofs` | | theorems |
| `KubeGuard` | `kube.mjs`, the scan in `check-kubernetes.mjs` | operators: the argument guards, what the tools do with a command line, the scan for direct calls and the spellings it sees |
| `DbScript` | `generate-db-script.mjs` | operators: extraction, generation, drift; and, as the reference, what a script executes in which schema |
| `MergeGate` | `check-ci-governance.mjs` (offline), `ci.yml`, `required-checks.json`; extends the two above | a pull request's jobs step by step as GitHub runs them, the services' merges beside them, the merge, and a person who runs what was merged |
| `MergeGateProofs` | | theorems |
| `StorageScenarios` | `check-storage-bootstrap.mjs` | one action per call of the runner; the bootstrap under test is `bootstrap.sh` as one operator with any of 14 defects |
| `StorageProofs` | | theorems about `StorageBootstrap` and `StorageScenarios` |
| `LiveChecks` | `check-observability.mjs`, `check-kubernetes.mjs --live` | one action per call of the live check; replicas, discovery and scrapes beside it; a clock in ticks of the pause between rounds |
| `LiveChecksProofs` | | theorems |
| `WorkQueues` | `definitions.json`, `worker-scaling.yaml`, `worker.yaml`, the Worker's rules in `check-kubernetes.mjs` | the state of each message and each replica; deliver, settle, requeue, crash, poll, scale |
| `WorkQueuesProofs` | | theorems |
| `MC*` | | values of the function-valued constants for TLC |

How the models follow the code:

- *A call is an action.* The scripts call `spawnSync` or `await` one exchange
  at a time, so the code between two calls is atomic and becomes part of the
  action of the call before it. A variable the script assigns from one call and
  uses in a later one is state of that run (`mem` in `ClusterLifecycle`, `total` in
  `StorageBootstrap`, `read` in `RequiredChecks`, `ctx` in `SmokeRun`): that is
  where stale reads come from.
- *Several invocations.* Where the command may be started twice, an invocation is
  a member of a constant set (`Runs`, `Downs`, `Pods`, `Invocations`), and every
  action takes it as a parameter.
- *Failure.* `must`, `set -e` and a thrown error end the invocation where it is and
  undo nothing. One action (`Stop`, `Refused`, `CallFails`) states that for all
  calls that share it; a call that treats a failure differently has its own
  disjunct (the swallowed deletion of a pod, the failing read inside `[[ ]]`).
  A call whose effect took place although its answer was lost is an action too
  (`PutAnswerLost`, `ConfirmAnswerLost`, `CreatePodUnreported`).
- *Time.* A deadline is a Boolean that an action of the clock sets at any moment;
  each poll compares it where the code does, before or after the read.
- *Data.* A credential drawn at random is the run that drew it, a host-port map or a
  script is a model value, a lifecycle rule is what the script's query says of it
  (absent, right, wrong), a ruleset is its checks and what they are protected by,
  an HTTP body is what the check reads of it.
- *External parts.* Docker, KEDA, the Job controller, S3, GitHub, Keycloak and the
  four services are modelled from how the scripts use them and are marked
  external in `PROJECT.json`.

`SmokeRun` also needs a word on its platform. `Init` picks at most one fault out
of 27; each names one way in which the live platform could break its contract
(a replay that creates, an archive under another key, a list that leaks). A fault
changes what the platform does from then on, and the smoke must notice it
from what its calls return. The observations of a step that no later step
reads are dropped once judged.

Words on the others:

- `MergeGate`: a step's command is a name; what surrounds it is a flag: whether the text is
  the command alone, its condition, `continue-on-error`, `shell`, and whether its keys are
  written so that the guard's line patterns see them (`hidden`). GitHub's side follows its
  documented rules: a step without a condition runs while none has failed, a job whose needs were
  skipped is skipped, a skipped required job does not block the merge. `Judges` says which commands
  judge the change itself.
- `StorageScenarios`: a rule is right, absent, or wrong in one aspect (disabled, days, narrowed,
  a second action); a scenario's expectation is compared as `checkScenario` does. A check's `pc` is called
  `where`, so that `StorageProofs` can extend the module beside `StorageBootstrap`.
- `LiveChecks`: 5 s are a tick. `Api` stands for every endpoint that is always there. Both checks
  share the actions of their common part; where they differ (Compose reads the worker ports
  once and compares counts, the cluster check reads pods in every round and compares names) the
  difference is in the action. The fault, if any, is there for good. The targets of a job are
  scraped at one moment of the interval. `httpGet` gives up after 10 s (`Timeout`); `kubectl()` is a
  `spawnSync` without a time limit, and the instance lets it hang for `MaxHang` ticks. What a call
  returns is what was there when it returns.
- `KubeGuard`: a call is how its source spells it. The scan sees of kubectl every string that begins with
  it, of kind only one that is spawned where it is spelled; `stored` is a string spawned elsewhere,
  `behind` one in which the tool follows another word (`InScansSight` says which are seen).
- `WorkQueues`: a message is good, wrong (rejected by the Worker) or bad (it kills its
  replica), and any of them may meet failures taken for transient ones, without limit. An explicit requeue is not counted by the broker, a lost replica is; what is over the
  limit is dead-lettered (`.specs/STATE.md`, AD-012). `Apply` applies the kustomization again.

## 3. Runs

| Run | Instance | What it shows |
|---|---|---|
| `ClusterTurns` | three runs (another script, other ports), one at a time; one k8s-down anywhere | types; a run that reports ready ran its own checkout's bootstrap; every run ends |
| `ClusterRacing` | three runs (a repeated one, one with other ports), two at once; k8s-down only between runs | the two RabbitMQ Secrets agree, the recorded map is the published one, nothing is applied onto a half-provisioned cluster, no credential is rotated, no run passes on an older bootstrap, `ClusterPromise` is implemented |
| `ClusterJobLeftAlone` | three runs, two at once | violation: a running bootstrap Job is deleted |
| `StorageOverlap` | one retry and a recreated Job's pod beside it, two operator edits, failing calls, any initial bucket | success means retention, foreign rules survive, a re-run writes nothing, the Job settles |
| `StorageReadError` | one pod, failing calls | violation: a failing read leads to the put |
| `StorageScenarios` | a check and the next one, one mishap (a failing call or an interruption at any point), any two of 14 defects | what passes behaves like the committed bootstrap on every bucket the scenarios could tell apart; the committed one is not blamed |
| `RequiredRacing` | two repositories, two `--apply` of different files, one `--live`, one administrator's edit, eight kinds of ruleset | what is behind an applier stands, `--live` is true, a write is minimal |
| `CiGate` | the committed workflow with one edit of a step, a job or the workflow; helper calls with any list of up to three arguments, one call of each other spelling; eight pairs of migrations and committed script; the services' migrations may grow meanwhile; one mishap | what merges is proved, reaches only the project's cluster by the calls in the scan's sight, creates what the migrations create; a green kubernetes job proved its cluster; sound changes merge |
| `LiveChecks` | both checks, 14 faults or none, two replicas with two changes, discovery and scrape every tick, four ticks of wait, HTTP calls of up to one tick and kubectl calls of up to three, one failing call | a pass is true, a stack at rest is not blamed, the targets are judged within the wait and the calls of one round |
| `WorkQueues` | four messages (a good one for each queue, a wrong one, one that kills its replica), limit 2, any number of requeues, every manifest some edits away that the rules accept | nothing is lost, sound work is kept, the autoscaler alone scales and leaves room, everything is settled once no failure is taken for a transient one any more |
| `LoadVerdict` | two videos of two parts, failing calls, lost answers, an expiring token | the verdict is true, the run ends |
| `SmokeVerdict` | one whole run, 27 faults or none, pages of two, two expiring tokens, failing calls, another client of alice | every fault is caught, no sound platform is blamed, no pod is left, the run ends |

Why the bounds are enough. Three k8s-up runs are what the stale decisions need:
one that leaves state behind and two that race over it. Two pods and one foreign
rule cover every order of a read and a write of a bucket; the three owned rules
are all present in each combination. Two repositories give a position before and
one after a failure, and two files an applier that overwrites another's work. Two
videos show that one cannot vouch for the other, and two parts that confirming needs
all of them. In the smoke, alice ends with three or four requests, so pages of two
are read while a request is added between them; two expiries cover a token that is
refused twice in one call, and one that is refreshed for both users. In `CiGate` the rules treat steps alike
that are of one kind, so one step of each kind is edited, at the first, a middle and the last position. In `LiveChecks` two replicas are what a replacement between
two readings needs (one leaves, one comes, the count stays); `Wait` is longer than a scrape, a
discovery and an HTTP call together, as 90 s are longer than 15 s, 15 s and 10 s; `MaxHang` is longer than
`Timeout` and the pause together. In `StorageScenarios` one check meets one mishap (`MaxMishaps`, `MishapsRepeat`);
the theorems allow any number of them in any check. In `WorkQueues` a limit of 2
lets a message be given up and another survive beside it; the proofs hold for any limit.
The run's own bounds
are `MaxActive`, `OperatorEdits`, `MaxEdits`, `MaxExpiries`, `BackoffLimit`, `MaxMishaps`, `MaxDefects`,
`MishapsRepeat`, `MaxPods`, `MaxChanges`, `MaxHang`, `DELIVERY_LIMIT` and the sizes of
the sets. Deadlock is not checked where a script simply ends: all of
these are programs that terminate.

Fairness. `FairSpec` assumes that a process the script spawned or a request it
sent returns, with success or failure, and that the clock advances: weak
fairness of the script's own steps and of `Deadline`. `spawnSync` and `await` wait for
nothing else, and every poll compares a deadline. Nothing is assumed of
the pipeline, of KEDA, of a Job or of a pod: they may hang forever, and
`EveryRunEnds`, `RunEnds` and `SmokeEnds` hold all the same. They say nothing of an API server that never
answers: `kubectl()` has no time limit, and a run whose call hangs hangs with it. `JobSettles` needs that the
Job controller starts the pods it owes (`StorageBootstrap`'s `StartPod`). `WorkIsSettled` assumes
that something happens as long as something can: weak fairness of `Work`, one union of the broker's, the
Worker's and the Deployment's steps, and not of each message or replica. That does not stop a message from being
put back and delivered for ever, and neither does the code (AD-012), so `WorkIsSettled` is about the runs in which the requeues
come to an end (`<>[][...]_vars`), at whatever time. `CiGate`, `StorageScenarios`
and `LiveChecks` state no fairness: their properties are about what a verdict means, and
`DeadlineIsKept` bounds the time of the check's own clock instead.

The type invariants of `MergeGate`, `LiveChecks`, `WorkQueues`, `LoadTest` and `StorageBootstrap` are
proved (section 4) and not repeated in a run.

## 4. Proofs

All theorems hold for every value of the constants that satisfies the module's
`ConstantsAssumption`; nothing else is assumed but what is stated here.

*ClusterLifecycleProofs.* `TypeCorrect` has one case per action, with `GoWith` handled once.
`RabbitUserAgrees`, `HostMapIsPublished`, `AppliesWhatIsProvided` and `ImplementsPromise` assume `DownsOverlap = FALSE`: k8s-down is
run only while no k8s-up is. `RabbitSecretsAgree` and `HostMapTruthful` are not
inductive: a run writes a Secret or the map it decided on several calls earlier.
`Inductive` adds what must still be true of those decisions. For the map:
it is recorded only for a serving cluster (`MapRecorded`), and a run about to
write it asks for the one its maker published (`MapDecided`), which fails unless
no cluster can be replaced under it (`DownsQuiet`, `MakerCreating`). For the
Secrets: what a run listed is still there, KEDA's cannot have appeared without the
broker's (`ListStands`, which rests on the order of creation), and the user it
carries is the one in every RabbitMQ Secret it knows (`UserStands`). The refinement uses
the same invariant: a step that writes the map or a Secret is a step of
`ClusterPromise` or changes neither. `BootstrapIsFresh` needs no exclusion: once a run
has looked at the Job, a complete Job is one that completed after it looked (`JobFresh`).

`AppliesWhatIsProvided` adds what a run has provided by the time it is where it is (`Provided`), and that
nothing provided goes away while a run is active (`NothingIsTaken`: the deletion of Secrets and of the cluster
waits until none is). `NothingIsRotated` needs no invariant: only `CreateSecret` writes a Secret, and only one that is
absent (`StepRotatesNothing`).

`OwnScriptCompletes` assumes `MaxActive = 1`: operators take turns (`Alone`). Then the Job a run waits for, where there is
one, runs that run's own script; a complete Job completed after the run looked; and a last reading that showed it
ready showed the end of that script (`OwnJob`, with the types `TurnsInductive`). A k8s-down at any moment only takes the Job away.

*StorageProofs, the bootstrap.* `ForeignRulesKept` and `SuccessIsRetention` are about the pods
no operator's edit disturbed. What such a pod has read (`Knows`) remains true:
the bucket stays private, the count it keeps still stands or another pod has replaced
the whole configuration (in which case there is no foreign rule), and what it has
verified stays verified. Another pod's step can only create the bucket or write the desired
rules, and both leave that knowledge true (`KnowledgeSurvives`).

`RerunWritesOnlyDifferences` is about the pods that ran alone and got their answers (`RunsAlone`): the
count such a pod keeps is the bucket's, so it reaches the put only from a bucket that differs.

*StorageProofs, the scenarios.* `ScenarioTypes`, `SoundIsNeverBlamed` and `DefectsAreCaught` hold for any number of
checks one after another, of defects at once, of failing calls and of interruptions, where the run has two, two and one.
They are readings of one invariant, `IInv`. `Kept` bounds what a bucket may hold whoever left it there: only scenario
12's has a policy, those of scenarios 1 and 2 have no rule or those the bootstrap under test writes. `Learns`
says what each position of a check tells of the defects when nothing has been reported so far: the bucket is prepared
before the run (`Ready`), and a scenario that passed rules its defects out (`Survived`). A bootstrap with which all
twelve are survived agrees with the committed one on every bucket of `Findable` (`SurvivorAgrees`), and that is
`DefectsCaught`. `SeesSound` is the other reading: without a defect and a mishap each observation is the one expected (`Observed`),
and the buckets of the scenarios done are gone.

`OneStepAgrees` links the two modules. `StorageScenarios` takes the script for one step, its operator `Bootstrap`; by the
theorem a pod of `StorageBootstrap` that runs alone does, call by call, what that operator says: at each
call the operator still foretells the same exit and bucket (`Foretold`), and there the pod ends. It assumes `CallsFail = FALSE`,
as a failing call is a step of its own in both modules. The proof found
that two arms of the operator's `CASE` overlapped, where TLC takes the first and the logic any: they are disjoint now.

*RequiredChecksProofs.* `Fine(u)`: about each repository invocation u has begun to read, it
knows the truth, or the repository is in `touched[u]`. A step of somebody else
preserves `Fine(u)` because it touches what it writes. `AppliedHolds`, `LiveTellsTheTruth`
and `WritesAreMinimal` are read off it.

*LoadTestProofs.* A result without a problem is given only on a COMPLETED request, a request
stays COMPLETED, and the verdict is taken when every result is in (`Judged`, `Concluded`).

*SmokeRunProofs.* `PodsAreDeleted`: `NoPodLeft` is strengthened by the fact that a call is
in a pod's phase only if it is a bucket observation (`PodInv`), so no other call can end there.
`TypeCorrect` rests on what each call names (`Posed`): a call about an end names a request whose end is awaited,
a listing a user; `ProgramPosed` shows it of the whole program, and with it every answer is one of `Codes`.

`NothingSoundIsBlamed` and `FaultsAreCaught` are two readings of one invariant, `JudgeInv`. `Says(f, i, o)` tabulates what
the call at position i returns on a platform with fault f, and `SeenInv` says that every observation kept is of that
table: so a check judges constants, and each of the 31 checks passes what is sound and fails the faults
`CaughtAt` names for it (`Judged`). That the answers are of the table rests on what the platform holds when
they are given (`ServerInv`: an upload by its place in the program, a request that ended as `Ends` has it, who owns what),
on the totals around a replay (`TotalsInv`) and on the pages read so far (`ListInv`: another
client's request, added while pages are read, moves every item one position on, so none is skipped; `ShiftedList`). A video that fails is
caught by no check but by the poll for its download, which is answered for a COMPLETED request only.

*MergeGateProofs.* `StackIsProved` and `KubernetesIsProved` hold for every workflow and every pull
request, under the condition `InTheOpen` (what the guard cannot see, section 5). The invariant says what a
job's progress means: while a job runs and nothing in it has failed, each unconditioned step behind its
position is in `passed`; a job that ended green therefore proved every command of its text; a required job
is skipped only if a job it needs did not succeed, and `topology` needs none. The rules (`Accepted`) turn
that into the list of stack commands.

`JudgedInv` adds what the commands said of the change: what passed judged it right, and without a
mishap a job is red only for a command that judged it wrong. (The database script's verdict lasts only in `integration`,
which compares with its own checkout: `Lasting`.)  From it, `SoundChangesMerge`: a sound pull request is not kept from main;
it needs that main itself is accepted by its guards and that no other job there runs `db-check` (`MainAssumption`).
`OnlyOurClusterIsReached`: of the spellings the scan is made for, it lets through a call of a helper, whose guards refuse
every argument that would lead elsewhere, and a pinned command line, of which it reads the context alone. What it is not made
for is excluded (`InScansSight` and `PinnedStays`, section 5).
`ScriptIsTheGenerated`: the database script of a merged change is the one its integration job
generated from the migrations. `MigrationsAreExecuted` (`ScriptExecutesMigrations`) adds what that script does when it is
run. It is an induction over data, done without the library's induction theorems: a set of numbers has a least one
(`Least`), so what holds of 1 and passes from i - 1 to i holds of all (`Climb`). By it a finite directory can be sorted
(`CanBeSorted`, which is what `MigrationsFor` needs to be anything at all), the recursion inside `FlattenSeq` has a solution
(`JoinsExist`), and it puts the statements of the files one behind the other, each at an offset, with nothing between
(`FlatLaid`). A call of up() then has one line of the script and a line one call (`BlockExecutes`), the offsets grow with
the timestamps, and the last marker before a line is its own service's (`OwnLines`). Assumed of the constants is that a
service has finitely many migrations of the form `Migration`.

*LiveChecksProofs.* The invariant has three parts beside the types. `DeadlineInv` bounds for each step of
the check how far beyond its deadline it can be: a round begins only before the deadline, so on the cluster one kubectl
call and one HTTP call outlast it, however long `MaxHang` is, and on Compose one HTTP call. `TargetInv`: a target that is up belongs to an
endpoint that has served. `KnowledgeInv`: a round that found nothing compared the names of the targets with the
replicas it had read, so each replica known to the check has a target that is up (`CleanRound`).
`PassMeansServing` and `VerdictInTime` are read off them. `StableIsCleared` adds what time brings on a stack at rest (`RestInv`): once it has been quiet for longer
than a discovery, Prometheus' targets are those configured; once also for longer than a scrape, each has its true
health; and the pods the check read in this round are those that run. The last needs that the call for the targets is given up sooner
than a discovery and a scrape take (`TimingAssumption`; in the code it has 10 s, a scrape alone comes every 15 s).

*WorkQueuesProofs.* A manifest without a problem is `Right` (`AcceptedIsRight`), and the bindings lead
what a queue gives up to its own dead-letter queue (`GivenUpIsParked`). The invariant adds to
`NoneIsLost` that a message still in its queue is within the delivery limit, that it was given back at most once
by each death, and that a good one is given up for no other reason. Of the manifest it follows that what KEDA read is
the whole backlog, so the rounding up in `Desired` leaves room for it (`RoundingUp`).

Only model-checked: liveness and fairness (`EveryRunEnds`, `JobSettles`, `RunEnds`, `SmokeEnds`,
`WorkIsSettled`), which TLAPS does not reach, and the violations.

## 5. Where the code and its words disagree

Two are runs, because the disagreement can be reached by a sequence of steps:

- `ClusterJobLeftAlone`: `k8s-up.mjs` says twice that a running bootstrap Job is left alone (lines 38
  and 413). It reads the Job's conditions, then deletes the Job by name (line 419); the Job of that
  name may by then be a new one that another run has started.
- `StorageReadError`: the comment of lines 61-63 of `bootstrap.sh` lets any other error stop the
  bootstrap. A failing `correct` or `abort_correct` sits inside `[[ ]]`, where `set -e` does not apply; it
  reads as "not right" and the put follows. The put is of the right rules, so no retention is lost, but
  the error is not reported.
The others were met while modelling. Each is visible in the wording of a property or of a guard:

- `bootstrap.sh` says the configuration is written only when every rule is one of ours (lines 35-36). The
  counts are separate reads before the put, which replaces everything. `ForeignRulesSurvive` is therefore
  about pods that no edit disturbed.
- On a ruleset without a `required_status_checks` rule the dry run of `apply-required-checks.mjs` prints what
  it would add; `--apply` throws.
- The header of `load-test.mjs` polls until terminal or timeout. One failing or refused read ends the video,
  and the run's one token lasts five minutes.
- `waitForTerminalStatus` (smoke, line 1000) says that a request still in flight at the deadline
  fails. The loop compares the deadline before it reads (line 1005), so a request that
  settles during the last sleep fails as well, and the message names a status it has left.
- `check-ci-governance.mjs` (line 253) says that an empty list of problems means the integration job always runs the
  stack. It looks neither at a further job that `integration` may need nor at what `topology` needs. GitHub
  skips a job whose need was skipped, and a skipped required job lets the merge through. Keys
  written in quotes are not seen by its line patterns. `InTheOpen` excludes both.
- The same guard names the steps that must stay; its own step, the worker sizing and the check of storage writes
  are not among them. The kubernetes job is called blocking (rule 6) but is not a required check, so
  `KubernetesProved` is about the job that shows green and not about the merge.
- `check-storage-bootstrap.mjs` (lines 152-153) gives the expiry rules the same variations as the abort rule;
  no scenario changes their days. A bootstrap that writes the right rules although none differ from them also hides a
  loosened comparison from the scenarios. `DefectsCaught` speaks of what a scenario could tell apart.
- `check-kubernetes --live` reads the workloads once. A scale-out at that moment is blamed, and a
  failing `get pods` inside the loop is never forgiven and reads as no pods. The compose check reads the worker's
  ports once and then compares counts alone, so a replica that is replaced is not noticed.
- The names of Prometheus' jobs, the discovery interval and `prometheus.k8s.yml` are not checked offline
  (`Unguarded` in `LiveChecks`); only the live check notices them.
- The offline rules find the first KEDA trigger of a queue, so a second one for the same queue is not
  seen. The target of the processing queue is 2 and the prefetch 1, so a replica that is at work may be the one a
  scale-in stops. Its message returns and the death counts against the delivery limit, also for the
  messages prefetched beside it; `GoodWorkIsKept` is bounded by `deaths` for that reason.
- `kube.mjs` says that `check-kubernetes.mjs` fails when any other script spawns kubectl directly (lines 14
  and 15), and that every call goes through `kubectl()` (lines 4 to 6). The scan (`check-kubernetes.mjs`, lines 592-594) looks
  for a quoted string that is kubectl or begins with it. A tool behind another word, as in
  `'KUBECONFIG=... kubectl ...'` or `'cd k8s && kubectl ...'`, is not seen: `CiGate` holds such a change, it merges, and
  its call reaches another cluster.
- Of kind the scan sees still less (`check-kubernetes.mjs`, lines 613-624): what is spawned on the spot, a `-c` string, a path to the binary
  and the identifiers `KIND` and `KIND_BIN`. `const tool = 'kind'; spawnSync(tool, [...])` and
  `const cmd = 'kind delete cluster'; execSync(cmd)` pass. Both tools' scans read only `scripts/*.mjs` (lines 740-746);
  `KubeGuard`'s calls are those of these files. `OnlyOurCluster` and its theorem are about the calls in the scan's
  sight (`InScansSight`), and say nothing of the others. The committed scripts have none of them.
- `kubectl()` (`kube.mjs`, lines 87-90) is a `spawnSync` without a time limit, and no caller passes `--request-timeout`. A
  hanging API server keeps `check-kubernetes --live` (lines 665, 683, 707) and `k8s-up` beyond every deadline they have; only `httpGet`
  (line 643) gives up. `DeadlineIsKept` counts the hang of the last round's call and nothing else.
- A failure that a service takes for a transient one is requeued for ever, and RabbitMQ does not count it (`.specs/STATE.md`,
  AD-012, `docs/foudation.md`, line 129). A message misclassified so loops and reaches no dead-letter queue; while it
  does, `WorkIsSettled` promises nothing of any message.
- Of a `kubectl` command line written out with `--context` the scan of `check-kubernetes.mjs` reads the context
  alone. One that also named a kubeconfig or a server would go elsewhere and pass; no script writes one. `PinnedStays`
  excludes it from `OnlyOurCluster`.
- An argument of `kubectl()` is a word, a flag alone or a flag with `=` in `KubeGuard`. `kubectlArgs` compares
  with these two spellings of a flag only; `OnlyOurCluster` says nothing of others, and no script uses one.
- `generate-db-script.mjs` compares the number of queries it could read with the number of calls it sees;
  one call it cannot read and one string that looks like a call cancel out.

Two limits of the promises above: with a k8s-down inside a
k8s-up, a surviving run may write its map or a part of its Secrets into the next
cluster (`DownsOverlap`); and two totals around a replay blame it for a request another client of
alice creates meanwhile (`NoFalseAlarm`).

## 6. Not modelled, and why

- The `--self-test` modes: unit tests of the scripts, with no state of the system.
- `check-identity`, `check-docs-links`, `check-worker-sizing`, `check-no-storage-writes`: one observation or
  pattern after the other and a verdict; no state, nothing interleaved.
- The text of SQL statements, of the realm, of dashboards and of PromQL, and the small YAML readers: the models
  take what the rules say of them. The rules on Secrets, probes and images in `check-kubernetes` are
  of that kind too; those on the Worker's scaling are in `WorkQueues`.
- `compose.yaml`: declarative, restated by no code. What the live check reads of it is in `LiveChecks`.
- Smoke: its last step (scratch directories on the host) and the container that docker
  itself removes on compose. A refused upload start or part and a failing `fetchArchive` (lines 876-884), which the step's
  own check reports, end the run as any failed call does: with a mishap there, `NoFalseAlarm` does not show
  that the check's message names the sound archive. The flags of `get-token.mjs` and the words of `kubectlHint`.
- Two storage scenario checks at once: the scratch buckets' names are fixed, so two of them on one storage
  disturb each other; the code promises nothing about it.
- The result queues: their consumers are services, and no rule here depends on what they do.
- The four services: in other repositories.

## 7. Plan

What the models above leave for later, in this order:

1. `Platform`: `ClusterLifecycle` with `StorageBootstrap` as the implementation of its Job, in place of `JobEnds`,
   so that a ready run's promise reaches the bucket's retention.
2. Operators for the numbers of `check-worker-sizing` and the scan of `check-no-storage-writes`, against
   reference definitions over bounded inputs.

A run of section 3 that shows a disagreement is kept only while the code has it.
