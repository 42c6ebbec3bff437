------------------------------ MODULE LiveChecks ------------------------------
(***************************************************************************)
(* The observability wiring and the checks that judge it: the offline      *)
(* check of the tree (scripts/check-observability.mjs) and the live check  *)
(* of the running stack, on Compose (check-observability.mjs --live) or on *)
(* the cluster (check-kubernetes.mjs --live).  The live check reads the    *)
(* stack while worker replicas come and go and while Prometheus finds and  *)
(* scrapes them at its own pace, so every reading is of another moment.    *)
(*                                                                         *)
(* Time is counted in ticks of the pause between two rounds (5 s).  "api"  *)
(* stands for every endpoint that is always there (api, catalog,           *)
(* notification and the broker).                                           *)
(***************************************************************************)
EXTENDS Integers, FiniteSets

CONSTANTS
  MaxPods,      \* bound: worker replicas that ever run; a name is never used twice
  Scrape,       \* ticks between two scrapes of a target (scrape_interval)
  Refresh,      \* ticks between two discoveries of the worker replicas
  Wait,         \* ticks the live check waits for the targets (waitMs)
  Timeout,      \* ticks an HTTP call may take before it is given up
  MaxHang,      \* bound: ticks a kubectl call takes; nothing gives it up
  MaxChanges,   \* bound: replicas started or removed
  MaxMishaps    \* bound: calls that fail although nothing is wrong

ASSUME TimingAssumption ==
  /\ {MaxPods, Scrape, Refresh} \subseteq Nat \ {0}
  /\ {Timeout, MaxHang, MaxChanges, MaxMishaps} \subseteq Nat
  /\ Wait \in Nat /\ Wait > Scrape + Refresh + Timeout
  /\ Timeout <= Scrape + Refresh

VARIABLES
  stack,      \* "compose" or "cluster"
  fault,      \* what is wrong with the tree or the stack, for good
  pod,        \* the state of each worker replica
  target,     \* Prometheus' active targets and their health
  age,        \* ticks since the last scrape and the last discovery
  pc, left, took,     \* the check's step, its deadline, the call under way
  todo,       \* endpoints still to be probed
  expected,   \* worker replicas the check compares the targets with
  found,      \* target problems of the last round
  problems,   \* problems that later rounds do not take back
  changes, mishaps,
  quiet,      \* ticks since a replica last changed
  calm,       \* whether the last round read a stack at rest
  late        \* replicas started since the check last read them

system == <<pod, target, age, changes, quiet>>
reading == <<todo, expected, found, problems, calm>>
vars == <<stack, fault, system, pc, left, took, reading, mishaps, late>>

-----------------------------------------------------------------------------
(* The offline check of the tree.                                          *)

Static == {"workerStatic", "targetMissing", "slowScrape"}
Shared == {"datasource", "provider", "overviewUid", "perObject"}
Wiring == {"dashboardMount"}
Unguarded == {"jobRenamed", "apiDown", "podBroken", "grafanaDown", "prometheusDown"}

\* Faults that can be there.  The cluster's Prometheus reads a file of its
\* own, prometheus.k8s.yml, and has manifests instead of compose wiring.
FaultsOf(s) ==
  IF s = "compose" THEN {"none"} \cup Static \cup Shared \cup Wiring \cup Unguarded
  ELSE {"none", "workerStatic", "targetMissing", "workloadMissing"} \cup Shared \cup Unguarded

prometheusProblems(s, f) == IF s = "compose" THEN {f} \cap Static ELSE {}
grafanaProvisioningProblems(f) == {f} \cap {"datasource", "provider"}
dashboardProblems(f) == {f} \cap {"overviewUid"}
rabbitmqProblems(f) == {f} \cap {"perObject"}
composeProblems(f) == {f} \cap Wiring

structuralProblems(s, f) ==
  prometheusProblems(s, f) \cup grafanaProvisioningProblems(f) \cup dashboardProblems(f)
    \cup rabbitmqProblems(f) \cup composeProblems(f)

-----------------------------------------------------------------------------
(* The stack: replicas, and Prometheus' discovery and scrapes.             *)

Pods == 1 .. MaxPods
Api == 0            \* api, catalog, notification, the broker
Worker == MaxPods + 1   \* one name for every replica, in a static target
Endpoints == Pods \cup {Api, Worker}
Running == {p \in Pods : pod[p] \in {"starting", "up", "leaving"}}
Active == {p \in Running : pod[p] # "leaving"}
Targets == {e \in Endpoints : target[e] # "none"}

Serves(e) ==
  IF e = Api THEN fault # "apiDown"
  ELSE IF e = Worker THEN stack = "compose" /\ \E p \in Running : pod[p] = "up"
  ELSE pod[e] \in {"up", "leaving"}

\* The targets the configuration asks for: one per replica Prometheus finds,
\* or one name for all of them.
Configured ==
  (IF fault = "targetMissing" THEN {} ELSE {Api})
    \cup (IF fault = "workerStatic" THEN {Worker} ELSE Running)

Discover ==
  /\ age.discovery > 0
  /\ target' = [e \in Endpoints |-> IF e \notin Configured THEN "none"
                                    ELSE IF e \in Targets THEN target[e] ELSE "unknown"]
  /\ age' = [age EXCEPT !.discovery = 0]
  /\ UNCHANGED <<stack, fault, pod, changes, quiet, pc, left, took, reading, mishaps, late>>

\* The targets of a job are scraped at one moment of the interval.
ScrapeTargets ==
  /\ age.scrape > 0
  /\ target' = [e \in Endpoints |-> IF e \notin Targets THEN "none"
                                    ELSE IF Serves(e) THEN "up" ELSE "down"]
  /\ age' = [age EXCEPT !.scrape = 0]
  /\ UNCHANGED <<stack, fault, pod, changes, quiet, pc, left, took, reading, mishaps, late>>

Becomes(p, state) ==
  /\ pod' = [pod EXCEPT ![p] = state]
  /\ quiet' = 0
  /\ UNCHANGED <<stack, fault, target, age, pc, left, took, reading, mishaps>>

Counted == changes < MaxChanges /\ changes' = changes + 1

ScaleOut(p) ==
  /\ pod[p] = "new" /\ \A q \in 1 .. p - 1 : pod[q] # "new"
  /\ Counted /\ late' = late \cup {p} /\ Becomes(p, "starting")
Serve(p) == pod[p] = "starting" /\ fault # "podBroken" /\ UNCHANGED <<changes, late>> /\ Becomes(p, "up")
ScaleIn(p) == p \in Active /\ Cardinality(Active) > 1 /\ Counted /\ UNCHANGED late /\ Becomes(p, "leaving")
Vanish(p) == pod[p] = "leaving" /\ UNCHANGED <<changes, late>> /\ Becomes(p, "gone")

Scales ==
  \E p \in Pods : ScaleOut(p) \/ Serve(p) \/ ScaleIn(p) \/ Vanish(p)

-----------------------------------------------------------------------------
(* The live check.                                                         *)

Calling == pc \in {"probe", "workloads", "pods", "targets"}
Settle == Scrape + Refresh + 1

\* Ticks the call under way may take.  `httpGet` gives up after ten seconds;
\* kubectl() waits for kubectl, as long as the API server lets it.
Limit == IF pc \in {"workloads", "pods"} THEN MaxHang ELSE Timeout

\* Five seconds pass: only while a call is under way or the check sleeps, and
\* not while Prometheus is due to scrape or to look for replicas.
Tick ==
  /\ pc = "sleep" \/ (Calling /\ took < Limit)
  /\ age.scrape < Scrape /\ age.discovery < Refresh
  /\ age' = [scrape |-> age.scrape + 1, discovery |-> age.discovery + 1]
  /\ quiet' = IF quiet < Settle THEN quiet + 1 ELSE Settle
  /\ left' = IF pc \in {"pods", "targets", "sleep"} THEN left - 1 ELSE left
  /\ IF pc = "sleep"
     THEN pc' = (IF stack = "compose" THEN "targets" ELSE "pods") /\ UNCHANGED took
     ELSE took' = took + 1 /\ UNCHANGED pc
  /\ UNCHANGED <<stack, fault, pod, target, changes, reading, mishaps, late>>

\* A call that fails by itself, as a timeout or a kubectl that exits non-zero.
Mishap == mishaps < MaxMishaps /\ mishaps' = mishaps + 1
Sound == UNCHANGED mishaps
Reports(ps) == problems' = problems \cup ps
Goes(step) == pc' = step /\ took' = 0 /\ UNCHANGED <<stack, fault, system>>

Offline ==
  /\ pc = "offline"
  /\ Goes(IF structuralProblems(stack, fault) # {} THEN "refused"
          ELSE IF stack = "compose" THEN "ports" ELSE "workloads")
  /\ UNCHANGED <<left, reading, mishaps, late>>

\* Compose: the host ports of the worker replicas, read once; then each
\* service's /metrics and /health/live, and the broker's queues.
ReadPorts ==
  /\ pc = "ports"
  /\ expected' = Active /\ late' = {}
  /\ todo' = Active \cup {Api}
  /\ Reports(IF Active = {} THEN {"stack"} ELSE {})
  /\ Goes("probe")
  /\ UNCHANGED <<left, found, calm, mishaps>>

Probe(e) ==
  /\ pc = "probe" /\ e \in todo
  /\ todo' = todo \ {e}
  /\ \/ Sound /\ Reports(IF Serves(e) THEN {} ELSE {"stack"})
     \/ Mishap /\ Reports({"stack"})
  /\ IF todo = {e} THEN Goes("targets") /\ left' = Wait ELSE Goes("probe") /\ UNCHANGED left
  /\ UNCHANGED <<expected, found, calm, late>>

\* The cluster: every workload ready and an HPA for the worker, read once.
ReadWorkloads ==
  /\ pc = "workloads"
  /\ \/ Sound /\ Reports(IF fault = "workloadMissing" \/ \E p \in Active : pod[p] # "up"
                       THEN {"stack"} ELSE {})
     \/ Mishap /\ Reports({"call"})
  /\ Goes("pods") /\ left' = Wait
  /\ UNCHANGED <<todo, expected, found, calm, late>>

\* As if the pods were read in the first round only, when replica 1 ran.
ReadPodsOnce ==
  /\ pc = "pods"
  /\ \/ Sound /\ expected' = (IF left = Wait THEN Active ELSE {1}) /\ UNCHANGED problems
     \/ Mishap /\ expected' = {} /\ Reports({"call"})
  /\ late' = {}
  /\ Goes("targets")
  /\ UNCHANGED <<left, todo, found, calm>>

\* The cluster: the running worker pods, by name, in every round.  A failing
\* call is a problem for good, and reads as no pods.
ReadPods ==
  /\ pc = "pods"
  /\ \/ Sound /\ expected' = Active /\ UNCHANGED problems
     \/ Mishap /\ expected' = {} /\ Reports({"call"})
  /\ late' = {}
  /\ Goes("targets")
  /\ UNCHANGED <<left, todo, found, calm>>

\* What one round finds wrong with the targets.
Workers == Targets \ {Api}
ProblemsIf(mismatch) ==
  (IF fault = "jobRenamed" \/ Api \notin Targets \/ Workers = {} THEN {"missing"} ELSE {})
    \cup (IF \E e \in Targets : target[e] # "up" THEN {"health"} ELSE {})
    \cup (IF mismatch THEN {"worker"} ELSE {})

\* As if the cluster's replicas were compared by number too.
targetProblemsByCount == ProblemsIf(Cardinality(Workers) # Cardinality(expected))

targetProblems ==
  ProblemsIf(IF stack = "compose" THEN Cardinality(Workers) # Cardinality(expected)
             ELSE Workers # expected)

\* No answer, or one without a list of targets.
NoList == {"list", "missing"} \cup (IF expected = {} THEN {} ELSE {"worker"})

\* A stack at rest: every replica has served for long enough to be found and
\* scraped.  On Compose it also runs as many as when the check began.
AtRest ==
  /\ quiet = Settle /\ \A p \in Running : pod[p] = "up"
  /\ expected # {}
  /\ stack = "compose" => Cardinality(expected) = Cardinality(Active)

\* As if the wait had no end.
JudgeOnly(ps, rest) ==
  LET last == ps = {} IN
  /\ found' = (IF last THEN ps ELSE {}) /\ calm' = (last /\ rest)
  /\ expected' = (IF last \/ stack = "compose" THEN expected ELSE {})
  /\ Goes(IF last THEN "dashboard" ELSE "sleep")

\* The verdict of a round stands if it is the last one; the next one starts
\* with no problem, and on the cluster with no pods.
Judge(ps, rest) ==
  LET last == ps = {} \/ left <= 0 IN
  /\ found' = (IF last THEN ps ELSE {}) /\ calm' = (last /\ rest)
  /\ expected' = (IF last \/ stack = "compose" THEN expected ELSE {})
  /\ Goes(IF last THEN "dashboard" ELSE "sleep")

ReadTargets ==
  /\ pc = "targets"
  /\ \/ Sound /\ Judge(IF fault = "prometheusDown" THEN NoList ELSE targetProblems, AtRest)
     \/ Mishap /\ Judge(NoList, FALSE)
  /\ UNCHANGED <<left, todo, problems, late>>

Dashboard ==
  /\ pc = "dashboard"
  /\ \/ Sound /\ Reports((IF fault \in {"provider", "overviewUid", "dashboardMount", "grafanaDown"}
                           THEN {"dashboard"} ELSE {}) \cup found)
     \/ Mishap /\ Reports({"dashboard"} \cup found)
  /\ Goes("done")
  /\ UNCHANGED <<left, todo, expected, found, calm, late>>

Checks ==
  \/ Offline \/ ReadPorts \/ ReadWorkloads \/ ReadPods \/ ReadTargets \/ Dashboard
  \/ \E e \in Endpoints : Probe(e)

Ended == pc \in {"refused", "done"}
Next ==
  /\ ~Ended
  /\ Checks \/ Scales \/ Discover \/ ScrapeTargets \/ Tick

\* The stack has just started, or has been up for long.
Init ==
  /\ stack \in {"compose", "cluster"} /\ fault \in FaultsOf(stack)
  /\ \E state \in {"starting", "up"} : pod = [p \in Pods |-> IF p = 1 THEN state ELSE "new"]
  /\ age = [scrape |-> 0, discovery |-> 0]
  /\ \/ target = [e \in Endpoints |-> "none"] /\ quiet = 0
     \/ /\ target = [e \in Endpoints |-> IF e \notin Configured THEN "none"
                                         ELSE IF Serves(e) THEN "up" ELSE "down"]
        /\ quiet = Settle
  /\ pc = "offline" /\ left = 0 /\ took = 0
  /\ todo = {} /\ expected = {} /\ found = {} /\ problems = {} /\ late = {}
  /\ changes = 0 /\ mishaps = 0 /\ calm = FALSE

Spec == Init /\ [][Next]_vars

-----------------------------------------------------------------------------

\* The state of the stack and of the check is what the code can hold.
TypeOK ==
  /\ stack \in {"compose", "cluster"} /\ fault \in FaultsOf(stack)
  /\ pod \in [Pods -> {"new", "starting", "up", "leaving", "gone"}]
  /\ target \in [Endpoints -> {"none", "unknown", "up", "down"}]
  /\ age \in [scrape : 0 .. Scrape, discovery : 0 .. Refresh]
  /\ pc \in {"offline", "refused", "ports", "probe", "workloads", "pods", "targets", "sleep",
             "dashboard", "done"}
  /\ left \in Int /\ left <= Wait /\ took \in 0 .. Limit
  /\ todo \subseteq Endpoints /\ expected \subseteq Pods /\ late \subseteq Pods
  /\ found \subseteq {"missing", "health", "worker", "list"}
  /\ problems \subseteq {"stack", "call", "dashboard", "missing", "health", "worker", "list"}
  /\ changes \in 0 .. MaxChanges /\ mishaps \in 0 .. MaxMishaps
  /\ quiet \in 0 .. Settle /\ calm \in BOOLEAN

Passed == pc = "done" /\ problems = {}

\* What both checks let pass is wired and serves: no fault of the tree or of
\* the stack is left, whatever replicas came and went between the readings,
\* and every replica the check could know of serves.
PassIsTrue ==
  Passed =>
    /\ fault \in {"none", "podBroken"}
    /\ \A p \in Active \ late : pod[p] = "up"

\* A sound stack at rest is not blamed for its targets: the live check waits
\* out discovery and scrapes, and compares readings of the same stack.  On
\* Compose the replicas are read once, so a stack scaled since is blamed.
StableIsNotBlamed ==
  pc = "done" /\ calm /\ found # {} =>
    fault \in {"workerStatic", "targetMissing", "jobRenamed", "apiDown", "prometheusDown"}

\* What the calls of a round may take together.  On Compose the targets are its
\* only call.
RoundTime == IF stack = "compose" THEN Timeout ELSE MaxHang + Timeout

\* However long the targets stay down and however slow the answers are, the
\* check judges the targets within the wait and one round: only the calls of
\* the last round run beyond the deadline.  On Compose that is a time-out; on
\* the cluster it is as long as one `kubectl get pods` hangs, which nothing in
\* the code limits.
DeadlineIsKept == left >= -RoundTime
=============================================================================
