--------------------------- MODULE LiveChecksProofs ---------------------------
(* Theorems about LiveChecks, for every number of replicas and every timing  *)
(* of Prometheus and of the check.                                           *)
EXTENDS LiveChecks, FiniteSetTheorems, TLAPS

Known == Active \ late
AfterReading == {"targets", "sleep", "dashboard", "done"}
TargetFaults == {"workerStatic", "targetMissing", "jobRenamed", "apiDown", "prometheusDown"}
DashboardFaults == {"provider", "overviewUid", "dashboardMount", "grafanaDown"}

\* How far beyond the deadline each step of the check may be.
DeadlineInv ==
  /\ pc = "sleep" => left >= 1 /\ took = 0
  /\ pc = "pods" => left >= -took
  /\ pc = "targets" => left >= Timeout - RoundTime - took
  /\ pc \in {"dashboard", "done"} => left >= -RoundTime
  /\ pc \in {"offline", "refused", "ports", "probe", "workloads"} => left >= 0

\* What a target that is up says of its endpoint.
TargetInv ==
  /\ \A p \in Pods : target[p] = "up" => pod[p] \notin {"new", "starting"}
  /\ target[Api] = "up" => fault # "apiDown"
  /\ fault = "targetMissing" => target[Api] = "none"
  /\ fault = "workerStatic" => \A p \in Pods : target[p] = "none"

\* What the check knows as long as it has found no problem.
KnowledgeInv ==
  /\ stack = "compose" => pc \notin {"workloads", "pods"}
  /\ stack = "cluster" => pc \notin {"ports", "probe"}
  /\ pc \notin {"offline", "refused"} => structuralProblems(stack, fault) = {}
  /\ pc \in {"pods"} \cup AfterReading /\ fault = "workloadMissing" => problems # {}
  /\ stack = "compose" /\ pc \in {"probe"} \cup AfterReading /\ problems = {} =>
       \A p \in Known : pod[p] = "up" \/ (pc = "probe" /\ p \in todo)
  /\ stack = "cluster" /\ pc = "targets" /\ problems = {} => Known \subseteq expected
  /\ pc \in {"dashboard", "done"} /\ problems = {} /\ found = {} =>
       /\ fault \notin TargetFaults
       /\ stack = "cluster" => \A p \in Known : pod[p] = "up"
  /\ pc = "done" /\ problems = {} => found = {} /\ fault \notin DashboardFaults

IInv == TypeOK /\ DeadlineInv /\ TargetInv /\ KnowledgeInv

-----------------------------------------------------------------------------

LEMMA Timing ==
  /\ MaxPods \in Nat \ {0} /\ Scrape \in Nat \ {0} /\ Refresh \in Nat \ {0}
  /\ Timeout \in Nat /\ MaxHang \in Nat /\ MaxChanges \in Nat /\ MaxMishaps \in Nat
  /\ Wait \in Nat /\ Wait > 0 /\ Settle \in Nat
BY TimingAssumption DEF Settle

LEMMA Names == Api \notin Pods /\ Worker \notin Pods /\ Api # Worker /\ Pods \subseteq Endpoints
BY Timing DEF Api, Worker, Pods, Endpoints

-----------------------------------------------------------------------------
(* Initially.                                                              *)

LEMMA InvInit == Init => IInv
<1> SUFFICES ASSUME Init PROVE IInv
  OBVIOUS
<1>. USE Timing
<1>1. pod \in [Pods -> {"new", "starting", "up"}]
  BY DEF Init
<1>2. /\ target \in [Endpoints -> {"none", "up", "down"}] /\ quiet \in 0 .. Settle
      /\ \A e \in Endpoints : target[e] = "up" => e \in Configured /\ Serves(e)
      /\ \A e \in Endpoints : e \notin Configured => target[e] = "none"
  BY DEF Init
<1>3. TypeOK
  <2>1. stack \in {"compose", "cluster"} /\ fault \in FaultsOf(stack)
    BY DEF Init
  <2>2. age \in [scrape : 0 .. Scrape, discovery : 0 .. Refresh]
    BY DEF Init
  <2>3. /\ pc = "offline" /\ left = 0 /\ took = 0 /\ changes = 0 /\ mishaps = 0 /\ calm = FALSE
        /\ todo = {} /\ expected = {} /\ late = {} /\ found = {} /\ problems = {}
    BY DEF Init
  <2>4. /\ left \in Int /\ left <= Wait /\ took \in 0 .. Limit
        /\ changes \in 0 .. MaxChanges /\ mishaps \in 0 .. MaxMishaps
    BY <2>3 DEF Limit
  <2>5. /\ pod \in [Pods -> {"new", "starting", "up", "leaving", "gone"}]
        /\ target \in [Endpoints -> {"none", "unknown", "up", "down"}]
    BY <1>1, <1>2
  <2>. QED BY <1>2, <2>1, <2>2, <2>3, <2>4, <2>5, Zenon DEF TypeOK
<1>4. DeadlineInv
  BY DEF Init, DeadlineInv, RoundTime
<1>5. TargetInv
  <2>1. ASSUME NEW p \in Pods, target[p] = "up" PROVE pod[p] \notin {"new", "starting"}
    BY <1>2, <2>1, Names DEF Serves
  <2>2. target[Api] = "up" => fault # "apiDown"
    BY <1>2 DEF Serves, Endpoints
  <2>3. fault = "targetMissing" => target[Api] = "none"
    BY <1>2, Names DEF Configured, Endpoints, Running
  <2>4. fault = "workerStatic" => \A p \in Pods : target[p] = "none"
    BY <1>2, Names DEF Configured
  <2>. QED BY <2>1, <2>2, <2>3, <2>4 DEF TargetInv
<1>6. KnowledgeInv
  BY DEF Init, KnowledgeInv, AfterReading
<1>. QED BY <1>3, <1>4, <1>5, <1>6 DEF IInv

-----------------------------------------------------------------------------
(* The stack's own steps.                                                  *)

\* What the check knows holds whatever the stack does, if no replica becomes
\* known and none that serves starts anew.
LEMMA KnowledgeKept ==
  ASSUME KnowledgeInv, UNCHANGED <<stack, fault, pc, reading>>,
         Known' \subseteq Known, \A p \in Known' : pod[p] = "up" => pod'[p] = "up"
  PROVE  KnowledgeInv'
<1>1. UNCHANGED <<todo, expected, found, problems>> /\ structuralProblems(stack, fault)' = structuralProblems(stack, fault)
  BY DEF reading, structuralProblems, prometheusProblems, grafanaProvisioningProblems,
         dashboardProblems, rabbitmqProblems, composeProblems
<1>. QED BY <1>1 DEF KnowledgeInv, AfterReading, TargetFaults, DashboardFaults

LEMMA DiscoverStep == ASSUME IInv, Discover PROVE IInv'
<1>. USE Timing
<1>1. /\ target' \in [Endpoints -> {"none", "unknown", "up", "down"}]
      /\ \A e \in Endpoints : target'[e] = "up" => target[e] = "up"
      /\ \A e \in Endpoints : e \notin Configured => target'[e] = "none"
  BY DEF Discover, IInv, TypeOK, Targets
<1>2. TypeOK'
  <2>1. age' \in [scrape : 0 .. Scrape, discovery : 0 .. Refresh]
    BY DEF Discover, IInv, TypeOK
  <2>. QED BY <1>1, <2>1 DEF Discover, reading, IInv, TypeOK, Limit
<1>3. DeadlineInv'
  BY DEF Discover, IInv, DeadlineInv, RoundTime
<1>4. TargetInv'
  <2>1. fault = "targetMissing" => Api \notin Configured
    BY Names DEF Configured, Running
  <2>2. fault = "workerStatic" => \A p \in Pods : p \notin Configured
    BY Names DEF Configured
  <2>. QED BY <1>1, <2>1, <2>2, Names DEF Discover, IInv, TargetInv, Endpoints
<1>5. KnowledgeInv'
  BY KnowledgeKept DEF Discover, IInv, Known, Active, Running
<1>. QED BY <1>2, <1>3, <1>4, <1>5 DEF IInv

LEMMA ScrapeStep == ASSUME IInv, ScrapeTargets PROVE IInv'
<1>. USE Timing
<1>1. /\ target' \in [Endpoints -> {"none", "unknown", "up", "down"}]
      /\ \A e \in Endpoints : target'[e] = "up" => Serves(e)
      /\ \A e \in Endpoints : target[e] = "none" => target'[e] = "none"
  BY DEF ScrapeTargets, Targets
<1>2. TypeOK'
  <2>1. age' \in [scrape : 0 .. Scrape, discovery : 0 .. Refresh]
    BY DEF ScrapeTargets, IInv, TypeOK
  <2>. QED BY <1>1, <2>1 DEF ScrapeTargets, reading, IInv, TypeOK, Limit
<1>3. DeadlineInv'
  BY DEF ScrapeTargets, IInv, DeadlineInv, RoundTime
<1>4. TargetInv'
  BY <1>1, Names DEF ScrapeTargets, Serves, IInv, TargetInv, Endpoints
<1>5. KnowledgeInv'
  BY KnowledgeKept DEF ScrapeTargets, IInv, Known, Active, Running
<1>. QED BY <1>2, <1>3, <1>4, <1>5 DEF IInv

LEMMA ScalesStep == ASSUME IInv, Scales PROVE IInv'
<1>. USE Timing
<1>1. PICK p \in Pods : ScaleOut(p) \/ Serve(p) \/ ScaleIn(p) \/ Vanish(p)
  BY DEF Scales
<1>2. PICK state \in {"starting", "up", "leaving", "gone"} : Becomes(p, state)
  BY <1>1 DEF ScaleOut, Serve, ScaleIn, Vanish
<1>3. changes' \in 0 .. MaxChanges
  BY <1>1 DEF ScaleOut, Serve, ScaleIn, Vanish, Counted, IInv, TypeOK
<1>4. late' \subseteq Pods
  BY <1>1 DEF ScaleOut, Serve, ScaleIn, Vanish, IInv, TypeOK
<1>5. TypeOK'
  BY <1>2, <1>3, <1>4 DEF Becomes, reading, IInv, TypeOK, Limit
<1>6. DeadlineInv'
  BY <1>2 DEF Becomes, IInv, DeadlineInv, RoundTime
<1>7. TargetInv'
  <2>1. pod[p] \notin {"new", "starting"} => state \notin {"new", "starting"}
    BY <1>1, <1>2 DEF ScaleOut, Serve, ScaleIn, Vanish, Becomes, IInv, TypeOK
  <2>. QED BY <1>2, <2>1 DEF Becomes, IInv, TypeOK, TargetInv
<1>8. /\ Known' \subseteq Known
      /\ \A q \in Known' : pod[q] = "up" => pod'[q] = "up"
  BY <1>1 DEF ScaleOut, Serve, ScaleIn, Vanish, Becomes, Known, Active, Running, IInv, TypeOK
<1>9. KnowledgeInv'
  BY <1>2, <1>8, KnowledgeKept DEF Becomes, IInv
<1>. QED BY <1>5, <1>6, <1>7, <1>9 DEF IInv

LEMMA TickStep == ASSUME IInv, Tick PROVE IInv'
<1>. USE Timing
<1>1. TypeOK'
  <2>1. /\ UNCHANGED <<stack, fault, pod, target, changes, mishaps, late>>
        /\ UNCHANGED <<todo, expected, found, problems, calm>>
    BY DEF Tick, reading
  <2>2. /\ age' \in [scrape : 0 .. Scrape, discovery : 0 .. Refresh]
        /\ quiet' \in 0 .. Settle /\ left' \in Int /\ left' <= Wait
    BY DEF Tick, IInv, TypeOK
  <2>3. CASE pc = "sleep"
    <3>1. pc' \in {"targets", "pods"} /\ took' = 0
      BY <2>3 DEF Tick, IInv, DeadlineInv
    <3>2. took' \in 0 .. Limit'
      BY <3>1 DEF Limit
    <3>. QED BY <2>1, <2>2, <3>1, <3>2 DEF IInv, TypeOK
  <2>4. CASE pc # "sleep"
    <3>1. pc' = pc /\ took' = took + 1 /\ took < Limit /\ Limit \in Nat /\ Limit' = Limit
      BY <2>4 DEF Tick, Limit
    <3>. QED BY <2>1, <2>2, <3>1 DEF IInv, TypeOK
  <2>. QED BY <2>3, <2>4
<1>2. DeadlineInv'
  BY DEF Tick, Calling, IInv, TypeOK, DeadlineInv, RoundTime
<1>3. TargetInv'
  BY DEF Tick, IInv, TargetInv
<1>4. KnowledgeInv'
  <2>1. CASE pc = "sleep"
    BY <2>1 DEF Tick, reading, IInv, TypeOK, KnowledgeInv, AfterReading, Known, Active, Running, TargetFaults,
       DashboardFaults, structuralProblems, prometheusProblems, grafanaProvisioningProblems,
       dashboardProblems, rabbitmqProblems, composeProblems
  <2>2. CASE pc # "sleep"
    BY <2>2, KnowledgeKept DEF Tick, IInv, Known, Active, Running
  <2>. QED BY <2>1, <2>2
<1>. QED BY <1>1, <1>2, <1>3, <1>4 DEF IInv

-----------------------------------------------------------------------------
(* The check's own steps.                                                  *)

\* A step of the check leaves the targets and the replicas alone.
LEMMA TargetKept ==
  ASSUME TargetInv, UNCHANGED <<fault, pod, target>>
  PROVE  TargetInv'
BY DEF TargetInv

LEMMA OfflineStep == ASSUME IInv, Offline PROVE IInv'
<1>. USE Timing
<1>1. TypeOK'
  BY DEF Offline, Goes, system, reading, IInv, TypeOK, Limit
<1>2. DeadlineInv'
  BY DEF Offline, Goes, IInv, DeadlineInv, RoundTime
<1>3. TargetInv'
  BY TargetKept DEF Offline, Goes, system, IInv
<1>4. KnowledgeInv'
  <2>1. structuralProblems(stack, fault)' = structuralProblems(stack, fault)
    BY DEF Offline, Goes, structuralProblems, prometheusProblems, grafanaProvisioningProblems,
           dashboardProblems, rabbitmqProblems, composeProblems
  <2>. QED BY <2>1 DEF Offline, Goes, reading, IInv, KnowledgeInv, AfterReading
<1>. QED BY <1>1, <1>2, <1>3, <1>4 DEF IInv

LEMMA ReadPortsStep == ASSUME IInv, ReadPorts PROVE IInv'
<1>. USE Timing
<1>1. TypeOK'
  BY Names DEF ReadPorts, Goes, Reports, system, Active, Running, Endpoints, IInv, TypeOK, Limit
<1>2. DeadlineInv'
  BY DEF ReadPorts, Goes, IInv, DeadlineInv, RoundTime
<1>3. TargetInv'
  BY TargetKept DEF ReadPorts, Goes, system, IInv
<1>4. KnowledgeInv'
  <2>1. structuralProblems(stack, fault)' = structuralProblems(stack, fault)
    BY DEF ReadPorts, Goes, structuralProblems, prometheusProblems, grafanaProvisioningProblems,
           dashboardProblems, rabbitmqProblems, composeProblems
  <2>2. pc' = "probe" /\ stack = "compose" /\ stack' = stack /\ Known' \subseteq todo'
    BY DEF ReadPorts, Goes, system, IInv, TypeOK, KnowledgeInv, Known, Active, Running
  <2>. QED BY <2>1, <2>2 DEF ReadPorts, IInv, KnowledgeInv, AfterReading
<1>. QED BY <1>1, <1>2, <1>3, <1>4 DEF IInv

LEMMA ProbeStep == ASSUME IInv, NEW e \in Endpoints, Probe(e) PROVE IInv'
<1>. USE Timing
<1>1. TypeOK'
  <2>1. mishaps' \in 0 .. MaxMishaps
    BY DEF Probe, Sound, Mishap, IInv, TypeOK
  <2>2. problems' \subseteq {"stack", "call", "dashboard", "missing", "health", "worker", "list"}
    BY DEF Probe, Reports, IInv, TypeOK
  <2>3. /\ took' = 0 /\ took' \in 0 .. Limit' /\ left' \in Int /\ left' <= Wait
        /\ UNCHANGED <<stack, fault, pod, target, age, changes, quiet>>
    BY DEF Probe, Goes, system, IInv, TypeOK, Limit
  <2>4. /\ todo' \subseteq Endpoints /\ expected' \subseteq Pods /\ late' \subseteq Pods
        /\ UNCHANGED <<found, calm>>
        /\ pc' \in {"probe", "pods", "targets", "done"}
    BY DEF Probe, Goes, Active, Running, IInv, TypeOK
  <2>. QED BY <2>1, <2>2, <2>3, <2>4 DEF IInv, TypeOK
<1>2. DeadlineInv'
  BY DEF Probe, Goes, IInv, TypeOK, DeadlineInv, RoundTime
<1>3. TargetInv'
  BY TargetKept DEF Probe, Goes, system, IInv
<1>4. KnowledgeInv'
  <2>1. structuralProblems(stack, fault)' = structuralProblems(stack, fault)
    BY DEF Probe, Goes, structuralProblems, prometheusProblems, grafanaProvisioningProblems,
           dashboardProblems, rabbitmqProblems, composeProblems
  <2>2. pc = "probe" /\ pc' \in {"probe", "targets"} /\ stack = "compose" /\ fault # "workloadMissing"
    BY DEF Probe, Goes, IInv, TypeOK, KnowledgeInv, FaultsOf, Static, Shared, Wiring, Unguarded
  <2>3. UNCHANGED <<stack, fault, pod>> /\ Known' = Known
    BY DEF Probe, Goes, system, Known, Active, Running
  <2>4. ASSUME problems' = {}, NEW p \in Known
        PROVE  pod[p] = "up" \/ (pc' = "probe" /\ p \in todo')
    <3>1. problems = {} /\ (e = p => Serves(p))
      BY <2>4 DEF Probe, Reports
    <3>2. p \in Pods /\ pod[p] \in {"starting", "up"} /\ (Serves(p) => pod[p] = "up")
      BY Names DEF Known, Active, Running, Serves, IInv, TypeOK
    <3>3. pod[p] = "up" \/ p \in todo
      BY <2>2, <3>1 DEF IInv, KnowledgeInv
    <3>4. pod[p] = "up" \/ (p \in todo' /\ todo # {e})
      BY <3>1, <3>2, <3>3 DEF Probe
    <3>. QED BY <3>4 DEF Probe, Goes
  <2>. QED BY <2>1, <2>2, <2>3, <2>4 DEF IInv, KnowledgeInv, AfterReading
<1>. QED BY <1>1, <1>2, <1>3, <1>4 DEF IInv

LEMMA ReadWorkloadsStep == ASSUME IInv, ReadWorkloads PROVE IInv'
<1>. USE Timing
<1>1. TypeOK'
  <2>1. mishaps' \in 0 .. MaxMishaps
    BY DEF ReadWorkloads, Sound, Mishap, IInv, TypeOK
  <2>2. problems' \subseteq {"stack", "call", "dashboard", "missing", "health", "worker", "list"}
    BY DEF ReadWorkloads, Reports, IInv, TypeOK
  <2>3. /\ took' = 0 /\ took' \in 0 .. Limit' /\ left' \in Int /\ left' <= Wait
        /\ UNCHANGED <<stack, fault, pod, target, age, changes, quiet>>
    BY DEF ReadWorkloads, Goes, system, IInv, TypeOK, Limit
  <2>4. /\ todo' \subseteq Endpoints /\ expected' \subseteq Pods /\ late' \subseteq Pods
        /\ UNCHANGED <<found, calm>>
        /\ pc' \in {"probe", "pods", "targets", "done"}
    BY DEF ReadWorkloads, Goes, Active, Running, IInv, TypeOK
  <2>. QED BY <2>1, <2>2, <2>3, <2>4 DEF IInv, TypeOK
<1>2. DeadlineInv'
  BY DEF ReadWorkloads, Goes, IInv, TypeOK, DeadlineInv, RoundTime
<1>3. TargetInv'
  BY TargetKept DEF ReadWorkloads, Goes, system, IInv
<1>4. KnowledgeInv'
  <2>1. structuralProblems(stack, fault)' = structuralProblems(stack, fault)
    BY DEF ReadWorkloads, Goes, structuralProblems, prometheusProblems, grafanaProvisioningProblems,
           dashboardProblems, rabbitmqProblems, composeProblems
  <2>2. pc' = "pods" /\ stack = "cluster" /\ UNCHANGED <<stack, fault>>
    BY DEF ReadWorkloads, Goes, IInv, TypeOK, KnowledgeInv
  <2>3. fault = "workloadMissing" => problems' # {}
    BY DEF ReadWorkloads, Reports
  <2>. QED BY <2>1, <2>2, <2>3 DEF ReadWorkloads, IInv, KnowledgeInv, AfterReading
<1>. QED BY <1>1, <1>2, <1>3, <1>4 DEF IInv

LEMMA ReadPodsStep == ASSUME IInv, ReadPods PROVE IInv'
<1>. USE Timing
<1>1. TypeOK'
  <2>1. mishaps' \in 0 .. MaxMishaps
    BY DEF ReadPods, Sound, Mishap, IInv, TypeOK
  <2>2. problems' \subseteq {"stack", "call", "dashboard", "missing", "health", "worker", "list"}
    BY DEF ReadPods, Reports, IInv, TypeOK
  <2>3. /\ took' = 0 /\ took' \in 0 .. Limit' /\ left' \in Int /\ left' <= Wait
        /\ UNCHANGED <<stack, fault, pod, target, age, changes, quiet>>
    BY DEF ReadPods, Goes, system, IInv, TypeOK, Limit
  <2>4. /\ todo' \subseteq Endpoints /\ expected' \subseteq Pods /\ late' \subseteq Pods
        /\ UNCHANGED <<found, calm>>
        /\ pc' \in {"probe", "pods", "targets", "done"}
    BY DEF ReadPods, Goes, Active, Running, IInv, TypeOK
  <2>. QED BY <2>1, <2>2, <2>3, <2>4 DEF IInv, TypeOK
<1>2. DeadlineInv'
  <2>1. /\ pc = "pods" /\ pc' = "targets" /\ took' = 0 /\ left' = left /\ stack' = stack
        /\ stack # "compose"
    BY DEF ReadPods, Goes, IInv, KnowledgeInv
  <2>2. left \in Int /\ took \in 0 .. MaxHang /\ left >= -took
    BY <2>1 DEF IInv, TypeOK, DeadlineInv, Limit
  <2>. QED BY <2>1, <2>2 DEF DeadlineInv, RoundTime
<1>3. TargetInv'
  BY TargetKept DEF ReadPods, Goes, system, IInv
<1>4. KnowledgeInv'
  <2>1. structuralProblems(stack, fault)' = structuralProblems(stack, fault)
    BY DEF ReadPods, Goes, structuralProblems, prometheusProblems, grafanaProvisioningProblems,
           dashboardProblems, rabbitmqProblems, composeProblems
  <2>2. pc' = "targets" /\ stack = "cluster" /\ UNCHANGED <<stack, fault>>
    BY DEF ReadPods, Goes, IInv, TypeOK, KnowledgeInv
  <2>3. problems' = {} => problems = {} /\ Known' \subseteq expected'
    BY DEF ReadPods, Reports, Goes, system, Known, Active, Running
  <2>4. pc = "pods"
    BY DEF ReadPods
  <2>. QED BY <2>1, <2>2, <2>3, <2>4 DEF IInv, KnowledgeInv, AfterReading
<1>. QED BY <1>1, <1>2, <1>3, <1>4 DEF IInv

\* A round that finds nothing wrong has seen every replica it compares serve,
\* and no fault of Prometheus, of its configuration or of an endpoint.
LEMMA CleanRound ==
  ASSUME IInv, pc = "targets", problems = {}, fault # "prometheusDown", targetProblems = {}
  PROVE  /\ fault \notin TargetFaults
         /\ stack = "cluster" => \A p \in Known : pod[p] = "up"
<1>. USE Timing
<1>1. /\ fault # "jobRenamed" /\ Api \in Targets /\ Workers # {}
      /\ \A e \in Targets : target[e] = "up"
      /\ stack # "compose" => Workers = expected
  BY DEF targetProblems, ProblemsIf
<1>2. fault # "targetMissing" /\ fault # "apiDown"
  BY <1>1 DEF Targets, IInv, TargetInv
<1>3. fault # "workerStatic"
  <2>1. CASE stack = "compose"
    BY <2>1 DEF IInv, KnowledgeInv, structuralProblems, prometheusProblems, Static
  <2>2. CASE stack = "cluster"
    <3>1. Workers \subseteq Pods
      BY <1>1, <2>2 DEF IInv, TypeOK
    <3>. QED BY <1>1, <3>1 DEF Workers, Targets, IInv, TargetInv
  <2>. QED BY <2>1, <2>2 DEF IInv, TypeOK
<1>4. ASSUME stack = "cluster", NEW p \in Known PROVE pod[p] = "up"
  <2>1. p \in expected
    BY <1>4 DEF IInv, KnowledgeInv
  <2>2. target[p] = "up"
    BY <1>1, <1>4, <2>1 DEF Workers
  <2>3. p \in Pods /\ pod[p] \in {"starting", "up"}
    BY <1>4 DEF Known, Active, Running
  <2>. QED BY <2>2, <2>3 DEF IInv, TargetInv
<1>. QED BY <1>1, <1>2, <1>3, <1>4 DEF TargetFaults

LEMMA ReadTargetsStep == ASSUME IInv, ReadTargets PROVE IInv'
<1>. USE Timing
<1>1. PICK ps \in SUBSET {"missing", "health", "worker", "list"}, rest \in BOOLEAN :
        /\ Judge(ps, rest)
        /\ ps = {} => fault # "prometheusDown" /\ targetProblems = {}
  <2>1. /\ NoList \in SUBSET {"missing", "health", "worker", "list"} /\ NoList # {}
        /\ targetProblems \in SUBSET {"missing", "health", "worker", "list"}
        /\ AtRest \in BOOLEAN
    BY DEF NoList, targetProblems, ProblemsIf, AtRest
  <2>2. CASE Sound /\ Judge(IF fault = "prometheusDown" THEN NoList ELSE targetProblems, AtRest)
    <3>1. CASE fault = "prometheusDown"
      BY <2>1, <2>2, <3>1
    <3>2. CASE fault # "prometheusDown"
      BY <2>1, <2>2, <3>2
    <3>. QED BY <3>1, <3>2
  <2>3. CASE Mishap /\ Judge(NoList, FALSE)
    BY <2>1, <2>3
  <2>. QED BY <2>2, <2>3 DEF ReadTargets
<1>2. /\ pc = "targets" /\ mishaps' \in 0 .. MaxMishaps
      /\ UNCHANGED <<left, todo, problems, late, stack, fault, pod, target, age, changes, quiet>>
  BY <1>1 DEF ReadTargets, Sound, Mishap, Judge, Goes, system, IInv, TypeOK
<1>3. /\ took' = 0 /\ took' \in 0 .. Limit' /\ pc' \in {"dashboard", "sleep"}
      /\ pc' = "dashboard" => found' = ps
      /\ pc' = "sleep" => left > 0 /\ found' = {}
      /\ found' \subseteq ps /\ calm' \in BOOLEAN /\ expected' \subseteq expected
  BY <1>1, <1>2 DEF Judge, Goes, IInv, TypeOK, Limit
<1>4. TypeOK'
  BY <1>2, <1>3 DEF IInv, TypeOK
<1>5. DeadlineInv'
  <2>1. left \in Int /\ left >= -RoundTime
    BY <1>2 DEF IInv, TypeOK, Limit, DeadlineInv, RoundTime
  <2>2. left' = left /\ stack' = stack /\ took' = 0 /\ pc' \in {"dashboard", "sleep"}
        /\ (pc' = "sleep" => left > 0)
    BY <1>2, <1>3
  <2>. QED BY <2>1, <2>2 DEF DeadlineInv, RoundTime
<1>6. TargetInv'
  BY <1>2, TargetKept DEF IInv
<1>7. KnowledgeInv'
  <2>1. structuralProblems(stack, fault)' = structuralProblems(stack, fault)
    BY <1>2 DEF structuralProblems, prometheusProblems, grafanaProvisioningProblems,
           dashboardProblems, rabbitmqProblems, composeProblems
  <2>2. Known' = Known
    BY <1>2 DEF Known, Active, Running
  <2>3. ASSUME pc' = "dashboard", problems' = {}, found' = {}
        PROVE  fault \notin TargetFaults /\ (stack = "cluster" => \A p \in Known : pod[p] = "up")
    BY <1>1, <1>2, <1>3, <2>3, CleanRound
  <2>. QED BY <1>2, <1>3, <2>1, <2>2, <2>3 DEF IInv, KnowledgeInv, AfterReading
<1>. QED BY <1>4, <1>5, <1>6, <1>7 DEF IInv

LEMMA DashboardStep == ASSUME IInv, Dashboard PROVE IInv'
<1>. USE Timing
<1>1. TypeOK'
  <2>1. mishaps' \in 0 .. MaxMishaps
    BY DEF Dashboard, Sound, Mishap, IInv, TypeOK
  <2>2. problems' \subseteq {"stack", "call", "dashboard", "missing", "health", "worker", "list"}
    BY DEF Dashboard, Reports, IInv, TypeOK
  <2>3. /\ took' = 0 /\ took' \in 0 .. Limit' /\ left' \in Int /\ left' <= Wait
        /\ UNCHANGED <<stack, fault, pod, target, age, changes, quiet>>
    BY DEF Dashboard, Goes, system, IInv, TypeOK, Limit
  <2>4. /\ todo' \subseteq Endpoints /\ expected' \subseteq Pods /\ late' \subseteq Pods
        /\ UNCHANGED <<found, calm>>
        /\ pc' \in {"probe", "pods", "targets", "done"}
    BY DEF Dashboard, Goes, Active, Running, IInv, TypeOK
  <2>. QED BY <2>1, <2>2, <2>3, <2>4 DEF IInv, TypeOK
<1>2. DeadlineInv'
  BY DEF Dashboard, Goes, IInv, TypeOK, DeadlineInv, RoundTime
<1>3. TargetInv'
  BY TargetKept DEF Dashboard, Goes, system, IInv
<1>4. KnowledgeInv'
  <2>1. structuralProblems(stack, fault)' = structuralProblems(stack, fault)
    BY DEF Dashboard, Goes, structuralProblems, prometheusProblems, grafanaProvisioningProblems,
           dashboardProblems, rabbitmqProblems, composeProblems
  <2>2. /\ pc = "dashboard" /\ pc' = "done" /\ Known' = Known
        /\ UNCHANGED <<stack, fault, pod, todo, expected, found>>
    BY DEF Dashboard, Goes, system, Known, Active, Running
  <2>3. /\ problems \subseteq problems'
        /\ problems' = {} => found = {} /\ fault \notin DashboardFaults
    BY DEF Dashboard, Reports, DashboardFaults
  <2>. QED BY <2>1, <2>2, <2>3 DEF IInv, KnowledgeInv, AfterReading
<1>. QED BY <1>1, <1>2, <1>3, <1>4 DEF IInv

-----------------------------------------------------------------------------
(* The theorems.                                                           *)

LEMMA StutterStep == ASSUME IInv, UNCHANGED vars PROVE IInv'
<1>1. TypeOK' /\ DeadlineInv' /\ TargetInv'
  BY DEF vars, system, reading, IInv, TypeOK, Limit, DeadlineInv, RoundTime, TargetInv
<1>2. KnowledgeInv'
  BY KnowledgeKept DEF vars, system, reading, IInv, Known, Active, Running
<1>. QED BY <1>1, <1>2 DEF IInv

LEMMA InvStep == IInv /\ [Next]_vars => IInv'
<1> SUFFICES ASSUME IInv, [Next]_vars PROVE IInv'
  OBVIOUS
<1>1. CASE Checks
  BY <1>1, OfflineStep, ReadPortsStep, ProbeStep, ReadWorkloadsStep, ReadPodsStep, ReadTargetsStep,
     DashboardStep DEF Checks
<1>2. CASE Scales
  BY <1>2, ScalesStep
<1>3. CASE Discover
  BY <1>3, DiscoverStep
<1>4. CASE ScrapeTargets
  BY <1>4, ScrapeStep
<1>5. CASE Tick
  BY <1>5, TickStep
<1>6. CASE UNCHANGED vars
  BY <1>6, StutterStep
<1>. QED BY <1>1, <1>2, <1>3, <1>4, <1>5, <1>6 DEF Next

LEMMA Invariant == Spec => []IInv
BY InvInit, InvStep, PTL DEF Spec

\* The state of the stack and of the check stays what the code can hold.
THEOREM LiveTypes == Spec => []TypeOK
<1>1. IInv => TypeOK
  BY DEF IInv
<1>. QED BY <1>1, Invariant, PTL

\* Whatever comes and goes between the readings, a stack that passes the
\* checks has no fault they look for, and the replicas they know of serve.
THEOREM PassMeansServing == Spec => []PassIsTrue
<1>1. IInv => PassIsTrue
  <2> SUFFICES ASSUME IInv, Passed
               PROVE  /\ fault \in {"none", "podBroken"}
                      /\ \A p \in Active \ late : pod[p] = "up"
    BY DEF PassIsTrue
  <2>1. found = {} /\ fault \notin DashboardFaults /\ fault \notin TargetFaults
    BY DEF Passed, IInv, KnowledgeInv
  <2>2. fault # "workloadMissing" /\ structuralProblems(stack, fault) = {}
    BY DEF Passed, IInv, KnowledgeInv, AfterReading
  <2>3. fault \notin {"datasource", "provider", "overviewUid", "perObject"}
    BY <2>2 DEF structuralProblems, grafanaProvisioningProblems, dashboardProblems, rabbitmqProblems
  <2>4. stack = "compose" => fault \notin Static \cup Wiring
    BY <2>2 DEF structuralProblems, prometheusProblems, composeProblems
  <2>5. fault \in {"none", "podBroken"}
    BY <2>1, <2>2, <2>3, <2>4 DEF IInv, TypeOK, FaultsOf, Static, Shared, Wiring, Unguarded, TargetFaults,
       DashboardFaults
  <2>6. \A p \in Active \ late : pod[p] = "up"
    BY <2>1 DEF Passed, IInv, TypeOK, KnowledgeInv, AfterReading, Known
  <2>. QED BY <2>5, <2>6
<1>. QED BY <1>1, Invariant, PTL

\* The targets are judged within the wait and the calls of one round, for
\* every time a kubectl call may hang: on the cluster one of them outlasts the
\* deadline, not one in every round, and on Compose none does.
THEOREM VerdictInTime == Spec => []DeadlineIsKept
<1>1. IInv => DeadlineIsKept
  BY Timing DEF IInv, TypeOK, DeadlineInv, KnowledgeInv, Limit, RoundTime, DeadlineIsKept
<1>. QED BY <1>1, Invariant, PTL

-----------------------------------------------------------------------------
(* A stack at rest.                                                        *)

\* Prometheus has looked for the replicas since one last changed.
FoundInv == quiet > age.discovery => Targets = Configured
\* It has scraped since, too: it discovers at least once between the two.
ScrapedInv ==
  quiet > age.scrape + Refresh =>
    \A e \in Targets : target[e] = IF Serves(e) THEN "up" ELSE "down"
\* The pods the check compares the targets with are those that run.
ReadInv == stack = "cluster" /\ pc = "targets" /\ quiet > took => expected \in {{}, Active}
CalmInv == pc \in {"dashboard", "done"} /\ calm /\ found # {} => fault \in TargetFaults

RestInv == FoundInv /\ ScrapedInv /\ ReadInv /\ CalmInv

\* Nothing that the targets depend on has moved.
LEMMA StillFound ==
  ASSUME FoundInv, ScrapedInv, UNCHANGED <<stack, fault, pod, target, age, quiet>>
  PROVE  FoundInv' /\ ScrapedInv'
<1>1. Targets' = Targets /\ Configured' = Configured /\ \A e : Serves(e)' <=> Serves(e)
  BY DEF Targets, Configured, Running, Serves
<1>. QED BY <1>1 DEF FoundInv, ScrapedInv

\* The scrapes and discoveries are recent, and their ages are numbers.
LEMMA Ages ==
  ASSUME TypeOK
  PROVE  /\ quiet \in 0 .. Settle /\ Settle = Scrape + Refresh + 1 /\ took \in Nat
         /\ (pc = "targets" => took <= Timeout)
         /\ age.scrape \in 0 .. Scrape /\ age.discovery \in 0 .. Refresh
         /\ Timeout < Settle
         /\ age = [scrape |-> age.scrape, discovery |-> age.discovery]
BY Timing, TimingAssumption DEF TypeOK, Settle, Limit

\* At the start nothing is known yet, or the stack has been up for long.
LEMMA RestInit == Init => RestInv
<1> SUFFICES ASSUME Init PROVE RestInv
  OBVIOUS
<1>1. age.discovery = 0 /\ age.scrape = 0 /\ pc = "offline"
  BY DEF Init
<1>2. CASE target = [e \in Endpoints |-> "none"] /\ quiet = 0
  BY <1>1, <1>2, Timing DEF RestInv, FoundInv, ScrapedInv, ReadInv, CalmInv
<1>3. CASE target = [e \in Endpoints |-> IF e \notin Configured THEN "none"
                                         ELSE IF Serves(e) THEN "up" ELSE "down"]
  <2>1. Configured \subseteq Endpoints
    BY Timing DEF Configured, Endpoints, Running, Api, Worker, Pods
  <2>2. Targets = Configured
    BY <1>3, <2>1 DEF Targets
  <2>3. \A e \in Targets : target[e] = IF Serves(e) THEN "up" ELSE "down"
    BY <1>3, <2>1, <2>2
  <2>. QED BY <1>1, <2>2, <2>3 DEF RestInv, FoundInv, ScrapedInv, ReadInv, CalmInv
<1>. QED BY <1>2, <1>3 DEF Init

\* A discovery finds what the configuration asks for, and when the scrape came
\* after the last change, finds nothing new.
LEMMA RestDiscover == ASSUME TypeOK, RestInv, Discover PROVE RestInv'
<1>1. UNCHANGED <<stack, fault, pod, quiet, pc, took, expected, calm, found>> /\ age'.scrape = age.scrape
  BY Ages DEF Discover, reading
<1>2. Configured' = Configured /\ Configured \subseteq Endpoints /\ (\A e : Serves(e)' <=> Serves(e))
  BY <1>1, Timing DEF Configured, Running, Serves, Endpoints, Api, Worker, Pods
<1>3. /\ target \in [Endpoints -> {"none", "unknown", "up", "down"}]
      /\ target' = [e \in Endpoints |-> IF e \notin Configured THEN "none"
                                        ELSE IF e \in Targets THEN target[e] ELSE "unknown"]
  BY DEF Discover, TypeOK
<1>4. Targets' = Configured'
  BY <1>2, <1>3 DEF Targets
<1>5. ASSUME quiet > age.scrape + Refresh
      PROVE  \A e \in Targets' : target'[e] = IF Serves(e) THEN "up" ELSE "down"
  <2>1. quiet > age.discovery
    BY <1>5, Ages, Timing
  <2>2. Targets = Configured
    BY <2>1 DEF RestInv, FoundInv
  <2>. QED BY <1>2, <1>3, <1>4, <1>5, <2>2 DEF RestInv, ScrapedInv
<1>6. Active' = Active
  BY <1>1 DEF Active, Running
<1>. QED BY <1>1, <1>2, <1>4, <1>5, <1>6 DEF RestInv, FoundInv, ScrapedInv, ReadInv, CalmInv, TargetFaults

\* A scrape sees which targets serve.
LEMMA RestScrape == ASSUME TypeOK, RestInv, ScrapeTargets PROVE RestInv'
<1>1. UNCHANGED <<stack, fault, pod, quiet, pc, took, expected, calm, found>>
      /\ age'.discovery = age.discovery
  BY Ages DEF ScrapeTargets, reading
<1>2. Configured' = Configured /\ Active' = Active /\ (\A e : Serves(e)' <=> Serves(e))
  BY <1>1 DEF Configured, Active, Running, Serves
<1>3. target' = [e \in Endpoints |-> IF e \notin Targets THEN "none"
                                    ELSE IF Serves(e) THEN "up" ELSE "down"]
  BY DEF ScrapeTargets
<1>4. Targets' = Targets
  BY <1>3 DEF Targets
<1>5. \A e \in Targets' : target'[e] = IF Serves(e)' THEN "up" ELSE "down"
  BY <1>2, <1>3, <1>4 DEF Targets
<1>. QED BY <1>1, <1>2, <1>4, <1>5 DEF RestInv, FoundInv, ScrapedInv, ReadInv, CalmInv, TargetFaults

\* A replica that changes ends the rest.
LEMMA RestScales == ASSUME TypeOK, RestInv, Scales PROVE RestInv'
<1>1. quiet' = 0 /\ UNCHANGED <<fault, age, pc, took, calm, found>>
  BY DEF Scales, ScaleOut, Serve, ScaleIn, Vanish, Becomes, reading
<1>. QED BY <1>1, Ages, Timing DEF RestInv, FoundInv, ScrapedInv, ReadInv, CalmInv, TargetFaults

\* Time passes for the stack, for Prometheus and for the call alike.
LEMMA RestTick == ASSUME TypeOK, RestInv, Tick PROVE RestInv'
<1>1. /\ UNCHANGED <<stack, fault, pod, target, expected, calm, found>>
      /\ age.scrape < Scrape /\ age.discovery < Refresh
      /\ age'.scrape = age.scrape + 1 /\ age'.discovery = age.discovery + 1
      /\ quiet' = IF quiet < Settle THEN quiet + 1 ELSE Settle
  BY DEF Tick, reading
<1>2. Targets' = Targets /\ Configured' = Configured /\ Active' = Active /\ (\A e : Serves(e)' <=> Serves(e))
  BY <1>1 DEF Targets, Configured, Active, Running, Serves
<1>3. quiet' > age'.discovery => quiet > age.discovery
  BY <1>1, Ages, Timing
<1>4. quiet' > age'.scrape + Refresh => quiet > age.scrape + Refresh
  BY <1>1, Ages, Timing
<1>5. ReadInv'
  <2>1. CASE pc = "sleep"
    BY <2>1 DEF Tick, ReadInv
  <2>2. CASE pc # "sleep"
    <3>1. pc' = pc /\ took' = took + 1 /\ (pc = "targets" => took < Timeout)
      BY <2>2 DEF Tick, Limit
    <3>2. pc = "targets" /\ quiet' > took' => quiet > took
      BY <1>1, <3>1, Ages, Timing
    <3>. QED BY <1>1, <1>2, <3>1, <3>2 DEF RestInv, ReadInv
  <2>. QED BY <2>1, <2>2
<1>6. CalmInv'
  BY <1>1 DEF Tick, RestInv, CalmInv, TargetFaults
<1>. QED BY <1>1, <1>2, <1>3, <1>4, <1>5, <1>6 DEF RestInv, FoundInv, ScrapedInv

\* A round that reads a stack at rest finds nothing, unless the targets are
\* really wrong.
LEMMA CleanAtRest ==
  ASSUME TypeOK, RestInv, pc = "targets", AtRest, fault \notin TargetFaults
  PROVE  targetProblems = {}
<1>1. quiet = Settle /\ (\A p \in Running : pod[p] = "up") /\ expected # {}
      /\ (stack = "compose" => Cardinality(expected) = Cardinality(Active))
  BY DEF AtRest
<1>2. Targets = Configured /\ \A e \in Targets : target[e] = IF Serves(e) THEN "up" ELSE "down"
  <2>1. quiet > age.discovery /\ quiet > age.scrape + Refresh
    BY <1>1, Ages, Timing
  <2>. QED BY <2>1 DEF RestInv, FoundInv, ScrapedInv
<1>3. Active = Running /\ Running \subseteq Pods
  BY <1>1 DEF Active, Running
<1>4. Configured = {Api} \cup Running
  BY DEF Configured, TargetFaults
<1>5. Workers = Running
  BY <1>2, <1>3, <1>4, Names DEF Workers
<1>6. \A e \in Targets : target[e] = "up"
  <2>1. \A e \in Running : Serves(e)
    BY <1>1, <1>3, Names DEF Serves
  <2>2. Serves(Api)
    BY DEF Serves, TargetFaults
  <2>. QED BY <1>2, <1>4, <2>1, <2>2
<1>7. Running # {} /\ IF stack = "compose" THEN Cardinality(Workers) = Cardinality(expected)
                                          ELSE Workers = expected
  <2>1. CASE stack = "compose"
    <3>1. IsFiniteSet(Pods)
      BY Timing, FS_Interval DEF Pods
    <3>2. IsFiniteSet(expected) /\ expected \in SUBSET Pods
      BY <3>1, FS_Subset DEF TypeOK
    <3>3. Cardinality(expected) # 0
      BY <1>1, <3>2, FS_EmptySet
    <3>. QED BY <1>1, <1>3, <1>5, <2>1, <3>3, FS_EmptySet
  <2>2. CASE stack # "compose"
    <3>1. stack = "cluster"
      BY <2>2 DEF TypeOK
    <3>2. quiet > took
      BY <1>1, Ages, Timing
    <3>. QED BY <1>1, <1>3, <1>5, <2>2, <3>1, <3>2 DEF RestInv, ReadInv
  <2>. QED BY <2>1, <2>2
<1>8. Api \in Targets /\ fault # "jobRenamed"
  BY <1>2, <1>4 DEF TargetFaults
<1>. QED BY <1>5, <1>6, <1>7, <1>8 DEF targetProblems, ProblemsIf

\* What the check's own steps leave of it.
LEMMA RestChecks == ASSUME IInv, RestInv, Checks PROVE RestInv'
<1>1. UNCHANGED <<stack, fault, pod, target, age, quiet>>
  BY DEF Checks, Offline, ReadPorts, Probe, ReadWorkloads, ReadPods, ReadTargets, Judge, Dashboard,
         Goes, system
<1>2. FoundInv' /\ ScrapedInv'
  BY <1>1, StillFound DEF RestInv
<1>3. Active' = Active
  BY <1>1 DEF Active, Running
<1>4. CASE Offline \/ ReadPorts \/ (\E e \in Endpoints : Probe(e)) \/ ReadWorkloads \/ Dashboard
  <2>1. stack' = "cluster" => pc' # "targets"
    <3>1. \A e \in Endpoints : Probe(e) => stack = "compose"
      BY DEF Probe, IInv, TypeOK, KnowledgeInv
    <3>. QED BY <1>1, <1>4, <3>1 DEF Offline, ReadPorts, ReadWorkloads, Dashboard, Goes
  <2>2. CalmInv'
    BY <1>1, <1>4 DEF Offline, ReadPorts, Probe, ReadWorkloads, Dashboard, Goes, reading, RestInv,
       CalmInv, TargetFaults
  <2>. QED BY <1>2, <2>1, <2>2 DEF RestInv, ReadInv
<1>5. CASE ReadPods
  <2>1. pc' = "targets" /\ expected' \in {{}, Active}
    BY <1>5 DEF ReadPods, Goes
  <2>. QED BY <1>2, <1>3, <2>1 DEF RestInv, ReadInv, CalmInv
<1>6. CASE ReadTargets
  <2>1. pc = "targets" /\ pc' \in {"dashboard", "sleep"}
    BY <1>6 DEF ReadTargets, Judge, Goes
  <2>2. ASSUME calm', fault \notin TargetFaults
        PROVE  found' = {}
    <3>1. Judge(targetProblems, AtRest) /\ AtRest
      BY <1>6, <2>2 DEF ReadTargets, Judge, TargetFaults
    <3>2. targetProblems = {}
      BY <2>1, <2>2, <3>1, CleanAtRest DEF IInv
    <3>. QED BY <3>1, <3>2 DEF Judge
  <2>. QED BY <1>1, <1>2, <2>1, <2>2 DEF RestInv, ReadInv, CalmInv, TargetFaults
<1>. QED BY <1>4, <1>5, <1>6 DEF Checks

\* StableIsNotBlamed, for every number of replicas and every timing in which a
\* call takes no longer than a discovery and a scrape: the last round of a
\* check that reads a stack at rest has compared like with like.
THEOREM StableIsCleared == Spec => []StableIsNotBlamed
<1>1. IInv /\ RestInv /\ [Next]_vars => RestInv'
  <2> SUFFICES ASSUME IInv, TypeOK, RestInv, [Next]_vars PROVE RestInv'
    BY DEF IInv
  <2>1. CASE UNCHANGED vars
    <3>1. UNCHANGED <<stack, fault, pod, target, age, quiet, pc, took, expected, calm, found>>
      BY <2>1 DEF vars, system, reading
    <3>2. Active' = Active
      BY <3>1 DEF Active, Running
    <3>. QED BY <3>1, <3>2, StillFound DEF RestInv, ReadInv, CalmInv, TargetFaults
  <2>. QED BY <2>1, RestChecks, RestScales, RestDiscover, RestScrape, RestTick DEF Next
<1>2. RestInv => StableIsNotBlamed
  BY DEF RestInv, CalmInv, StableIsNotBlamed, TargetFaults
<1>. QED BY <1>1, <1>2, RestInit, Invariant, PTL DEF Spec
=============================================================================
