-------------------------- MODULE ClusterLifecycle --------------------------
(***************************************************************************)
(* The local Kubernetes cluster `fiapx` under its two commands:            *)
(* scripts/k8s-up.mjs (provision, install KEDA, apply, wait) and           *)
(* scripts/k8s-down.mjs.  Neither command takes a lock and every one of    *)
(* their calls is a separate process, so a run may be killed, refused by   *)
(* the API server, or overtaken by another run between any two of them.    *)
(*                                                                         *)
(* A member of Runs is one invocation of k8s-up.mjs and a member of Downs  *)
(* one invocation of k8s-down.mjs.  A value a run generates at random is   *)
(* represented by the run itself: two invocations never draw the same one. *)
(***************************************************************************)
EXTENDS Naturals, Sequences, FiniteSets

CONSTANTS
  Runs,           \* invocations of k8s-up.mjs
  Downs,          \* invocations of k8s-down.mjs
  PortMaps,       \* values of (CATALOG_HOST_PORT, STORAGE_HOST_PORT)
  PortsOf,        \* [Runs -> PortMaps]: the map each run asks for
  Scripts,        \* contents of storage/bootstrap.sh (its ConfigMap hash)
  ScriptOf,       \* [Runs -> Scripts]: the checkout each run applies
  TokenRuns,      \* the runs with GHCR_TOKEN in their environment
  MaxActive,      \* how many runs the operators let overlap
  DownsOverlap,   \* whether k8s-down may run while a k8s-up is in progress
  None            \* "absent"

ASSUME ConstantsAssumption ==
  /\ PortsOf \in [Runs -> PortMaps]
  /\ ScriptOf \in [Runs -> Scripts]
  /\ TokenRuns \subseteq Runs
  /\ MaxActive \in Nat
  /\ DownsOverlap \in BOOLEAN
  /\ None \notin Runs \cup PortMaps \cup Scripts

-----------------------------------------------------------------------------
(* The Secrets, in the order secretData lists them.                        *)

Broker == "fiapx-rabbitmq"
Keda   == "fiapx-keda-rabbitmq"
Pull   == "ghcr-pull"

CreationOrder ==
  << "fiapx-postgres", "fiapx-storage", Broker, Keda,
     "fiapx-identity-admin", "fiapx-grafana-admin", Pull >>

SecretNames == {"fiapx-postgres", "fiapx-storage", Broker, Keda,
                "fiapx-identity-admin", "fiapx-grafana-admin", Pull}
Wanted(r) == IF r \in TokenRuns THEN SecretNames ELSE SecretNames \ {Pull}

-----------------------------------------------------------------------------
VARIABLES
  cluster,    \* "absent", "starting" (kind create), "ready", "sick"
  maker,      \* the run whose kind create made the cluster, or None
  hostMap,    \* data of ConfigMap fiapx-host, or None
  secrets,    \* [SecretNames -> the run that generated the value, or None]
  attached,   \* the default ServiceAccount pulls with ghcr-pull
  keda,       \* KEDA's manifest is applied
  topology,   \* the kustomization has been applied
  job,        \* Job storage-init: [status, script]
  hpa,        \* HPA keda-hpa-worker exists
  rolledOut,  \* every Deployment and StatefulSet has its replicas ready
  pc,         \* where each run is
  mem,        \* what each run remembers: a Memory, Blank once it has ended
  downPc      \* where each k8s-down is

clusterVars == <<cluster, maker, hostMap>>
secretVars  == <<secrets, attached>>
topoVars    == <<keda, topology, job, hpa, rolledOut>>
runVars     == <<pc, mem>>
vars == <<clusterVars, secretVars, topoVars, runVars, downPc>>

NoJob == [status |-> "absent", script |-> None]
NoSecrets == [s \in SecretNames |-> None]

Memory ==
  [known  : SUBSET SecretNames,   \* the Secrets it listed or created
   rabbit : Runs \cup {None},     \* the RabbitMQ user it writes
   seen   : {"nothing", "pending", "failed", "ready"},  \* the last workloads read
   late   : BOOLEAN,              \* its 600 s budget is spent
   ran    : SUBSET Scripts]       \* history: scripts completed since CheckBootstrap
Blank == [known |-> {}, rabbit |-> None, seen |-> "nothing", late |-> FALSE,
          ran |-> {}]

Waiting == {"workloads", "hpas"}
Ended   == {"idle", "ok", "failed"}
\* Locations whose next call needs the API server of kind-fiapx to answer.
ApiCalls == {"nodes", "map", "hostMap", "list", "rabbit", "secrets", "attach",
             "keda", "kedaWait", "check", "delete", "apply"} \cup Waiting
Locations == ApiCalls \cup Ended \cup {"clusters", "ports", "create", "creating"}
AfterCheck == {"delete", "apply"} \cup Waiting

Active == {r \in Runs : pc[r] \notin Ended}

TypeOK ==
  /\ cluster \in {"absent", "starting", "ready", "sick"}
  /\ maker \in Runs \cup {None}
  /\ hostMap \in PortMaps \cup {None}
  /\ secrets \in [SecretNames -> Runs \cup {None}]
  /\ attached \in BOOLEAN
  /\ keda \in BOOLEAN
  /\ topology \in BOOLEAN
  /\ job \in {NoJob} \cup
            [status : {"running", "complete", "failed"}, script : Scripts]
  /\ hpa \in BOOLEAN
  /\ rolledOut \in BOOLEAN
  /\ pc \in [Runs -> Locations]
  /\ mem \in [Runs -> Memory]
  /\ downPc \in [Downs -> {"idle", "delete", "done"}]

Init ==
  /\ cluster = "absent" /\ maker = None /\ hostMap = None
  /\ secrets = NoSecrets /\ attached = FALSE
  /\ keda = FALSE /\ topology = FALSE /\ hpa = FALSE /\ rolledOut = FALSE
  /\ job = NoJob
  /\ pc = [r \in Runs |-> "idle"]
  /\ mem = [r \in Runs |-> Blank]
  /\ downPc = [d \in Downs |-> "idle"]

\* A run moves on with what it remembers; one that ends forgets it.
GoWith(r, location, memory) ==
  /\ pc' = [pc EXCEPT ![r] = location]
  /\ mem' = [mem EXCEPT ![r] = IF location \in Ended THEN Blank ELSE memory]
Goto(r, location) == GoWith(r, location, mem[r])

-----------------------------------------------------------------------------
(* up: preflight and the decision about the cluster.                       *)

Start(r) ==
  /\ pc[r] = "idle"
  /\ Cardinality(Active) < MaxActive
  /\ DownsOverlap \/ \A d \in Downs : downPc[d] # "delete"
  /\ Goto(r, "clusters")
  /\ UNCHANGED <<clusterVars, secretVars, topoVars, downPc>>

\* clusterState, first read: kind lists a cluster from its first container on.
SeeClusters(r) ==
  /\ pc[r] = "clusters"
  /\ Goto(r, IF cluster = "absent" THEN "ports" ELSE "nodes")
  /\ UNCHANGED <<clusterVars, secretVars, topoVars, downPc>>

\* clusterState, second read: every node Ready (Refused covers the rest).
SeeNodes(r) ==
  /\ pc[r] = "nodes"
  /\ cluster = "ready"
  /\ Goto(r, "map")
  /\ UNCHANGED <<clusterVars, secretVars, topoVars, downPc>>

\* Mutant: any recorded map is reused.
SeeHostMapAnyMap(r) ==
  /\ pc[r] = "map"
  /\ cluster = "ready"
  /\ Goto(r, IF hostMap # None THEN "hostMap" ELSE "failed")
  /\ UNCHANGED <<clusterVars, secretVars, topoVars, downPc>>

\* clusterState, third read, and clusterDecision: reuse only the same map.
SeeHostMap(r) ==
  /\ pc[r] = "map"
  /\ cluster = "ready"
  /\ Goto(r, IF hostMap = PortsOf[r] THEN "hostMap" ELSE "failed")
  /\ UNCHANGED <<clusterVars, secretVars, topoVars, downPc>>

\* busyPortProblems: a busy port is one of the failures of Stop.
ProbePorts(r) ==
  /\ pc[r] = "ports"
  /\ Goto(r, "create")
  /\ UNCHANGED <<clusterVars, secretVars, topoVars, downPc>>

\* createCluster: kind refuses a name that is already taken.
BeginCreate(r) ==
  /\ pc[r] = "create"
  /\ IF cluster = "absent"
     THEN /\ cluster' = "starting" /\ maker' = r
          /\ Goto(r, "creating")
     ELSE /\ Goto(r, "failed")
          /\ UNCHANGED <<cluster, maker>>
  /\ UNCHANGED <<hostMap, secretVars, topoVars, downPc>>

EndCreate(r) ==
  /\ pc[r] = "creating"
  /\ cluster = "starting" /\ maker = r
  /\ cluster' = "ready"
  /\ Goto(r, "hostMap")
  /\ UNCHANGED <<maker, hostMap, secretVars, topoVars, downPc>>

\* kind create fails: it removes the nodes it started.
FailCreate(r) ==
  /\ pc[r] = "creating"
  /\ Goto(r, "failed")
  /\ IF maker = r THEN cluster' = "absent" /\ maker' = None
                  ELSE UNCHANGED <<cluster, maker>>
  /\ UNCHANGED <<hostMap, secretVars, topoVars, downPc>>

-----------------------------------------------------------------------------
(* up: provisionNamespace.                                                 *)

\* Mutant: a map the run never validated.
WriteHostMapUnset(r) ==
  /\ pc[r] = "hostMap"
  /\ cluster = "ready"
  /\ hostMap' = "unset"
  /\ Goto(r, "list")
  /\ UNCHANGED <<cluster, maker, secretVars, topoVars, downPc>>

\* The namespace and ConfigMap fiapx-host are applied, not created: an
\* existing map is overwritten.
WriteHostMap(r) ==
  /\ pc[r] = "hostMap"
  /\ cluster = "ready"
  /\ hostMap' = PortsOf[r]
  /\ Goto(r, "list")
  /\ UNCHANGED <<cluster, maker, secretVars, topoVars, downPc>>

\* existingSecrets: one list, used for every decision that follows.
ListSecrets(r) ==
  /\ pc[r] = "list"
  /\ cluster = "ready"
  /\ GoWith(r, "rabbit",
       [mem[r] EXCEPT !.known = {s \in SecretNames : secrets[s] # None}])
  /\ UNCHANGED <<clusterVars, secretVars, topoVars, downPc>>

\* Mutant: every run draws a new user.
ReadRabbitAlwaysNew(r) ==
  /\ pc[r] = "rabbit"
  /\ cluster = "ready"
  /\ GoWith(r, "secrets", [mem[r] EXCEPT !.rabbit = r])
  /\ UNCHANGED <<clusterVars, secretVars, topoVars, downPc>>

\* rabbitCredentials: the user of the RabbitMQ Secret the list showed, else of
\* KEDA's, else a new one.  A listed Secret that is gone fails the read.
ReadRabbit(r) ==
  LET listed == {Broker, Keda} \cap mem[r].known
      source == IF Broker \in listed THEN Broker ELSE Keda
      user   == IF listed = {} THEN r ELSE secrets[source]
  IN
  /\ pc[r] = "rabbit"
  /\ cluster = "ready"
  /\ GoWith(r, IF user = None THEN "failed" ELSE "secrets",
            [mem[r] EXCEPT !.rabbit = user])
  /\ UNCHANGED <<clusterVars, secretVars, topoVars, downPc>>

\* The Secret a run creates next: the first wanted one it does not know.
NextSecret(r, s) ==
  \E i \in 1 .. 7 :
    /\ CreationOrder[i] = s
    /\ s \in Wanted(r) \ mem[r].known
    /\ \A j \in 1 .. (i - 1) : CreationOrder[j] \notin Wanted(r) \ mem[r].known

ValueOf(r, s) == IF s \in {Broker, Keda} THEN mem[r].rabbit ELSE r

\* Mutant: `kubectl apply`, which overwrites a Secret that appeared meanwhile.
CreateSecretByApply(r) ==
  /\ pc[r] = "secrets"
  /\ cluster = "ready"
  /\ \E s \in SecretNames :
       /\ NextSecret(r, s)
       /\ secrets' = [secrets EXCEPT ![s] = ValueOf(r, s)]
       /\ GoWith(r, "secrets", [mem[r] EXCEPT !.known = @ \cup {s}])
  /\ UNCHANGED <<clusterVars, attached, topoVars, downPc>>

\* Mutant: AlreadyExists ends the loop over the Secrets, not the run.
CreateSecretBreaks(r) ==
  /\ pc[r] = "secrets"
  /\ cluster = "ready"
  /\ \E s \in SecretNames :
       /\ NextSecret(r, s)
       /\ IF secrets[s] = None
          THEN /\ secrets' = [secrets EXCEPT ![s] = ValueOf(r, s)]
               /\ GoWith(r, "secrets", [mem[r] EXCEPT !.known = @ \cup {s}])
          ELSE /\ GoWith(r, "keda", Blank)
               /\ UNCHANGED secrets
  /\ UNCHANGED <<clusterVars, attached, topoVars, downPc>>

\* `kubectl create`: fails with AlreadyExists when the Secret appeared since
\* the list.
CreateSecret(r) ==
  /\ pc[r] = "secrets"
  /\ cluster = "ready"
  /\ \E s \in SecretNames :
       /\ NextSecret(r, s)
       /\ IF secrets[s] = None
          THEN /\ secrets' = [secrets EXCEPT ![s] = ValueOf(r, s)]
               /\ GoWith(r, "secrets", [mem[r] EXCEPT !.known = @ \cup {s}])
          ELSE /\ Goto(r, "failed")
               /\ UNCHANGED secrets
  /\ UNCHANGED <<clusterVars, attached, topoVars, downPc>>

SecretsDone(r) ==
  /\ pc[r] = "secrets"
  /\ Wanted(r) \subseteq mem[r].known
  /\ GoWith(r, IF r \in TokenRuns THEN "attach" ELSE "keda", Blank)
  /\ UNCHANGED <<clusterVars, secretVars, topoVars, downPc>>

AttachPull(r) ==
  /\ pc[r] = "attach"
  /\ cluster = "ready"
  /\ attached' = TRUE
  /\ Goto(r, "keda")
  /\ UNCHANGED <<clusterVars, secrets, topoVars, downPc>>

-----------------------------------------------------------------------------
(* up: installKeda and applyTopology.                                      *)

\* A failed download or another checksum applies nothing: see Stop.
InstallKeda(r) ==
  /\ pc[r] = "keda"
  /\ cluster = "ready"
  /\ keda' = TRUE
  /\ Goto(r, "kedaWait")
  /\ UNCHANGED <<clusterVars, secretVars, topology, job, hpa, rolledOut,
                 downPc>>

\* `kubectl wait` fails at once when the Deployments are not there; their not
\* becoming Available within 180 s is one of the failures of Stop.
KedaAvailable(r) ==
  /\ pc[r] = "kedaWait"
  /\ cluster = "ready"
  /\ Goto(r, IF keda THEN "check" ELSE "failed")
  /\ UNCHANGED <<clusterVars, secretVars, topoVars, downPc>>

\* Mutant: a finished Job is not cleared.
CheckBootstrapKeeps(r) ==
  /\ pc[r] = "check"
  /\ cluster = "ready"
  /\ Goto(r, "apply")
  /\ UNCHANGED <<clusterVars, secretVars, topoVars, downPc>>

\* clearFinishedBootstrap, the read: absent or running means nothing to clear.
CheckBootstrap(r) ==
  /\ pc[r] = "check"
  /\ cluster = "ready"
  /\ Goto(r, IF job.status \in {"complete", "failed"} THEN "delete" ELSE "apply")
  /\ UNCHANGED <<clusterVars, secretVars, topoVars, downPc>>

\* clearFinishedBootstrap, the delete: by name, whatever the Job is by now;
\* kubectl fails when there is none.
DeleteBootstrap(r) ==
  /\ pc[r] = "delete"
  /\ cluster = "ready"
  /\ job' = NoJob
  /\ Goto(r, IF job.status = "absent" THEN "failed" ELSE "apply")
  /\ UNCHANGED <<clusterVars, secretVars, keda, topology, hpa, rolledOut,
                 downPc>>

\* Mutant: the refused Job is overlooked.
ApplyTopologyOverlooks(r) ==
  /\ pc[r] = "apply"
  /\ cluster = "ready"
  /\ topology' = TRUE
  /\ rolledOut' \in {FALSE, rolledOut}
  /\ job' = IF job.status = "absent"
            THEN [status |-> "running", script |-> ScriptOf[r]] ELSE job
  /\ Goto(r, "workloads")
  /\ UNCHANGED <<clusterVars, secretVars, keda, hpa, downPc>>

\* One `kubectl apply` of every object: an existing Job of another script is
\* refused (its template is immutable) while the other objects are applied.
\* A changed object starts a rollout.
ApplyTopology(r) ==
  LET sameJob == job.status = "absent" \/ job.script = ScriptOf[r] IN
  /\ pc[r] = "apply"
  /\ cluster = "ready"
  /\ topology' = TRUE
  /\ rolledOut' \in {FALSE, rolledOut}
  /\ job' = IF job.status = "absent"
            THEN [status |-> "running", script |-> ScriptOf[r]] ELSE job
  /\ Goto(r, IF sameJob THEN "workloads" ELSE "failed")
  /\ UNCHANGED <<clusterVars, secretVars, keda, hpa, downPc>>

-----------------------------------------------------------------------------
(* up: waitForTopology.                                                    *)

\* First read of a round: the Deployments, StatefulSets and Jobs.
ReadWorkloads(r) ==
  /\ pc[r] = "workloads"
  /\ cluster = "ready"
  /\ GoWith(r, "hpas", [mem[r] EXCEPT !.seen =
       IF job.status = "failed" THEN "failed"
       ELSE IF job.status = "complete" /\ rolledOut THEN "ready" ELSE "pending"])
  /\ UNCHANGED <<clusterVars, secretVars, topoVars, downPc>>

\* Mutant: the deadline is never compared.
ReadHpasForever(r) ==
  /\ pc[r] = "hpas"
  /\ cluster = "ready"
  /\ Goto(r, IF mem[r].seen = "ready" /\ hpa THEN "ok"
             ELSE IF mem[r].seen = "failed" THEN "failed" ELSE "workloads")
  /\ UNCHANGED <<clusterVars, secretVars, topoVars, downPc>>

\* Second read, then the verdict on both: success comes before the deadline.
ReadHpas(r) ==
  /\ pc[r] = "hpas"
  /\ cluster = "ready"
  /\ Goto(r, IF mem[r].seen = "ready" /\ hpa THEN "ok"
             ELSE IF mem[r].seen = "failed" \/ mem[r].late THEN "failed"
             ELSE "workloads")
  /\ UNCHANGED <<clusterVars, secretVars, topoVars, downPc>>

\* The clock passes the run's deadline.
Deadline(r) ==
  /\ pc[r] \in Waiting
  /\ mem' = [mem EXCEPT ![r].late = TRUE]
  /\ UNCHANGED <<clusterVars, secretVars, topoVars, pc, downPc>>

\* `must`: a call the API server does not answer ends the run.
Refused(r) ==
  /\ pc[r] \in ApiCalls
  /\ cluster # "ready"
  /\ Goto(r, "failed")
  /\ UNCHANGED <<clusterVars, secretVars, topoVars, downPc>>

\* Any other failed call, and a run that is killed: nothing is undone.
Stop(r) ==
  /\ r \in Active
  /\ Goto(r, "failed")
  /\ UNCHANGED <<clusterVars, secretVars, topoVars, downPc>>

-----------------------------------------------------------------------------
(* down.                                                                   *)

DownList(d) ==
  /\ downPc[d] = "idle"
  /\ DownsOverlap \/ Active = {}
  /\ downPc' = [downPc EXCEPT ![d] = IF cluster = "absent" THEN "done" ELSE "delete"]
  /\ UNCHANGED <<clusterVars, secretVars, topoVars, runVars>>

\* kind deletes the containers and everything in them; an absent cluster is
\* deleted successfully.
DownDelete(d) ==
  /\ downPc[d] = "delete"
  /\ downPc' = [downPc EXCEPT ![d] = "done"]
  /\ cluster' = "absent" /\ maker' = None /\ hostMap' = None
  /\ secrets' = NoSecrets /\ attached' = FALSE
  /\ keda' = FALSE /\ topology' = FALSE /\ hpa' = FALSE /\ rolledOut' = FALSE
  /\ job' = NoJob
  /\ UNCHANGED runVars

DownFails(d) ==
  /\ downPc[d] = "delete"
  /\ downPc' = [downPc EXCEPT ![d] = "done"]
  /\ UNCHANGED <<clusterVars, secretVars, topoVars, runVars>>

-----------------------------------------------------------------------------
(* What is outside the two scripts: Docker, the cluster's controllers and  *)
(* the operator.                                                           *)

ClusterSickens ==
  /\ cluster = "ready" /\ cluster' = "sick"
  /\ UNCHANGED <<maker, hostMap, secretVars, topoVars, runVars, downPc>>

ClusterRecovers ==
  /\ cluster = "sick" /\ cluster' = "ready"
  /\ UNCHANGED <<maker, hostMap, secretVars, topoVars, runVars, downPc>>

\* The Job controller reports the bootstrap's end (StorageBootstrap.tla).
JobEnds ==
  /\ cluster = "ready"
  /\ job.status = "running"
  /\ \E status \in {"complete", "failed"} :
       /\ job' = [job EXCEPT !.status = status]
       /\ mem' = [r \in Runs |->
            IF status = "complete" /\ pc[r] \in AfterCheck
            THEN [mem[r] EXCEPT !.ran = @ \cup {job.script}] ELSE mem[r]]
  /\ UNCHANGED <<clusterVars, secretVars, keda, topology, hpa, rolledOut, pc,
                 downPc>>

\* KEDA creates the HPA of the applied ScaledObject.
KedaScales ==
  /\ cluster = "ready" /\ keda /\ topology /\ ~hpa
  /\ hpa' = TRUE
  /\ UNCHANGED <<clusterVars, secretVars, keda, topology, job, rolledOut, 
                 runVars, downPc>>

\* Pods become ready, and stop being.
PodsChange ==
  /\ cluster = "ready" /\ topology
  /\ rolledOut' = ~rolledOut
  /\ UNCHANGED <<clusterVars, secretVars, keda, topology, job, hpa, 
                 runVars, downPc>>

\* An operator removes one of the two RabbitMQ Secrets between runs.
OperatorDeletes(s) ==
  /\ Active = {}
  /\ cluster = "ready"
  /\ secrets[s] # None
  /\ secrets' = [secrets EXCEPT ![s] = None]
  /\ UNCHANGED <<clusterVars, attached, topoVars, runVars, downPc>>

-----------------------------------------------------------------------------
UpStep(r) ==
  \/ SeeClusters(r) \/ SeeNodes(r) \/ SeeHostMap(r) \/ ProbePorts(r)
  \/ BeginCreate(r) \/ EndCreate(r) \/ FailCreate(r)
  \/ WriteHostMap(r) \/ ListSecrets(r) \/ ReadRabbit(r) \/ CreateSecret(r)
  \/ SecretsDone(r) \/ AttachPull(r) \/ InstallKeda(r) \/ KedaAvailable(r)
  \/ CheckBootstrap(r) \/ DeleteBootstrap(r) \/ ApplyTopology(r)
  \/ ReadWorkloads(r) \/ ReadHpas(r) \/ Refused(r)

DownStep(d) == DownList(d) \/ DownDelete(d) \/ DownFails(d)

Environment ==
  \/ ClusterSickens \/ ClusterRecovers \/ JobEnds \/ KedaScales \/ PodsChange
  \/ \E s \in {Broker, Keda} : OperatorDeletes(s)

Next ==
  \/ \E r \in Runs : Start(r) \/ UpStep(r) \/ Deadline(r) \/ Stop(r)
  \/ \E d \in Downs : DownStep(d)
  \/ Environment

Spec == Init /\ [][Next]_vars

\* Every process the script spawns returns (spawnSync waits for nothing else)
\* and the clock advances.
Fairness == \A r \in Runs : WF_vars(UpStep(r)) /\ WF_vars(Deadline(r))
FairSpec == Spec /\ Fairness

-----------------------------------------------------------------------------
(* Properties.                                                             *)

\* The two Secrets that hold the broker's user never disagree: the broker
\* loads its definitions from one and KEDA scrapes it with the other
\* (rabbitCredentials, provisionNamespace).  Needs ~DownsOverlap.
RabbitSecretsAgree ==
  secrets[Broker] # None /\ secrets[Keda] # None => secrets[Broker] = secrets[Keda]

\* The recorded host-port map is the one the cluster publishes, although a
\* reusing run overwrites it (clusterDecision).  Needs ~DownsOverlap.
HostMapTruthful ==
  hostMap # None => maker # None /\ hostMap = PortsOf[maker]

\* No k8s-up rotates a credential under running pods: while the cluster lives,
\* an existing Secret keeps its value unless the operator removes it.
NeverRotated ==
  [][\A s \in SecretNames : secrets[s] # None => secrets'[s] \in {secrets[s], None}]_vars

\* A run applies the topology only onto a cluster that holds every Secret the
\* manifests read, KEDA, and the pull Secret its ServiceAccount names.
AppliesOntoProvisioned ==
  [][\A r \in Runs : ApplyTopology(r) =>
       /\ keda
       /\ hostMap = PortsOf[r]
       /\ \A s \in Wanted(r) : secrets[s] # None
       /\ r \in TokenRuns => attached]_vars

\* A run that reports ready saw a bootstrap Job complete after it looked at
\* the Job: the completion of an earlier run's Job never passes for its own.
FreshBootstrap ==
  [][\A r \in Runs : pc[r] # "ok" /\ pc'[r] = "ok" => mem[r].ran # {}]_vars

\* When operators take turns, the script that completed is the run's own.
OwnScriptRan ==
  [][\A r \in Runs : pc[r] # "ok" /\ pc'[r] = "ok" => ScriptOf[r] \in mem[r].ran]_vars

\* One cluster life keeps one host-port map and one RabbitMQ user, however many
\* runs write the ConfigMap and the two Secrets: ClusterPromise is implemented.
\* Needs ~DownsOverlap.
brokerUser == IF secrets[Broker] # None THEN secrets[Broker] ELSE secrets[Keda]
Promise == INSTANCE ClusterPromise WITH Users <- Runs, user <- brokerUser
KeepsPromise == Promise!Spec

\* A Job still running is left alone (comments of k8s-up.mjs).
RunningJobLeftAlone ==
  [][job.status = "running" => job'.status # "absent" \/ cluster' = "absent"]_vars

\* Every run ends, whatever the cluster does.
EveryRunEnds == \A r \in Runs : pc[r] = "clusters" ~> pc[r] \in Ended
=============================================================================
