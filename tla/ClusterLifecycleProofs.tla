----------------------- MODULE ClusterLifecycleProofs -----------------------
(***************************************************************************)
(* Proofs about ClusterLifecycle for every set of runs, port maps and      *)
(* scripts.  Type correctness comes first; the inductive invariant         *)
(* Inductive then gives the agreement of the two RabbitMQ Secrets and the  *)
(* truth of the recorded host map, and JobInductive the freshness of the   *)
(* bootstrap a successful run reports.                                     *)
(***************************************************************************)
EXTENDS ClusterLifecycle, FiniteSetTheorems, TLAPS

-----------------------------------------------------------------------------
(* Type correctness.                                                       *)

\* What a run goes on with is typed when its location and its memory are.
LEMMA GoWithTyped ==
  ASSUME TypeOK, NEW r \in Runs, NEW location \in Locations,
         NEW memory \in Memory, GoWith(r, location, memory)
  PROVE  pc' \in [Runs -> Locations] /\ mem' \in [Runs -> Memory]
<1>1. Blank \in Memory
  BY DEF Blank, Memory
<1>2. QED
  BY <1>1 DEF TypeOK, GoWith

LEMMA GotoTyped ==
  ASSUME TypeOK, NEW r \in Runs, NEW location \in Locations, Goto(r, location)
  PROVE  pc' \in [Runs -> Locations] /\ mem' \in [Runs -> Memory]
<1>1. mem[r] \in Memory
  BY DEF TypeOK
<1>2. QED
  BY <1>1, GoWithTyped DEF Goto

\* The locations named by the actions are locations.
LEMMA LocationNames ==
  /\ ApiCalls \subseteq Locations
  /\ Ended \subseteq Locations
  /\ {"clusters", "ports", "create", "creating"} \subseteq Locations
BY DEF Locations

\* The state a step of a run starts from, and the state it leads to, are typed.
LEMMA UpStepTyped ==
  ASSUME TypeOK, NEW r \in Runs, UpStep(r)
  PROVE  TypeOK'
<1> USE DEF TypeOK
<1>1. ASSUME NEW location \in Locations, Goto(r, location)
      PROVE  pc' \in [Runs -> Locations] /\ mem' \in [Runs -> Memory]
  BY <1>1, GotoTyped
<1>2. mem[r] \in Memory
  OBVIOUS
<1>3. CASE SeeClusters(r) \/ SeeNodes(r) \/ SeeHostMap(r) \/ ProbePorts(r)
            \/ KedaAvailable(r) \/ CheckBootstrap(r) \/ ReadHpas(r) \/ Refused(r)
  <2>1. \E location \in Locations : Goto(r, location)
    BY <1>3 DEF SeeClusters, SeeNodes, SeeHostMap, ProbePorts, KedaAvailable,
                CheckBootstrap, ReadHpas, Refused, Locations, ApiCalls, Ended, Waiting
  <2>2. UNCHANGED <<clusterVars, secretVars, topoVars, downPc>>
    BY <1>3 DEF SeeClusters, SeeNodes, SeeHostMap, ProbePorts, KedaAvailable,
                CheckBootstrap, ReadHpas, Refused
  <2>3. QED
    BY <1>1, <2>1, <2>2 DEF clusterVars, secretVars, topoVars
<1>4. CASE BeginCreate(r)
  <2>1. \E location \in Locations : Goto(r, location)
    BY <1>4 DEF BeginCreate, Locations, Ended
  <2>2. QED
    BY <1>1, <1>4, <2>1 DEF BeginCreate, secretVars, topoVars
<1>5. CASE EndCreate(r) \/ FailCreate(r)
  <2>1. \E location \in Locations : Goto(r, location)
    BY <1>5 DEF EndCreate, FailCreate, Locations, ApiCalls, Ended
  <2>2. QED
    BY <1>1, <1>5, <2>1 DEF EndCreate, FailCreate, secretVars, topoVars
<1>6. CASE WriteHostMap(r)
  <2>1. Goto(r, "list") /\ "list" \in Locations
    BY <1>6 DEF WriteHostMap, Locations, ApiCalls
  <2>2. PortsOf[r] \in PortMaps
    BY ConstantsAssumption
  <2>3. QED
    BY <1>1, <1>6, <2>1, <2>2 DEF WriteHostMap, secretVars, topoVars
<1>7. CASE ListSecrets(r)
  <2> DEFINE memory == [mem[r] EXCEPT !.known = {s \in SecretNames : secrets[s] # None}]
  <2>1. memory \in Memory
    BY <1>2 DEF Memory
  <2>2. GoWith(r, "rabbit", memory) /\ "rabbit" \in Locations
    BY <1>7 DEF ListSecrets, Locations, ApiCalls
  <2>3. QED
    BY <1>7, <2>1, <2>2, GoWithTyped DEF ListSecrets, clusterVars, secretVars, topoVars
<1>8. CASE ReadRabbit(r)
  <2>1. \E location \in Locations, user \in Runs \cup {None} :
           GoWith(r, location, [mem[r] EXCEPT !.rabbit = user])
    <3>1. \A s \in {Broker, Keda} : secrets[s] \in Runs \cup {None}
      BY DEF SecretNames
    <3>2. QED
      BY <1>8, <3>1 DEF ReadRabbit, Locations, ApiCalls, Ended
  <2>2. \A user \in Runs \cup {None} : [mem[r] EXCEPT !.rabbit = user] \in Memory
    BY <1>2 DEF Memory
  <2>3. pc' \in [Runs -> Locations] /\ mem' \in [Runs -> Memory]
    BY <2>1, <2>2, GoWithTyped
  <2>4. QED
    BY <1>8, <2>3 DEF ReadRabbit, clusterVars, secretVars, topoVars
<1>9. CASE CreateSecret(r)
  <2>1. PICK s \in SecretNames :
          IF secrets[s] = None
          THEN /\ secrets' = [secrets EXCEPT ![s] = ValueOf(r, s)]
               /\ GoWith(r, "secrets", [mem[r] EXCEPT !.known = @ \cup {s}])
          ELSE Goto(r, "failed") /\ UNCHANGED secrets
    BY <1>9 DEF CreateSecret
  <2>2. [mem[r] EXCEPT !.known = @ \cup {s}] \in Memory
    BY <1>2 DEF Memory
  <2>3. {"secrets", "failed"} \subseteq Locations
    BY DEF Locations, ApiCalls, Ended
  <2>4. pc' \in [Runs -> Locations] /\ mem' \in [Runs -> Memory]
    BY <1>1, <2>1, <2>2, <2>3, GoWithTyped
  <2>5. ValueOf(r, s) \in Runs \cup {None}
    BY <1>2 DEF ValueOf, Memory
  <2>6. secrets' \in [SecretNames -> Runs \cup {None}]
    BY <2>1, <2>5
  <2>7. QED
    BY <1>9, <2>4, <2>6 DEF CreateSecret, clusterVars, topoVars
<1>10. CASE SecretsDone(r)
  <2>1. Blank \in Memory
    BY DEF Blank, Memory
  <2>2. \E location \in Locations : GoWith(r, location, Blank)
    BY <1>10 DEF SecretsDone, Locations, ApiCalls
  <2>3. pc' \in [Runs -> Locations] /\ mem' \in [Runs -> Memory]
    BY <2>1, <2>2, GoWithTyped
  <2>4. QED
    BY <1>10, <2>3 DEF SecretsDone, clusterVars, secretVars, topoVars
<1>11. CASE AttachPull(r) \/ InstallKeda(r)
  <2>1. \E location \in Locations : Goto(r, location)
    BY <1>11 DEF AttachPull, InstallKeda, Locations, ApiCalls
  <2>2. QED
    BY <1>1, <1>11, <2>1 DEF AttachPull, InstallKeda, clusterVars, secretVars, topoVars
<1>12. CASE DeleteBootstrap(r)
  <2>1. \E location \in Locations : Goto(r, location)
    BY <1>12 DEF DeleteBootstrap, Locations, ApiCalls, Ended
  <2>2. QED
    BY <1>1, <1>2, <1>12, <2>1 DEF DeleteBootstrap, clusterVars, secretVars
<1>13. CASE ApplyTopology(r)
  <2>1. \E location \in Locations : Goto(r, location)
    BY <1>13 DEF ApplyTopology, Locations, ApiCalls, Ended, Waiting
  <2>2. ScriptOf[r] \in Scripts
    BY ConstantsAssumption
  <2>3. QED
    BY <1>1, <1>13, <2>1, <2>2 DEF ApplyTopology, clusterVars, secretVars
<1>14. CASE ReadWorkloads(r)
  <2>1. \E verdict \in {"nothing", "pending", "failed", "ready"} :
           GoWith(r, "hpas", [mem[r] EXCEPT !.seen = verdict])
    BY <1>14 DEF ReadWorkloads
  <2>2. \A verdict \in {"nothing", "pending", "failed", "ready"} :
           [mem[r] EXCEPT !.seen = verdict] \in Memory
    BY <1>2 DEF Memory
  <2>3. "hpas" \in Locations
    BY DEF Locations, ApiCalls, Waiting
  <2>4. pc' \in [Runs -> Locations] /\ mem' \in [Runs -> Memory]
    BY <2>1, <2>2, <2>3, GoWithTyped
  <2>5. QED
    BY <1>14, <2>4 DEF ReadWorkloads, clusterVars, secretVars, topoVars
<1>15. QED
  BY <1>3, <1>4, <1>5, <1>6, <1>7, <1>8, <1>9, <1>10, <1>11, <1>12, <1>13, <1>14
  DEF UpStep

LEMMA StopTyped ==
  ASSUME TypeOK, NEW r \in Runs, Start(r) \/ Deadline(r) \/ Stop(r)
  PROVE  TypeOK'
<1> USE DEF TypeOK
<1>1. CASE Start(r) \/ Stop(r)
  <2>1. \E location \in Locations : Goto(r, location)
    BY <1>1 DEF Start, Stop, Locations, Ended
  <2>2. pc' \in [Runs -> Locations] /\ mem' \in [Runs -> Memory]
    BY <2>1, GotoTyped
  <2>3. QED
    BY <1>1, <2>2 DEF Start, Stop, clusterVars, secretVars, topoVars
<1>2. CASE Deadline(r)
  <2>1. [mem[r] EXCEPT !.late = TRUE] \in Memory
    BY DEF Memory
  <2>2. mem' \in [Runs -> Memory]
    BY <1>2, <2>1 DEF Deadline
  <2>3. QED
    BY <1>2, <2>2 DEF Deadline, clusterVars, secretVars, topoVars
<1>3. QED
  BY <1>1, <1>2

LEMMA OutsideTyped ==
  ASSUME TypeOK, Environment \/ \E d \in Downs : DownStep(d)
  PROVE  TypeOK'
<1> USE DEF TypeOK
<1>1. CASE ClusterSickens \/ ClusterRecovers
  BY <1>1 DEF ClusterSickens, ClusterRecovers, secretVars, topoVars, runVars
<1>2. CASE JobEnds
  <2>1. PICK status \in {"complete", "failed"} :
          /\ job' = [job EXCEPT !.status = status]
          /\ mem' = [r \in Runs |->
               IF status = "complete" /\ pc[r] \in AfterCheck
               THEN [mem[r] EXCEPT !.ran = @ \cup {job.script}] ELSE mem[r]]
    BY <1>2 DEF JobEnds
  \* A running Job is not NoJob, so it has a script.
  <2>2. job \in [status : {"running", "complete", "failed"}, script : Scripts]
    BY <1>2 DEF JobEnds, NoJob
  <2>3. \A r \in Runs : [mem[r] EXCEPT !.ran = @ \cup {job.script}] \in Memory
    BY <2>2 DEF Memory
  <2>4. mem' \in [Runs -> Memory]
    BY <2>1, <2>3
  <2>5. job' \in [status : {"running", "complete", "failed"}, script : Scripts]
    BY <2>1, <2>2
  <2>6. QED
    BY <1>2, <2>4, <2>5 DEF JobEnds, clusterVars, secretVars
<1>3. CASE KedaScales \/ PodsChange
  BY <1>3 DEF KedaScales, PodsChange, clusterVars, secretVars, runVars
<1>4. CASE \E s \in {Broker, Keda} : OperatorDeletes(s)
  BY <1>4 DEF OperatorDeletes, clusterVars, topoVars, runVars
<1>5. CASE \E d \in Downs : DownList(d) \/ DownFails(d)
  BY <1>5 DEF DownList, DownFails, clusterVars, secretVars, topoVars, runVars
<1>6. CASE \E d \in Downs : DownDelete(d)
  BY <1>6 DEF DownDelete, runVars, NoSecrets, NoJob
<1>7. QED
  BY <1>1, <1>2, <1>3, <1>4, <1>5, <1>6 DEF Environment, DownStep

LEMMA NextTyped ==
  ASSUME TypeOK, [Next]_vars
  PROVE  TypeOK'
<1>1. CASE Next
  BY <1>1, UpStepTyped, StopTyped, OutsideTyped DEF Next
<1>2. CASE UNCHANGED vars
  BY <1>2 DEF TypeOK, vars, clusterVars, secretVars, topoVars, runVars
<1>3. QED
  BY <1>1, <1>2

LEMMA InitTyped == Init => TypeOK
<1>1. Blank \in Memory
  BY DEF Blank, Memory
<1>2. "idle" \in Locations
  BY DEF Locations, Ended
<1>3. QED
  BY <1>1, <1>2 DEF Init, TypeOK, NoSecrets

\* The type invariant of the cluster's state and of what each run remembers.
THEOREM TypeCorrect == Spec => []TypeOK
BY InitTyped, NextTyped, PTL DEF Spec

-----------------------------------------------------------------------------
(* The inductive invariant, when no k8s-down runs during a k8s-up.         *)

Served == cluster \in {"ready", "sick"}

\* A delete starts between runs, and no run starts until it is over.
DownsQuiet == \A d \in Downs : downPc[d] = "delete" => Active = {}

\* The recorded map is the maker's, and its cluster serves.
MapRecorded ==
  hostMap # None => maker # None /\ hostMap = PortsOf[maker] /\ Served

\* A run about to write the map asks for the one the cluster publishes.
MapDecided ==
  \A r \in Runs : pc[r] = "hostMap" =>
    maker # None /\ PortsOf[r] = PortsOf[maker] /\ Served

\* The cluster a run is creating serves nobody yet.
MakerCreating ==
  \A r \in Runs : pc[r] = "creating" /\ maker = r => cluster = "starting"

Listing == {"list", "rabbit", "secrets"}
ListingRecorded == \A r \in Runs : pc[r] \in Listing => hostMap # None

\* What a run listed is still there, and KEDA's Secret cannot have appeared
\* since without the broker's.
ListStands(r) ==
  /\ \A s \in {Broker, Keda} : s \in mem[r].known => secrets[s] # None
  /\ secrets[Keda] # None /\ Keda \notin mem[r].known => secrets[Broker] # None

\* The user a run writes is the one in every RabbitMQ Secret it knows of.
UserStands(r) ==
  /\ mem[r].rabbit # None
  /\ \A s \in {Broker, Keda} : s \in mem[r].known => secrets[s] = mem[r].rabbit

RunsStand ==
  \A r \in Runs :
    /\ pc[r] \in {"rabbit", "secrets"} => ListStands(r)
    /\ pc[r] = "secrets" => UserStands(r)

Inductive ==
  /\ TypeOK /\ DownsQuiet
  /\ MapRecorded /\ MapDecided /\ MakerCreating /\ ListingRecorded
  /\ RabbitSecretsAgree /\ RunsStand

Claimed == {"hostMap", "creating"} \cup Listing

\* While a run is active no delete is in progress.
LEMMA ActiveExcludesDown ==
  ASSUME DownsQuiet, NEW r \in Active
  PROVE  \A d \in Downs : downPc[d] # "delete"
BY DEF DownsQuiet

\* A run that goes on to a location the invariant does not speak of, leaving
\* the cluster and its Secrets alone, preserves it.
LEMMA HarmlessMove ==
  ASSUME Inductive, TypeOK', NEW r \in Runs, NEW location, NEW memory,
         GoWith(r, location, memory), location \notin Claimed,
         \A d \in Downs : downPc[d] # "delete",
         UNCHANGED <<clusterVars, secrets, downPc>>
  PROVE  Inductive'
<1>1. /\ \A q \in Runs : q # r => pc'[q] = pc[q] /\ mem'[q] = mem[q]
      /\ pc'[r] = location
  BY DEF GoWith, Inductive, TypeOK
<1>2. DownsQuiet'
  BY DEF DownsQuiet
<1>3. MapRecorded' /\ RabbitSecretsAgree'
  BY DEF Inductive, MapRecorded, RabbitSecretsAgree, Served, clusterVars
<1>4. MapDecided' /\ MakerCreating' /\ ListingRecorded'
  BY <1>1 DEF Inductive, MapDecided, MakerCreating, ListingRecorded, Served,
              Claimed, Listing, clusterVars
<1>5. RunsStand'
  BY <1>1 DEF Inductive, RunsStand, ListStands, UserStands, Claimed, Listing
<1>6. QED
  BY <1>2, <1>3, <1>4, <1>5 DEF Inductive

\* A step of the world outside the scripts that touches neither the Secrets
\* nor what the invariant reads of the runs.
LEMMA HarmlessOutside ==
  ASSUME Inductive, TypeOK', UNCHANGED <<maker, hostMap, secrets, pc, downPc>>,
         Served => Served', cluster = "starting" => cluster' = "starting",
         \A r \in Runs : mem'[r].known = mem[r].known /\ mem'[r].rabbit = mem[r].rabbit
  PROVE  Inductive'
<1>1. Active' = Active
  BY DEF Active
<1>2. DownsQuiet'
  BY <1>1 DEF Inductive, DownsQuiet
<1>3. MapRecorded' /\ RabbitSecretsAgree'
  BY DEF Inductive, MapRecorded, RabbitSecretsAgree
<1>4. MapDecided' /\ MakerCreating' /\ ListingRecorded'
  BY DEF Inductive, MapDecided, MakerCreating, ListingRecorded
<1>5. RunsStand'
  BY DEF Inductive, RunsStand, ListStands, UserStands
<1>6. QED
  BY <1>2, <1>3, <1>4, <1>5 DEF Inductive

\* The Secret order puts KEDA's after the broker's.
LEMMA BrokerFirst ==
  ASSUME NEW r, NextSecret(r, Keda)
  PROVE  Broker \in mem[r].known
BY DEF NextSecret, CreationOrder, Wanted, SecretNames, Broker, Keda, Pull

LEMMA UpStepInductive ==
  ASSUME Inductive, NEW r \in Runs, UpStep(r)
  PROVE  Inductive'
<1>1. TypeOK'
  BY UpStepTyped DEF Inductive
<1>2. pc[r] \notin Ended
  BY DEF UpStep, SeeClusters, SeeNodes, SeeHostMap, ProbePorts, BeginCreate,
         EndCreate, FailCreate, WriteHostMap, ListSecrets, ReadRabbit,
         CreateSecret, SecretsDone, AttachPull, InstallKeda, KedaAvailable,
         CheckBootstrap, DeleteBootstrap, ApplyTopology, ReadWorkloads,
         ReadHpas, Refused, ApiCalls, Waiting, Ended
<1>3. r \in Active /\ \A d \in Downs : downPc[d] # "delete"
  BY <1>2, ActiveExcludesDown DEF Active, Inductive
<1>4. ASSUME NEW location, NEW memory, GoWith(r, location, memory),
             location \notin Claimed, UNCHANGED <<clusterVars, secrets, downPc>>
      PROVE  Inductive'
  BY <1>1, <1>3, <1>4, HarmlessMove
<1>5. CASE SeeClusters(r) \/ SeeNodes(r) \/ ProbePorts(r) \/ AttachPull(r)
            \/ InstallKeda(r) \/ KedaAvailable(r) \/ CheckBootstrap(r)
            \/ DeleteBootstrap(r) \/ ApplyTopology(r) \/ ReadHpas(r) \/ Refused(r)
  <2>1. \E location : Goto(r, location) /\ location \notin Claimed
    <3>1. CASE SeeClusters(r) \/ SeeNodes(r) \/ ProbePorts(r) \/ AttachPull(r)
               \/ InstallKeda(r)
      BY <3>1 DEF SeeClusters, SeeNodes, ProbePorts, AttachPull, InstallKeda,
                  Claimed, Listing
    <3>2. CASE KedaAvailable(r)
      BY <3>2 DEF KedaAvailable, Claimed, Listing
    <3>3. CASE CheckBootstrap(r)
      BY <3>3 DEF CheckBootstrap, Claimed, Listing
    <3>4. CASE DeleteBootstrap(r)
      <4>1. Goto(r, "failed") \/ Goto(r, "apply")
        BY <3>4 DEF DeleteBootstrap
      <4>2. QED
        BY <4>1 DEF Claimed, Listing
    <3>5. CASE ApplyTopology(r) \/ Refused(r)
      <4>1. Goto(r, "failed") \/ Goto(r, "workloads")
        BY <3>5 DEF ApplyTopology, Refused
      <4>2. QED
        BY <4>1 DEF Claimed, Listing
    <3>6. CASE ReadHpas(r)
      BY <3>6 DEF ReadHpas, Claimed, Listing
    <3>7. QED
      BY <1>5, <3>1, <3>2, <3>3, <3>4, <3>5, <3>6
  <2>2. UNCHANGED <<clusterVars, secrets, downPc>>
    BY <1>5 DEF SeeClusters, SeeNodes, ProbePorts, AttachPull, InstallKeda,
         KedaAvailable, CheckBootstrap, DeleteBootstrap, ApplyTopology,
         ReadHpas, Refused, secretVars
  <2>3. QED
    BY <1>4, <2>1, <2>2 DEF Goto
<1>6. CASE SecretsDone(r) \/ ReadWorkloads(r)
  <2>1. \E location, memory : GoWith(r, location, memory) /\ location \notin Claimed
    BY <1>6 DEF SecretsDone, ReadWorkloads, Claimed, Listing
  <2>2. UNCHANGED <<clusterVars, secrets, downPc>>
    BY <1>6 DEF SecretsDone, ReadWorkloads, secretVars
  <2>3. QED
    BY <1>4, <2>1, <2>2
\* Moves within the creation of the cluster: the Secrets stay as they are.
<1>7. CASE SeeHostMap(r) \/ BeginCreate(r) \/ EndCreate(r) \/ FailCreate(r) \/ WriteHostMap(r)
  <2>1. /\ \A q \in Runs : q # r => pc'[q] = pc[q] /\ mem'[q] = mem[q]
        /\ pc'[r] \notin {"rabbit", "secrets"}
        /\ UNCHANGED <<secrets, downPc>>
    BY <1>7 DEF SeeHostMap, BeginCreate, EndCreate, FailCreate, WriteHostMap,
                Goto, GoWith, Inductive, TypeOK, secretVars
  <2>2. DownsQuiet'
    BY <1>3, <2>1 DEF DownsQuiet
  <2>3. RabbitSecretsAgree' /\ RunsStand'
    BY <2>1 DEF Inductive, RabbitSecretsAgree, RunsStand, ListStands, UserStands
  <2>4. MapRecorded' /\ MapDecided' /\ MakerCreating' /\ ListingRecorded'
    <3> USE DEF Inductive, TypeOK, MapRecorded, MapDecided, MakerCreating,
                ListingRecorded, Listing, Served, Goto, GoWith
    <3>1. \A q \in Runs : PortsOf[q] # None /\ q # None
      BY ConstantsAssumption
    <3>2. CASE SeeHostMap(r)
      BY <3>1, <3>2 DEF SeeHostMap, clusterVars
    <3>3. CASE BeginCreate(r)
      BY <3>1, <3>3 DEF BeginCreate
    <3>4. CASE EndCreate(r)
      BY <3>1, <3>4 DEF EndCreate
    <3>5. CASE FailCreate(r)
      BY <3>1, <3>5 DEF FailCreate
    <3>6. CASE WriteHostMap(r)
      BY <3>1, <3>6 DEF WriteHostMap
    <3>7. QED
      BY <1>7, <3>2, <3>3, <3>4, <3>5, <3>6
  <2>5. QED
    BY <1>1, <2>2, <2>3, <2>4 DEF Inductive
\* Moves over the Secrets: the cluster and its map stay as they are.
<1>8. CASE ListSecrets(r) \/ ReadRabbit(r) \/ CreateSecret(r)
  <2>1. /\ \A q \in Runs : q # r => pc'[q] = pc[q] /\ mem'[q] = mem[q]
        /\ pc'[r] \notin {"hostMap", "creating"}
        /\ UNCHANGED <<clusterVars, downPc>>
    BY <1>8 DEF ListSecrets, ReadRabbit, CreateSecret, Goto, GoWith, Inductive, TypeOK
  <2>2. DownsQuiet'
    BY <1>3, <2>1 DEF DownsQuiet
  <2>3. MapRecorded' /\ MapDecided' /\ MakerCreating'
    BY <2>1 DEF Inductive, MapRecorded, MapDecided, MakerCreating, Served, clusterVars
  <2>4. ListingRecorded'
    <3>1. pc[r] \in Listing
      BY <1>8 DEF ListSecrets, ReadRabbit, CreateSecret, Listing
    <3>2. QED
      BY <2>1, <3>1 DEF Inductive, ListingRecorded, clusterVars
  <2>5. RabbitSecretsAgree' /\ RunsStand'
    <3>1. CASE ListSecrets(r)
      <4>1. /\ pc'[r] = "rabbit" /\ secrets' = secrets
            /\ mem'[r].known = {s \in SecretNames : secrets[s] # None}
        BY <3>1 DEF ListSecrets, GoWith, Inductive, TypeOK, Memory, Ended, secretVars
      <4>2. QED
        BY <2>1, <4>1 DEF Inductive, RabbitSecretsAgree, RunsStand, ListStands,
                          UserStands, SecretNames
    <3>2. CASE ReadRabbit(r) /\ pc'[r] = "secrets"
      <4> DEFINE listed == {Broker, Keda} \cap mem[r].known
                 source == IF Broker \in listed THEN Broker ELSE Keda
                 written == IF listed = {} THEN r ELSE secrets[source]
      <4>1. /\ pc[r] = "rabbit" /\ secrets' = secrets /\ written # None
            /\ mem'[r] = [mem[r] EXCEPT !.rabbit = written]
        BY <3>2 DEF ReadRabbit, GoWith, Inductive, TypeOK, Ended, secretVars
      <4>2. mem'[r].known = mem[r].known /\ mem'[r].rabbit = written
        BY <4>1 DEF Inductive, TypeOK, Memory
      <4>3. ListStands(r)
        BY <4>1 DEF Inductive, RunsStand
      <4>4. ListStands(r)' /\ UserStands(r)'
        BY <4>1, <4>2, <4>3 DEF ListStands, UserStands, Inductive, RabbitSecretsAgree
      <4>5. QED
        BY <2>1, <4>1, <4>4 DEF Inductive, RabbitSecretsAgree, RunsStand,
                                ListStands, UserStands
    <3>3. CASE secrets' = secrets /\ pc'[r] \notin {"rabbit", "secrets"}
      BY <2>1, <3>3 DEF Inductive, RabbitSecretsAgree, RunsStand, ListStands, UserStands
    <3>4. CASE CreateSecret(r) /\ pc'[r] = "secrets"
      <4>1. PICK s \in SecretNames :
              /\ NextSecret(r, s)
              /\ secrets[s] = None
              /\ secrets' = [secrets EXCEPT ![s] = ValueOf(r, s)]
              /\ mem' = [mem EXCEPT ![r] = [mem[r] EXCEPT !.known = @ \cup {s}]]
        BY <3>4 DEF CreateSecret, Goto, GoWith, Inductive, TypeOK, Ended
      <4>2. pc[r] = "secrets" /\ ListStands(r) /\ UserStands(r)
        BY <3>4 DEF CreateSecret, Inductive, RunsStand
      <4>3. /\ mem'[r].known = mem[r].known \cup {s}
            /\ mem'[r].rabbit = mem[r].rabbit
        BY <4>1 DEF Inductive, TypeOK, Memory
      <4>4. /\ secrets'[s] = ValueOf(r, s)
            /\ \A t \in SecretNames : t # s => secrets'[t] = secrets[t]
        BY <4>1 DEF Inductive, TypeOK
      <4>5. Broker \in SecretNames /\ Keda \in SecretNames /\ Broker # Keda
        BY DEF SecretNames, Broker, Keda
      <4>6. s \in {Broker, Keda} => secrets'[s] = mem[r].rabbit /\ mem[r].rabbit # None
        BY <4>2, <4>4 DEF ValueOf, UserStands
      <4>7. s = Keda => Broker \in mem[r].known /\ secrets[Broker] = mem[r].rabbit
        BY <4>1, <4>2, BrokerFirst DEF UserStands
      <4>8. s = Broker => secrets[Keda] = None \/ secrets[Keda] = mem[r].rabbit
        BY <4>1, <4>2, <4>5 DEF ListStands, UserStands
      <4>9. RabbitSecretsAgree'
        BY <4>4, <4>5, <4>6, <4>7, <4>8 DEF Inductive, RabbitSecretsAgree
      <4>10. ListStands(r)' /\ UserStands(r)'
        BY <4>1, <4>2, <4>3, <4>4, <4>5, <4>6, <4>7 DEF ListStands, UserStands
      <4>11. ASSUME NEW q \in Runs, q # r
             PROVE  /\ pc'[q] \in {"rabbit", "secrets"} => ListStands(q)'
                    /\ pc'[q] = "secrets" => UserStands(q)'
        <5>1. /\ pc'[q] = pc[q] /\ mem'[q] = mem[q]
              /\ pc[q] \in {"rabbit", "secrets"} => ListStands(q)
              /\ pc[q] = "secrets" => UserStands(q)
          BY <2>1, <4>11 DEF Inductive, RunsStand
        <5>2. pc[q] \in {"rabbit", "secrets"} => ListStands(q)'
          BY <4>1, <4>2, <4>4, <4>5, <4>6, <4>7, <5>1 DEF ListStands, UserStands
        <5>3. pc[q] = "secrets" => UserStands(q)'
          BY <4>1, <4>4, <4>5, <5>1 DEF ListStands, UserStands
        <5>4. QED
          BY <5>1, <5>2, <5>3
      <4>12. QED
        BY <4>9, <4>10, <4>11 DEF RunsStand
    <3>5. QED
      BY <1>8, <3>1, <3>2, <3>3, <3>4
      DEF ReadRabbit, CreateSecret, Goto, GoWith, secretVars, Inductive, TypeOK
  <2>6. QED
    BY <1>1, <2>2, <2>3, <2>4, <2>5 DEF Inductive
<1>9. QED
  BY <1>5, <1>6, <1>7, <1>8 DEF UpStep

LEMMA OutsideInductive ==
  ASSUME DownsOverlap = FALSE, Inductive, TypeOK',
         Environment \/ \E d \in Downs : DownStep(d)
  PROVE  Inductive'
<1>1. CASE ClusterSickens \/ ClusterRecovers \/ KedaScales \/ PodsChange
  BY <1>1, HarmlessOutside DEF ClusterSickens, ClusterRecovers, KedaScales,
       PodsChange, Served, clusterVars, secretVars, runVars
<1>2. CASE JobEnds
  <2>1. \A r \in Runs : mem'[r].known = mem[r].known /\ mem'[r].rabbit = mem[r].rabbit
    BY <1>2 DEF JobEnds, Inductive, TypeOK, Memory
  <2>2. QED
    BY <1>2, <2>1, HarmlessOutside DEF JobEnds, Served, clusterVars, secretVars
\* No run is active, so nothing is said of one.
<1>3. ASSUME Active = {}, UNCHANGED runVars
      PROVE  MapDecided' /\ MakerCreating' /\ ListingRecorded' /\ RunsStand' /\ Active' = {}
  BY <1>3 DEF Active, Ended, MapDecided, MakerCreating, ListingRecorded,
              RunsStand, Listing, runVars
<1>4. CASE \E s \in {Broker, Keda} : OperatorDeletes(s)
  <2>1. MapRecorded' /\ RabbitSecretsAgree'
    BY <1>4 DEF OperatorDeletes, Inductive, MapRecorded, RabbitSecretsAgree,
                Served, clusterVars, TypeOK, SecretNames
  <2>2. DownsQuiet'
    BY <1>4, <1>3 DEF OperatorDeletes, DownsQuiet
  <2>3. QED
    BY <1>3, <1>4, <2>1, <2>2 DEF OperatorDeletes, Inductive
<1>5. CASE \E d \in Downs : DownStep(d)
  <2>1. PICK d \in Downs : DownStep(d)
    BY <1>5
  <2>2. Active = {}
    BY <2>1 DEF DownStep, DownList, DownDelete, DownFails, Inductive, DownsQuiet
  <2>3. UNCHANGED runVars
    BY <2>1 DEF DownStep, DownList, DownDelete, DownFails
  <2>4. DownsQuiet'
    BY <1>3, <2>2, <2>3 DEF DownsQuiet
  <2>5. MapRecorded' /\ RabbitSecretsAgree'
    BY <2>1 DEF DownStep, DownList, DownDelete, DownFails, Inductive, MapRecorded,
         RabbitSecretsAgree, Served, clusterVars, secretVars, NoSecrets,
         SecretNames, Broker, Keda
  <2>6. QED
    BY <1>3, <2>2, <2>3, <2>4, <2>5 DEF Inductive
<1>6. QED
  BY <1>1, <1>2, <1>4, <1>5 DEF Environment

LEMMA NextInductive ==
  ASSUME DownsOverlap = FALSE, Inductive, [Next]_vars
  PROVE  Inductive'
<1>1. TypeOK'
  BY NextTyped DEF Inductive
<1>2. CASE \E r \in Runs : UpStep(r)
  BY <1>2, UpStepInductive
<1>3. CASE \E r \in Runs : Start(r) \/ Stop(r)
  <2>1. PICK r \in Runs : Start(r) \/ Stop(r)
    BY <1>3
  <2>2. \A d \in Downs : downPc[d] # "delete"
    BY <2>1, ActiveExcludesDown DEF Start, Stop, Inductive
  <2>3. UNCHANGED <<clusterVars, secrets, downPc>>
    BY <2>1 DEF Start, Stop, secretVars
  <2>4. GoWith(r, "clusters", mem[r]) \/ GoWith(r, "failed", mem[r])
    BY <2>1 DEF Start, Stop, Goto
  <2>5. {"clusters", "failed"} \cap Claimed = {}
    BY DEF Claimed, Listing
  <2>6. QED
    BY <1>1, <2>2, <2>3, <2>4, <2>5, HarmlessMove
<1>4. CASE \E r \in Runs : Deadline(r)
  <2>1. \A q \in Runs : mem'[q].known = mem[q].known /\ mem'[q].rabbit = mem[q].rabbit
    BY <1>4 DEF Deadline, Inductive, TypeOK, Memory
  <2>2. QED
    BY <1>1, <1>4, <2>1, HarmlessOutside DEF Deadline, Served, clusterVars, secretVars
<1>5. CASE Environment \/ \E d \in Downs : DownStep(d)
  BY <1>1, <1>5, OutsideInductive
<1>6. CASE UNCHANGED vars
  BY <1>1, <1>6, HarmlessOutside
  DEF vars, clusterVars, secretVars, runVars, Served
<1>7. QED
  BY <1>2, <1>3, <1>4, <1>5, <1>6 DEF Next

LEMMA InitInductive == Init => Inductive
<1> SUFFICES ASSUME Init PROVE Inductive
  OBVIOUS
<1>1. TypeOK
  BY InitTyped
<1>2. \A r \in Runs : pc[r] = "idle"
  BY DEF Init
<1>3. \A s \in {Broker, Keda} : secrets[s] = None
  BY DEF Init, NoSecrets, SecretNames
<1>4. QED
  BY <1>1, <1>2, <1>3 DEF Init, Inductive, DownsQuiet, MapRecorded, MapDecided,
       MakerCreating, ListingRecorded, Listing, RabbitSecretsAgree, RunsStand

\* However many runs race, crash and restart, the broker and KEDA are given one
\* RabbitMQ user, provided k8s-down is only run between runs of k8s-up.
THEOREM RabbitUserAgrees ==
  ASSUME DownsOverlap = FALSE
  PROVE  Spec => []RabbitSecretsAgree
<1>1. Inductive => RabbitSecretsAgree
  BY DEF Inductive
<1>2. QED
  BY <1>1, InitInductive, NextInductive, PTL DEF Spec

\* Under the same condition the host-port map a reusing run records is the one
\* the cluster publishes.
THEOREM HostMapIsPublished ==
  ASSUME DownsOverlap = FALSE
  PROVE  Spec => []HostMapTruthful
<1>1. Inductive => HostMapTruthful
  BY DEF Inductive, MapRecorded, HostMapTruthful
<1>2. QED
  BY <1>1, InitInductive, NextInductive, PTL DEF Spec

-----------------------------------------------------------------------------
(* A successful run's bootstrap is fresh, whatever else is running.        *)

\* Once a run has looked at the Job, a complete Job completed after it looked,
\* and so did the one its last read showed.
JobFresh(r) ==
  /\ pc[r] \in {"apply"} \cup Waiting /\ job.status = "complete" => mem[r].ran # {}
  /\ mem[r].seen = "ready" => mem[r].ran # {}

JobInductive == TypeOK /\ \A r \in Runs : JobFresh(r)

\* A run that does not change the Job keeps the others' facts, so its own
\* move is all there is to check.
LEMMA UpStepFresh ==
  ASSUME JobInductive, NEW r \in Runs, UpStep(r), NEW q \in Runs
  PROVE  JobFresh(q)'
<1> USE DEF JobInductive, TypeOK, JobFresh, Memory
<1>1. mem[q] \in Memory /\ mem[r] \in Memory /\ JobFresh(q) /\ JobFresh(r)
  OBVIOUS
<1>2. ASSUME NEW location, NEW memory, GoWith(r, location, memory),
             job' = job \/ job'.status # "complete",
             location \in {"apply"} \cup Waiting /\ job'.status = "complete" =>
               memory.ran # {},
             memory.seen = "ready" => memory.ran # {}
      PROVE  JobFresh(q)'
  <2>1. CASE q # r
    BY <1>1, <1>2, <2>1 DEF GoWith
  <2>2. CASE q = r
    BY <1>1, <1>2, <2>2 DEF GoWith, Blank, Waiting, Ended
  <2>3. QED
    BY <2>1, <2>2
<1>3. CASE UNCHANGED job
           /\ \E location : Goto(r, location) /\ location \notin {"apply"} \cup Waiting
  BY <1>1, <1>2, <1>3 DEF Goto
<1>4. CASE SeeClusters(r) \/ SeeNodes(r) \/ SeeHostMap(r) \/ ProbePorts(r)
            \/ BeginCreate(r) \/ EndCreate(r) \/ FailCreate(r) \/ WriteHostMap(r)
            \/ AttachPull(r) \/ InstallKeda(r) \/ Refused(r)
  BY <1>3, <1>4 DEF SeeClusters, SeeNodes, SeeHostMap, ProbePorts, BeginCreate,
       EndCreate, FailCreate, WriteHostMap, AttachPull, InstallKeda, Refused,
       topoVars, Waiting
<1>5. CASE ListSecrets(r) \/ ReadRabbit(r)
  <2>1. \E location, memory : GoWith(r, location, memory)
          /\ location \notin {"apply"} \cup Waiting
          /\ memory.seen = mem[r].seen /\ memory.ran = mem[r].ran
    BY <1>1, <1>5 DEF ListSecrets, ReadRabbit, Waiting
  <2>2. QED
    BY <1>1, <1>2, <1>5, <2>1 DEF ListSecrets, ReadRabbit, topoVars
<1>6. CASE CreateSecret(r)
  <2>1. \E location, memory : GoWith(r, location, memory)
          /\ location \notin {"apply"} \cup Waiting
          /\ memory.seen = mem[r].seen /\ memory.ran = mem[r].ran
    BY <1>1, <1>6 DEF CreateSecret, Goto, Waiting
  <2>2. QED
    BY <1>1, <1>2, <1>6, <2>1 DEF CreateSecret, topoVars
<1>7. CASE SecretsDone(r)
  <2>1. \E location : GoWith(r, location, Blank) /\ location \notin {"apply"} \cup Waiting
    BY <1>7 DEF SecretsDone, Waiting
  <2>2. QED
    BY <1>2, <1>7, <2>1 DEF SecretsDone, topoVars, Blank
<1>8. CASE KedaAvailable(r)
  <2>1. Goto(r, "check") \/ Goto(r, "failed")
    BY <1>8 DEF KedaAvailable
  <2>2. QED
    BY <1>3, <1>8, <2>1 DEF KedaAvailable, topoVars, Waiting
<1>9. CASE CheckBootstrap(r)
  <2>1. Goto(r, "delete") \/ (Goto(r, "apply") /\ job.status # "complete")
    BY <1>9 DEF CheckBootstrap
  <2>2. UNCHANGED job /\ "delete" \notin {"apply"} \cup Waiting
    BY <1>9 DEF CheckBootstrap, topoVars, Waiting
  <2>3. QED
    BY <1>1, <1>2, <1>3, <2>1, <2>2 DEF Goto
<1>10. CASE DeleteBootstrap(r)
  <2>1. \E location : Goto(r, location)
    BY <1>10 DEF DeleteBootstrap
  <2>2. job'.status # "complete"
    BY <1>10 DEF DeleteBootstrap, NoJob
  <2>3. QED
    BY <1>1, <1>2, <2>1, <2>2 DEF Goto
<1>11. CASE ApplyTopology(r)
  <2>1. \E location : Goto(r, location)
    BY <1>11 DEF ApplyTopology
  <2>2. pc[r] = "apply" /\ (job' = job \/ job'.status # "complete")
    BY <1>11 DEF ApplyTopology
  <2>3. QED
    BY <1>1, <1>2, <2>1, <2>2 DEF Goto
<1>12. CASE ReadWorkloads(r)
  <2>1. PICK verdict \in {"pending", "failed", "ready"} :
          /\ GoWith(r, "hpas", [mem[r] EXCEPT !.seen = verdict])
          /\ verdict = "ready" => job.status = "complete"
    BY <1>12 DEF ReadWorkloads
  <2>2. pc[r] \in Waiting /\ UNCHANGED job
    BY <1>12 DEF ReadWorkloads, Waiting, topoVars
  <2>3. QED
    BY <1>1, <1>2, <2>1, <2>2
<1>13. CASE ReadHpas(r)
  <2>1. \E location : Goto(r, location)
    BY <1>13 DEF ReadHpas
  <2>2. pc[r] \in Waiting /\ UNCHANGED job
    BY <1>13 DEF ReadHpas, Waiting, topoVars
  <2>3. QED
    BY <1>1, <1>2, <2>1, <2>2 DEF Goto
<1>14. QED
  BY <1>4, <1>5, <1>6, <1>7, <1>8, <1>9, <1>10, <1>11, <1>12, <1>13 DEF UpStep

LEMMA OutsideFresh ==
  ASSUME JobInductive, NEW q \in Runs,
         \/ Environment \/ (\E d \in Downs : DownStep(d)) \/ UNCHANGED vars
         \/ \E r \in Runs : Start(r) \/ Deadline(r) \/ Stop(r)
  PROVE  JobFresh(q)'
<1> USE DEF JobInductive, TypeOK, JobFresh, Memory
<1>1. mem[q] \in Memory /\ JobFresh(q)
  OBVIOUS
<1>2. ASSUME UNCHANGED runVars, job' = job \/ job'.status # "complete"
      PROVE  JobFresh(q)'
  BY <1>1, <1>2 DEF runVars
<1>3. CASE JobEnds
  <2>1. PICK status \in {"complete", "failed"} :
          /\ job' = [job EXCEPT !.status = status]
          /\ mem' = [r \in Runs |->
               IF status = "complete" /\ pc[r] \in AfterCheck
               THEN [mem[r] EXCEPT !.ran = @ \cup {job.script}] ELSE mem[r]]
    BY <1>3 DEF JobEnds
  <2>2. pc' = pc /\ mem'[q].seen = mem[q].seen
    BY <1>1, <1>3, <2>1 DEF JobEnds
  <2>3. mem[q].ran \subseteq mem'[q].ran
    BY <1>1, <2>1
  <2>4. job'.status = status
    BY <1>3, <2>1 DEF JobEnds, NoJob
  <2>5. status = "complete" /\ pc[q] \in {"apply"} \cup Waiting => mem'[q].ran # {}
    BY <1>1, <2>1 DEF AfterCheck
  <2>6. QED
    BY <1>1, <2>2, <2>3, <2>4, <2>5
<1>4. CASE ClusterSickens \/ ClusterRecovers \/ KedaScales \/ PodsChange
            \/ \E s \in {Broker, Keda} : OperatorDeletes(s)
  BY <1>2, <1>4 DEF ClusterSickens, ClusterRecovers, KedaScales, PodsChange,
                    OperatorDeletes, topoVars
<1>5. CASE \E d \in Downs : DownStep(d)
  BY <1>2, <1>5 DEF DownStep, DownList, DownDelete, DownFails, topoVars, NoJob
<1>6. CASE UNCHANGED vars
  BY <1>2, <1>6 DEF vars, topoVars
<1>7. CASE \E r \in Runs : Start(r) \/ Stop(r)
  BY <1>1, <1>7 DEF Start, Stop, Goto, GoWith, Blank, Waiting, Ended, topoVars
<1>8. CASE \E r \in Runs : Deadline(r)
  BY <1>1, <1>8 DEF Deadline, topoVars
<1>9. QED
  BY <1>3, <1>4, <1>5, <1>6, <1>7, <1>8 DEF Environment

\* A run ends well only by its last read of the HPAs.
LEMMA OkByReadHpas ==
  ASSUME TypeOK, [Next]_vars, NEW r \in Runs, pc[r] # "ok", pc'[r] = "ok"
  PROVE  mem[r].seen = "ready"
<1> USE DEF TypeOK
<1>1. ASSUME NEW q \in Runs, NEW location, NEW memory,
             GoWith(q, location, memory), location # "ok"
      PROVE  FALSE
  BY <1>1 DEF GoWith
<1>2. CASE \E q \in Runs : ReadHpas(q)
  BY <1>2 DEF ReadHpas, Goto, GoWith
<1>3. CASE UNCHANGED pc
  BY <1>3
<1>4. CASE \E q \in Runs : UpStep(q) /\ ~ReadHpas(q)
  <2>1. PICK q \in Runs : UpStep(q) /\ ~ReadHpas(q)
    BY <1>4
  <2>2. \E location, memory : GoWith(q, location, memory) /\ location # "ok"
    <3>1. CASE SeeClusters(q) \/ SeeNodes(q) \/ SeeHostMap(q) \/ ProbePorts(q)
               \/ BeginCreate(q) \/ EndCreate(q) \/ FailCreate(q)
      BY <3>1 DEF SeeClusters, SeeNodes, SeeHostMap, ProbePorts, BeginCreate,
                  EndCreate, FailCreate, Goto
    <3>2. CASE WriteHostMap(q) \/ ListSecrets(q) \/ ReadRabbit(q) \/ SecretsDone(q)
      BY <3>2 DEF WriteHostMap, ListSecrets, ReadRabbit, SecretsDone, Goto
    <3>3. CASE CreateSecret(q)
      BY <3>3 DEF CreateSecret, Goto
    <3>4. CASE AttachPull(q) \/ InstallKeda(q) \/ KedaAvailable(q) \/ CheckBootstrap(q)
      BY <3>4 DEF AttachPull, InstallKeda, KedaAvailable, CheckBootstrap, Goto
    <3>5. CASE DeleteBootstrap(q) \/ ApplyTopology(q)
      <4>1. Goto(q, "failed") \/ Goto(q, "apply") \/ Goto(q, "workloads")
        BY <3>5 DEF DeleteBootstrap, ApplyTopology
      <4>2. QED
        BY <4>1 DEF Goto
    <3>6. CASE ReadWorkloads(q) \/ Refused(q)
      BY <3>6 DEF ReadWorkloads, Refused, Goto
    <3>7. QED
      BY <2>1, <3>1, <3>2, <3>3, <3>4, <3>5, <3>6 DEF UpStep
  <2>3. QED
    BY <1>1, <2>1, <2>2
<1>5. CASE \E q \in Runs : Start(q) \/ Stop(q) \/ Deadline(q)
  BY <1>1, <1>5 DEF Start, Stop, Deadline, Goto
<1>6. CASE Environment \/ \E d \in Downs : DownStep(d)
  BY <1>3, <1>6 DEF Environment, ClusterSickens, ClusterRecovers, JobEnds,
       KedaScales, PodsChange, OperatorDeletes, DownStep, DownList, DownDelete,
       DownFails, runVars
<1>7. QED
  BY <1>2, <1>3, <1>4, <1>5, <1>6 DEF Next, vars, runVars

\* Whatever else runs, a run reports ready only after a bootstrap Job completed
\* since it looked at the Job: even a k8s-down in its middle changes nothing.
THEOREM BootstrapIsFresh == Spec => FreshBootstrap
<1>1. Init => JobInductive
  BY InitTyped DEF Init, JobInductive, JobFresh, NoJob, Blank
<1>2. JobInductive /\ [Next]_vars => JobInductive'
  BY NextTyped, UpStepFresh, OutsideFresh DEF JobInductive, Next
<1>3. JobInductive /\ [Next]_vars =>
        \A r \in Runs : pc[r] # "ok" /\ pc'[r] = "ok" => mem[r].ran # {}
  BY OkByReadHpas DEF JobInductive, JobFresh
<1>4. QED
  BY <1>1, <1>2, <1>3, PTL DEF Spec, FreshBootstrap

-----------------------------------------------------------------------------
(* When operators take turns (MaxActive = 1), the bootstrap that completed  *)
(* for a run ran the run's own script.                                      *)

\* At most one run is between its start and its end.
Alone == \A r, q \in Active : r = q

\* A complete Job completed after the run looked at it; the Job a run waits for
\* runs its script; and what its last read showed was that script's end.
OwnJob(r) ==
  /\ pc[r] \in {"apply"} \cup Waiting /\ job.status = "complete" =>
       job.script \in mem[r].ran
  /\ pc[r] \in Waiting /\ job.status # "absent" => job.script = ScriptOf[r]
  /\ mem[r].seen = "ready" => ScriptOf[r] \in mem[r].ran

TurnsInductive == TypeOK /\ Alone /\ \A r \in Runs : OwnJob(r)

\* Only a run that is active moves on, and then nobody else is.
LEMMA MoverIsActive ==
  ASSUME NEW r \in Runs, UpStep(r)
  PROVE  r \in Active
BY DEF UpStep, SeeClusters, SeeNodes, SeeHostMap, ProbePorts, BeginCreate, EndCreate,
       FailCreate, WriteHostMap, ListSecrets, ReadRabbit, CreateSecret, SecretsDone,
       AttachPull, InstallKeda, KedaAvailable, CheckBootstrap, DeleteBootstrap,
       ApplyTopology, ReadWorkloads, ReadHpas, Refused, Active, Ended, ApiCalls, Waiting

\* Every step of a run moves that run alone.
LEMMA UpStepMoves ==
  ASSUME NEW r \in Runs, UpStep(r)
  PROVE  \E location, memory : GoWith(r, location, memory)
<1>1. CASE SeeClusters(r) \/ SeeNodes(r) \/ SeeHostMap(r) \/ ProbePorts(r)
           \/ BeginCreate(r) \/ EndCreate(r) \/ FailCreate(r) \/ WriteHostMap(r)
  BY <1>1 DEF SeeClusters, SeeNodes, SeeHostMap, ProbePorts, BeginCreate, EndCreate,
              FailCreate, WriteHostMap, Goto
<1>2. CASE ListSecrets(r) \/ ReadRabbit(r) \/ CreateSecret(r) \/ SecretsDone(r)
  BY <1>2 DEF ListSecrets, ReadRabbit, CreateSecret, SecretsDone, Goto
<1>3. CASE AttachPull(r) \/ InstallKeda(r) \/ KedaAvailable(r) \/ CheckBootstrap(r)
           \/ DeleteBootstrap(r)
  BY <1>3 DEF AttachPull, InstallKeda, KedaAvailable, CheckBootstrap, DeleteBootstrap, Goto
<1>4. CASE ApplyTopology(r) \/ ReadWorkloads(r) \/ ReadHpas(r) \/ Refused(r)
  BY <1>4 DEF ApplyTopology, ReadWorkloads, ReadHpas, Refused, Goto
<1>5. QED
  BY <1>1, <1>2, <1>3, <1>4 DEF UpStep

\* A start needs everybody else to have ended.
LEMMA NextAlone ==
  ASSUME MaxActive = 1, TypeOK, Alone, [Next]_vars
  PROVE  Alone'
<1> USE DEF TypeOK
<1>1. CASE UNCHANGED pc
  BY <1>1 DEF Alone, Active
<1>2. ASSUME NEW r \in Runs, NEW location, NEW memory, GoWith(r, location, memory),
             r \in Active
      PROVE  Alone'
  BY <1>2 DEF GoWith, Alone, Active
<1>3. CASE \E r \in Runs : Start(r)
  <2>1. PICK r \in Runs : Start(r)
    BY <1>3
  <2>2. Active = {}
    <3>1. SUFFICES ASSUME NEW q \in Active PROVE FALSE
      OBVIOUS
    <3>2. Active = {q}
      BY DEF Alone
    <3>3. Cardinality(Active) = 1
      BY <3>2, FS_Singleton
    <3>4. QED
      BY <2>1, <3>3 DEF Start
  <2>3. pc' = [pc EXCEPT ![r] = "clusters"]
    BY <2>1 DEF Start, Goto, GoWith
  <2>4. QED
    BY <2>2, <2>3 DEF Alone, Active
<1>4. CASE \E r \in Runs : UpStep(r)
  BY <1>2, <1>4, MoverIsActive, UpStepMoves
<1>5. CASE \E r \in Runs : Stop(r)
  BY <1>2, <1>5 DEF Stop, Goto
<1>6. CASE Environment \/ (\E d \in Downs : DownStep(d)) \/ (\E r \in Runs : Deadline(r))
           \/ UNCHANGED vars
  BY <1>1, <1>6 DEF Environment, ClusterSickens, ClusterRecovers, JobEnds, KedaScales,
       PodsChange, OperatorDeletes, DownStep, DownList, DownDelete, DownFails, Deadline,
       runVars, vars
<1>7. QED
  BY <1>3, <1>4, <1>5, <1>6 DEF Next

\* The run's own step: it begins to wait only behind a Job of its script.
LEMMA OwnStepOwnJob ==
  ASSUME TurnsInductive, NEW r \in Runs, UpStep(r)
  PROVE  OwnJob(r)'
<1> USE DEF TurnsInductive, TypeOK, OwnJob, Memory
<1>1. mem[r] \in Memory /\ OwnJob(r)
  OBVIOUS
<1>2. ASSUME NEW location, NEW memory, GoWith(r, location, memory),
             location \in {"apply"} \cup Waiting /\ job'.status = "complete" =>
               job'.script \in memory.ran,
             location \in Waiting /\ job'.status # "absent" => job'.script = ScriptOf[r],
             memory.seen = "ready" => ScriptOf[r] \in memory.ran
      PROVE  OwnJob(r)'
  BY <1>1, <1>2 DEF GoWith, Blank, Waiting, Ended
<1>3. CASE \E location : Goto(r, location) /\ location \notin {"apply"} \cup Waiting
  BY <1>1, <1>2, <1>3 DEF Goto
<1>4. CASE SeeClusters(r) \/ SeeNodes(r) \/ SeeHostMap(r) \/ ProbePorts(r)
            \/ BeginCreate(r) \/ EndCreate(r) \/ FailCreate(r) \/ WriteHostMap(r)
            \/ AttachPull(r) \/ InstallKeda(r) \/ Refused(r)
  BY <1>3, <1>4 DEF SeeClusters, SeeNodes, SeeHostMap, ProbePorts, BeginCreate,
       EndCreate, FailCreate, WriteHostMap, AttachPull, InstallKeda, Refused, Waiting
<1>5. CASE ListSecrets(r) \/ ReadRabbit(r)
  <2>1. \E location, memory : GoWith(r, location, memory)
          /\ location \notin {"apply"} \cup Waiting
          /\ memory.seen = mem[r].seen /\ memory.ran = mem[r].ran
    BY <1>1, <1>5 DEF ListSecrets, ReadRabbit, Waiting
  <2>2. QED
    BY <1>1, <1>2, <2>1
<1>6. CASE CreateSecret(r)
  <2>1. \E location, memory : GoWith(r, location, memory)
          /\ location \notin {"apply"} \cup Waiting
          /\ memory.seen = mem[r].seen /\ memory.ran = mem[r].ran
    BY <1>1, <1>6 DEF CreateSecret, Goto, Waiting
  <2>2. QED
    BY <1>1, <1>2, <2>1
<1>7. CASE SecretsDone(r)
  <2>1. \E location : GoWith(r, location, Blank) /\ location \notin {"apply"} \cup Waiting
    BY <1>7 DEF SecretsDone, Waiting
  <2>2. QED
    BY <1>2, <2>1 DEF Blank
<1>8. CASE KedaAvailable(r)
  <2>1. Goto(r, "check") \/ Goto(r, "failed")
    BY <1>8 DEF KedaAvailable
  <2>2. QED
    BY <1>3, <2>1 DEF Waiting
<1>9. CASE CheckBootstrap(r)
  <2>1. Goto(r, "delete") \/ (Goto(r, "apply") /\ job.status # "complete")
    BY <1>9 DEF CheckBootstrap
  <2>2. UNCHANGED job /\ "delete" \notin {"apply"} \cup Waiting /\ "apply" \notin Waiting
    BY <1>9 DEF CheckBootstrap, topoVars, Waiting
  <2>3. QED
    BY <1>1, <1>2, <1>3, <2>1, <2>2 DEF Goto
<1>10. CASE DeleteBootstrap(r)
  <2>1. \E location : Goto(r, location)
    BY <1>10 DEF DeleteBootstrap
  <2>2. job'.status = "absent"
    BY <1>10 DEF DeleteBootstrap, NoJob
  <2>3. QED
    BY <1>1, <1>2, <2>1, <2>2 DEF Goto
<1>11. CASE ApplyTopology(r)
  <2>1. Goto(r, "failed") \/ (Goto(r, "workloads") /\ job'.script = ScriptOf[r])
    BY <1>11 DEF ApplyTopology
  <2>2. /\ pc[r] = "apply"
        /\ job' = job \/ job'.status # "complete"
        /\ "failed" \notin {"apply"} \cup Waiting
    BY <1>11 DEF ApplyTopology, Waiting
  <2>3. CASE Goto(r, "failed")
    BY <1>3, <2>2, <2>3
  <2>4. CASE Goto(r, "workloads") /\ job'.script = ScriptOf[r]
    BY <1>1, <1>2, <2>2, <2>4 DEF Goto
  <2>5. QED
    BY <2>1, <2>3, <2>4
<1>12. CASE ReadWorkloads(r)
  <2>1. PICK verdict \in {"pending", "failed", "ready"} :
          /\ GoWith(r, "hpas", [mem[r] EXCEPT !.seen = verdict])
          /\ verdict = "ready" => job.status = "complete"
    BY <1>12 DEF ReadWorkloads
  <2>2. pc[r] \in Waiting /\ UNCHANGED job
    BY <1>12 DEF ReadWorkloads, Waiting, topoVars
  <2>3. QED
    BY <1>1, <1>2, <2>1, <2>2
<1>13. CASE ReadHpas(r)
  <2>1. \E location : Goto(r, location)
    BY <1>13 DEF ReadHpas
  <2>2. pc[r] \in Waiting /\ UNCHANGED job
    BY <1>13 DEF ReadHpas, Waiting, topoVars
  <2>3. QED
    BY <1>1, <1>2, <2>1, <2>2 DEF Goto
<1>14. QED
  BY <1>4, <1>5, <1>6, <1>7, <1>8, <1>9, <1>10, <1>11, <1>12, <1>13 DEF UpStep

\* While one run moves, the others have ended and remember nothing new.
LEMMA OthersOwnJob ==
  ASSUME TurnsInductive, NEW r \in Runs, UpStep(r), NEW q \in Runs, q # r
  PROVE  OwnJob(q)'
<1> USE DEF TurnsInductive, TypeOK
<1>1. pc[q] \in Ended
  BY MoverIsActive DEF Alone, Active
<1>2. PICK location, memory : GoWith(r, location, memory)
  BY UpStepMoves
<1>3. pc'[q] = pc[q] /\ mem'[q] = mem[q]
  BY <1>2 DEF GoWith
<1>4. QED
  BY <1>1, <1>3 DEF OwnJob, Ended, Waiting

\* Nothing else gives a Job another script, and a k8s-down only takes it away.
LEMMA OutsideOwnJob ==
  ASSUME TurnsInductive, NEW q \in Runs,
         \/ Environment \/ (\E d \in Downs : DownStep(d)) \/ UNCHANGED vars
         \/ \E r \in Runs : Start(r) \/ Deadline(r) \/ Stop(r)
  PROVE  OwnJob(q)'
<1> USE DEF TurnsInductive, TypeOK, OwnJob, Memory
<1>1. mem[q] \in Memory /\ OwnJob(q)
  OBVIOUS
<1>2. ASSUME UNCHANGED runVars, job' = job \/ job'.status = "absent"
      PROVE  OwnJob(q)'
  BY <1>1, <1>2 DEF runVars
<1>3. CASE JobEnds
  <2>1. PICK status \in {"complete", "failed"} :
          /\ job' = [job EXCEPT !.status = status]
          /\ mem' = [r \in Runs |->
               IF status = "complete" /\ pc[r] \in AfterCheck
               THEN [mem[r] EXCEPT !.ran = @ \cup {job.script}] ELSE mem[r]]
    BY <1>3 DEF JobEnds
  <2>2. pc' = pc /\ mem'[q].seen = mem[q].seen
    BY <1>1, <1>3, <2>1 DEF JobEnds
  <2>3. mem[q].ran \subseteq mem'[q].ran
    BY <1>1, <2>1
  <2>4. job.status = "running" /\ job'.status = status /\ job'.script = job.script
    BY <1>3, <2>1 DEF JobEnds, NoJob
  <2>5. status = "complete" /\ pc[q] \in {"apply"} \cup Waiting =>
          job.script \in mem'[q].ran
    BY <1>1, <2>1 DEF AfterCheck
  <2>6. QED
    BY <1>1, <2>2, <2>3, <2>4, <2>5
<1>4. CASE ClusterSickens \/ ClusterRecovers \/ KedaScales \/ PodsChange
            \/ \E s \in {Broker, Keda} : OperatorDeletes(s)
  BY <1>2, <1>4 DEF ClusterSickens, ClusterRecovers, KedaScales, PodsChange,
                    OperatorDeletes, topoVars
<1>5. CASE \E d \in Downs : DownStep(d)
  BY <1>2, <1>5 DEF DownStep, DownList, DownDelete, DownFails, topoVars, NoJob
<1>6. CASE UNCHANGED vars
  BY <1>2, <1>6 DEF vars, topoVars
<1>7. CASE \E r \in Runs : Start(r) \/ Stop(r)
  BY <1>1, <1>7 DEF Start, Stop, Goto, GoWith, Blank, Waiting, Ended, topoVars
<1>8. CASE \E r \in Runs : Deadline(r)
  BY <1>1, <1>8 DEF Deadline, topoVars
<1>9. QED
  BY <1>3, <1>4, <1>5, <1>6, <1>7, <1>8 DEF Environment

\* With one operator at a time, whatever k8s-down does meanwhile, a run reports
\* ready only after a bootstrap of its own script completed.
THEOREM OwnScriptCompletes ==
  ASSUME MaxActive = 1
  PROVE  Spec => OwnScriptRan
<1>1. Init => TurnsInductive
  BY InitTyped DEF Init, TurnsInductive, Alone, Active, OwnJob, NoJob, Blank, Ended, Waiting
<1>2. TurnsInductive /\ [Next]_vars => TurnsInductive'
  <2>1. SUFFICES ASSUME TurnsInductive, [Next]_vars
                 PROVE  TurnsInductive'
    OBVIOUS
  <2>2. TypeOK' /\ Alone'
    BY <2>1, NextTyped, NextAlone DEF TurnsInductive
  <2>3. ASSUME NEW q \in Runs PROVE OwnJob(q)'
    BY <2>1, OwnStepOwnJob, OthersOwnJob, OutsideOwnJob DEF Next
  <2>4. QED
    BY <2>2, <2>3 DEF TurnsInductive
<1>3. TurnsInductive /\ [Next]_vars =>
        \A r \in Runs : pc[r] # "ok" /\ pc'[r] = "ok" => ScriptOf[r] \in mem[r].ran
  BY OkByReadHpas DEF TurnsInductive, OwnJob
<1>4. QED
  BY <1>1, <1>2, <1>3, PTL DEF Spec, OwnScriptRan

-----------------------------------------------------------------------------
(* No run rotates a Secret, whatever else runs, a k8s-down included.       *)

LEMMA StepRotatesNothing ==
  ASSUME TypeOK, [Next]_vars, NEW s \in SecretNames, secrets[s] # None
  PROVE  secrets'[s] \in {secrets[s], None}
<1>1. CASE UNCHANGED secrets
  BY <1>1
<1>2. CASE \E r \in Runs : CreateSecret(r)
  BY <1>2 DEF CreateSecret, TypeOK
<1>3. CASE \E d \in Downs : DownDelete(d)
  BY <1>3 DEF DownDelete, NoSecrets
<1>4. CASE \E t \in {Broker, Keda} : OperatorDeletes(t)
  BY <1>4 DEF OperatorDeletes, TypeOK
<1>5. CASE \E r \in Runs : UpStep(r) /\ ~CreateSecret(r)
  BY <1>1, <1>5 DEF UpStep, SeeClusters, SeeNodes, SeeHostMap, ProbePorts,
       BeginCreate, EndCreate, FailCreate, WriteHostMap, ListSecrets, ReadRabbit,
       SecretsDone, AttachPull, InstallKeda, KedaAvailable, CheckBootstrap,
       DeleteBootstrap, ApplyTopology, ReadWorkloads, ReadHpas, Refused, secretVars
<1>6. CASE \E r \in Runs : Start(r) \/ Deadline(r) \/ Stop(r)
  BY <1>1, <1>6 DEF Start, Deadline, Stop, secretVars
<1>7. CASE \/ \E d \in Downs : DownList(d) \/ DownFails(d)
           \/ ClusterSickens \/ ClusterRecovers \/ JobEnds \/ KedaScales \/ PodsChange
  BY <1>1, <1>7 DEF DownList, DownFails, ClusterSickens, ClusterRecovers, JobEnds,
       KedaScales, PodsChange, secretVars
<1>8. CASE UNCHANGED vars
  BY <1>1, <1>8 DEF vars, secretVars
<1>. QED BY <1>2, <1>3, <1>4, <1>5, <1>6, <1>7, <1>8 DEF Next, DownStep, Environment

\* NeverRotated, for every set of runs and however they race with k8s-down: no
\* assumption on DownsOverlap, unlike the agreement of the RabbitMQ Secrets.
THEOREM NothingIsRotated == Spec => NeverRotated
<1>1. TypeOK /\ [Next]_vars =>
        [\A s \in SecretNames : secrets[s] # None => secrets'[s] \in {secrets[s], None}]_vars
  BY StepRotatesNothing
<1>. QED BY <1>1, TypeCorrect, PTL DEF Spec, NeverRotated

-----------------------------------------------------------------------------
(* Refinement: the ConfigMap and the two Secrets implement ClusterPromise. *)

\* Every step of the two scripts is a step of the promise, or leaves the map
\* and the user as they were.
LEMMA StepKeepsPromise ==
  ASSUME DownsOverlap = FALSE, Inductive, [Next]_vars
  PROVE  [Promise!Next]_<<hostMap, brokerUser>>
<1>1. Broker \in SecretNames /\ Keda \in SecretNames /\ Broker # Keda
  BY DEF SecretNames, Broker, Keda
<1>2. ASSUME UNCHANGED <<hostMap, secrets>>
      PROVE  [Promise!Next]_<<hostMap, brokerUser>>
  BY <1>2 DEF brokerUser
<1>3. CASE \E r \in Runs : WriteHostMap(r)
  <2>1. PICK r \in Runs : WriteHostMap(r)
    BY <1>3
  <2>2. hostMap = None \/ hostMap' = hostMap
    BY <2>1 DEF WriteHostMap, Inductive, MapDecided, MapRecorded
  <2>3. hostMap' \in PortMaps /\ brokerUser' = brokerUser
    BY <2>1, ConstantsAssumption DEF WriteHostMap, secretVars, brokerUser
  <2>4. QED
    BY <2>2, <2>3 DEF Promise!Next, Promise!Provision
<1>4. CASE \E r \in Runs : CreateSecret(r)
  <2>1. PICK r \in Runs : CreateSecret(r)
    BY <1>4
  <2>2. /\ pc[r] = "secrets" /\ ListStands(r) /\ UserStands(r)
        /\ UNCHANGED hostMap /\ hostMap # None
    BY <2>1 DEF CreateSecret, Inductive, RunsStand, ListingRecorded, Listing, clusterVars
  <2>3. CASE UNCHANGED secrets
    BY <1>2, <2>2, <2>3
  <2>4. CASE ~ UNCHANGED secrets
    <3>1. PICK s \in SecretNames :
            /\ NextSecret(r, s) /\ secrets[s] = None
            /\ secrets' = [secrets EXCEPT ![s] = ValueOf(r, s)]
      BY <2>1, <2>4 DEF CreateSecret
    <3>2. /\ secrets'[s] = ValueOf(r, s)
          /\ \A t \in SecretNames : t # s => secrets'[t] = secrets[t]
      BY <3>1 DEF Inductive, TypeOK
    <3>3. s = Keda => secrets[Broker] # None
      BY <3>1, <2>2, BrokerFirst DEF ListStands
    <3>4. s = Broker => secrets[Keda] \in {None, mem[r].rabbit}
      BY <3>1, <2>2 DEF ListStands, UserStands
    <3>5. mem[r].rabbit \in Runs \ {None}
      BY <2>2 DEF UserStands, Inductive, TypeOK, Memory
    <3>6. brokerUser' = brokerUser \/ (brokerUser = None /\ brokerUser' \in Runs)
      BY <1>1, <3>1, <3>2, <3>3, <3>4, <3>5 DEF brokerUser, ValueOf
    <3>7. QED
      BY <2>2, <3>6 DEF Promise!Next, Promise!Choose
  <2>5. QED
    BY <2>3, <2>4
<1>5. CASE \E s \in {Broker, Keda} : OperatorDeletes(s)
  <2>1. PICK s \in {Broker, Keda} : OperatorDeletes(s)
    BY <1>5
  <2>2. /\ secrets'[s] = None /\ hostMap' = hostMap
        /\ \A t \in {Broker, Keda} : t # s => secrets'[t] = secrets[t]
    BY <1>1, <2>1 DEF OperatorDeletes, Inductive, TypeOK, clusterVars
  <2>3. brokerUser' = brokerUser \/ brokerUser' = None
    BY <1>1, <2>2 DEF brokerUser, Inductive, RabbitSecretsAgree
  <2>4. QED
    BY <2>2, <2>3 DEF Promise!Next, Promise!Forget
<1>6. CASE \E d \in Downs : DownStep(d)
  <2>1. CASE \E d \in Downs : DownDelete(d)
    BY <1>1, <2>1 DEF DownDelete, NoSecrets, brokerUser, Promise!Next, Promise!Destroy
  <2>2. CASE \E d \in Downs : DownList(d) \/ DownFails(d)
    BY <1>2, <2>2 DEF DownList, DownFails, clusterVars, secretVars
  <2>3. QED
    BY <1>6, <2>1, <2>2 DEF DownStep
<1>7. CASE \E r \in Runs : UpStep(r) /\ ~WriteHostMap(r) /\ ~CreateSecret(r)
  BY <1>2, <1>7 DEF UpStep, SeeClusters, SeeNodes, SeeHostMap, ProbePorts,
       BeginCreate, EndCreate, FailCreate, ListSecrets, ReadRabbit, SecretsDone,
       AttachPull, InstallKeda, KedaAvailable, CheckBootstrap, DeleteBootstrap,
       ApplyTopology, ReadWorkloads, ReadHpas, Refused, clusterVars, secretVars
<1>8. CASE \E r \in Runs : Start(r) \/ Deadline(r) \/ Stop(r)
  BY <1>2, <1>8 DEF Start, Deadline, Stop, clusterVars, secretVars
<1>9. CASE ClusterSickens \/ ClusterRecovers \/ JobEnds \/ KedaScales \/ PodsChange
  BY <1>2, <1>9 DEF ClusterSickens, ClusterRecovers, JobEnds, KedaScales,
       PodsChange, clusterVars, secretVars
<1>10. CASE UNCHANGED vars
  BY <1>2, <1>10 DEF vars, clusterVars, secretVars
<1>11. QED
  BY <1>3, <1>4, <1>5, <1>6, <1>7, <1>8, <1>9, <1>10 DEF Next, Environment

\* One cluster life keeps one host-port map and one RabbitMQ user.
THEOREM ImplementsPromise ==
  ASSUME DownsOverlap = FALSE
  PROVE  Spec => KeepsPromise
<1>1. Init => Promise!Init
  BY DEF Init, Promise!Init, brokerUser, NoSecrets, SecretNames, Broker, Keda
<1>2. QED
  BY <1>1, InitInductive, NextInductive, StepKeepsPromise, PTL
  DEF Spec, KeepsPromise, Promise!Spec, Promise!vars

-----------------------------------------------------------------------------
(* The topology is applied onto a cluster that has all it reads.           *)

Applying == {"check", "delete", "apply"}
Installed == {"kedaWait"} \cup Applying
Attached == {"keda"} \cup Installed
Created == {"attach"} \cup Attached
Recorded == Listing \cup Created

\* What a run has provided by the time it is where it is.
Provided(r) ==
  /\ pc[r] \in Recorded => hostMap = PortsOf[r]
  /\ pc[r] \in {"rabbit", "secrets"} => \A s \in mem[r].known : secrets[s] # None
  /\ pc[r] \in Created => \A s \in Wanted(r) : secrets[s] # None
  /\ pc[r] \in Attached /\ r \in TokenRuns => attached
  /\ pc[r] \in Installed => keda

ProvidedInductive == Inductive /\ \A r \in Runs : Provided(r)

LEMMA WhereProvided ==
  /\ Recorded = {"list", "rabbit", "secrets", "attach", "keda", "kedaWait", "check", "delete", "apply"}
  /\ Created = {"attach", "keda", "kedaWait", "check", "delete", "apply"}
  /\ Attached = {"keda", "kedaWait", "check", "delete", "apply"}
  /\ Installed = {"kedaWait", "check", "delete", "apply"}
  /\ Recorded \cap Ended = {}
BY DEF Recorded, Listing, Created, Attached, Installed, Applying, Ended

\* While a run is active nothing that is provided goes away.
LEMMA NothingIsTaken ==
  ASSUME Inductive, [Next]_vars, Active # {}
  PROVE  /\ hostMap # None => hostMap' = hostMap
         /\ \A s \in SecretNames : secrets[s] # None => secrets'[s] # None
         /\ attached => attached'
         /\ keda => keda'
<1> USE DEF Inductive, TypeOK
<1>1. CASE UNCHANGED <<hostMap, secrets>> /\ (attached => attached') /\ (keda => keda')
  BY <1>1
<1>2. ASSUME NEW r \in Runs, WriteHostMap(r)
      PROVE  UNCHANGED <<secrets, attached, keda>> /\ (hostMap # None => hostMap' = hostMap)
  BY <1>2 DEF WriteHostMap, MapDecided, MapRecorded, secretVars, topoVars
<1>3. ASSUME NEW r \in Runs, CreateSecret(r)
      PROVE  /\ UNCHANGED <<hostMap, attached, keda>>
             /\ \A s \in SecretNames : secrets[s] # None => secrets'[s] # None
  <2>1. UNCHANGED <<hostMap, attached, keda>>
    BY <1>3 DEF CreateSecret, clusterVars, topoVars
  <2>2. \/ secrets' = secrets
        \/ \E s \in SecretNames : secrets[s] = None /\ secrets' = [secrets EXCEPT ![s] = ValueOf(r, s)]
    BY <1>3 DEF CreateSecret
  <2>3. QED
    BY <2>1, <2>2
<1>4. ASSUME NEW r \in Runs, UpStep(r), ~WriteHostMap(r), ~CreateSecret(r)
      PROVE  UNCHANGED <<hostMap, secrets>> /\ (attached => attached') /\ (keda => keda')
  <2>1. CASE AttachPull(r) \/ InstallKeda(r)
    BY <2>1 DEF AttachPull, InstallKeda, clusterVars, secretVars, topoVars
  <2>2. CASE SeeClusters(r) \/ SeeNodes(r) \/ SeeHostMap(r) \/ ProbePorts(r)
               \/ BeginCreate(r) \/ EndCreate(r) \/ FailCreate(r)
    BY <2>2 DEF SeeClusters, SeeNodes, SeeHostMap, ProbePorts, BeginCreate,
         EndCreate, FailCreate, clusterVars, secretVars, topoVars
  <2>3. CASE ListSecrets(r) \/ ReadRabbit(r) \/ SecretsDone(r) \/ KedaAvailable(r)
               \/ CheckBootstrap(r) \/ ReadWorkloads(r) \/ ReadHpas(r) \/ Refused(r)
    BY <2>3 DEF ListSecrets, ReadRabbit, SecretsDone, KedaAvailable, CheckBootstrap,
         ReadWorkloads, ReadHpas, Refused, clusterVars, secretVars, topoVars
  <2>4. CASE DeleteBootstrap(r) \/ ApplyTopology(r)
    <3>1. UNCHANGED <<clusterVars, secretVars, keda>>
      BY <2>4 DEF DeleteBootstrap, ApplyTopology
    <3>2. QED
      BY <3>1 DEF clusterVars, secretVars
  <2>5. QED
    BY <1>4, <2>1, <2>2, <2>3, <2>4 DEF UpStep
<1>5. ASSUME NEW r \in Runs, Start(r) \/ Deadline(r) \/ Stop(r)
      PROVE  UNCHANGED <<hostMap, secrets, attached, keda>>
  BY <1>5 DEF Start, Deadline, Stop, clusterVars, secretVars, topoVars
<1>6. ASSUME NEW d \in Downs, DownStep(d)
      PROVE  UNCHANGED <<hostMap, secrets, attached, keda>>
  <2>1. downPc[d] # "delete"
    BY DEF DownsQuiet
  <2>2. QED
    BY <1>6, <2>1 DEF DownStep, DownList, DownDelete, DownFails, clusterVars, secretVars, topoVars
<1>7. CASE Environment
  <2>1. \A s \in {Broker, Keda} : ~OperatorDeletes(s)
    BY DEF OperatorDeletes
  <2>2. UNCHANGED <<hostMap, secrets, attached, keda>>
    BY <1>7, <2>1 DEF Environment, ClusterSickens, ClusterRecovers, JobEnds, KedaScales,
         PodsChange, clusterVars, secretVars, topoVars
  <2>3. QED
    BY <1>1, <2>2
<1>8. CASE UNCHANGED vars
  BY <1>1, <1>8 DEF vars, clusterVars, secretVars, topoVars
<1>9. QED
  BY <1>2, <1>3, <1>4, <1>5, <1>6, <1>7, <1>8 DEF Next

\* A run that stays where it is keeps what it has provided.
LEMMA ProvidedStays ==
  ASSUME Inductive, [Next]_vars, NEW r \in Runs, Provided(r),
         pc'[r] = pc[r], mem'[r].known = mem[r].known
  PROVE  Provided(r)'
<1>1. CASE pc[r] \notin Recorded
  BY <1>1, WhereProvided DEF Provided
<1>2. CASE pc[r] \in Recorded
  <2>1. Active # {}
    BY <1>2, WhereProvided DEF Active
  <2>2. hostMap # None
    BY <1>2, ConstantsAssumption DEF Provided
  <2>3. mem[r].known \subseteq SecretNames /\ Wanted(r) \subseteq SecretNames
    BY DEF Inductive, TypeOK, Memory, Wanted
  <2>4. QED
    BY <2>1, <2>2, <2>3, NothingIsTaken DEF Provided
<1>3. QED
  BY <1>1, <1>2

LEMMA OwnStepProvides ==
  ASSUME Inductive, [Next]_vars, NEW r \in Runs, Provided(r), UpStep(r)
  PROVE  Provided(r)'
<1> USE DEF Inductive, TypeOK
<1>1. \A location, memory : GoWith(r, location, memory) =>
         pc'[r] = location /\ mem'[r] = IF location \in Ended THEN Blank ELSE memory
  BY DEF GoWith
<1>2. Wanted(r) \subseteq SecretNames /\ mem[r] \in Memory
  BY DEF Wanted
\* Where the run goes says nothing of what it has provided.
<1>3. CASE pc'[r] \notin Recorded
  BY <1>3, WhereProvided DEF Provided
<1>4. CASE WriteHostMap(r)
  <2>1. pc'[r] = "list" /\ hostMap' = PortsOf[r]
    BY <1>1, <1>4 DEF WriteHostMap, Goto
  <2>2. QED
    BY <2>1, WhereProvided DEF Provided
<1>5. CASE ListSecrets(r)
  <2>1. /\ pc[r] = "list" /\ pc'[r] = "rabbit" /\ UNCHANGED <<hostMap, secrets>>
        /\ mem'[r].known = {s \in SecretNames : secrets[s] # None}
    BY <1>1, <1>2, <1>5 DEF ListSecrets, Memory, Ended, clusterVars, secretVars
  <2>2. QED
    BY <2>1, WhereProvided DEF Provided
<1>6. CASE ReadRabbit(r)
  <2>1. pc[r] = "rabbit" /\ UNCHANGED <<hostMap, secrets>> /\ pc'[r] \in {"failed", "secrets"}
    BY <1>1, <1>6 DEF ReadRabbit, clusterVars, secretVars
  <2>2. pc'[r] = "secrets" => mem'[r].known = mem[r].known
    <3>1. \E user : mem' = [mem EXCEPT ![r] = IF pc'[r] \in Ended THEN Blank ELSE [mem[r] EXCEPT !.rabbit = user]]
      BY <1>1, <1>6 DEF ReadRabbit, GoWith
    <3>2. QED
      BY <1>2, <3>1 DEF Memory, Ended
  <2>3. QED
    BY <2>1, <2>2, WhereProvided DEF Provided
<1>7. CASE CreateSecret(r) /\ pc'[r] # "failed"
  <2>1. PICK s \in SecretNames :
          /\ secrets' = [secrets EXCEPT ![s] = ValueOf(r, s)]
          /\ GoWith(r, "secrets", [mem[r] EXCEPT !.known = @ \cup {s}])
    BY <1>1, <1>7 DEF CreateSecret, Goto
  <2>2. /\ pc[r] = "secrets" /\ pc'[r] = "secrets" /\ hostMap' = hostMap
        /\ mem'[r].known = mem[r].known \cup {s}
    BY <1>1, <1>2, <1>7, <2>1 DEF CreateSecret, Memory, Ended, clusterVars
  <2>3. ValueOf(r, s) # None
    BY <2>2, ConstantsAssumption DEF ValueOf, RunsStand, UserStands
  <2>4. \A q \in mem'[r].known : secrets'[q] # None
    BY <1>2, <2>1, <2>2, <2>3 DEF Provided, Memory
  <2>5. QED
    BY <2>2, <2>4, WhereProvided DEF Provided
<1>8. CASE SecretsDone(r)
  <2>1. /\ pc[r] = "secrets" /\ Wanted(r) \subseteq mem[r].known
        /\ UNCHANGED <<hostMap, secrets>>
        /\ pc'[r] = IF r \in TokenRuns THEN "attach" ELSE "keda"
    BY <1>1, <1>8 DEF SecretsDone, clusterVars, secretVars
  <2>2. QED
    BY <2>1, WhereProvided DEF Provided, Wanted
<1>9. CASE AttachPull(r)
  <2>1. pc[r] = "attach" /\ pc'[r] = "keda" /\ attached' /\ UNCHANGED <<hostMap, secrets>>
    BY <1>1, <1>9 DEF AttachPull, Goto, clusterVars
  <2>2. QED
    BY <2>1, WhereProvided DEF Provided, Wanted
<1>10. CASE InstallKeda(r)
  <2>1. pc[r] = "keda" /\ pc'[r] = "kedaWait" /\ keda' /\ UNCHANGED <<hostMap, secrets, attached>>
    BY <1>1, <1>10 DEF InstallKeda, Goto, clusterVars, secretVars
  <2>2. QED
    BY <2>1, WhereProvided DEF Provided, Wanted
<1>11. CASE KedaAvailable(r) \/ CheckBootstrap(r) \/ DeleteBootstrap(r)
  <2>1. /\ pc[r] \in {"kedaWait", "check", "delete"} /\ UNCHANGED <<hostMap, secrets, attached, keda>>
        /\ pc'[r] \in {"check", "delete", "apply", "failed"}
    BY <1>1, <1>11 DEF KedaAvailable, CheckBootstrap, DeleteBootstrap, Goto, clusterVars, secretVars, topoVars
  <2>2. QED
    BY <2>1, WhereProvided DEF Provided, Wanted
<1>12. CASE \/ SeeClusters(r) \/ SeeNodes(r) \/ SeeHostMap(r) \/ ProbePorts(r)
             \/ BeginCreate(r) \/ EndCreate(r) \/ FailCreate(r) \/ ApplyTopology(r)
             \/ ReadWorkloads(r) \/ ReadHpas(r) \/ Refused(r) \/ pc'[r] = "failed"
  <2>1. pc'[r] \in {"clusters", "ports", "nodes", "map", "hostMap", "create", "creating",
                    "workloads", "hpas", "ok", "failed"}
    BY <1>1, <1>12 DEF SeeClusters, SeeNodes, SeeHostMap, ProbePorts, BeginCreate,
         EndCreate, FailCreate, ApplyTopology, ReadWorkloads, ReadHpas, Refused, Goto
  <2>2. QED
    BY <1>3, <2>1, WhereProvided
<1>13. QED
  BY <1>4, <1>5, <1>6, <1>7, <1>8, <1>9, <1>10, <1>11, <1>12 DEF UpStep

LEMMA NextProvided ==
  ASSUME DownsOverlap = FALSE, ProvidedInductive, [Next]_vars
  PROVE  ProvidedInductive'
<1>1. Inductive'
  BY NextInductive DEF ProvidedInductive
<1>2. ASSUME NEW r \in Runs PROVE Provided(r)'
  <2>1. Inductive /\ Provided(r)
    BY DEF ProvidedInductive
  <2>2. CASE pc'[r] = pc[r] /\ mem'[r].known = mem[r].known
    BY <2>1, <2>2, ProvidedStays
  <2>3. CASE UpStep(r)
    BY <2>1, <2>3, OwnStepProvides
  <2>4. CASE Start(r) \/ Stop(r)
    <3>1. pc'[r] \in {"clusters", "failed"}
      BY <2>1, <2>4 DEF Start, Stop, Goto, GoWith, Inductive, TypeOK
    <3>2. QED
      BY <3>1, WhereProvided DEF Provided
  <2>5. ASSUME NEW q \in Runs, q # r, UpStep(q) \/ Start(q) \/ Stop(q)
        PROVE  pc'[r] = pc[r] /\ mem'[r] = mem[r]
    BY <2>1, <2>5 DEF UpStep, Start, Stop, SeeClusters, SeeNodes, SeeHostMap, ProbePorts,
         BeginCreate, EndCreate, FailCreate, WriteHostMap, ListSecrets, ReadRabbit,
         CreateSecret, SecretsDone, AttachPull, InstallKeda, KedaAvailable,
         CheckBootstrap, DeleteBootstrap, ApplyTopology, ReadWorkloads,
         ReadHpas, Refused, Goto, GoWith, Inductive, TypeOK
  <2>6. CASE \E q \in Runs : Deadline(q)
    <3>1. pc' = pc /\ mem'[r].known = mem[r].known
      BY <2>1, <2>6 DEF Deadline, Inductive, TypeOK, Memory
    <3>2. QED
      BY <2>2, <3>1
  <2>7. CASE (\E d \in Downs : DownStep(d)) \/ Environment \/ UNCHANGED vars
    <3>1. pc' = pc /\ mem'[r].known = mem[r].known
      BY <2>1, <2>7 DEF DownStep, DownList, DownDelete, DownFails, Environment, ClusterSickens,
           ClusterRecovers, JobEnds, KedaScales, PodsChange, OperatorDeletes, runVars, vars,
           Inductive, TypeOK, Memory
    <3>2. QED
      BY <2>2, <3>1
  <2>8. QED
    BY <2>2, <2>3, <2>4, <2>5, <2>6, <2>7 DEF Next
<1>3. QED
  BY <1>1, <1>2 DEF ProvidedInductive

\* However many runs race, one applies the topology only when KEDA, its own host
\* map and every Secret the manifests read are there, provided k8s-down is only
\* run between runs of k8s-up.
THEOREM AppliesWhatIsProvided ==
  ASSUME DownsOverlap = FALSE
  PROVE  Spec => AppliesOntoProvisioned
<1>1. Init => ProvidedInductive
  <2> SUFFICES ASSUME Init PROVE ProvidedInductive
    OBVIOUS
  <2>1. \A r \in Runs : pc[r] = "idle"
    BY DEF Init
  <2>2. QED
    BY <2>1, InitInductive, WhereProvided DEF ProvidedInductive, Provided
<1>2. ProvidedInductive =>
        \A r \in Runs : ApplyTopology(r) =>
          /\ keda
          /\ hostMap = PortsOf[r]
          /\ \A s \in Wanted(r) : secrets[s] # None
          /\ r \in TokenRuns => attached
  BY WhereProvided DEF ProvidedInductive, Provided, ApplyTopology
<1>3. QED
  BY <1>1, <1>2, NextProvided, PTL DEF Spec, AppliesOntoProvisioned
=============================================================================
