------------------------------ MODULE WorkQueues ------------------------------
(***************************************************************************)
(* The Worker's queues and its replicas: the broker topology that          *)
(* rabbitmq/definitions.json gives every broker start, and the Deployment  *)
(* and ScaledObject of k8s/, of any manifest that                          *)
(* scripts/check-kubernetes.mjs accepts.  A message is taken by a replica, *)
(* worked on and acknowledged, rejected, put back, or given back because   *)
(* its replica died: of the message itself, or because the autoscaler      *)
(* removed it.                                                             *)
(*                                                                         *)
(* The services, RabbitMQ, KEDA and Kubernetes are not in the repository:  *)
(* their steps are what the manifests and the decisions record of them.    *)
(***************************************************************************)
EXTENDS Integers, FiniteSets

CONSTANTS
  Messages,
  QueueOf,        \* the queue a message is published to
  KindOf,         \* "good", "wrong" (a permanent failure) or "crash"
  DELIVERY_LIMIT, \* definitions.json: policies[0].definition["delivery-limit"]
  Prefetch,       \* messages one replica holds of a queue
  SCALING         \* check-kubernetes.mjs: [min, max, targets]

Queues == {"video-validation", "processing"}

ASSUME WorkAssumption ==
  /\ IsFiniteSet(Messages)
  /\ QueueOf \in [Messages -> Queues]
  /\ KindOf \in [Messages -> {"good", "wrong", "crash"}]
  /\ DELIVERY_LIMIT \in Nat
  /\ Prefetch \in [Queues -> Nat \ {0}]
  /\ SCALING \in [min : Nat \ {0}, max : Nat, targets : [Queues -> Nat \ {0}]]
  /\ SCALING.min <= SCALING.max

VARIABLES
  manifest,   \* what was rendered, accepted and applied
  place,      \* where each message is
  holder,     \* the replica that holds it unacknowledged, or 0
  returns,    \* times it was given back by the death of its consumer
  replica,    \* the state of each replica
  count,      \* the Deployment's replica count
  reading,    \* the queue lengths the autoscaler read last
  backlog,    \* what the queues held at that moment
  deaths      \* replicas that died or were removed, up to the limit

messages == <<place, holder, returns>>
scale == <<replica, count, reading, backlog>>
vars == <<manifest, messages, scale, deaths>>

-----------------------------------------------------------------------------
(* rabbitmq/definitions.json.                                              *)

DefinedQueues == Queues \cup {"video.accepted", "video.rejected", "processing.started",
  "processing.completed", "processing.failed", "notification.terminal"}
DeadLetterPolicy == DefinedQueues

\* As if two keys had been swapped in the file.
BindingsSwapped ==
  {<<q, IF q = "processing" THEN "video-validation" ELSE q>> : q \in DefinedQueues}

\* The dead-letter exchange's bindings: routing key, and the queue whose .dlq
\* it leads to.  A message is published with its queue's name as the key.
DlxBindings == {<<q, q>> : q \in DefinedQueues}

\* The dead-letter queues that take what is rejected from queue q.
DeadLetters(q) == {b[2] : b \in {d \in DlxBindings : d[1] = q /\ q \in DeadLetterPolicy}}

-----------------------------------------------------------------------------
(* The manifests and the rules on them.                                    *)

\* What the rules of the Worker require: no spec.replicas, the bounds and the
\* targets of SCALING, and for each queue the management API and its length.
Right == [replicas |-> FALSE, min |-> SCALING.min, max |-> SCALING.max,
          target |-> SCALING.targets, http |-> Queues, length |-> Queues]

\* Manifests some edits away from the committed one.
Manifests ==
  [replicas : BOOLEAN, min : {SCALING.min, SCALING.min + 1}, max : {SCALING.max, SCALING.max + 1},
   target : {SCALING.targets, [q \in Queues |-> 2 * SCALING.targets[q]]},
   http : SUBSET Queues, length : SUBSET Queues]

Differs(m, rules) == {f \in rules : m[f] # Right[f]}

\* As if the rule on spec.replicas had been left out, or the one on protocol.
manifestProblemsNoReplicas(m) == Differs(m, DOMAIN Right \ {"replicas"})
manifestProblemsNoProtocol(m) == Differs(m, DOMAIN Right \ {"http"})

manifestProblems(m) == Differs(m, DOMAIN Right)

-----------------------------------------------------------------------------
(* The broker and the Worker.                                              *)

Replicas == 1 .. SCALING.max + 1
On == {r \in Replicas : replica[r] = "on"}
Alive == {r \in Replicas : replica[r] # "off"}
HeldBy(r) == {m \in Messages : place[m] = "held" /\ holder[m] = r}
Of(q, ps) == {m \in Messages : QueueOf[m] = q /\ place[m] \in ps}

Publish(m) ==
  /\ place[m] = "unsent"
  /\ place' = [place EXCEPT ![m] = "ready"]
  /\ UNCHANGED <<manifest, holder, returns, scale, deaths>>

Deliver(m, r) ==
  /\ place[m] = "ready" /\ r \in Alive
  /\ Cardinality({n \in HeldBy(r) : QueueOf[n] = QueueOf[m]}) < Prefetch[QueueOf[m]]
  /\ place' = [place EXCEPT ![m] = "held"]
  /\ holder' = [holder EXCEPT ![m] = r]
  /\ UNCHANGED <<manifest, returns, scale, deaths>>

\* Where a message goes that its queue gives up.
Parked(m) == IF QueueOf[m] \in DeadLetters(QueueOf[m]) THEN "parked" ELSE "lost"

Settle(m, where) ==
  /\ place[m] = "held"
  /\ place' = [place EXCEPT ![m] = where] /\ holder' = [holder EXCEPT ![m] = 0]
  /\ UNCHANGED <<manifest, scale, deaths>>

Acknowledge(m) == KindOf[m] = "good" /\ Settle(m, "done") /\ UNCHANGED returns
Reject(m) == KindOf[m] = "wrong" /\ Settle(m, Parked(m)) /\ UNCHANGED returns

GivenUp(n) == n > DELIVERY_LIMIT

\* As if a requeue counted against the delivery limit.
RequeueCounts(m) ==
  /\ returns' = [returns EXCEPT ![m] = @ + 1]
  /\ Settle(m, IF GivenUp(returns[m] + 1) THEN Parked(m) ELSE "ready")

\* A failure the service takes for a transient one: put back, which does not
\* count, and as often as it comes (AD-012).
Requeue(m) == Settle(m, "ready") /\ UNCHANGED returns

\* As if the policy set no delivery limit.
GiveBackForEver(r) ==
  /\ place' = [m \in Messages |-> IF m \in HeldBy(r) THEN "ready" ELSE place[m]]
  /\ holder' = [m \in Messages |-> IF m \in HeldBy(r) THEN 0 ELSE holder[m]]
  /\ UNCHANGED returns
  /\ deaths' = IF GivenUp(deaths) THEN deaths ELSE deaths + 1

\* A replica dies: everything it held is given back, and a message given back
\* more often than the limit goes where rejected ones go.
GiveBack(r) ==
  /\ returns' = [m \in Messages |-> IF m \in HeldBy(r) THEN returns[m] + 1 ELSE returns[m]]
  /\ place' = [m \in Messages |-> IF m \notin HeldBy(r) THEN place[m]
                                  ELSE IF GivenUp(returns'[m]) THEN Parked(m) ELSE "ready"]
  /\ holder' = [m \in Messages |-> IF m \in HeldBy(r) THEN 0 ELSE holder[m]]
  /\ deaths' = IF GivenUp(deaths) THEN deaths ELSE deaths + 1

\* A message crashes the process that works on it; the kubelet starts it again.
Crash(m) ==
  /\ KindOf[m] = "crash" /\ place[m] = "held"
  /\ GiveBack(holder[m])
  /\ UNCHANGED <<manifest, scale>>

-----------------------------------------------------------------------------
(* The autoscaler and the Deployment.                                      *)

\* What KEDA reads of a queue: over AMQP the ready messages only; a mode
\* other than QueueLength says nothing of its length.
Length(q) ==
  IF q \notin manifest.length THEN 0
  ELSE Cardinality(Of(q, IF q \in manifest.http THEN {"ready", "held"} ELSE {"ready"}))

Poll ==
  /\ reading' = [q \in Queues |-> Length(q)]
  /\ backlog' = [q \in Queues |-> Cardinality(Of(q, {"ready", "held"}))]
  /\ UNCHANGED <<manifest, messages, replica, count, deaths>>

PodsFor(n, q) == (n + manifest.target[q] - 1) \div manifest.target[q]
Larger(a, b) == IF a > b THEN a ELSE b
Smaller(a, b) == IF a < b THEN a ELSE b

Most(pods(_)) == Larger(pods("processing"), pods("video-validation"))

\* The larger of the two counts, within the bounds.
Desired ==
  LET pods(q) == PodsFor(reading[q], q) IN
  Smaller(manifest.max, Larger(manifest.min, Most(pods)))

Scale ==
  /\ count' = Desired /\ count' # count
  /\ UNCHANGED <<manifest, messages, replica, reading, backlog, deaths>>

Start(r) ==
  /\ replica[r] = "off" /\ \A s \in 1 .. r - 1 : replica[s] # "off"
  /\ Cardinality(On) < count
  /\ replica' = [replica EXCEPT ![r] = "on"]
  /\ UNCHANGED <<manifest, messages, count, reading, backlog, deaths>>

\* A replica too many is asked to stop; it may still finish what it holds.
Stop(r) ==
  /\ replica[r] = "on" /\ Cardinality(On) > count
  /\ replica' = [replica EXCEPT ![r] = "stopping"]
  /\ UNCHANGED <<manifest, messages, count, reading, backlog, deaths>>

\* Its grace is over.
Kill(r) ==
  /\ replica[r] = "stopping"
  /\ replica' = [replica EXCEPT ![r] = "off"]
  /\ GiveBack(r)
  /\ UNCHANGED <<manifest, count, reading, backlog>>

\* The up command applies the kustomization to a running cluster.
Apply ==
  /\ count' = IF manifest.replicas THEN 1 ELSE count
  /\ UNCHANGED <<manifest, messages, replica, reading, backlog, deaths>>

-----------------------------------------------------------------------------

Init ==
  /\ manifest \in {m \in Manifests : manifestProblems(m) = {}}
  /\ place = [m \in Messages |-> "unsent"] /\ holder = [m \in Messages |-> 0]
  /\ returns = [m \in Messages |-> 0]
  /\ replica = [r \in Replicas |-> "off"] /\ count = 1
  /\ reading = [q \in Queues |-> 0] /\ backlog = [q \in Queues |-> 0]
  /\ deaths = 0

Handle(m) == Acknowledge(m) \/ Reject(m) \/ Requeue(m) \/ Crash(m)
Autoscaler == Poll \/ Scale
Deployment == \E r \in Replicas : Start(r) \/ Stop(r) \/ Kill(r)

Next ==
  \/ \E m \in Messages : Publish(m) \/ Handle(m) \/ \E r \in Replicas : Deliver(m, r)
  \/ Autoscaler \/ Deployment \/ Apply

\* The broker delivers, a replica finishes what it took, the Deployment and
\* the autoscaler do their work.  Nobody has to publish or apply.
Work ==
  \/ \E m \in Messages : Handle(m) \/ \E r \in Replicas : Deliver(m, r)
  \/ Deployment \/ Scale

Spec == Init /\ [][Next]_vars /\ WF_vars(Work)

-----------------------------------------------------------------------------

\* The broker and the Deployment hold what they can hold: one holder for each
\* message in work, and no more replicas asked for than the manifest allows.
TypeOK ==
  /\ manifest \in Manifests
  /\ place \in [Messages -> {"unsent", "ready", "held", "done", "parked", "lost"}]
  /\ holder \in [Messages -> Replicas \cup {0}]
  /\ \A m \in Messages : place[m] = "held" <=> holder[m] # 0
  /\ returns \in [Messages -> 0 .. DELIVERY_LIMIT + 1]
  /\ replica \in [Replicas -> {"on", "stopping", "off"}]
  /\ count \in 1 .. SCALING.max
  /\ reading \in [Queues -> Nat] /\ backlog \in [Queues -> Nat]
  /\ deaths \in 0 .. DELIVERY_LIMIT + 1

\* A message in work is held by a replica that is there, and none is dropped:
\* what a queue gives up is in the dead-letter queue of that queue
\* (definitions.json's policy and bindings).
NoneIsLost ==
  \A m \in Messages :
    /\ place[m] # "lost"
    /\ place[m] = "held" => holder[m] \in Alive

\* Work that is sound is not given up: while no more replicas have died than
\* the delivery limit, no good message is in a dead-letter queue, however
\* often it was put back, and whatever it was held beside.
GoodWorkIsKept ==
  deaths <= DELIVERY_LIMIT =>
    \A m \in Messages : KindOf[m] = "good" => place[m] # "parked"

\* The replica count is the autoscaler's: nothing else changes it, so a
\* kustomization applied again never snaps a scaled-out Worker back.
CountIsTheAutoscalers == [][count' # count => count' = Desired]_vars

\* The autoscaler asks for fewer replicas only if those left can take all the
\* work there was when it looked, what the prefetch hides included.
ScaleInLeavesRoom ==
  [][count' < count =>
       \A q \in Queues : backlog[q] <= count' * SCALING.targets[q]]_vars

\* Every message is worked off or given up in the end, through crashes and
\* replicas that come and go, unless failures are taken for transient ones for
\* ever: once no message is put back any more, however often that happened
\* before.  (One that is misclassified goes round and never reaches a
\* dead-letter queue, AD-012's trade-off.)
WorkIsSettled ==
  <>[][\A m \in Messages : ~Requeue(m)]_vars =>
    []<>(\A m \in Messages : place[m] \in {"unsent", "done", "parked"})
=============================================================================
