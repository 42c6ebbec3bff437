--------------------------- MODULE WorkQueuesProofs ---------------------------
(* Theorems about WorkQueues, for every set of messages, every delivery      *)
(* limit and every bounds of the autoscaler.                                 *)
EXTENDS WorkQueues, FiniteSetTheorems, TLAPS

\* The invariant that is inductive: the manifest is the committed one, a
\* message still in its queue is within the delivery limit, was given back at
\* most once by each death, and a good one is given up for no other reason.
IInv ==
  /\ TypeOK
  /\ manifest = Right
  /\ reading = backlog
  /\ NoneIsLost
  /\ \A m \in Messages :
       /\ place[m] \in {"unsent", "ready", "held"} => returns[m] <= DELIVERY_LIMIT
       /\ deaths <= DELIVERY_LIMIT => returns[m] <= deaths
       /\ place[m] = "parked" /\ KindOf[m] = "good" => returns[m] > DELIVERY_LIMIT

-----------------------------------------------------------------------------

\* The bindings lead what a queue gives up to that queue's dead-letter queue.
LEMMA GivenUpIsParked ==
  ASSUME NEW m \in Messages
  PROVE  Parked(m) = "parked"
<1>1. QueueOf[m] \in DefinedQueues
  BY WorkAssumption DEF DefinedQueues
<1>2. <<QueueOf[m], QueueOf[m]>> \in DlxBindings
  BY <1>1 DEF DlxBindings
<1>3. QueueOf[m] \in DeadLetters(QueueOf[m])
  BY <1>1, <1>2 DEF DeadLetters, DeadLetterPolicy
<1>. QED BY <1>3 DEF Parked

LEMMA AcceptedIsRight ==
  ASSUME NEW m \in Manifests, manifestProblems(m) = {}
  PROVE  m = Right
<1>1. \A f \in DOMAIN Right : m[f] = Right[f]
  BY DEF manifestProblems, Differs
<1>2. DOMAIN m = DOMAIN Right
  BY DEF Manifests, Right
<1>. QED BY <1>1, <1>2 DEF Manifests, Right

LEMMA LimitsAreNumbers ==
  /\ DELIVERY_LIMIT \in Nat
  /\ SCALING.min \in Nat \ {0} /\ SCALING.max \in Nat /\ SCALING.min <= SCALING.max
BY WorkAssumption

LEMMA LengthIsNatural ==
  ASSUME NEW q \in Queues, NEW ps
  PROVE  Cardinality(Of(q, ps)) \in Nat
<1>1. IsFiniteSet(Of(q, ps))
  BY FS_Subset, WorkAssumption DEF Of
<1>. QED BY <1>1, FS_CardinalityType

\* Rounding up leaves room for all.
LEMMA RoundingUp ==
  ASSUME NEW n \in Nat, NEW t \in Nat \ {0}
  PROVE  (n + t - 1) \div t \in Int /\ n <= ((n + t - 1) \div t) * t
<1>1. ASSUME NEW a \in Int PROVE a \div t \in Int /\ a < (a \div t) * t + t
  OBVIOUS
<1>. QED BY <1>1

LEMMA DesiredIsWithinBounds ==
  ASSUME TypeOK, manifest = Right
  PROVE  Desired \in 1 .. SCALING.max
<1>. DEFINE pods(q) == PodsFor(reading[q], q)
<1>1. manifest.min = SCALING.min /\ manifest.max = SCALING.max /\ manifest.target = SCALING.targets
  BY DEF Right
<1>2. ASSUME NEW q \in Queues PROVE pods(q) \in Int
  <2>1. SCALING.targets[q] \in Nat \ {0} /\ reading[q] \in Nat
    BY WorkAssumption DEF TypeOK
  <2>. QED BY <1>1, <2>1 DEF PodsFor
<1>3. Larger(pods("processing"), pods("video-validation")) \in Int
  BY <1>2 DEF Larger, Queues
<1>4. Larger(manifest.min, Larger(pods("processing"), pods("video-validation"))) \in Nat \ {0}
  BY <1>1, <1>3, LimitsAreNumbers DEF Larger
<1>5. Desired = Smaller(manifest.max, Larger(manifest.min, Larger(pods("processing"), pods("video-validation"))))
  BY DEF Desired, Most
<1>. QED BY <1>1, <1>4, <1>5, LimitsAreNumbers DEF Smaller

-----------------------------------------------------------------------------

LEMMA InvInit == Init => IInv
<1> SUFFICES ASSUME Init PROVE IInv
  OBVIOUS
<1>1. manifest = Right /\ manifest \in Manifests
  BY AcceptedIsRight DEF Init
<1>2. TypeOK
  BY <1>1, LimitsAreNumbers DEF Init, TypeOK, Replicas
<1>. QED BY <1>1, <1>2, LimitsAreNumbers DEF Init, IInv, NoneIsLost

\* The death of a replica leaves the messages accounted for.
LEMMA GiveBackKeeps ==
  ASSUME IInv, NEW r \in Replicas, GiveBack(r)
  PROVE  /\ place' \in [Messages -> {"unsent", "ready", "held", "done", "parked"}]
         /\ holder' \in [Messages -> Replicas \cup {0}]
         /\ returns' \in [Messages -> 0 .. DELIVERY_LIMIT + 1]
         /\ deaths' \in 0 .. DELIVERY_LIMIT + 1
         /\ \A m \in Messages :
              /\ place'[m] = "held" <=> holder'[m] # 0
              /\ place'[m] = "held" => holder'[m] = holder[m] /\ place[m] = "held" /\ holder[m] # r
              /\ place'[m] \in {"unsent", "ready", "held"} => returns'[m] <= DELIVERY_LIMIT
              /\ deaths' <= DELIVERY_LIMIT => returns'[m] <= deaths'
              /\ place'[m] = "parked" /\ KindOf[m] = "good" => returns'[m] > DELIVERY_LIMIT
<1>. USE LimitsAreNumbers
<1>1. deaths' \in 0 .. DELIVERY_LIMIT + 1
  BY DEF IInv, TypeOK, GiveBack, GivenUp
<1>2. ASSUME NEW m \in Messages, m \in HeldBy(r)
      PROVE  /\ place'[m] \in {"ready", "parked"} /\ holder'[m] = 0
             /\ returns'[m] = returns[m] + 1 /\ returns'[m] \in 0 .. DELIVERY_LIMIT + 1
             /\ place'[m] = "ready" => returns'[m] <= DELIVERY_LIMIT
             /\ place'[m] = "parked" => returns'[m] > DELIVERY_LIMIT
             /\ deaths' <= DELIVERY_LIMIT => returns'[m] <= deaths'
  <2>1. place[m] = "held" /\ returns[m] \in 0 .. DELIVERY_LIMIT
    BY <1>2 DEF HeldBy, IInv, TypeOK
  <2>2. returns'[m] = returns[m] + 1 /\ holder'[m] = 0
    BY <1>2 DEF GiveBack
  <2>3. place'[m] = IF GivenUp(returns'[m]) THEN "parked" ELSE "ready"
    BY <1>2, GivenUpIsParked DEF GiveBack
  <2>4. deaths' <= DELIVERY_LIMIT => returns'[m] <= deaths'
    BY <2>2, <2>1 DEF GiveBack, GivenUp, IInv, TypeOK
  <2>. QED BY <2>1, <2>2, <2>3, <2>4 DEF GivenUp
<1>3. ASSUME NEW m \in Messages, m \notin HeldBy(r)
      PROVE  /\ place'[m] = place[m] /\ holder'[m] = holder[m] /\ returns'[m] = returns[m]
             /\ place[m] = "held" => holder[m] # r
             /\ deaths' <= DELIVERY_LIMIT => returns'[m] <= deaths'
  BY <1>3 DEF GiveBack, HeldBy, GivenUp, IInv, TypeOK
<1>4. /\ DOMAIN place' = Messages /\ place' = [m \in Messages |-> place'[m]]
      /\ holder' = [m \in Messages |-> holder'[m]] /\ returns' = [m \in Messages |-> returns'[m]]
  BY DEF GiveBack
<1>5. ASSUME NEW m \in Messages
      PROVE  /\ place'[m] \in {"unsent", "ready", "held", "done", "parked"}
             /\ holder'[m] \in Replicas \cup {0} /\ returns'[m] \in 0 .. DELIVERY_LIMIT + 1
             /\ place'[m] = "held" <=> holder'[m] # 0
             /\ place'[m] = "held" => holder'[m] = holder[m] /\ place[m] = "held" /\ holder[m] # r
             /\ place'[m] \in {"unsent", "ready", "held"} => returns'[m] <= DELIVERY_LIMIT
             /\ deaths' <= DELIVERY_LIMIT => returns'[m] <= deaths'
             /\ place'[m] = "parked" /\ KindOf[m] = "good" => returns'[m] > DELIVERY_LIMIT
  BY <1>2, <1>3 DEF IInv, TypeOK, NoneIsLost
<1>. QED BY <1>1, <1>4, <1>5

LEMMA InvStep == IInv /\ [Next]_vars => IInv'
<1> SUFFICES ASSUME IInv, [Next]_vars PROVE IInv'
  OBVIOUS
<1>. USE LimitsAreNumbers
<1>1. ASSUME NEW m \in Messages, Publish(m) PROVE IInv'
  BY <1>1 DEF Publish, scale, IInv, TypeOK, NoneIsLost, Alive
<1>2. ASSUME NEW m \in Messages, NEW r \in Replicas, Deliver(m, r) PROVE IInv'
  <2>1. r # 0
    BY DEF Replicas
  <2>. QED BY <1>2, <2>1 DEF Deliver, scale, IInv, TypeOK, NoneIsLost, Alive
<1>3. ASSUME NEW m \in Messages, Acknowledge(m) PROVE IInv'
  BY <1>3 DEF Acknowledge, Settle, scale, IInv, TypeOK, NoneIsLost, Alive
<1>4. ASSUME NEW m \in Messages, Reject(m) PROVE IInv'
  BY <1>4, GivenUpIsParked DEF Reject, Settle, scale, IInv, TypeOK, NoneIsLost, Alive
<1>5. ASSUME NEW m \in Messages, Requeue(m) PROVE IInv'
  BY <1>5 DEF Requeue, Settle, scale, IInv, TypeOK, NoneIsLost, Alive
<1>6. ASSUME NEW m \in Messages, Crash(m) PROVE IInv'
  <2>1. holder[m] \in Replicas /\ GiveBack(holder[m])
    BY <1>6 DEF Crash, IInv, TypeOK
  <2>. QED BY <1>6, <2>1, GiveBackKeeps DEF Crash, GiveBack, scale, IInv, TypeOK, NoneIsLost, Alive
<1>7. CASE Poll
  <2>1. reading' \in [Queues -> Nat] /\ backlog' \in [Queues -> Nat]
    <3>1. \A q \in Queues : Length(q) \in Nat
      BY LengthIsNatural DEF Length
    <3>. QED BY <1>7, <3>1, LengthIsNatural DEF Poll
  <2>2. \A q \in Queues : Length(q) = Cardinality(Of(q, {"ready", "held"}))
    BY DEF Length, IInv, Right
  <2>3. reading' = backlog'
    BY <1>7, <2>2 DEF Poll
  <2>. QED BY <1>7, <2>1, <2>3 DEF Poll, messages, IInv, TypeOK, NoneIsLost, Alive
<1>8. CASE Scale
  BY <1>8, DesiredIsWithinBounds DEF Scale, messages, IInv, TypeOK, NoneIsLost, Alive
<1>9. ASSUME NEW r \in Replicas, Start(r) PROVE IInv'
  BY <1>9 DEF Start, messages, IInv, TypeOK, NoneIsLost, Alive
<1>10. ASSUME NEW r \in Replicas, Stop(r) PROVE IInv'
  BY <1>10 DEF Stop, messages, IInv, TypeOK, NoneIsLost, Alive
<1>11. ASSUME NEW r \in Replicas, Kill(r) PROVE IInv'
  <2>1. \A m \in Messages : place'[m] = "held" => holder'[m] \in Alive'
    BY <1>11, GiveBackKeeps DEF Kill, IInv, TypeOK, NoneIsLost, Alive
  <2>. QED BY <1>11, <2>1, GiveBackKeeps DEF Kill, GiveBack, IInv, TypeOK, NoneIsLost
<1>12. CASE Apply
  BY <1>12 DEF Apply, messages, Right, IInv, TypeOK, NoneIsLost, Alive
<1>13. CASE UNCHANGED vars
  BY <1>13 DEF vars, messages, scale, IInv, TypeOK, NoneIsLost, Alive
<1>. QED BY <1>1, <1>2, <1>3, <1>4, <1>5, <1>6, <1>7, <1>8, <1>9, <1>10, <1>11, <1>12, <1>13
     DEF Next, Handle, Autoscaler, Deployment

LEMMA Invariant == Spec => []IInv
<1>. QED BY InvInit, InvStep, PTL DEF Spec

-----------------------------------------------------------------------------

\* The broker and the Deployment hold what they can hold.
THEOREM WorkTypes == Spec => []TypeOK
<1>1. IInv => TypeOK BY DEF IInv
<1>. QED BY <1>1, Invariant, PTL

\* No message is dropped, whatever crashes and whenever replicas go.
THEOREM NothingIsDropped == Spec => []NoneIsLost
<1>1. IInv => NoneIsLost BY DEF IInv
<1>. QED BY <1>1, Invariant, PTL

\* No good message is given up before more replicas died than the limit.
THEOREM GoodWorkIsNotGivenUp == Spec => []GoodWorkIsKept
<1>1. IInv => GoodWorkIsKept
  <2> SUFFICES ASSUME IInv, deaths <= DELIVERY_LIMIT, NEW m \in Messages, KindOf[m] = "good",
                      place[m] = "parked"
               PROVE  FALSE
    BY DEF GoodWorkIsKept
  <2>1. returns[m] <= deaths /\ returns[m] > DELIVERY_LIMIT
    BY DEF IInv
  <2>. QED BY <2>1, LimitsAreNumbers DEF IInv, TypeOK
<1>. QED BY <1>1, Invariant, PTL

LEMMA StepOfTheAutoscaler ==
  ASSUME IInv, Next, count' # count
  PROVE  count' = Desired
<1>1. ~Apply
  BY DEF Apply, IInv, Right
<1>2. \A m \in Messages : \A r \in Replicas : ~Deliver(m, r)
  BY DEF Deliver, scale
<1>3. (\A r \in Replicas : ~(Start(r) \/ Stop(r) \/ Kill(r))) /\ ~Poll
  BY DEF Start, Stop, Kill, Poll
<1>4. \A m \in Messages : ~(Publish(m) \/ Handle(m))
  BY DEF Publish, Handle, Acknowledge, Reject, Requeue, Crash, Settle, scale
<1>5. ~Deployment /\ (Autoscaler => Scale)
  BY <1>3 DEF Deployment, Autoscaler
<1>6. Scale
  BY <1>1, <1>2, <1>4, <1>5 DEF Next
<1>. QED BY <1>6 DEF Scale

\* Only the autoscaler changes the replica count, for every accepted manifest.
THEOREM OnlyTheAutoscalerScales == Spec => CountIsTheAutoscalers
<1>1. IInv /\ [Next]_vars => [count' # count => count' = Desired]_vars
  BY StepOfTheAutoscaler DEF vars, scale
<1>. QED BY <1>1, Invariant, PTL DEF Spec, CountIsTheAutoscalers

\* The replicas left by a scale-in have room for all the work that was there.
THEOREM NoBusyBacklogIsLeft == Spec => ScaleInLeavesRoom
<1>1. IInv /\ [Next]_vars =>
        [count' < count => \A q \in Queues : backlog[q] <= count' * SCALING.targets[q]]_vars
  <2> SUFFICES ASSUME IInv, Next, count' < count, NEW q \in Queues
               PROVE  backlog[q] <= count' * SCALING.targets[q]
    BY DEF vars, scale, IInv, TypeOK
  <2>. DEFINE pods(p) == PodsFor(reading[p], p)
  <2>1. count' = Desired
    <3>1. count' # count
      BY DEF IInv, TypeOK
    <3>. QED BY <3>1, StepOfTheAutoscaler
  <2>2. /\ manifest.min = SCALING.min /\ manifest.max = SCALING.max
        /\ manifest.target = SCALING.targets
    BY DEF IInv, Right
  <2>3. \A p \in Queues : SCALING.targets[p] \in Nat \ {0} /\ reading[p] \in Nat /\ reading[p] = backlog[p]
    BY WorkAssumption DEF IInv, TypeOK
  <2>4. ASSUME NEW p \in Queues
        PROVE  pods(p) \in Int /\ backlog[p] <= pods(p) * SCALING.targets[p]
    <3>. DEFINE n == backlog[p]
                t == SCALING.targets[p]
    <3>1. n \in Nat /\ t \in Nat \ {0} /\ pods(p) = (n + t - 1) \div t
      BY <2>2, <2>3 DEF PodsFor
    <3>. HIDE DEF n, t, pods
    <3>2. pods(p) \in Int /\ n <= pods(p) * t
      BY <3>1, RoundingUp
    <3>. QED BY <3>2 DEF n, t
  <2>5. Desired = Smaller(SCALING.max, Larger(SCALING.min, Larger(pods("processing"), pods("video-validation"))))
    BY <2>2 DEF Desired, Most
  <2>6. Desired < SCALING.max
    BY <2>1, LimitsAreNumbers, DesiredIsWithinBounds DEF IInv, TypeOK
  <2>7. Desired \in Nat /\ pods(q) <= Desired
    BY <2>4, <2>5, <2>6, LimitsAreNumbers DEF Smaller, Larger, Queues
  <2>8. pods(q) * SCALING.targets[q] <= Desired * SCALING.targets[q]
    BY <2>3, <2>4, <2>7, SMTT(30)
  <2>. HIDE DEF pods
  <2>. QED BY <2>1, <2>3, <2>4, <2>7, <2>8
<1>. QED BY <1>1, Invariant, PTL DEF Spec, ScaleInLeavesRoom
=============================================================================
