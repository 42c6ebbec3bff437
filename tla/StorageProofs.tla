---------------------------- MODULE StorageProofs ----------------------------
(***************************************************************************)
(* Proofs about StorageBootstrap for every backoff limit, any number of    *)
(* operator edits and any overlap of pods: what a pod that no operator     *)
(* disturbed may write, and what its success means.                        *)
(* Proofs about StorageScenarios for any number of checks, of defects, of  *)
(* failing calls and of interruptions, and that the one step it takes for  *)
(* the script is what StorageBootstrap does call by call.                  *)
(***************************************************************************)
EXTENDS StorageBootstrap, StorageScenarios, FiniteSetTheorems, TLAPS

-----------------------------------------------------------------------------
(* Counting rules.                                                         *)

LEMMA IdsFinite ==
  /\ IsFiniteSet(Ids) /\ Cardinality(Ours) = 3 /\ Cardinality(Ids) = 4
<1>1. IsFiniteSet({}) /\ Cardinality({}) = 0
  BY FS_EmptySet
<1> DEFINE one == {} \cup {"expire-sources"}
           two == one \cup {"expire-zips"}
           three == two \cup {"abort-incomplete-uploads"}
<1>2. IsFiniteSet(one) /\ Cardinality(one) = 1
  BY <1>1, FS_AddElement
<1>3. IsFiniteSet(two) /\ Cardinality(two) = 2
  BY <1>2, FS_AddElement
<1>4. IsFiniteSet(three) /\ Cardinality(three) = 3
  BY <1>3, FS_AddElement
<1>5. three = Ours
  BY DEF Ours
<1>6. Foreign \notin Ours
  BY DEF Ours, Foreign
<1>7. IsFiniteSet(Ids) /\ Cardinality(Ids) = 4
  BY <1>4, <1>5, <1>6, FS_AddElement DEF Ids
<1>8. QED
  BY <1>4, <1>5, <1>7

\* As many owned rules as rules leaves no room for a foreign one.
LEMMA AllOwned ==
  ASSUME Cardinality(Present \cap Ours) = Cardinality(Present)
  PROVE  rules[Foreign] = "absent"
<1>1. IsFiniteSet(Present)
  BY IdsFinite, FS_Subset DEF Present
<1>2. Present \cap Ours = Present
  BY <1>1, FS_Subset
<1>3. Foreign \in Ids \ Ours
  BY DEF Ids, Ours, Foreign
<1>4. QED
  BY <1>2, <1>3 DEF Present

\* Three rules that include the three owned ones include no other.
LEMMA ThreeOwned ==
  ASSUME Ours \subseteq Present, Cardinality(Present) = 3
  PROVE  rules[Foreign] = "absent"
<1>1. IsFiniteSet(Present)
  BY IdsFinite, FS_Subset DEF Present
<1>2. Present \cap Ours = Ours
  OBVIOUS
<1>3. Cardinality(Present \cap Ours) = Cardinality(Present)
  BY <1>2, IdsFinite
<1>4. QED
  BY <1>3, AllOwned

LEMMA PresentCount == Cardinality(Present) \in 0 .. 4
<1>1. Present \subseteq Ids
  BY DEF Present
<1>2. QED
  BY <1>1, IdsFinite, FS_Subset, FS_CardinalityType

-----------------------------------------------------------------------------
(* Type correctness.                                                       *)

LEMMA GotoTyped ==
  ASSUME TypeOK, NEW p \in Pods, NEW location \in Locations, Goto(p, location)
  PROVE  pc' \in [Pods -> Locations]
BY DEF TypeOK, Goto

LEMMA NextTyped ==
  ASSUME TypeOK, [Next]_vars
  PROVE  TypeOK'
<1> USE DEF TypeOK
<1>1. {"head", "make", "put", "policy", "total", "owned", "sources", "zips",
       "abort", "vTotal", "vSources", "vZips", "vAbort", "ok", "failed"} \subseteq Locations
  BY DEF Locations, Ended, Reads
<1>2. ASSUME NEW p \in Pods, NEW location \in Locations, Goto(p, location)
      PROVE  pc' \in [Pods -> Locations]
  BY <1>2, GotoTyped
<1>3. ASSUME NEW p \in Pods, StartPod(p)
      PROVE  TypeOK'
  BY <1>1, <1>2, <1>3 DEF StartPod, Running, bucketVars
<1>4. ASSUME NEW p \in Pods, HeadBucket(p) \/ AssertNoPolicy(p)
      PROVE  TypeOK'
  BY <1>1, <1>2, <1>4 DEF HeadBucket, AssertNoPolicy, bucketVars, historyVars
<1>5. ASSUME NEW p \in Pods, CreateBucket(p)
      PROVE  TypeOK'
  BY <1>1, <1>2, <1>5 DEF CreateBucket, historyVars
<1>6. ASSUME NEW p \in Pods, ReadTotal(p)
      PROVE  TypeOK'
  BY <1>1, <1>2, <1>6, PresentCount DEF ReadTotal, bucketVars, historyVars
<1>7. ASSUME NEW p \in Pods, ReadOwned(p) \/ VerifyTotal(p)
      PROVE  TypeOK'
  BY <1>1, <1>2, <1>7 DEF ReadOwned, VerifyTotal, bucketVars, historyVars
<1>8. ASSUME NEW p \in Pods, CheckConfigured(p) \/ VerifyRules(p)
      PROVE  TypeOK'
  BY <1>1, <1>2, <1>8 DEF CheckConfigured, VerifyRules, CheckRule, bucketVars, historyVars
<1>9. ASSUME NEW p \in Pods, PutLifecycle(p)
      PROVE  TypeOK'
  <2>1. desired \in Configurations
    BY DEF desired, Configurations
  <2>2. QED
    BY <1>1, <1>2, <1>9, <2>1 DEF PutLifecycle, historyVars
<1>10. ASSUME NEW p \in Pods, CallFails(p)
       PROVE  TypeOK'
  BY <1>1, <1>2, <1>10 DEF CallFails, bucketVars
<1>11. CASE JobEnds
  BY <1>11 DEF JobEnds, bucketVars, historyVars
<1>12. CASE OperatorEdit
  <2>1. rules' \in Configurations /\ policy' \in BOOLEAN
    BY <1>12 DEF OperatorEdit, Configurations
  <2>2. edits' \in 0 .. OperatorEdits
    BY <1>12, ConstantsAssumption DEF OperatorEdit
  <2>3. QED
    BY <1>12, <2>1, <2>2 DEF OperatorEdit, Running
<1>13. CASE UNCHANGED vars
  BY <1>13 DEF vars, bucketVars, historyVars
<1>14. QED
  BY <1>3, <1>4, <1>5, <1>6, <1>7, <1>8, <1>9, <1>10, <1>11, <1>12, <1>13
  DEF Next, ScriptStep

LEMMA InitTyped == Init => TypeOK
BY ConstantsAssumption DEF Init, TypeOK, Locations, Ended

\* The type invariant of the bucket and of every pod.
THEOREM TypeCorrect == Spec => []TypeOK
BY InitTyped, NextTyped, PTL DEF Spec

-----------------------------------------------------------------------------
(* What a pod that no operator disturbed knows of the bucket.              *)

Asserted == {"total", "owned", "sources", "zips", "abort", "put",
             "vTotal", "vSources", "vZips", "vAbort"}
Owning   == {"sources", "zips", "abort", "put"}
Counted  == {"vSources", "vZips", "vAbort"}

\* The bucket is there and private once the pod has asserted it.
KnowsPrivate(p) == pc[p] \in Asserted => exists /\ ~policy

\* Before the put the pod has ruled a foreign rule out: its first count still
\* stands, or another pod has replaced the whole configuration since.
KnowsOwned(p) ==
  /\ pc[p] = "owned" => total[p] = Cardinality(Present) \/ rules[Foreign] = "absent"
  /\ pc[p] \in Owning => rules[Foreign] = "absent"

\* What the pod has read back still holds.
KnowsVerified(p) ==
  /\ pc[p] \in Counted => Cardinality(Present) = 3 \/ rules = desired
  /\ pc[p] \in {"vZips", "vAbort"} => rules["expire-sources"] = "right"
  /\ pc[p] = "vAbort" => rules["expire-zips"] = "right"

Knows(p) == KnowsPrivate(p) /\ KnowsOwned(p) /\ KnowsVerified(p)

Inductive == TypeOK /\ \A p \in Pods \ touched : Knows(p)

\* A put satisfies every pod's knowledge of the rules.
LEMMA DesiredSuits ==
  /\ desired[Foreign] = "absent"
  /\ \A i \in Ours : desired[i] = "right"
BY DEF desired, Ids, Ours, Foreign

\* A pod's knowledge survives a step that leaves it where it is and either
\* leaves the bucket as it is, or creates it, or writes the desired rules.
LEMMA KnowledgeSurvives ==
  ASSUME NEW p \in Pods, Knows(p), pc'[p] = pc[p], total'[p] = total[p],
         exists => exists', policy' = policy, rules' = rules \/ rules' = desired
  PROVE  Knows(p)'
<1>1. KnowsPrivate(p)'
  BY DEF Knows, KnowsPrivate
<1>2. CASE rules' = rules
  <2>1. Present' = Present
    BY <1>2 DEF Present
  <2>2. QED
    BY <1>1, <1>2, <2>1 DEF Knows, KnowsOwned, KnowsVerified
<1>3. CASE rules' = desired
  <2>1. desired' = desired
    BY DEF desired
  <2>2. QED
    BY <1>1, <1>3, <2>1, DesiredSuits DEF Knows, KnowsOwned, KnowsVerified, Ours
<1>4. QED
  BY <1>2, <1>3

\* A pod's own step moves its knowledge along with it.
LEMMA OwnStep ==
  ASSUME TypeOK, NEW p \in Pods, Knows(p), ScriptStep(p) \/ CallFails(p) \/ StartPod(p)
  PROVE  Knows(p)'
<1> USE DEF TypeOK, Knows, KnowsPrivate, KnowsOwned, KnowsVerified, Asserted,
            Owning, Counted
<1>1. \A location : Goto(p, location) => pc'[p] = location
  BY DEF Goto
<1>2. CASE StartPod(p) \/ HeadBucket(p) \/ CreateBucket(p)
  <2>1. pc'[p] \in {"head", "policy", "make", "failed"}
    BY <1>1, <1>2 DEF StartPod, HeadBucket, CreateBucket
  <2>2. CASE pc'[p] # "policy"
    BY <2>1, <2>2
  <2>3. CASE pc'[p] = "policy"
    BY <2>3
  <2>4. QED
    BY <2>2, <2>3
<1>3. CASE AssertNoPolicy(p)
  <2>1. pc'[p] = "failed" \/ (pc'[p] = "total" /\ exists' /\ ~policy')
    BY <1>1, <1>3 DEF AssertNoPolicy, bucketVars
  <2>2. QED
    BY <2>1
<1>4. CASE ReadTotal(p)
  <2>1. UNCHANGED bucketVars /\ pc[p] = "total" /\ Present' = Present
    BY <1>4 DEF ReadTotal, bucketVars, Present
  <2>2. pc'[p] = "owned" \/ (pc'[p] = "put" /\ Present = {})
    BY <1>1, <1>4 DEF ReadTotal
  <2>3. total'[p] = Cardinality(Present)
    BY <1>4 DEF ReadTotal
  <2>4. Present = {} => rules[Foreign] = "absent"
    BY DEF Present, Ids
  <2>5. QED
    BY <2>1, <2>2, <2>3, <2>4 DEF bucketVars
<1>5. CASE ReadOwned(p)
  <2>1. UNCHANGED bucketVars /\ pc[p] = "owned"
    BY <1>5 DEF ReadOwned
  <2>2. \/ pc'[p] = "failed"
        \/ pc'[p] \in {"sources", "put"} /\ Cardinality(Present \cap Ours) = total[p]
    BY <1>1, <1>5 DEF ReadOwned
  <2>3. pc'[p] # "failed" => rules[Foreign] = "absent"
    BY <2>1, <2>2, AllOwned
  <2>4. QED
    BY <2>1, <2>2, <2>3 DEF bucketVars
<1>6. CASE CheckConfigured(p)
  <2>1. UNCHANGED bucketVars /\ pc[p] \in {"sources", "zips", "abort"}
    BY <1>6 DEF CheckConfigured, CheckRule
  <2>2. pc'[p] \in {"zips", "abort", "put", "vTotal"}
    BY <1>1, <1>6 DEF CheckConfigured, CheckRule
  <2>3. QED
    BY <2>1, <2>2 DEF bucketVars
<1>7. CASE PutLifecycle(p)
  <2>1. pc'[p] = "vTotal" /\ pc[p] = "put" /\ exists' = exists /\ policy' = policy
    BY <1>1, <1>7 DEF PutLifecycle
  <2>2. QED
    BY <2>1
<1>8. CASE VerifyTotal(p)
  <2>1. UNCHANGED bucketVars /\ pc[p] = "vTotal" /\ Present' = Present
    BY <1>8 DEF VerifyTotal, bucketVars, Present
  <2>2. pc'[p] = "failed" \/ (pc'[p] = "vSources" /\ Cardinality(Present) = 3)
    BY <1>1, <1>8 DEF VerifyTotal
  <2>3. QED
    BY <2>1, <2>2 DEF bucketVars
<1>9. CASE VerifyRules(p)
  <2>1. UNCHANGED bucketVars /\ Present' = Present /\ desired' = desired
    BY <1>9 DEF VerifyRules, CheckRule, bucketVars, Present, desired
  <2>2. \/ pc'[p] \in {"failed", "ok"}
        \/ pc[p] = "vSources" /\ pc'[p] = "vZips" /\ rules["expire-sources"] = "right"
        \/ pc[p] = "vZips" /\ pc'[p] = "vAbort" /\ rules["expire-zips"] = "right"
    BY <1>1, <1>9 DEF VerifyRules, CheckRule
  <2>3. CASE pc'[p] \in {"failed", "ok"}
    BY <2>3
  <2>4. CASE pc[p] = "vSources" /\ pc'[p] = "vZips" /\ rules["expire-sources"] = "right"
    BY <2>1, <2>4 DEF bucketVars
  <2>5. CASE pc[p] = "vZips" /\ pc'[p] = "vAbort" /\ rules["expire-zips"] = "right"
    BY <2>1, <2>5 DEF bucketVars
  <2>6. QED
    BY <2>2, <2>3, <2>4, <2>5
<1>10. CASE CallFails(p)
  <2>1. UNCHANGED bucketVars
    BY <1>10 DEF CallFails
  <2>2. pc'[p] = "failed" \/ (pc'[p] = "put" /\ pc[p] \in {"sources", "zips", "abort"})
    BY <1>1, <1>10 DEF CallFails
  <2>3. QED
    BY <2>1, <2>2 DEF bucketVars
<1>11. QED
  BY <1>2, <1>3, <1>4, <1>5, <1>6, <1>7, <1>8, <1>9, <1>10 DEF ScriptStep

LEMMA NextInductive ==
  ASSUME Inductive, [Next]_vars
  PROVE  Inductive'
<1>1. TypeOK'
  BY NextTyped DEF Inductive
<1>2. ASSUME NEW p \in Pods \ touched' PROVE Knows(p)'
  <2>1. p \in Pods \ touched
    BY <1>2 DEF Next, StartPod, ScriptStep, HeadBucket, CreateBucket,
         AssertNoPolicy, ReadTotal, ReadOwned, CheckConfigured, CheckRule,
         PutLifecycle, VerifyTotal, VerifyRules, CallFails, JobEnds,
         OperatorEdit, historyVars, vars
  <2>2. Knows(p)
    BY <2>1 DEF Inductive
  <2>3. CASE ScriptStep(p) \/ CallFails(p) \/ StartPod(p)
    BY <2>1, <2>2, <2>3, OwnStep DEF Inductive
  <2>4. ASSUME NEW q \in Pods, q # p, StartPod(q) \/ ScriptStep(q) \/ CallFails(q)
        PROVE  Knows(p)'
    <3>1. pc'[p] = pc[p] /\ total'[p] = total[p]
      BY <2>4 DEF StartPod, ScriptStep, HeadBucket, CreateBucket, AssertNoPolicy,
           ReadTotal, ReadOwned, CheckConfigured, CheckRule, PutLifecycle,
           VerifyTotal, VerifyRules, CallFails, Goto, Inductive, TypeOK
    <3>2. /\ exists => exists'
          /\ policy' = policy
          /\ rules' = rules \/ rules' = desired
      BY <2>4 DEF StartPod, ScriptStep, HeadBucket, CreateBucket, AssertNoPolicy,
           ReadTotal, ReadOwned, CheckConfigured, CheckRule, PutLifecycle,
           VerifyTotal, VerifyRules, CallFails, bucketVars
    <3>3. QED
      BY <2>1, <2>2, <3>1, <3>2, KnowledgeSurvives
  <2>5. CASE JobEnds \/ UNCHANGED vars
    BY <2>1, <2>2, <2>5, KnowledgeSurvives DEF JobEnds, vars, bucketVars
  \* The operator's edit touches every pod that is running.
  <2>6. CASE OperatorEdit
    <3>1. pc'[p] = pc[p] /\ pc[p] \in Ended
      BY <1>2, <2>6 DEF OperatorEdit, Running
    <3>2. QED
      BY <3>1 DEF Ended, Knows, KnowsPrivate, KnowsOwned, KnowsVerified,
                  Asserted, Owning, Counted
  <2>7. QED
    BY <2>3, <2>4, <2>5, <2>6 DEF Next
<1>3. QED
  BY <1>1, <1>2 DEF Inductive

LEMMA InitInductive == Init => Inductive
<1> SUFFICES ASSUME Init PROVE Inductive
  OBVIOUS
<1>1. TypeOK
  BY InitTyped
<1>2. \A p \in Pods : pc[p] = "waiting"
  BY DEF Init
<1>3. QED
  BY <1>1, <1>2 DEF Inductive, Knows, KnowsPrivate, KnowsOwned, KnowsVerified,
                    Asserted, Owning, Counted

\* No put of an undisturbed pod deletes a rule the script does not own.
THEOREM ForeignRulesKept == Spec => ForeignRulesSurvive
<1>1. Inductive => \A p \in Pods \ touched : PutLifecycle(p) => rules[Foreign] = "absent"
  BY DEF Inductive, Knows, KnowsOwned, Owning, PutLifecycle
<1>2. QED
  BY <1>1, InitInductive, NextInductive, PTL DEF Spec, ForeignRulesSurvive

\* The success of an undisturbed pod means a private bucket with exactly the
\* three retention rules, from every bucket it may have found.
THEOREM SuccessIsRetention == Spec => SuccessMeansRetention
<1>1. ASSUME Inductive, Next, NEW p \in Pods \ touched, pc[p] # "ok", pc'[p] = "ok"
      PROVE  exists' /\ ~policy' /\ rules' = desired
  <2>1. /\ pc[p] = "vAbort" /\ rules["abort-incomplete-uploads"] = "right"
        /\ UNCHANGED bucketVars
    BY <1>1 DEF Next, StartPod, ScriptStep, HeadBucket, CreateBucket,
         AssertNoPolicy, ReadTotal, ReadOwned, CheckConfigured, CheckRule,
         PutLifecycle, VerifyTotal, VerifyRules, CallFails, JobEnds,
         OperatorEdit, Goto, Inductive, TypeOK
  <2>2. /\ exists /\ ~policy /\ (Cardinality(Present) = 3 \/ rules = desired)
        /\ rules["expire-sources"] = "right" /\ rules["expire-zips"] = "right"
    BY <1>1, <2>1 DEF Inductive, Knows, KnowsPrivate, KnowsVerified, Asserted, Counted
  <2>3. \A i \in Ours : rules[i] = "right"
    BY <2>1, <2>2 DEF Ours
  <2>4. rules = desired
    <3>1. CASE Cardinality(Present) = 3
      <4>1. Ours \subseteq Present
        BY <2>3 DEF Present, Ids
      <4>2. rules[Foreign] = "absent"
        BY <3>1, <4>1, ThreeOwned
      <4>3. rules \in [Ids -> {"absent", "right", "wrong"}]
        BY <1>1 DEF Inductive, TypeOK, Configurations
      <4>4. \A i \in Ids : rules[i] = desired[i]
        BY <2>3, <4>2, DesiredSuits DEF Ids
      <4>5. QED
        BY <4>3, <4>4 DEF desired
    <3>2. QED
      BY <2>2, <3>1
  <2>5. QED
    BY <2>1, <2>2, <2>4 DEF bucketVars
<1>2. Inductive /\ [Next]_vars =>
        [\A p \in Pods \ touched : pc[p] # "ok" /\ pc'[p] = "ok" =>
           exists' /\ ~policy' /\ rules' = desired]_vars
  BY <1>1
<1>3. QED
  BY <1>2, InitInductive, NextInductive, PTL DEF Spec, SuccessMeansRetention

-----------------------------------------------------------------------------
(* A pod that ran alone, whose reads were answered and whose bucket no       *)
(* operator edited, writes only what was not right.                          *)

\* No pod runs beside it, its count stands, and it puts for a reason.
RunsAlone(p) ==
  /\ p \in Running => Running = {p}
  /\ pc[p] = "owned" => total[p] = Cardinality(Present)
  /\ pc[p] = "put" => rules # desired

Undisturbed == Pods \ (touched \cup misread \cup joined)
AloneInductive == TypeOK /\ \A p \in Undisturbed : RunsAlone(p)

\* A right configuration has exactly the three rules.
LEMMA DesiredIsThree ==
  rules = desired => Present = Ours /\ Cardinality(Present) = 3
<1>1. ASSUME rules = desired PROVE Present = Ours
  BY <1>1 DEF Present, desired, Ids, Ours, Foreign
<1>2. QED
  BY <1>1, IdsFinite

\* What the pod's own step does to its reason to put.
LEMMA AloneStep ==
  ASSUME TypeOK, NEW p \in Pods, RunsAlone(p), p \notin misread',
         ScriptStep(p) \/ CallFails(p)
  PROVE  /\ pc'[p] = "owned" => total'[p] = Cardinality(Present)'
         /\ pc'[p] = "put" => rules' # desired'
<1> USE DEF TypeOK, RunsAlone
<1>1. \A location : Goto(p, location) => pc'[p] = location
  BY DEF Goto
<1>2. CASE \/ HeadBucket(p) \/ CreateBucket(p) \/ AssertNoPolicy(p) \/ PutLifecycle(p)
            \/ VerifyTotal(p) \/ VerifyRules(p)
  <2>1. pc'[p] \notin {"owned", "put"}
    BY <1>1, <1>2 DEF HeadBucket, CreateBucket, AssertNoPolicy, PutLifecycle,
         VerifyTotal, VerifyRules, CheckRule
  <2>2. QED
    BY <2>1
<1>3. CASE ReadTotal(p)
  <2>1. rules' = rules /\ Present' = Present /\ desired' = desired
    BY <1>3 DEF ReadTotal, bucketVars, Present, desired
  <2>2. total'[p] = Cardinality(Present)
    BY <1>3 DEF ReadTotal
  <2>3. pc'[p] = "put" => Present = {}
    BY <1>1, <1>3 DEF ReadTotal
  <2>4. Present = {} => rules # desired
    BY DesiredIsThree, IdsFinite DEF Ours
  <2>5. QED
    BY <2>1, <2>2, <2>3, <2>4
<1>4. CASE ReadOwned(p)
  <2>1. rules' = rules /\ desired' = desired /\ pc'[p] # "owned"
    BY <1>1, <1>4 DEF ReadOwned, bucketVars, desired
  <2>2. pc'[p] = "put" => total[p] = Cardinality(Present) /\ total[p] # 3
    BY <1>1, <1>4 DEF ReadOwned
  <2>3. QED
    BY <2>1, <2>2, DesiredIsThree
<1>5. CASE CheckConfigured(p)
  <2>1. rules' = rules /\ desired' = desired /\ pc'[p] # "owned"
    BY <1>1, <1>5 DEF CheckConfigured, CheckRule, bucketVars, desired
  <2>2. pc'[p] = "put" => \E id \in Ours : rules[id] # "right"
    BY <1>1, <1>5 DEF CheckConfigured, CheckRule, Ours
  <2>3. QED
    BY <2>1, <2>2, DesiredSuits
<1>6. CASE CallFails(p)
  <2>1. pc'[p] # "owned" /\ (pc'[p] = "put" => pc[p] \in Reads)
    BY <1>1, <1>6 DEF CallFails, Reads
  <2>2. pc[p] \in Reads => p \in misread'
    BY <1>6 DEF CallFails
  <2>3. QED
    BY <2>1, <2>2
<1>7. QED
  BY <1>2, <1>3, <1>4, <1>5, <1>6 DEF ScriptStep

\* Who is running changes with a pod's own step alone.
LEMMA OthersRun ==
  ASSUME TypeOK, NEW q \in Pods, StartPod(q) \/ ScriptStep(q) \/ CallFails(q)
  PROVE  /\ \A p \in Pods : p # q => pc'[p] = pc[p] /\ total'[p] = total[p]
         /\ Running' \subseteq Running \cup {q}
         /\ ~StartPod(q) => q \in Running
<1>1. \A p \in Pods : p # q => pc'[p] = pc[p] /\ total'[p] = total[p]
  BY DEF StartPod, ScriptStep, HeadBucket, CreateBucket, AssertNoPolicy,
       ReadTotal, ReadOwned, CheckConfigured, CheckRule, PutLifecycle,
       VerifyTotal, VerifyRules, CallFails, Goto, TypeOK
<1>2. ~StartPod(q) => pc[q] \notin Ended
  BY DEF ScriptStep, HeadBucket, CreateBucket, AssertNoPolicy,
       ReadTotal, ReadOwned, CheckConfigured, CheckRule, PutLifecycle,
       VerifyTotal, VerifyRules, CallFails, Ended, Reads
<1>3. QED
  BY <1>1, <1>2 DEF Running

LEMMA NextAlone ==
  ASSUME AloneInductive, [Next]_vars
  PROVE  AloneInductive'
<1>1. TypeOK'
  BY NextTyped DEF AloneInductive
<1>2. ASSUME NEW p \in Undisturbed' PROVE RunsAlone(p)'
  <2>1. p \in Pods /\ p \in Undisturbed
    BY <1>2 DEF Undisturbed, Next, StartPod, ScriptStep, HeadBucket, CreateBucket,
         AssertNoPolicy, ReadTotal, ReadOwned, CheckConfigured, CheckRule,
         PutLifecycle, VerifyTotal, VerifyRules, CallFails, JobEnds,
         OperatorEdit, historyVars, vars
  <2>2. RunsAlone(p) /\ TypeOK
    BY <2>1 DEF AloneInductive
  <2>3. p \notin joined' /\ p \notin misread' /\ p \notin touched'
    BY <1>2 DEF Undisturbed
  <2>4. CASE ScriptStep(p) \/ CallFails(p)
    <3>1. Running = {p} \/ StartPod(p)
      BY <2>1, <2>2, <2>4, OthersRun DEF RunsAlone
    <3>2. Running' \subseteq {p}
      <4>1. pc[p] # "waiting"
        BY <2>4 DEF ScriptStep, HeadBucket, CreateBucket, AssertNoPolicy,
             ReadTotal, ReadOwned, CheckConfigured, CheckRule, PutLifecycle,
             VerifyTotal, VerifyRules, CallFails, Reads
      <4>2. QED
        BY <2>1, <2>2, <2>4, <3>1, <4>1, OthersRun DEF StartPod
    <3>3. QED
      BY <2>1, <2>2, <2>3, <2>4, <3>2, AloneStep DEF RunsAlone
  <2>5. CASE StartPod(p)
    <3>1. pc'[p] = "head"
      BY <2>1, <2>2, <2>5 DEF StartPod, Goto, TypeOK
    <3>2. Running = {}
      BY <2>3, <2>5 DEF StartPod
    <3>3. QED
      BY <2>1, <2>2, <2>5, <3>1, <3>2, OthersRun DEF RunsAlone
  <2>6. ASSUME NEW q \in Pods, q # p, StartPod(q) \/ ScriptStep(q) \/ CallFails(q)
        PROVE  RunsAlone(p)'
    <3>1. pc'[p] = pc[p]
      BY <2>1, <2>2, <2>6, OthersRun
    <3>2. p \notin Running
      <4>1. CASE StartPod(q)
        BY <2>3, <4>1 DEF StartPod
      <4>2. CASE ~StartPod(q)
        BY <2>1, <2>2, <2>6, <4>2, OthersRun DEF RunsAlone
      <4>3. QED
        BY <4>1, <4>2
    <3>3. QED
      BY <2>1, <3>1, <3>2 DEF RunsAlone, Running, Ended
  <2>7. CASE JobEnds \/ UNCHANGED vars
    BY <2>1, <2>2, <2>7 DEF JobEnds, vars, bucketVars, RunsAlone, Running, Present, desired
  \* The operator's edit touches every pod that is running.
  <2>8. CASE OperatorEdit
    BY <2>1, <2>3, <2>8 DEF OperatorEdit, RunsAlone, Running, Ended
  <2>9. QED
    BY <2>4, <2>5, <2>6, <2>7, <2>8 DEF Next
<1>3. QED
  BY <1>1, <1>2 DEF AloneInductive

\* A repeated run of the bootstrap leaves a right configuration as it is: a pod
\* that ran alone and got its answers puts only what differs.
THEOREM RerunWritesOnlyDifferences == Spec => RerunWritesNothing
<1>1. Init => AloneInductive
  <2> SUFFICES ASSUME Init PROVE AloneInductive
    OBVIOUS
  <2>1. \A p \in Pods : pc[p] = "waiting"
    BY DEF Init
  <2>2. QED
    BY <2>1, InitTyped DEF AloneInductive, Undisturbed, RunsAlone, Running, Ended
<1>2. AloneInductive =>
        \A p \in Pods \ (touched \cup misread \cup joined) : PutLifecycle(p) => rules # desired
  BY DEF AloneInductive, Undisturbed, RunsAlone, PutLifecycle
<1>3. QED
  BY <1>1, <1>2, NextAlone, PTL DEF Spec, RerunWritesNothing

-----------------------------------------------------------------------------
(* The scenarios that decide whether a copy of the script may be trusted,  *)
(* with any number of defects, of checks, of failing calls and of          *)
(* interruptions.                                                          *)

-----------------------------------------------------------------------------
(* The scenarios, and what the bootstrap under test makes of a bucket.     *)

\* A rule's states, a bucket that can be, and what a bootstrap comes to.
RuleStates == {"absent", "right"} \cup Aspects
BucketStates == [exists : BOOLEAN, policy : BOOLEAN, rules : [RuleIds -> RuleStates]]
Outcomes == [exit : {0, 1}, says : {"exists", "policy", "foreign", "configured", "already"},
             left : BucketStates]

\* Scenarios 5 to 11 plant one rule that is wrong in one aspect.
PlantedRule == [i \in 5 .. 11 |-> IF i \in 5 .. 8 THEN "abort-incomplete-uploads" ELSE "expire-zips"]
PlantedAspect == [i \in 5 .. 11 |->
  IF i \in {5, 10} THEN "disabled" ELSE IF i = 6 THEN "days" ELSE IF i \in {7, 11} THEN "narrowed" ELSE "extra"]
AspectOf(i) == <<Kind(PlantedRule[i]), PlantedAspect[i]>>
Planted(i) ==
  IF i = 3 THEN S5_RULES ELSE IF i = 4 THEN WithOperatorRule
  ELSE withRule(PlantedRule[i], PlantedAspect[i])

LEMMA ScenarioShape ==
  /\ Len(SCENARIOS) = 12 /\ Numbers = 1 .. 12
  /\ SCENARIOS[1] = Scenario(<<>>, 0, "", FALSE, TRUE)
  /\ SCENARIOS[2] = Scenario(<<bootstrapOnce>>, 0, "already", TRUE, TRUE)
  /\ SCENARIOS[4] = Scenario(<<create, lifecycle(Planted(4))>>, 1, "foreign", TRUE, FALSE)
  /\ \A i \in (3 .. 11) \ {4} : SCENARIOS[i] = Repairs(Planted(i))
  /\ SCENARIOS[12] = Scenario(<<create, openPolicy>>, 1, "policy", FALSE, FALSE)
<1>1. Len(SCENARIOS) = 12 /\ Numbers = 1 .. 12
  BY DEF SCENARIOS, Numbers
<1>2. /\ SCENARIOS[1] = Scenario(<<>>, 0, "", FALSE, TRUE)
      /\ SCENARIOS[2] = Scenario(<<bootstrapOnce>>, 0, "already", TRUE, TRUE)
      /\ SCENARIOS[12] = Scenario(<<create, openPolicy>>, 1, "policy", FALSE, FALSE)
  BY DEF SCENARIOS
<1>3. SCENARIOS[4] = Scenario(<<create, lifecycle(Planted(4))>>, 1, "foreign", TRUE, FALSE)
  BY DEF SCENARIOS, Planted
<1>4. /\ SCENARIOS[3] = Repairs(S5_RULES)
      /\ SCENARIOS[5] = Abort("disabled") /\ SCENARIOS[6] = Abort("days")
      /\ SCENARIOS[7] = Abort("narrowed") /\ SCENARIOS[8] = Abort("extra")
      /\ SCENARIOS[9] = Expire("extra") /\ SCENARIOS[10] = Expire("disabled")
      /\ SCENARIOS[11] = Expire("narrowed")
  BY DEF SCENARIOS
<1>5. ASSUME NEW i \in (3 .. 11) \ {4}
      PROVE  SCENARIOS[i] = Repairs(Planted(i))
  <2>1. i \in {3, 5, 6, 7, 8, 9, 10, 11}
    OBVIOUS
  <2>2. QED
    BY <1>4, <2>1 DEF Abort, Expire, Planted, PlantedRule, PlantedAspect
<1>6. QED
  BY <1>1, <1>2, <1>3, <1>5

LEMMA TwelveScenarios == Len(SCENARIOS) = 12 /\ Numbers = 1 .. 12
BY ScenarioShape

LEMMA RulesTyped ==
  /\ RulesAbsent \in [RuleIds -> RuleStates] /\ OWNED_RULES \in [RuleIds -> RuleStates]
  /\ S5_RULES \in [RuleIds -> RuleStates] /\ WithOperatorRule \in [RuleIds -> RuleStates]
  /\ \A id, aspect : aspect \in RuleStates => withRule(id, aspect) \in [RuleIds -> RuleStates]
BY DEF RulesAbsent, OWNED_RULES, S5_RULES, WithOperatorRule, withRule, RuleStates, RuleIds, Owned, Operator

\* What the planted rule is: one of ours, in a state that is not right.
LEMMA PlantedIsWrong ==
  ASSUME NEW i \in 5 .. 11
  PROVE  /\ PlantedRule[i] \in Owned /\ PlantedAspect[i] \in Aspects
         /\ Planted(i) = withRule(PlantedRule[i], PlantedAspect[i])
BY DEF PlantedRule, PlantedAspect, Planted, Owned, Aspects

LEMMA PlantedTyped ==
  ASSUME NEW i \in 3 .. 11
  PROVE  Planted(i) \in [RuleIds -> RuleStates]
<1>1. CASE i \in {3, 4}
  BY <1>1, RulesTyped DEF Planted
<1>2. CASE i \in 5 .. 11
  BY <1>2, RulesTyped, PlantedIsWrong DEF RuleStates
<1>3. QED
  BY <1>1, <1>2

\* The steps before a run, and what is expected of it.
LEMMA Preparations ==
  /\ SCENARIOS[1].prepare = <<>>
  /\ SCENARIOS[2].prepare = <<bootstrapOnce>>
  /\ \A i \in 3 .. 11 : SCENARIOS[i].prepare = <<create, lifecycle(Planted(i))>>
  /\ SCENARIOS[12].prepare = <<create, openPolicy>>
<1>1. ASSUME NEW i \in 3 .. 11
      PROVE  SCENARIOS[i].prepare = <<create, lifecycle(Planted(i))>>
  <2>1. PICK s : s = SCENARIOS[i]
    OBVIOUS
  <2>2. s.prepare = <<create, lifecycle(Planted(i))>>
    <3>1. CASE i = 4
      <4>1. s = Scenario(<<create, lifecycle(Planted(i))>>, 1, "foreign", TRUE, FALSE)
        BY <2>1, <3>1, ScenarioShape
      <4>2. QED
        BY <4>1 DEF Scenario
    <3>2. CASE i # 4
      <4>1. s = Repairs(Planted(i))
        BY <2>1, <3>2, ScenarioShape
      <4>2. QED
        BY <4>1 DEF Scenario, Repairs
    <3>3. QED
      BY <3>1, <3>2
  <2>3. QED
    BY <2>1, <2>2
<1>2. /\ SCENARIOS[1].prepare = <<>>
      /\ SCENARIOS[2].prepare = <<bootstrapOnce>>
      /\ SCENARIOS[12].prepare = <<create, openPolicy>>
  BY DEF SCENARIOS, Scenario
<1>3. QED
  BY <1>1, <1>2

LEMMA Steps ==
  /\ create.do = "create" /\ openPolicy.do = "policy" /\ bootstrapOnce.do = "bootstrap"
  /\ \A found : lifecycle(found).do = "lifecycle" /\ lifecycle(found).rules = found
BY DEF create, openPolicy, bootstrapOnce, lifecycle, Step

LEMMA Expectations ==
  /\ \A i \in {1} \cup ((3 .. 11) \ {4}) :
       /\ SCENARIOS[i].exit = 0 /\ SCENARIOS[i].says = ""
       /\ SCENARIOS[i].unchanged = FALSE /\ SCENARIOS[i].rules = TRUE
  /\ SCENARIOS[2].exit = 0 /\ SCENARIOS[2].says = "already" /\ SCENARIOS[2].rules = TRUE
  /\ SCENARIOS[4].exit = 1 /\ SCENARIOS[4].says = "foreign" /\ SCENARIOS[4].rules = FALSE
  /\ SCENARIOS[12].exit = 1 /\ SCENARIOS[12].says = "policy"
  /\ SCENARIOS[12].unchanged = FALSE /\ SCENARIOS[12].rules = FALSE
<1>1. ASSUME NEW i \in (3 .. 11) \ {4}
      PROVE  /\ SCENARIOS[i].exit = 0 /\ SCENARIOS[i].says = ""
             /\ SCENARIOS[i].unchanged = FALSE /\ SCENARIOS[i].rules = TRUE
  <2>1. PICK s : s = SCENARIOS[i]
    OBVIOUS
  <2>2. s = Repairs(Planted(i))
    BY <2>1, ScenarioShape
  <2>3. s.exit = 0 /\ s.says = "" /\ s.unchanged = FALSE /\ s.rules = TRUE
    BY <2>2 DEF Repairs, Scenario
  <2>4. QED
    BY <2>1, <2>3
<1>2. /\ SCENARIOS[1].exit = 0 /\ SCENARIOS[1].says = ""
      /\ SCENARIOS[1].unchanged = FALSE /\ SCENARIOS[1].rules = TRUE
  BY DEF SCENARIOS, Scenario
<1>3. SCENARIOS[2].exit = 0 /\ SCENARIOS[2].says = "already" /\ SCENARIOS[2].rules = TRUE
  BY DEF SCENARIOS, Scenario
<1>4. SCENARIOS[4].exit = 1 /\ SCENARIOS[4].says = "foreign" /\ SCENARIOS[4].rules = FALSE
  BY DEF SCENARIOS, Scenario
<1>5. /\ SCENARIOS[12].exit = 1 /\ SCENARIOS[12].says = "policy"
      /\ SCENARIOS[12].unchanged = FALSE /\ SCENARIOS[12].rules = FALSE
  BY DEF SCENARIOS, Scenario
<1>6. QED
  BY <1>1, <1>2, <1>3, <1>4, <1>5

LEMMA WritesTyped ==
  ASSUME NEW u
  PROVE  /\ Writes(u) \in [RuleIds -> RuleStates]
         /\ <<"no rule", "abort">> \notin u => Writes(u) = OWNED_RULES /\ Mine(u) = Owned
         /\ <<"no rule", "abort">> \in u => Writes(u) # OWNED_RULES
<1>1. <<"no rule", "abort">> \notin u => Mine(u) = Owned
  BY DEF Writes, Mine, OWNED_RULES, Owned, RuleIds, Operator
<1>2. S5_RULES # OWNED_RULES
  <2>1. S5_RULES["abort-incomplete-uploads"] # OWNED_RULES["abort-incomplete-uploads"]
    BY DEF S5_RULES, OWNED_RULES, Owned, RuleIds
  <2>2. QED
    BY <2>1
<1>3. QED
  BY <1>1, <1>2, RulesTyped DEF Writes

\* What a run comes to, defect by defect.
LEMMA Runs ==
  ASSUME NEW u, NEW b \in BucketStates, NEW r, r = Bootstrap(u, b)
  PROVE  /\ r \in Outcomes
         /\ r.left.exists = TRUE
         /\ r.left.rules \in {b.rules, Writes(u)}
         /\ r.says = "policy" => r.exit = 1 /\ <<"no refusal", "policy">> \notin u
         /\ r.says = "foreign" => r.exit = 1 /\ <<"no refusal", "foreign">> \notin u
         /\ r.says = "already" => r.exit = 0 /\ <<"rewrite", "announced">> \notin u
         /\ r.says \in {"configured", "already"} => r.exit = 0 /\ (b.exists = TRUE => <<"once", "only">> \notin u)
<1> DEFINE made == [b EXCEPT !.exists = TRUE]
           written == [made EXCEPT !.rules = Writes(u)]
           once == b.exists /\ <<"once", "only">> \in u
           policies == b.policy /\ <<"no refusal", "policy">> \notin u
           foreigns == ~(RulesOf(b) \subseteq Mine(u)) /\ <<"no refusal", "foreign">> \notin u
           Yields(exit, says, left) == r = [exit |-> exit, says |-> says, left |-> left]
<1>1. /\ b.exists \in BOOLEAN /\ b.policy \in BOOLEAN /\ b.rules \in [RuleIds -> RuleStates]
      /\ b = [exists |-> b.exists, policy |-> b.policy, rules |-> b.rules]
  BY DEF BucketStates
<1>2. /\ made \in BucketStates /\ made.exists = TRUE /\ made.policy = b.policy /\ made.rules = b.rules
      /\ written \in BucketStates /\ written.exists = TRUE /\ written.policy = b.policy
      /\ written.rules = Writes(u)
  BY <1>1, WritesTyped DEF BucketStates
<1>3. once => Yields(1, "exists", b)
  BY DEF Bootstrap
<1>4. ~once /\ policies => Yields(1, "policy", made)
  BY DEF Bootstrap
<1>5. ~once /\ ~policies /\ foreigns => Yields(1, "foreign", made)
  BY DEF Bootstrap
<1>6. ~once /\ ~policies /\ ~foreigns =>
        \/ Yields(0, "configured", written)
        \/ <<"rewrite", "announced">> \notin u /\ Yields(0, "already", written)
        \/ <<"rewrite", "announced">> \notin u /\ Yields(0, "already", made)
  BY DEF Bootstrap
<1>7. ASSUME NEW exit \in {0, 1}, NEW says \in {"exists", "policy", "foreign", "configured", "already"},
             NEW left \in BucketStates, Yields(exit, says, left)
      PROVE  r \in Outcomes /\ r.exit = exit /\ r.says = says /\ r.left = left
  BY <1>7 DEF Outcomes
<1>8. policies => <<"no refusal", "policy">> \notin u
  OBVIOUS
<1>9. foreigns => <<"no refusal", "foreign">> \notin u
  OBVIOUS
<1>10. IF once THEN b.exists = TRUE ELSE b.exists = TRUE => <<"once", "only">> \notin u
  OBVIOUS
<1> HIDE DEF made, written, once, policies, foreigns, Yields
<1>11. CASE once
  BY <1>1, <1>3, <1>7, <1>10, <1>11
<1>12. CASE ~once /\ policies
  BY <1>2, <1>4, <1>7, <1>8, <1>12
<1>13. CASE ~once /\ ~policies /\ foreigns
  BY <1>2, <1>5, <1>7, <1>9, <1>13
<1>14. CASE ~once /\ ~policies /\ ~foreigns
  BY <1>2, <1>6, <1>7, <1>10, <1>14
<1>15. QED
  BY <1>11, <1>12, <1>13, <1>14

LEMMA KeepsPolicy ==
  ASSUME NEW u, NEW b \in BucketStates, NEW r, r = Bootstrap(u, b)
  PROVE  r.left.policy = b.policy
<1> DEFINE made == [b EXCEPT !.exists = TRUE]
           written == [made EXCEPT !.rules = Writes(u)]
<1>1. made.policy = b.policy /\ written.policy = b.policy
  BY WritesTyped DEF BucketStates
<1>2. r.left = b \/ r.left = made \/ r.left = written
  BY DEF Bootstrap
<1> HIDE DEF made, written
<1>3. QED
  BY <1>1, <1>2

\* A run that comes to this.
Ends(r, exit, says, left) == r = [exit |-> exit, says |-> says, left |-> left]

LEMMA EndsFields ==
  ASSUME NEW r, NEW exit, NEW says, NEW left, Ends(r, exit, says, left)
  PROVE  r.exit = exit /\ r.says = says /\ r.left = left
BY DEF Ends

\* How a bootstrap that starts refuses a bucket, and what it makes of one it accepts.
LEMMA Refuses ==
  ASSUME NEW u, NEW b \in BucketStates, NEW r, r = Bootstrap(u, b),
         b.exists = TRUE => <<"once", "only">> \notin u
  PROVE  /\ b.policy = TRUE /\ <<"no refusal", "policy">> \notin u =>
              r.exit = 1 /\ r.says = "policy" /\ r.left.rules = b.rules
         /\ b.policy = FALSE /\ ~(RulesOf(b) \subseteq Mine(u)) /\ <<"no refusal", "foreign">> \notin u =>
              r.exit = 1 /\ r.says = "foreign" /\ r.left.rules = b.rules
<1> DEFINE made == [b EXCEPT !.exists = TRUE]
<1>1. made.rules = b.rules
  BY DEF BucketStates
<1>2. b.policy = TRUE /\ <<"no refusal", "policy">> \notin u => Ends(r, 1, "policy", made)
  BY DEF Bootstrap, Ends
<1>3. b.policy = FALSE /\ ~(RulesOf(b) \subseteq Mine(u)) /\ <<"no refusal", "foreign">> \notin u =>
        Ends(r, 1, "foreign", made)
  BY DEF Bootstrap, Ends
<1> HIDE DEF made
<1>4. b.policy = TRUE /\ <<"no refusal", "policy">> \notin u =>
        r.exit = 1 /\ r.says = "policy" /\ r.left.rules = b.rules
  BY <1>1, <1>2, EndsFields
<1>5. b.policy = FALSE /\ ~(RulesOf(b) \subseteq Mine(u)) /\ <<"no refusal", "foreign">> \notin u =>
        r.exit = 1 /\ r.says = "foreign" /\ r.left.rules = b.rules
  BY <1>1, <1>3, EndsFields
<1>6. QED
  BY <1>4, <1>5

LEMMA Accepts ==
  ASSUME NEW u, NEW b \in BucketStates, NEW r, r = Bootstrap(u, b),
         b.exists = TRUE => <<"once", "only">> \notin u,
         b.policy = FALSE \/ <<"no refusal", "policy">> \in u,
         RulesOf(b) \subseteq Mine(u) \/ <<"no refusal", "foreign">> \in u
  PROVE  /\ r.exit = 0
         /\ ~Configured(u, b) \/ <<"rewrite", "announced">> \in u =>
              r.says = "configured" /\ r.left.rules = Writes(u)
         /\ Configured(u, b) /\ <<"rewrite", "announced">> \notin u => r.says = "already"
         /\ <<"rewrite", "silent">> \in u => r.left.rules = Writes(u)
         /\ Configured(u, b) /\ <<"rewrite", "announced">> \notin u /\ <<"rewrite", "silent">> \notin u =>
              r.left.rules = b.rules
<1> DEFINE made == [b EXCEPT !.exists = TRUE]
           written == [made EXCEPT !.rules = Writes(u)]
<1>1. /\ made \in BucketStates /\ made.rules = b.rules
      /\ written \in BucketStates /\ written.rules = Writes(u)
  BY WritesTyped DEF BucketStates
<1>2. ~Configured(u, b) \/ <<"rewrite", "announced">> \in u => Ends(r, 0, "configured", written)
  BY DEF Bootstrap, Ends
<1>3. Configured(u, b) /\ <<"rewrite", "announced">> \notin u =>
        /\ <<"rewrite", "silent">> \in u => Ends(r, 0, "already", written)
        /\ <<"rewrite", "silent">> \notin u => Ends(r, 0, "already", made)
  BY DEF Bootstrap, Ends
<1> HIDE DEF made, written
<1>4. CASE ~Configured(u, b) \/ <<"rewrite", "announced">> \in u
  BY <1>1, <1>2, EndsFields, <1>4
<1>5. CASE Configured(u, b) /\ <<"rewrite", "announced">> \notin u /\ <<"rewrite", "silent">> \in u
  BY <1>1, <1>3, EndsFields, <1>5
<1>6. CASE Configured(u, b) /\ <<"rewrite", "announced">> \notin u /\ <<"rewrite", "silent">> \notin u
  BY <1>1, <1>3, EndsFields, <1>6
<1>7. QED
  BY <1>4, <1>5, <1>6

LEMMA SameBucket ==
  ASSUME NEW a \in BucketStates, NEW b \in BucketStates,
         a.exists = b.exists, a.policy = b.policy, a.rules = b.rules
  PROVE  a = b
BY DEF BucketStates

\* A configuration that every comparison of the committed bootstrap finds right.
LEMMA SoundConfigured ==
  ASSUME NEW b \in BucketStates
  PROVE  Configured({}, b) <=> b.rules = OWNED_RULES
<1>1. Mine({}) = Owned
  BY WritesTyped
<1>2. Owned \subseteq RuleIds /\ \A id \in Owned : OWNED_RULES[id] = "right"
  BY DEF Owned, RuleIds, OWNED_RULES
<1>3. \A id \in RuleIds : id \notin Owned => OWNED_RULES[id] = "absent"
  BY DEF OWNED_RULES
<1>4. ASSUME Configured({}, b)
      PROVE  b.rules = OWNED_RULES
  <2>1. ASSUME NEW id \in RuleIds
        PROVE  b.rules[id] = OWNED_RULES[id]
    BY <1>1, <1>2, <1>3, <1>4 DEF Configured, Counts, RulesOf
  <2>2. QED
    BY <2>1, RulesTyped DEF BucketStates
<1>5. ASSUME b.rules = OWNED_RULES
      PROVE  Configured({}, b)
  BY <1>1, <1>2, <1>3, <1>5 DEF Configured, Counts, RulesOf
<1>6. QED
  BY <1>4, <1>5

-----------------------------------------------------------------------------
(* What the scenarios say of the bootstrap under test.                     *)

\* Defects that scenarios 1 and 2 rule out by themselves, and the one that
\* repairs what another defect overlooks.
Sober == {<<"no rule", "abort">>, <<"once", "only">>, <<"rewrite", "announced">>}
Silent == <<"rewrite", "silent">>

\* What a scenario rules out when it passes.
Survived(u, i) ==
  /\ i = 1 => <<"no rule", "abort">> \notin u
  /\ i = 2 => <<"once", "only">> \notin u /\ <<"rewrite", "announced">> \notin u
  /\ i = 4 => <<"no refusal", "foreign">> \notin u
  /\ i \in 5 .. 11 /\ AspectOf(i) \in u /\ u \cap Sober = {} => Silent \in u
  /\ i = 12 => <<"no refusal", "policy">> \notin u

\* A bucket that may be there in scenario i, though calls may have failed and
\* an earlier check may have left it behind; one the bootstrap may be run on.
Kept(u, i, b) ==
  /\ b.exists = FALSE => b = Gone
  /\ i # 12 => b.policy = FALSE
  /\ i \in {1, 2} => b.rules \in {RulesAbsent, Writes(u)}
Ready(i, b) ==
  /\ i # 1 => b.exists = TRUE
  /\ i \in 3 .. 11 => b.rules = Planted(i)

\* The part of checkScenario that does not look at the configuration before.
Convincing(i, exit, says, found) ==
  /\ exit = SCENARIOS[i].exit
  /\ SCENARIOS[i].says # "" => says = SCENARIOS[i].says
  /\ SCENARIOS[i].rules => found = OWNED_RULES

\* A bootstrap that overlooks the planted aspect leaves it where it is, unless
\* it rewrites without a word.
LEMMA OverlookedStays ==
  ASSUME NEW u, NEW b \in BucketStates, NEW r, r = Bootstrap(u, b),
         NEW i \in 5 .. 11, AspectOf(i) \in u, u \cap Sober = {}, Silent \notin u,
         b.policy = FALSE, b.rules = Planted(i)
  PROVE  r.left.rules # OWNED_RULES
<1>1. /\ <<"no rule", "abort">> \notin u /\ <<"once", "only">> \notin u
      /\ <<"rewrite", "announced">> \notin u /\ <<"rewrite", "silent">> \notin u
  BY DEF Sober, Silent
<1>2. Mine(u) = Owned
  BY <1>1, WritesTyped
<1> DEFINE id == PlantedRule[i]
           aspect == PlantedAspect[i]
<1>3. /\ id \in Owned /\ aspect \in Aspects /\ b.rules = withRule(id, aspect)
      /\ <<Kind(id), aspect>> \in u
  BY PlantedIsWrong DEF AspectOf
<1> HIDE DEF id, aspect
<1>4. /\ Owned \subseteq RuleIds /\ aspect \notin {"absent", "right"}
      /\ \A j \in Owned : OWNED_RULES[j] = "right"
      /\ \A j \in RuleIds \ Owned : OWNED_RULES[j] = "absent"
      /\ OWNED_RULES \in [RuleIds -> RuleStates]
  BY <1>3, RulesTyped DEF Owned, RuleIds, OWNED_RULES, Aspects
<1>5. \A j \in RuleIds : b.rules[j] = IF j = id THEN aspect ELSE OWNED_RULES[j]
  BY <1>3, <1>4 DEF withRule
<1>6. RulesOf(b) = Owned
  BY <1>3, <1>4, <1>5 DEF RulesOf
<1>7. Configured(u, b)
  BY <1>2, <1>3, <1>4, <1>5, <1>6 DEF Configured, Counts
<1>8. r.left.rules = b.rules
  BY <1>1, <1>2, <1>6, <1>7, Accepts
<1>9. b.rules[id] # OWNED_RULES[id]
  BY <1>3, <1>4, <1>5
<1>10. QED
  BY <1>8, <1>9

\* A run that convinces its scenario rules out what the scenario is about.
LEMMA ConvincingSurvives ==
  ASSUME NEW u, NEW i \in Numbers, NEW b \in BucketStates, NEW r, r = Bootstrap(u, b),
         Kept(u, i, b), Ready(i, b), Convincing(i, r.exit, r.says, r.left.rules)
  PROVE  Survived(u, i)
<1>1. /\ r.left.rules \in {b.rules, Writes(u)}
      /\ r.says = "policy" => <<"no refusal", "policy">> \notin u
      /\ r.says = "foreign" => <<"no refusal", "foreign">> \notin u
      /\ r.says = "already" => <<"rewrite", "announced">> \notin u
      /\ r.says = "already" => (b.exists = TRUE => <<"once", "only">> \notin u)
  BY Runs
<1>2. i \in 1 .. 12
  BY ScenarioShape
<1>3. i \in {1, 2} \cup ((3 .. 11) \ {4}) => r.left.rules = OWNED_RULES
  BY Expectations DEF Convincing
<1>4. CASE i = 1
  <2>1. <<"no rule", "abort">> \in u => Writes(u) # OWNED_RULES
    BY WritesTyped
  <2>2. RulesAbsent # OWNED_RULES
    <3>1. "expire-zips" \in RuleIds /\ RulesAbsent["expire-zips"] # OWNED_RULES["expire-zips"]
      BY DEF RulesAbsent, OWNED_RULES, RuleIds, Owned
    <3>2. QED
      BY <3>1
  <2>3. r.left.rules \in {RulesAbsent, Writes(u)} /\ r.left.rules = OWNED_RULES
    BY <1>1, <1>3, <1>4 DEF Kept
  <2>4. <<"no rule", "abort">> \notin u
    BY <2>1, <2>2, <2>3
  <2>5. i # 2 /\ i # 4 /\ i \notin 5 .. 11 /\ i # 12
    BY <1>4
  <2>6. QED
    BY <2>4, <2>5 DEF Survived
<1>5. CASE i = 2
  <2>1. r.says = "already"
    BY <1>5, Expectations DEF Convincing
  <2>2. QED
    BY <1>1, <1>5, <2>1 DEF Ready, Survived
<1>6. CASE i = 3
  BY <1>6 DEF Survived
<1>7. CASE i = 4
  <2>1. r.says = "foreign"
    BY <1>7, Expectations DEF Convincing
  <2>2. i # 1 /\ i # 2 /\ i \notin 5 .. 11 /\ i # 12
    BY <1>7
  <2>3. <<"no refusal", "foreign">> \notin u
    BY <1>1, <2>1
  <2>4. QED
    BY <2>2, <2>3 DEF Survived
<1>8. CASE i \in 5 .. 11
  <2>1. r.left.rules = OWNED_RULES /\ b.policy = FALSE /\ b.rules = Planted(i)
    BY <1>3, <1>8 DEF Kept, Ready
  <2>2. AspectOf(i) \in u /\ u \cap Sober = {} => Silent \in u
    BY <1>8, <2>1, OverlookedStays
  <2>3. i # 1 /\ i # 2 /\ i # 4 /\ i # 12
    BY <1>8
  <2>4. QED
    BY <2>2, <2>3 DEF Survived
<1>9. CASE i = 12
  <2>1. r.says = "policy"
    BY <1>9, Expectations DEF Convincing
  <2>2. i # 1 /\ i # 2 /\ i # 4 /\ i \notin 5 .. 11
    BY <1>9
  <2>3. <<"no refusal", "policy">> \notin u
    BY <1>1, <2>1
  <2>4. QED
    BY <2>2, <2>3 DEF Survived
<1>10. QED
  BY <1>2, <1>4, <1>5, <1>6, <1>7, <1>8, <1>9

\* A run that is cut short convinces no scenario.
LEMMA CutIsNotConvincing ==
  ASSUME NEW i \in Numbers, NEW found
  PROVE  ~Convincing(i, 1, "", found)
<1>1. i \in 1 .. 12
  BY ScenarioShape
<1>2. i \in {1} \cup ((3 .. 11) \ {4}) \/ i = 2 \/ i = 4 \/ i = 12
  BY <1>1
<1>3. QED
  BY <1>2, Expectations DEF Convincing

-----------------------------------------------------------------------------
(* A bootstrap that survives every scenario does as the committed one.     *)

LEMMA FindableTyped ==
  ASSUME NEW b \in Findable
  PROVE  /\ b \in BucketStates
         /\ \A id \in Owned : b.rules[id] = "days" => id = "abort-incomplete-uploads"
<1>1. CASE b = Gone
  BY <1>1, RulesTyped DEF Gone, BucketStates, RulesAbsent, RuleIds
<1>2. CASE b # Gone
  <2>1. PICK open \in BOOLEAN, s \in ExpireStates, z \in ExpireStates,
             a \in {"absent", "right"} \cup Aspects, o \in {"absent", "right"} :
               b = [exists |-> TRUE, policy |-> open, rules |-> [OWNED_RULES EXCEPT
                     !["expire-sources"] = s, !["expire-zips"] = z,
                     !["abort-incomplete-uploads"] = a, ![Operator] = o]]
    BY <1>2 DEF Findable
  <2> DEFINE found == [OWNED_RULES EXCEPT
                     !["expire-sources"] = s, !["expire-zips"] = z,
                     !["abort-incomplete-uploads"] = a, ![Operator] = o]
  <2>2. /\ found \in [RuleIds -> RuleStates]
        /\ found["expire-sources"] = s /\ found["expire-zips"] = z
    BY RulesTyped DEF RuleStates, ExpireStates, RuleIds, Owned, Operator
  <2>3. b = [exists |-> TRUE, policy |-> open, rules |-> found]
    BY <2>1
  <2> HIDE DEF found
  <2>4. b \in BucketStates /\ b.rules = found
    BY <2>2, <2>3 DEF BucketStates
  <2>5. QED
    BY <2>2, <2>4 DEF ExpireStates, Owned
<1>3. QED
  BY <1>1, <1>2

\* The scenarios name every aspect of every rule but the days of an expiry rule.
LEMMA EveryAspect ==
  ASSUME NEW id \in Owned, NEW aspect \in Aspects,
         aspect = "days" => id = "abort-incomplete-uploads"
  PROVE  \E i \in 5 .. 11 : AspectOf(i) = <<Kind(id), aspect>>
<1>1. /\ AspectOf(5) = <<"abort", "disabled">> /\ AspectOf(6) = <<"abort", "days">>
      /\ AspectOf(7) = <<"abort", "narrowed">> /\ AspectOf(8) = <<"abort", "extra">>
      /\ AspectOf(9) = <<"expire", "extra">> /\ AspectOf(10) = <<"expire", "disabled">>
      /\ AspectOf(11) = <<"expire", "narrowed">>
  BY DEF AspectOf, PlantedRule, PlantedAspect, Kind
<1>2. /\ 5 \in 5 .. 11 /\ 6 \in 5 .. 11 /\ 7 \in 5 .. 11 /\ 8 \in 5 .. 11
      /\ 9 \in 5 .. 11 /\ 10 \in 5 .. 11 /\ 11 \in 5 .. 11
  OBVIOUS
<1>3. CASE id = "abort-incomplete-uploads"
  <2>1. Kind(id) = "abort"
    BY <1>3 DEF Kind
  <2>2. QED
    BY <1>1, <1>2, <2>1 DEF Aspects
<1>4. CASE id # "abort-incomplete-uploads"
  <2>1. Kind(id) = "expire"
    BY <1>4 DEF Kind
  <2>2. QED
    BY <1>1, <1>2, <1>4, <2>1 DEF Aspects
<1>5. QED
  BY <1>3, <1>4

LEMMA SurvivorAgrees ==
  ASSUME NEW u, NEW b \in Findable, \A i \in 1 .. 12 : Survived(u, i)
  PROVE  /\ Bootstrap(u, b).exit = Bootstrap({}, b).exit
         /\ Bootstrap(u, b).left = Bootstrap({}, b).left
<1>1. PICK r : r = Bootstrap(u, b)
  OBVIOUS
<1>2. PICK q : q = Bootstrap({}, b)
  OBVIOUS
<1>3. b \in BucketStates
  BY FindableTyped
<1>4. Survived(u, 1) /\ Survived(u, 2) /\ Survived(u, 4) /\ Survived(u, 12)
  OBVIOUS
<1>5. /\ <<"no rule", "abort">> \notin u /\ <<"once", "only">> \notin u
      /\ <<"rewrite", "announced">> \notin u
      /\ <<"no refusal", "foreign">> \notin u /\ <<"no refusal", "policy">> \notin u
  BY <1>4 DEF Survived
<1>6. Writes(u) = OWNED_RULES /\ Writes({}) = OWNED_RULES /\ Mine(u) = Mine({})
  BY <1>5, WritesTyped
<1>7. /\ r.left \in BucketStates /\ q.left \in BucketStates
      /\ r.left.exists = q.left.exists /\ r.left.policy = q.left.policy
  <2>1. r \in Outcomes /\ r.left.exists = TRUE
    BY <1>1, <1>3, Runs
  <2>2. q \in Outcomes /\ q.left.exists = TRUE
    BY <1>2, <1>3, Runs
  <2>3. r.left.policy = b.policy
    BY <1>1, <1>3, KeepsPolicy
  <2>4. q.left.policy = b.policy
    BY <1>2, <1>3, KeepsPolicy
  <2>5. QED
    BY <2>1, <2>2, <2>3, <2>4 DEF Outcomes
<1>8. r.exit = q.exit /\ r.left.rules = q.left.rules
  <2>1. CASE b.policy = TRUE
    <3>1. r.exit = 1 /\ r.left.rules = b.rules
      BY <1>1, <1>3, <1>5, <2>1, Refuses
    <3>2. q.exit = 1 /\ q.left.rules = b.rules
      <4>1. PICK none : none = {}
        OBVIOUS
      <4>2. q = Bootstrap(none, b) /\ <<"no refusal", "policy">> \notin none /\ <<"once", "only">> \notin none
        BY <1>2, <4>1
      <4>3. QED
        BY <1>3, <2>1, <4>2, Refuses
    <3>3. QED
      BY <3>1, <3>2
  <2>2. CASE b.policy = FALSE /\ ~(RulesOf(b) \subseteq Mine({}))
    <3>1. r.exit = 1 /\ r.left.rules = b.rules
      BY <1>1, <1>3, <1>5, <1>6, <2>2, Refuses
    <3>2. q.exit = 1 /\ q.left.rules = b.rules
      BY <1>2, <1>3, <2>2, Refuses
    <3>3. QED
      BY <3>1, <3>2
  <2>3. CASE b.policy = FALSE /\ RulesOf(b) \subseteq Mine({})
    <3>1. r.exit = 0 /\ q.exit = 0
      BY <1>1, <1>2, <1>3, <1>5, <1>6, <2>3, Accepts
    <3>2. q.left.rules = OWNED_RULES
      <4>1. CASE Configured({}, b)
        BY <1>2, <1>3, <2>3, <4>1, Accepts, SoundConfigured
      <4>2. CASE ~Configured({}, b)
        BY <1>2, <1>3, <1>6, <2>3, <4>2, Accepts
      <4>3. QED
        BY <4>1, <4>2
    <3>3. CASE Silent \in u
      BY <1>1, <1>3, <1>5, <1>6, <2>3, <3>1, <3>2, <3>3, Accepts DEF Silent
    <3>4. CASE Silent \notin u
      <4>1. ASSUME NEW id \in Owned, NEW aspect \in Aspects,
                   aspect = "days" => id = "abort-incomplete-uploads",
                   <<Kind(id), aspect>> \in u
            PROVE  FALSE
        <5>1. PICK i \in 5 .. 11 : AspectOf(i) = <<Kind(id), aspect>>
          BY <4>1, EveryAspect
        <5>2. Survived(u, i)
          OBVIOUS
        <5>3. u \cap Sober = {}
          BY <1>5 DEF Sober
        <5>4. QED
          BY <3>4, <4>1, <5>1, <5>2, <5>3 DEF Survived
      <4>2. Configured(u, b) => Configured({}, b)
        <5>1. SUFFICES ASSUME Configured(u, b) PROVE Configured({}, b)
          OBVIOUS
        <5>2. RulesOf(b) = Owned /\ Mine({}) = Owned
          BY <1>6, <5>1, WritesTyped DEF Configured
        <5>3. ASSUME NEW id \in Owned
              PROVE  b.rules[id] = "right"
          <6>1. b.rules[id] = "right" \/ <<Kind(id), b.rules[id]>> \in u
            BY <1>6, <5>1, <5>2 DEF Configured, Counts
          <6>2. id \in RuleIds /\ b.rules[id] \in RuleStates /\ b.rules[id] # "absent"
            BY <1>3, <5>2 DEF RulesOf, BucketStates
          <6>3. b.rules[id] = "right" \/ b.rules[id] \in Aspects
            BY <6>2 DEF RuleStates
          <6>4. b.rules[id] = "days" => id = "abort-incomplete-uploads"
            BY FindableTyped
          <6>5. QED
            BY <4>1, <6>1, <6>3, <6>4
        <5>4. QED
          BY <5>2, <5>3 DEF Configured, Counts
      <4>3. r.left.rules = OWNED_RULES
        <5>1. CASE Configured(u, b)
          BY <1>1, <1>3, <1>5, <1>6, <2>3, <3>4, <4>2, <5>1, Accepts, SoundConfigured DEF Silent
        <5>2. CASE ~Configured(u, b)
          BY <1>1, <1>3, <1>5, <1>6, <2>3, <5>2, Accepts
        <5>3. QED
          BY <5>1, <5>2
      <4>4. QED
        BY <3>1, <3>2, <4>3
    <3>5. QED
      BY <3>3, <3>4
  <2>4. b.policy \in BOOLEAN
    BY <1>3 DEF BucketStates
  <2>5. QED
    BY <2>1, <2>2, <2>3, <2>4
<1>9. r.left = q.left
  BY <1>7, <1>8, SameBucket
<1>10. QED
  BY <1>1, <1>2, <1>8, <1>9

-----------------------------------------------------------------------------
(* The committed bootstrap, when no call fails.                            *)

\* The bucket it finds in scenario i, and what is then observed of it.
Made(i) ==
  IF i = 1 THEN Gone
  ELSE IF i = 2 THEN [Fresh EXCEPT !.rules = OWNED_RULES]
  ELSE IF i = 12 THEN [Fresh EXCEPT !.policy = TRUE]
  ELSE [Fresh EXCEPT !.rules = Planted(i)]
Observed(i) ==
  LET run == Bootstrap({}, Made(i))
  IN [exit |-> run.exit, says |-> run.says, before |-> Made(i).rules, after |-> run.left.rules]

LEMMA BucketFields ==
  ASSUME NEW e \in BOOLEAN, NEW p \in BOOLEAN, NEW f \in [RuleIds -> RuleStates],
         NEW b, b = [exists |-> e, policy |-> p, rules |-> f]
  PROVE  b \in BucketStates /\ b.exists = e /\ b.policy = p /\ b.rules = f
BY DEF BucketStates

LEMMA MadeFields ==
  ASSUME NEW i \in Numbers, NEW b, b = Made(i)
  PROVE  /\ b \in BucketStates
         /\ i # 1 => b.exists = TRUE
         /\ IF i = 12 THEN b.policy = TRUE ELSE b.policy = FALSE
         /\ b.rules = IF i \in {1, 12} THEN RulesAbsent ELSE IF i = 2 THEN OWNED_RULES ELSE Planted(i)
<1>1. i \in 1 .. 12
  BY ScenarioShape
<1>2. i \notin {1, 2, 12} => Planted(i) \in [RuleIds -> RuleStates]
  BY <1>1, PlantedTyped
<1>3. PICK e \in BOOLEAN : IF i = 1 THEN e = FALSE ELSE e = TRUE
  OBVIOUS
<1>4. PICK p \in BOOLEAN : IF i = 12 THEN p = TRUE ELSE p = FALSE
  OBVIOUS
<1>5. PICK f \in [RuleIds -> RuleStates] :
        f = IF i \in {1, 12} THEN RulesAbsent ELSE IF i = 2 THEN OWNED_RULES ELSE Planted(i)
  BY <1>2, RulesTyped
<1>6. b = [exists |-> e, policy |-> p, rules |-> f]
  <2>1. CASE i = 1
    <3>1. e = FALSE /\ p = FALSE /\ f = RulesAbsent /\ b = Gone
      BY <1>3, <1>4, <1>5, <2>1 DEF Made
    <3>2. QED
      BY <3>1 DEF Gone
  <2>2. CASE i # 1
    <3>1. e = TRUE /\ Fresh = [exists |-> TRUE, policy |-> FALSE, rules |-> RulesAbsent]
      <4>1. e = TRUE
        BY <1>3, <2>2
      <4>2. Fresh = [exists |-> TRUE, policy |-> FALSE, rules |-> RulesAbsent]
        <5>1. Gone = [exists |-> FALSE, policy |-> FALSE, rules |-> RulesAbsent]
          BY DEF Gone
        <5>2. Fresh = [Gone EXCEPT !.exists = TRUE]
          BY DEF Fresh
        <5>3. QED
          BY <5>1, <5>2
      <4>3. QED
        BY <4>1, <4>2
    <3>2. CASE i = 12
      <4>1. p = TRUE /\ f = RulesAbsent /\ b = [Fresh EXCEPT !.policy = TRUE]
        BY <1>4, <1>5, <3>2 DEF Made
      <4>2. QED
        BY <3>1, <4>1
    <3>3. CASE i # 12
      <4>1. p = FALSE /\ b = [Fresh EXCEPT !.rules = f]
        BY <1>4, <1>5, <2>2, <3>3 DEF Made
      <4>2. QED
        BY <3>1, <4>1
    <3>4. QED
      BY <3>2, <3>3
  <2>3. QED
    BY <2>1, <2>2
<1>7. b \in BucketStates /\ b.exists = e /\ b.policy = p /\ b.rules = f
  BY <1>6, BucketFields
<1>8. QED
  BY <1>3, <1>4, <1>5, <1>7

\* What a configuration holds, rule by rule.
LEMMA Holds ==
  /\ {id \in RuleIds : RulesAbsent[id] # "absent"} = {}
  /\ {id \in RuleIds : OWNED_RULES[id] # "absent"} = Owned
  /\ \A i \in 3 .. 11 : i # 4 => {id \in RuleIds : Planted(i)[id] # "absent"} \subseteq Owned
  /\ Operator \in {id \in RuleIds : Planted(4)[id] # "absent"} /\ Operator \notin Owned
<1>1. {id \in RuleIds : RulesAbsent[id] # "absent"} = {}
  BY DEF RulesAbsent
<1>2. {id \in RuleIds : OWNED_RULES[id] # "absent"} = Owned
  BY DEF OWNED_RULES, RuleIds
<1>3. {id \in RuleIds : Planted(3)[id] # "absent"} \subseteq Owned
  BY DEF Planted, S5_RULES, OWNED_RULES, RuleIds
<1>4. ASSUME NEW i \in 5 .. 11
      PROVE  {id \in RuleIds : Planted(i)[id] # "absent"} \subseteq Owned
  BY PlantedIsWrong DEF withRule, OWNED_RULES, RuleIds
<1>5. Operator \in {id \in RuleIds : Planted(4)[id] # "absent"} /\ Operator \notin Owned
  BY DEF Planted, WithOperatorRule, OWNED_RULES, RuleIds, Operator, Owned
<1>6. QED
  BY <1>1, <1>2, <1>3, <1>4, <1>5

\* The committed bootstrap accepts, refuses and repairs as the scenarios expect.
LEMMA SoundRuns ==
  ASSUME NEW i \in Numbers
  PROVE  \A r : r = Bootstrap({}, Made(i)) =>
           /\ r.exit = IF i \in {4, 12} THEN 1 ELSE 0
           /\ i = 2 => r.says = "already"
           /\ i = 4 => r.says = "foreign"
           /\ i = 12 => r.says = "policy"
           /\ r.left.rules = IF i = 12 THEN RulesAbsent ELSE IF i = 4 THEN Planted(4) ELSE OWNED_RULES
<1>1. PICK b : b = Made(i)
  OBVIOUS
<1>2. PICK u : u = {}
  OBVIOUS
<1>3. SUFFICES ASSUME NEW r, r = Bootstrap(u, b)
      PROVE  /\ r.exit = IF i \in {4, 12} THEN 1 ELSE 0
             /\ i = 2 => r.says = "already"
             /\ i = 4 => r.says = "foreign"
             /\ i = 12 => r.says = "policy"
             /\ r.left.rules = IF i = 12 THEN RulesAbsent ELSE IF i = 4 THEN Planted(4) ELSE OWNED_RULES
  BY <1>1, <1>2
<1>4. b \in BucketStates
  BY <1>1, MadeFields
<1>5. i = 12 => b.policy = TRUE /\ b.rules = RulesAbsent
  BY <1>1, MadeFields
<1>6. i # 12 => b.policy = FALSE
  BY <1>1, MadeFields
<1>7. b.rules = IF i \in {1, 12} THEN RulesAbsent ELSE IF i = 2 THEN OWNED_RULES ELSE Planted(i)
  BY <1>1, MadeFields
<1>8. /\ <<"once", "only">> \notin u /\ <<"rewrite", "announced">> \notin u
      /\ <<"rewrite", "silent">> \notin u /\ <<"no refusal", "policy">> \notin u
      /\ <<"no refusal", "foreign">> \notin u
  BY <1>2
<1>9. Mine(u) = Owned /\ Writes(u) = OWNED_RULES
  BY <1>2, WritesTyped
<1>10. Configured(u, b) <=> b.rules = OWNED_RULES
  BY <1>2, <1>4, SoundConfigured
<1>11. i \in 1 .. 12
  BY ScenarioShape
<1>12. CASE i = 12
  <2>1. b.policy = TRUE
    BY <1>5, <1>12
  <2>2. r.exit = 1 /\ r.says = "policy" /\ r.left.rules = b.rules
    BY <1>3, <1>4, <1>8, <2>1, Refuses
  <2>3. QED
    BY <1>5, <1>12, <2>2
<1>13. CASE i = 4
  <2>1. b.policy = FALSE
    BY <1>6, <1>13
  <2>2. b.rules = Planted(4)
    BY <1>7, <1>13
  <2>3. ~(RulesOf(b) \subseteq Mine(u))
    BY <1>9, <2>2, Holds DEF RulesOf
  <2>4. r.exit = 1 /\ r.says = "foreign" /\ r.left.rules = b.rules
    BY <1>3, <1>4, <1>8, <2>1, <2>3, Refuses
  <2>5. QED
    BY <1>13, <2>2, <2>4
<1>14. CASE i \notin {4, 12}
  <2>1. b.policy = FALSE
    BY <1>6, <1>14
  <2>2. RulesOf(b) \subseteq Mine(u)
    <3>1. CASE i \in {1, 2}
      BY <1>7, <1>9, <3>1, Holds DEF RulesOf
    <3>2. CASE i \notin {1, 2}
      <4>1. b.rules = Planted(i) /\ i \in 3 .. 11 /\ i # 4
        BY <1>7, <1>11, <1>14, <3>2
      <4>2. QED
        BY <1>9, <4>1, Holds DEF RulesOf
    <3>3. QED
      BY <3>1, <3>2
  <2>3. r.exit = 0
    BY <1>3, <1>4, <1>8, <2>1, <2>2, Accepts
  <2>4. r.left.rules = OWNED_RULES
    <3>1. CASE Configured(u, b)
      BY <1>3, <1>4, <1>8, <1>10, <2>1, <2>2, <3>1, Accepts
    <3>2. CASE ~Configured(u, b)
      BY <1>3, <1>4, <1>8, <1>9, <2>1, <2>2, <3>2, Accepts
    <3>3. QED
      BY <3>1, <3>2
  <2>5. i = 2 => r.says = "already"
    <3>1. i = 2 => Configured(u, b)
      BY <1>7, <1>10
    <3>2. QED
      BY <1>3, <1>4, <1>8, <2>1, <2>2, <3>1, Accepts
  <2>6. QED
    BY <1>14, <2>3, <2>4, <2>5
<1>15. QED
  BY <1>11, <1>12, <1>13, <1>14

LEMMA Observations ==
  ASSUME NEW exit \in {0, 1}, NEW says \in {"exists", "policy", "foreign", "configured", "already"},
         NEW f \in [RuleIds -> RuleStates], NEW g \in [RuleIds -> RuleStates]
  PROVE  [exit |-> exit, says |-> says, before |-> f, after |-> g] \in Observation
BY DEF Observation, RuleStates

LEMMA ObservedFields ==
  ASSUME NEW i \in Numbers, NEW o, o = Observed(i), NEW r, r = Bootstrap({}, Made(i))
  PROVE  /\ o \in Observation
         /\ o.exit = r.exit /\ o.says = r.says /\ o.after = r.left.rules
         /\ o.before = Made(i).rules
<1>1. PICK b : b = Made(i)
  OBVIOUS
<1>2. b \in BucketStates
  BY <1>1, MadeFields
<1>3. r = Bootstrap({}, b)
  BY <1>1
<1>4. r \in Outcomes
  BY <1>2, <1>3, Runs
<1>5. o = [exit |-> r.exit, says |-> r.says, before |-> b.rules, after |-> r.left.rules]
  BY <1>1 DEF Observed
<1>6. o \in Observation /\ o.exit = r.exit /\ o.says = r.says /\ o.before = b.rules /\ o.after = r.left.rules
  <2>1. /\ r.exit \in {0, 1} /\ r.says \in {"exists", "policy", "foreign", "configured", "already"}
        /\ r.left.rules \in [RuleIds -> RuleStates] /\ b.rules \in [RuleIds -> RuleStates]
    BY <1>2, <1>4 DEF Outcomes, BucketStates
  <2>2. o \in Observation
    BY <1>5, <2>1, Observations
  <2>3. o.exit = r.exit /\ o.says = r.says /\ o.before = b.rules /\ o.after = r.left.rules
    BY <1>5
  <2>4. QED
    BY <2>2, <2>3
<1>7. QED
  BY <1>1, <1>6

LEMMA SoundPasses ==
  ASSUME NEW i \in Numbers, NEW o, o = Observed(i)
  PROVE  checkScenario(SCENARIOS[i], o)
<1>1. PICK r : r = Bootstrap({}, Made(i))
  OBVIOUS
<1>2. PICK b : b = Made(i)
  OBVIOUS
<1>3. /\ r.exit = IF i \in {4, 12} THEN 1 ELSE 0
      /\ i = 2 => r.says = "already"
      /\ i = 4 => r.says = "foreign"
      /\ i = 12 => r.says = "policy"
      /\ r.left.rules = IF i = 12 THEN RulesAbsent ELSE IF i = 4 THEN Planted(4) ELSE OWNED_RULES
  BY <1>1, SoundRuns
<1>4. b.rules = IF i \in {1, 12} THEN RulesAbsent ELSE IF i = 2 THEN OWNED_RULES ELSE Planted(i)
  BY <1>2, MadeFields
<1>5. o.exit = r.exit /\ o.says = r.says /\ o.after = r.left.rules /\ o.before = b.rules
  BY <1>1, <1>2, ObservedFields
<1>6. i \in 1 .. 12
  BY ScenarioShape
<1>7. CASE i \in {1} \cup ((3 .. 11) \ {4})
  BY <1>3, <1>5, <1>7, Expectations DEF checkScenario
<1>8. CASE i = 2
  <2>1. o.exit = 0 /\ o.says = "already" /\ o.before = o.after /\ o.after = OWNED_RULES
    BY <1>3, <1>4, <1>5, <1>8
  <2>2. QED
    BY <1>8, <2>1, Expectations DEF checkScenario
<1>9. CASE i = 4
  <2>1. o.exit = 1 /\ o.says = "foreign" /\ o.before = o.after
    BY <1>3, <1>4, <1>5, <1>9
  <2>2. QED
    BY <1>9, <2>1, Expectations DEF checkScenario
<1>10. CASE i = 12
  BY <1>3, <1>5, <1>10, Expectations DEF checkScenario
<1>11. QED
  BY <1>6, <1>7, <1>8, <1>9, <1>10

-----------------------------------------------------------------------------
(* The inductive invariant.                                                *)

Typed ==
  /\ where \in [Checks -> CheckLocations] /\ n \in [Checks -> Numbers] /\ k \in [Checks -> 1 .. 3]
  /\ seen \in [Checks -> Observation]
  /\ wrong \in [Checks -> BOOLEAN] /\ failures \in [Checks -> BOOLEAN]
  /\ hurt \subseteq Checks
  /\ buckets \in [Numbers -> BucketStates]

\* One check at a time; one that has not begun, or has ended, knows nothing.
Alone ==
  /\ \A c, d \in Checks : where[c] \notin CheckEnded /\ where[d] \notin CheckEnded => c = d
  /\ \A c \in Checks : where[c] \in CheckEnded =>
       n[c] = 1 /\ k[c] = 1 /\ wrong[c] = FALSE /\ failures[c] = FALSE

\* Where a check is within scenario i.
PlacedAt(location, i, step, threw) ==
  /\ location = "prepare" => step <= Len(SCENARIOS[i].prepare)
  /\ location = "remove" => step = 1
  /\ location # "clean" => threw = FALSE
  /\ location = "list" => i = 12

\* What a check that has gone on without a failure has ruled out by then; the
\* scenario's bucket is b.
LearnsHere(u, location, i, b, observed, threw) ==
  /\ location \in {"before", "run"} => Ready(i, b)
  /\ location = "after" /\ Convincing(i, observed.exit, observed.says, b.rules) => Survived(u, i)
  /\ location = "clean" /\ threw = FALSE
       /\ Convincing(i, observed.exit, observed.says, observed.after) => Survived(u, i)
LearnsAt(u, location, i, b, observed, threw, failed) ==
  /\ LearnsHere(u, location, i, b, observed, threw)
  /\ failed = FALSE => \A j \in 1 .. (i - 1) : Survived(u, j)
  /\ failed = FALSE /\ location = "list" => Survived(u, i)

\* What a check none of whose calls failed sees of the committed bootstrap.
SeesAt(location, i, step, b, observed, threw, failed) ==
  /\ location # "failed" /\ failed = FALSE /\ threw = FALSE
  /\ location = "list" => b = Gone
  /\ location = "prepare" => b = IF step = 1 THEN Gone ELSE Fresh
  /\ location \in {"before", "run"} => b = Made(i)
  /\ location = "run" => observed.before = Made(i).rules
  /\ location = "after" =>
       /\ b.rules = Observed(i).after /\ observed.exit = Observed(i).exit
       /\ observed.says = Observed(i).says /\ observed.before = Observed(i).before
  /\ location = "clean" => observed = Observed(i)

Placed(c) == PlacedAt(where[c], n[c], k[c], wrong[c])
Learns(c) == LearnsAt(under, where[c], n[c], Bucket(c), seen[c], wrong[c], failures[c])
SeesSound(c) ==
  /\ SeesAt(where[c], n[c], k[c], Bucket(c), seen[c], wrong[c], failures[c])
  /\ where[c] \notin CheckEnded => \A j \in 1 .. (n[c] - 1) : buckets[j] = Gone

IInv ==
  /\ Typed /\ Alone
  /\ \A i \in Numbers : Kept(under, i, buckets[i])
  /\ \A c \in Checks : Placed(c) /\ Learns(c)
  /\ \A c \in Checks : under = {} /\ c \notin hurt => SeesSound(c)

LEMMA TypedImplies ==
  ASSUME IInv
  PROVE  CheckTypeOK
<1>1. Typed /\ \A i \in Numbers : Kept(under, i, buckets[i])
  BY DEF IInv
<1>2. \A c \in Checks : where[c] = "prepare" => k[c] <= Len(SCENARIOS[n[c]].prepare)
  BY DEF IInv, Placed, PlacedAt
<1>3. \A i \in Numbers : buckets[i].exists = FALSE => buckets[i] = Gone
  BY <1>1 DEF Kept
<1>4. \A i \in Numbers : buckets[i].exists \in BOOLEAN
  BY <1>1 DEF Typed, BucketStates
<1>5. \A i \in Numbers : ~buckets[i].exists => buckets[i] = Gone
  BY <1>3, <1>4
<1>6. QED
  BY <1>1, <1>2, <1>5 DEF Typed, CheckTypeOK

\* BOOLEAN by a name of its own, which the provers leave alone.
Flags == BOOLEAN

\* A step of the one running check keeps the invariant when it keeps what the
\* invariant says of that check and of the bucket it is at.
LEMMA Moves ==
  ASSUME IInv, NEW c \in Checks,
         \A d \in Checks : where[d] \notin CheckEnded => d = c,
         under' = under,
         NEW location \in CheckLocations, where' = [where EXCEPT ![c] = location],
         NEW i \in Numbers, n' = [n EXCEPT ![c] = i],
         NEW step \in 1 .. 3, k' = [k EXCEPT ![c] = step],
         NEW observed \in Observation, seen' = [seen EXCEPT ![c] = observed],
         NEW threw \in Flags, wrong' = [wrong EXCEPT ![c] = threw],
         NEW failed \in Flags, failures' = [failures EXCEPT ![c] = failed],
         NEW b \in BucketStates, buckets' = [buckets EXCEPT ![n[c]] = b],
         hurt \subseteq hurt', hurt' \subseteq Checks,
         Kept(under, n[c], b),
         i = n[c] \/ location \in CheckEnded \cup {"remove"},
         location \in CheckEnded => i = 1 /\ step = 1 /\ threw = FALSE /\ failed = FALSE,
         PlacedAt(location, i, step, threw),
         LearnsAt(under, location, i, buckets'[i], observed, threw, failed),
         under = {} /\ c \notin hurt' =>
           /\ SeesAt(location, i, step, buckets'[i], observed, threw, failed)
           /\ location \notin CheckEnded => \A j \in 1 .. (i - 1) : buckets'[j] = Gone
  PROVE  IInv'
<1>1. Typed /\ Alone /\ n[c] \in Numbers
  BY DEF IInv, Typed
<1>2. Typed'
  BY <1>1 DEF Typed, Flags
<1>3. /\ where'[c] = location /\ n'[c] = i /\ k'[c] = step /\ seen'[c] = observed
      /\ wrong'[c] = threw /\ failures'[c] = failed
  BY <1>1 DEF Typed
<1>4. ASSUME NEW d \in Checks, d # c
      PROVE  /\ where'[d] = where[d] /\ n'[d] = n[d] /\ k'[d] = k[d] /\ seen'[d] = seen[d]
             /\ wrong'[d] = wrong[d] /\ failures'[d] = failures[d]
             /\ where[d] \in CheckEnded
  BY <1>1, <1>4 DEF Typed
<1>5. Alone'
  BY <1>1, <1>3, <1>4 DEF Alone
<1>6. ASSUME NEW j \in Numbers
      PROVE  Kept(under, j, buckets[j])'
  <2>1. Kept(under, j, buckets[j])
    BY DEF IInv
  <2>2. buckets'[j] = IF j = n[c] THEN b ELSE buckets[j]
    BY <1>1 DEF Typed
  <2>3. Kept(under, j, buckets'[j])
    BY <2>1, <2>2
  <2>4. QED
    BY <2>3
<1>7. ASSUME NEW d \in Checks
      PROVE  Placed(d)' /\ Learns(d)'
  <2>1. CASE d = c
    <3>1. PlacedAt(where'[c], n'[c], k'[c], wrong'[c])
      BY <1>3
    <3>2. LearnsAt(under', where'[c], n'[c], buckets'[n'[c]], seen'[c], wrong'[c], failures'[c])
      BY <1>3
    <3>3. QED
      BY <2>1, <3>1, <3>2 DEF Placed, Learns, Bucket
  <2>2. CASE d # c
    <3>1. /\ where'[d] \in CheckEnded /\ n'[d] = 1 /\ wrong'[d] = FALSE
      BY <1>1, <1>4, <2>2 DEF Alone
    <3>2. Placed(d)'
      BY <3>1 DEF Placed, PlacedAt, CheckEnded
    <3>3. Learns(d)'
      BY <3>1 DEF Learns, LearnsAt, LearnsHere, CheckEnded
    <3>4. QED
      BY <3>2, <3>3
  <2>3. QED
    BY <2>1, <2>2
<1>8. ASSUME NEW d \in Checks, under' = {}, d \notin hurt'
      PROVE  SeesSound(d)'
  <2>1. CASE d = c
    <3>1. SeesAt(where'[c], n'[c], k'[c], buckets'[n'[c]], seen'[c], wrong'[c], failures'[c])
      BY <1>3, <1>8, <2>1
    <3>2. where'[c] \notin CheckEnded => \A j \in 1 .. (n'[c] - 1) : buckets'[j] = Gone
      BY <1>3, <1>8, <2>1
    <3>3. QED
      BY <2>1, <3>1, <3>2 DEF SeesSound, Bucket
  <2>2. CASE d # c
    <3>1. SeesSound(d)
      BY <1>8 DEF IInv
    <3>2. /\ where'[d] \in CheckEnded /\ where'[d] # "failed"
          /\ wrong'[d] = FALSE /\ failures'[d] = FALSE
      BY <1>1, <1>4, <2>2, <3>1 DEF Alone, SeesSound, SeesAt
    <3>3. QED
      BY <3>2 DEF SeesSound, SeesAt, CheckEnded
  <2>3. QED
    BY <2>1, <2>2
<1>9. QED
  BY <1>2, <1>5, <1>6, <1>7, <1>8 DEF IInv

\* What the invariant says of a running check.
LEMMA Here ==
  ASSUME IInv, NEW c \in Checks
  PROVE  /\ n[c] \in Numbers /\ k[c] \in 1 .. 3 /\ seen[c] \in Observation
         /\ wrong[c] \in BOOLEAN /\ failures[c] \in BOOLEAN /\ Bucket(c) \in BucketStates
         /\ hurt \subseteq Checks
         /\ Kept(under, n[c], Bucket(c))
         /\ PlacedAt(where[c], n[c], k[c], wrong[c])
         /\ LearnsAt(under, where[c], n[c], Bucket(c), seen[c], wrong[c], failures[c])
         /\ under = {} /\ c \notin hurt => SeesSound(c)
         /\ where[c] \notin CheckEnded => \A d \in Checks : where[d] \notin CheckEnded => d = c
BY DEF IInv, Typed, Alone, Placed, Learns, Bucket

LEMMA Unchanged ==
  ASSUME Typed, NEW c \in Checks
  PROVE  /\ k = [k EXCEPT ![c] = k[c]] /\ n = [n EXCEPT ![c] = n[c]]
         /\ seen = [seen EXCEPT ![c] = seen[c]] /\ wrong = [wrong EXCEPT ![c] = wrong[c]]
         /\ failures = [failures EXCEPT ![c] = failures[c]]
         /\ buckets = [buckets EXCEPT ![n[c]] = Bucket(c)]
BY DEF Typed, Bucket

\* A failing call or an interruption is remembered.
LEMMA FailsHurts ==
  ASSUME IInv, NEW c \in Checks, Fails(c)
  PROVE  hurt \subseteq hurt' /\ hurt' \subseteq Checks /\ c \in hurt'
BY Here DEF Fails

LEMMA NothingTyped == Nothing \in Observation
<1>1. RulesAbsent \in [RuleIds -> {"absent", "right"} \cup Aspects]
  BY RulesTyped DEF RuleStates
<1>2. QED
  BY <1>1 DEF Nothing, Observation

LEMMA WithinMoves ==
  ASSUME IInv, NEW c \in Checks, where[c] \notin CheckEnded,
         NEW location \in CheckLocations, location \notin CheckEnded, location # "list", Within(c, location),
         NEW step \in 1 .. 3, k' = [k EXCEPT ![c] = step],
         NEW observed \in Observation, seen' = [seen EXCEPT ![c] = observed],
         NEW threw \in Flags, wrong' = [wrong EXCEPT ![c] = threw],
         NEW b \in BucketStates, buckets' = [buckets EXCEPT ![n[c]] = b],
         hurt \subseteq hurt', hurt' \subseteq Checks,
         Kept(under, n[c], b),
         PlacedAt(location, n[c], step, threw),
         LearnsHere(under, location, n[c], b, observed, threw),
         under = {} /\ c \notin hurt' => \A no : no = FALSE => SeesAt(location, n[c], step, b, observed, threw, no)
  PROVE  IInv'
<1>1. /\ n[c] \in Numbers /\ failures[c] \in BOOLEAN /\ Typed
      /\ \A d \in Checks : where[d] \notin CheckEnded => d = c
  BY Here DEF IInv
<1>i. PICK i \in Numbers : i = n[c]
  BY <1>1
<1>f. PICK failed \in Flags : failed = failures[c]
  BY <1>1 DEF Flags
<1>2. /\ under' = under /\ where' = [where EXCEPT ![c] = location]
      /\ n' = [n EXCEPT ![c] = i] /\ failures' = [failures EXCEPT ![c] = failed]
  BY <1>1, <1>i, <1>f, Unchanged DEF Within, Goes
<1>3. /\ buckets'[n[c]] = b
      /\ \A j \in Numbers : j # n[c] => buckets'[j] = buckets[j]
  BY <1>1 DEF Typed
<1>4. LearnsAt(under, location, i, buckets'[i], observed, threw, failed)
  <2>1. failures[c] = FALSE => \A j \in 1 .. (n[c] - 1) : Survived(under, j)
    BY Here DEF LearnsAt
  <2>2. QED
    BY <1>3, <1>i, <1>f, <2>1 DEF LearnsAt
<1>5. ASSUME under = {}, c \notin hurt'
      PROVE  /\ SeesAt(location, i, step, buckets'[i], observed, threw, failed)
             /\ \A j \in 1 .. (i - 1) : buckets'[j] = Gone
  <2>1. SeesSound(c)
    BY <1>5, Here
  <2>2. failures[c] = FALSE
    BY <2>1 DEF SeesSound, SeesAt
  <2>3. \A j \in 1 .. (n[c] - 1) : j \in Numbers /\ j # n[c] /\ buckets[j] = Gone
    <3>1. \A j \in 1 .. (n[c] - 1) : buckets[j] = Gone
      BY <2>1 DEF SeesSound
    <3>2. n[c] \in 1 .. 12 /\ Numbers = 1 .. 12
      BY <1>1, TwelveScenarios
    <3>3. QED
      BY <3>1, <3>2
  <2>4. QED
    BY <1>3, <1>i, <1>f, <1>5, <2>2, <2>3
<1>7. PlacedAt(location, i, step, threw) /\ Kept(under, n[c], b)
  BY <1>i
<1>8. QED
  BY <1>1, <1>2, <1>4, <1>5, <1>7, <1>i, Moves

LEMMA ExitMoves ==
  ASSUME IInv, NEW c \in Checks, where[c] \notin CheckEnded,
         NEW location \in CheckEnded, Exit(c, location),
         NEW b \in BucketStates, buckets' = [buckets EXCEPT ![n[c]] = b],
         hurt \subseteq hurt', hurt' \subseteq Checks,
         Kept(under, n[c], b),
         under = {} /\ c \notin hurt' => location # "failed"
  PROVE  IInv'
<1>1. 1 \in Numbers /\ Nothing \in Observation /\ 1 \in 1 .. 3 /\ FALSE \in Flags
  BY TwelveScenarios, NothingTyped DEF Flags
<1>2. \A d \in Checks : where[d] \notin CheckEnded => d = c
  BY Here
<1>3. /\ under' = under /\ where' = [where EXCEPT ![c] = location]
      /\ n' = [n EXCEPT ![c] = 1] /\ k' = [k EXCEPT ![c] = 1]
      /\ seen' = [seen EXCEPT ![c] = Nothing]
      /\ wrong' = [wrong EXCEPT ![c] = FALSE] /\ failures' = [failures EXCEPT ![c] = FALSE]
  BY DEF Exit, Goes, Sees
<1>4. PlacedAt(location, 1, 1, FALSE)
  BY DEF PlacedAt, CheckEnded
<1>5. LearnsAt(under, location, 1, buckets'[1], Nothing, FALSE, FALSE)
  BY DEF LearnsAt, LearnsHere, CheckEnded
<1>6. under = {} /\ c \notin hurt' => SeesAt(location, 1, 1, buckets'[1], Nothing, FALSE, FALSE)
  BY DEF SeesAt, CheckEnded
<1>7. location \in CheckLocations
  BY DEF CheckLocations
<1>8. QED
  BY <1>1, <1>2, <1>3, <1>4, <1>5, <1>6, <1>7, Moves

\* The next scenario begins, or the listing after the last one.
LEMMA NextMoves ==
  ASSUME IInv, NEW c \in Checks, where[c] \notin CheckEnded,
         NEW failed \in BOOLEAN, NextScenario(c, failed),
         NEW b \in BucketStates, buckets' = [buckets EXCEPT ![n[c]] = b],
         hurt \subseteq hurt', hurt' \subseteq Checks,
         Kept(under, n[c], b),
         failed = FALSE => Survived(under, n[c]),
         under = {} /\ c \notin hurt' => failed = FALSE /\ b = Gone
  PROVE  IInv'
<1> DEFINE location == IF n[c] = 12 THEN "list" ELSE "remove"
           i == IF n[c] = 12 THEN 12 ELSE n[c] + 1
           bad == IF failures[c] = TRUE \/ failed = TRUE THEN TRUE ELSE FALSE
<1>1. /\ n[c] \in Numbers /\ n[c] \in 1 .. 12 /\ failures[c] \in BOOLEAN /\ Typed
      /\ \A d \in Checks : where[d] \notin CheckEnded => d = c
  BY Here, TwelveScenarios DEF IInv
<1>2. /\ under' = under /\ where' = [where EXCEPT ![c] = location]
      /\ n' = [n EXCEPT ![c] = i] /\ k' = [k EXCEPT ![c] = 1]
      /\ seen' = [seen EXCEPT ![c] = Nothing] /\ wrong' = [wrong EXCEPT ![c] = FALSE]
  BY <1>1, TwelveScenarios DEF NextScenario, Goes, Sees
<1>3. failures' = [failures EXCEPT ![c] = bad]
  <2>1. failures' = [failures EXCEPT ![c] = failures[c] \/ failed]
    BY DEF NextScenario
  <2>2. (failures[c] \/ failed) = bad
    BY <1>1
  <2>3. QED
    BY <2>1, <2>2
<1>4. /\ i \in Numbers /\ 1 \in 1 .. 3 /\ Nothing \in Observation
      /\ location \in CheckLocations /\ bad \in Flags /\ FALSE \in Flags
  BY <1>1, TwelveScenarios, NothingTyped DEF CheckLocations, Flags
<1>5. PlacedAt(location, i, 1, FALSE)
  BY DEF PlacedAt
<1>6. LearnsAt(under, location, i, buckets'[i], Nothing, FALSE, bad)
  <2>1. ASSUME bad = FALSE
        PROVE  (\A j \in 1 .. (n[c] - 1) : Survived(under, j)) /\ Survived(under, n[c])
    BY <1>1, <2>1, Here DEF LearnsAt
  <2>2. bad = FALSE => \A j \in 1 .. (i - 1) : Survived(under, j)
    <3>1. \A j \in 1 .. (i - 1) : j \in 1 .. (n[c] - 1) \/ j = n[c]
      BY <1>1
    <3>2. QED
      BY <2>1, <3>1
  <2>3. bad = FALSE /\ location = "list" => Survived(under, i)
    BY <1>1, <2>1
  <2>4. location \notin {"before", "run", "after", "clean"}
    OBVIOUS
  <2> HIDE DEF location, i, bad
  <2>5. QED
    BY <2>2, <2>3, <2>4 DEF LearnsAt, LearnsHere
<1>7. ASSUME under = {}, c \notin hurt'
      PROVE  /\ SeesAt(location, i, 1, buckets'[i], Nothing, FALSE, bad)
             /\ \A j \in 1 .. (i - 1) : buckets'[j] = Gone
  <2>1. SeesSound(c) /\ failed = FALSE /\ b = Gone
    BY <1>7, Here
  <2>2. failures[c] = FALSE
    BY <2>1 DEF SeesSound, SeesAt
  <2>3. \A j \in 1 .. n[c] : buckets'[j] = Gone
    <3>1. \A j \in 1 .. (n[c] - 1) : buckets[j] = Gone
      BY <2>1 DEF SeesSound
    <3>2. \A j \in 1 .. n[c] : j \in Numbers /\ (j = n[c] \/ j \in 1 .. (n[c] - 1))
      BY <1>1, TwelveScenarios
    <3>3. \A j \in Numbers : buckets'[j] = IF j = n[c] THEN b ELSE buckets[j]
      BY <1>1 DEF Typed
    <3>4. QED
      BY <2>1, <3>1, <3>2, <3>3
  <2>4. bad = FALSE
    BY <2>1, <2>2
  <2>5. location = "list" => buckets'[i] = Gone
    BY <1>1, <2>3
  <2>6. \A j \in 1 .. (i - 1) : buckets'[j] = Gone
    BY <1>1, <2>3
  <2>7. location \in {"list", "remove"}
    OBVIOUS
  <2> HIDE DEF location, i, bad
  <2>8. QED
    BY <2>4, <2>5, <2>6, <2>7 DEF SeesAt
<1>8. i = n[c] \/ location \in CheckEnded \cup {"remove"}
  BY <1>1
<1>9. location \notin CheckEnded
  BY DEF CheckEnded
<1> HIDE DEF location, i, bad
<1>10. QED
  BY <1>1, <1>2, <1>3, <1>4, <1>5, <1>6, <1>7, <1>8, <1>9, Moves

-----------------------------------------------------------------------------
(* The steps of a check.                                                   *)

LEMMA GoneKept ==
  ASSUME NEW u, NEW i
  PROVE  Gone \in BucketStates /\ Kept(u, i, Gone)
<1>1. Gone \in BucketStates /\ Gone.policy = FALSE /\ Gone.rules = RulesAbsent
  BY RulesTyped DEF Gone, BucketStates
<1>2. QED
  BY <1>1 DEF Kept

LEMMA MadeKept ==
  ASSUME NEW u, NEW i, NEW b \in BucketStates, Kept(u, i, b),
         NEW left, left = [b EXCEPT !.exists = TRUE]
  PROVE  left \in BucketStates /\ left.exists = TRUE /\ Kept(u, i, left)
<1>1. /\ left \in BucketStates /\ left.exists = TRUE
      /\ left.policy = b.policy /\ left.rules = b.rules
  BY DEF BucketStates
<1>2. left.exists = TRUE /\ left.policy = b.policy
  BY <1>1
<1>3. i # 12 => left.policy = FALSE
  BY <1>2 DEF Kept
<1>4. i \in {1, 2} => left.rules \in {RulesAbsent, Writes(u)}
  BY <1>1 DEF Kept
<1>5. QED
  BY <1>1, <1>2, <1>3, <1>4 DEF Kept

LEMMA LeftKept ==
  ASSUME NEW u, NEW i, NEW b \in BucketStates, Kept(u, i, b),
         NEW left, left = Bootstrap(u, b).left
  PROVE  left \in BucketStates /\ left.exists = TRUE /\ Kept(u, i, left)
<1>1. PICK r : r = Bootstrap(u, b)
  OBVIOUS
<1>2. r \in Outcomes /\ r.left.exists = TRUE /\ r.left.rules \in {b.rules, Writes(u)}
  BY <1>1, Runs
<1>3. left = r.left
  BY <1>1
<1>4. left \in BucketStates
  BY <1>2, <1>3 DEF Outcomes
<1>5. r.left.policy = b.policy
  BY <1>1, KeepsPolicy
<1>6. i # 12 => left.policy = FALSE
  BY <1>3, <1>5 DEF Kept
<1>7. i \in {1, 2} => left.rules \in {RulesAbsent, Writes(u)}
  BY <1>2, <1>3 DEF Kept
<1>8. left.exists = TRUE
  BY <1>2, <1>3
<1>9. QED
  BY <1>4, <1>6, <1>7, <1>8 DEF Kept

LEMMA HalfwayKept ==
  ASSUME NEW i, NEW b \in BucketStates, Kept(under, i, b), NEW left \in Halfway(b)
  PROVE  left \in BucketStates /\ Kept(under, i, left)
BY MadeKept, LeftKept DEF Halfway

\* The prepared steps, one by one.
LEMMA PreparedSteps ==
  /\ SCENARIOS[1].prepare = <<>>
  /\ SCENARIOS[2].prepare # <<>> /\ Len(SCENARIOS[2].prepare) = 1
  /\ SCENARIOS[2].prepare[1] = bootstrapOnce
  /\ \A i \in 3 .. 12 : SCENARIOS[i].prepare # <<>> /\ Len(SCENARIOS[i].prepare) = 2
                        /\ SCENARIOS[i].prepare[1] = create
  /\ \A i \in 3 .. 11 : SCENARIOS[i].prepare[2] = lifecycle(Planted(i))
  /\ SCENARIOS[12].prepare[2] = openPolicy
<1>1. ASSUME NEW p, NEW q
      PROVE  /\ <<p>> # <<>> /\ Len(<<p>>) = 1 /\ <<p>>[1] = p
             /\ <<p, q>> # <<>> /\ Len(<<p, q>>) = 2 /\ <<p, q>>[1] = p /\ <<p, q>>[2] = q
  OBVIOUS
<1>2. ASSUME NEW i \in 3 .. 12
      PROVE  /\ SCENARIOS[i].prepare # <<>> /\ Len(SCENARIOS[i].prepare) = 2
             /\ SCENARIOS[i].prepare[1] = create
  <2>1. CASE i = 12
    BY <1>1, <2>1, Preparations
  <2>2. CASE i \in 3 .. 11
    <3>1. PICK q : q = lifecycle(Planted(i))
      OBVIOUS
    <3>2. SCENARIOS[i].prepare = <<create, q>>
      BY <2>2, <3>1, Preparations
    <3>3. <<create, q>> # <<>> /\ Len(<<create, q>>) = 2 /\ <<create, q>>[1] = create
      BY <1>1
    <3>4. QED
      BY <3>2, <3>3
  <2>3. QED
    BY <2>1, <2>2
<1>3. ASSUME NEW i \in 3 .. 11
      PROVE  SCENARIOS[i].prepare[2] = lifecycle(Planted(i))
  BY <1>1, Preparations
<1>4. /\ SCENARIOS[12].prepare[2] = openPolicy
      /\ SCENARIOS[2].prepare # <<>> /\ Len(SCENARIOS[2].prepare) = 1
      /\ SCENARIOS[2].prepare[1] = bootstrapOnce
  BY <1>1, Preparations
<1>5. QED
  BY <1>2, <1>3, <1>4, Preparations

LEMMA StartKeeps ==
  ASSUME IInv, NEW c \in Checks, Start(c)
  PROVE  IInv'
<1>1. Typed /\ Alone
  BY DEF IInv
<1>2. where[c] = "idle" /\ where[c] \in CheckEnded
  BY DEF Start, CheckEnded
<1>3. n[c] = 1 /\ k[c] = 1 /\ wrong[c] = FALSE /\ failures[c] = FALSE
  BY <1>1, <1>2 DEF Alone
<1>4. \A d \in Checks : where[d] \notin CheckEnded => d = c
  BY DEF Start, RunningChecks
<1>5. /\ under' = under /\ where' = [where EXCEPT ![c] = "remove"]
      /\ n' = [n EXCEPT ![c] = 1] /\ k' = [k EXCEPT ![c] = 1]
      /\ seen' = [seen EXCEPT ![c] = seen[c]]
      /\ wrong' = [wrong EXCEPT ![c] = FALSE] /\ failures' = [failures EXCEPT ![c] = FALSE]
      /\ buckets' = [buckets EXCEPT ![n[c]] = Bucket(c)]
      /\ hurt \subseteq hurt' /\ hurt' \subseteq Checks
  BY <1>1, <1>3, Unchanged, Here DEF Start, Goes
<1>6. "remove" \in CheckLocations /\ "remove" \notin CheckEnded /\ 1 \in Numbers /\ 1 \in 1 .. 3 /\ FALSE \in Flags
  BY TwelveScenarios DEF CheckLocations, CheckEnded, Flags
<1>7. PlacedAt("remove", 1, 1, FALSE)
  BY DEF PlacedAt
<1>8. LearnsAt(under, "remove", 1, buckets'[1], seen[c], FALSE, FALSE)
  BY DEF LearnsAt, LearnsHere
<1>9. SeesAt("remove", 1, 1, buckets'[1], seen[c], FALSE, FALSE)
      /\ \A j \in 1 .. (1 - 1) : buckets'[j] = Gone
  BY DEF SeesAt
<1>10. seen[c] \in Observation /\ Bucket(c) \in BucketStates /\ Kept(under, n[c], Bucket(c))
  BY Here
<1>11. QED
  BY <1>3, <1>4, <1>5, <1>6, <1>7, <1>8, <1>9, <1>10, Moves

LEMMA RemoveKeeps ==
  ASSUME IInv, NEW c \in Checks, Remove(c)
  PROVE  IInv'
<1>1. /\ where[c] = "remove" /\ where[c] \notin CheckEnded /\ Typed
  BY DEF Remove, CheckEnded, IInv
<1>2. k[c] = 1 /\ wrong[c] = FALSE
  BY <1>1, Here DEF PlacedAt
<1>3. Prepared(c) \in CheckLocations /\ Prepared(c) \notin CheckEnded /\ Prepared(c) # "list"
  BY DEF Prepared, CheckLocations, CheckEnded
<1>4. n[c] \in 1 .. 12
  BY Here, TwelveScenarios
<1>5. IF n[c] = 1 THEN Prepared(c) = "before" ELSE Prepared(c) = "prepare"
  BY <1>4, PreparedSteps DEF Prepared
<1>6. PlacedAt(Prepared(c), n[c], 1, FALSE)
  BY <1>4, <1>5, PreparedSteps DEF PlacedAt
<1>7. ASSUME NEW b
      PROVE  LearnsHere(under, Prepared(c), n[c], b, seen[c], FALSE)
  BY <1>5 DEF LearnsHere, Ready
<1>8. \A no : no = FALSE => SeesAt(Prepared(c), n[c], 1, Gone, seen[c], FALSE, no)
  BY <1>5 DEF SeesAt, Made
<1>9. seen[c] \in Observation /\ FALSE \in Flags /\ 1 \in 1 .. 3 /\ hurt \subseteq Checks
      /\ Bucket(c) \in BucketStates /\ Kept(under, n[c], Bucket(c))
  BY Here DEF Flags
<1>10. CASE Leaves(c, Gone) /\ Within(c, Prepared(c)) /\ UNCHANGED <<k, seen, wrong, hurt>>
  <2>1. /\ k' = [k EXCEPT ![c] = 1] /\ seen' = [seen EXCEPT ![c] = seen[c]]
        /\ wrong' = [wrong EXCEPT ![c] = FALSE]
        /\ buckets' = [buckets EXCEPT ![n[c]] = Gone]
        /\ hurt \subseteq hurt' /\ hurt' \subseteq Checks
    BY <1>1, <1>2, <1>9, <1>10, Unchanged DEF Leaves
  <2>2. QED
    BY <1>1, <1>3, <1>6, <1>7, <1>8, <1>9, <1>10, <2>1, GoneKept, WithinMoves
<1>11. CASE Fails(c) /\ Within(c, Prepared(c)) /\ UNCHANGED <<buckets, k, seen, wrong>>
  <2>1. /\ k' = [k EXCEPT ![c] = 1] /\ seen' = [seen EXCEPT ![c] = seen[c]]
        /\ wrong' = [wrong EXCEPT ![c] = FALSE]
        /\ buckets' = [buckets EXCEPT ![n[c]] = Bucket(c)]
    BY <1>1, <1>2, <1>11, Unchanged
  <2>2. hurt \subseteq hurt' /\ hurt' \subseteq Checks /\ c \in hurt'
    BY <1>11, FailsHurts
  <2>3. QED
    BY <1>1, <1>3, <1>6, <1>7, <1>9, <1>11, <2>1, <2>2, WithinMoves
<1>12. CASE Fails(c) /\ NextScenario(c, TRUE) /\ UNCHANGED buckets
  <2>1. buckets' = [buckets EXCEPT ![n[c]] = Bucket(c)]
    BY <1>1, <1>12, Unchanged
  <2>2. hurt \subseteq hurt' /\ hurt' \subseteq Checks /\ c \in hurt'
    BY <1>12, FailsHurts
  <2>3. PICK failed \in BOOLEAN : failed = TRUE
    OBVIOUS
  <2>4. NextScenario(c, failed) /\ failed # FALSE
    BY <1>12, <2>3
  <2>5. QED
    BY <1>1, <1>9, <2>1, <2>2, <2>4, NextMoves
<1>13. QED
  BY <1>10, <1>11, <1>12 DEF Remove

\* The prepared bucket of the committed bootstrap, step by step.
LEMMA SoundPrepares ==
  ASSUME NEW i \in 2 .. 12
  PROVE  /\ i = 2 => Bootstrap({}, Gone).exit = 0 /\ Bootstrap({}, Gone).left = Made(2)
         /\ [Gone EXCEPT !.exists = TRUE] = Fresh /\ Gone.exists = FALSE /\ Fresh.exists = TRUE
         /\ i \in 3 .. 11 => [Fresh EXCEPT !.rules = Planted(i)] = Made(i)
         /\ i = 12 => [Fresh EXCEPT !.policy = TRUE] = Made(12)
<1>1. Bootstrap({}, Gone).exit = 0 /\ Bootstrap({}, Gone).left = Made(2)
  <2>1. PICK u : u = {}
    OBVIOUS
  <2>2. PICK r : r = Bootstrap(u, Gone)
    OBVIOUS
  <2>3. 1 \in Numbers /\ 2 \in Numbers /\ Made(1) = Gone
    BY TwelveScenarios DEF Made
  <2>4. r.exit = 0 /\ r.left.rules = OWNED_RULES
    BY <2>1, <2>2, <2>3, SoundRuns
  <2>5. PICK two \in Numbers : two = 2
    BY <2>3
  <2>5b. PICK b : b = Made(two)
    OBVIOUS
  <2>6. b \in BucketStates /\ b.exists = TRUE /\ b.policy = FALSE /\ b.rules = OWNED_RULES
    <3>1. b \in BucketStates
      BY <2>5b, MadeFields
    <3>2. two # 1 => b.exists = TRUE
      BY <2>5b, MadeFields
    <3>3. two # 12 => b.policy = FALSE
      BY <2>5b, MadeFields
    <3>4. b.rules = IF two \in {1, 12} THEN RulesAbsent ELSE IF two = 2 THEN OWNED_RULES ELSE Planted(two)
      BY <2>5b, MadeFields
    <3>5. b.exists = TRUE
      BY <2>5, <3>2
    <3>6. b.policy = FALSE
      BY <2>5, <3>3
    <3>7. b.rules = OWNED_RULES
      BY <2>5, <3>4
    <3>8. QED
      BY <3>1, <3>5, <3>6, <3>7
  <2>7. PICK left : left = r.left
    OBVIOUS
  <2>8. left \in BucketStates /\ left.exists = TRUE
    BY <2>2, <2>7, GoneKept, LeftKept
  <2>9. r.left.policy = Gone.policy
    BY <2>2, GoneKept, KeepsPolicy
  <2>10. left.policy = FALSE
    BY <2>7, <2>9 DEF Gone
  <2>11. left = b
    BY <2>4, <2>6, <2>7, <2>8, <2>10, SameBucket
  <2>12. QED
    BY <2>1, <2>2, <2>4, <2>5, <2>5b, <2>7, <2>11
<1>2. [Gone EXCEPT !.exists = TRUE] = Fresh
  BY DEF Fresh
<1>3. Gone.exists = FALSE
  BY DEF Gone
<1>4. Fresh.exists = TRUE
  BY DEF Fresh, Gone
<1>5. i \in 3 .. 11 => [Fresh EXCEPT !.rules = Planted(i)] = Made(i)
  BY DEF Made
<1>6. i = 12 => [Fresh EXCEPT !.policy = TRUE] = Made(12)
  BY DEF Made
<1>7. QED
  BY <1>1, <1>2, <1>3, <1>4, <1>5, <1>6

\* What a pre-state step of the committed bootstrap's scenario leaves.
LeavesSound(u, i, step, b, left) ==
  u = {} /\ (step = 1 => b = Gone) /\ (step = 2 => b = Fresh) =>
    /\ step = Len(SCENARIOS[i].prepare) => left = Made(i)
    /\ step # Len(SCENARIOS[i].prepare) => left = Fresh

\* What a pre-state step that succeeds leaves in scenario i.
LEMMA StepLeaves ==
  ASSUME NEW i \in 2 .. 12, NEW step \in 1 .. 2, step <= Len(SCENARIOS[i].prepare),
         NEW b \in BucketStates, Kept(under, i, b), NEW left,
         StepDone(SCENARIOS[i].prepare[step], b, left)
  PROVE  /\ left \in BucketStates /\ Kept(under, i, left)
         /\ step = Len(SCENARIOS[i].prepare) => Ready(i, left)
         /\ LeavesSound(under, i, step, b, left)
<1>1. CASE i = 2
  <2>1. step = 1 /\ Len(SCENARIOS[i].prepare) = 1 /\ SCENARIOS[i].prepare[step] = bootstrapOnce
    BY <1>1, PreparedSteps
  <2>2. left = Bootstrap(under, b).left
    BY <2>1, Steps DEF StepDone
  <2>3. left \in BucketStates /\ Kept(under, i, left) /\ left.exists = TRUE
    BY <2>2, LeftKept
  <2>4. Ready(i, left)
    BY <1>1, <2>3 DEF Ready
  <2>5. under = {} /\ b = Gone => left = Made(2)
    BY <1>1, <2>2, SoundPrepares
  <2>6. LeavesSound(under, i, step, b, left)
    BY <1>1, <2>1, <2>5 DEF LeavesSound
  <2>7. QED
    BY <2>3, <2>4, <2>6
<1>2. CASE i # 2 /\ step = 1
  <2>1. Len(SCENARIOS[i].prepare) = 2 /\ SCENARIOS[i].prepare[step] = create
    BY <1>2, PreparedSteps
  <2>2. left = [b EXCEPT !.exists = TRUE]
    BY <2>1, Steps DEF StepDone
  <2>3. left \in BucketStates /\ Kept(under, i, left)
    BY <2>2, MadeKept
  <2>4. b = Gone => left = Fresh
    BY <2>2, SoundPrepares
  <2>5. LeavesSound(under, i, step, b, left)
    BY <1>2, <2>1, <2>4 DEF LeavesSound
  <2>6. QED
    BY <1>2, <2>1, <2>3, <2>5
<1>3. CASE i \in 3 .. 11 /\ step = 2
  <2>1. PICK f : f = Planted(i)
    OBVIOUS
  <2>2. Len(SCENARIOS[i].prepare) = 2 /\ SCENARIOS[i].prepare[step] = lifecycle(f)
    BY <1>3, <2>1, PreparedSteps
  <2>3. b.exists /\ left = [b EXCEPT !.rules = f]
    BY <2>2, Steps DEF StepDone
  <2>4. f \in [RuleIds -> RuleStates]
    BY <1>3, <2>1, PlantedTyped
  <2>5. /\ left \in BucketStates /\ left.exists = b.exists /\ left.policy = b.policy
        /\ left.rules = f
    BY <2>3, <2>4 DEF BucketStates
  <2>6. left.exists = TRUE
    BY <2>3, <2>5 DEF BucketStates
  <2>7. left.policy = FALSE
    BY <1>3, <2>5 DEF Kept
  <2>8. Kept(under, i, left)
    BY <1>3, <2>6, <2>7 DEF Kept
  <2>9. Ready(i, left)
    BY <1>3, <2>1, <2>5, <2>6 DEF Ready
  <2>10. b = Fresh => left = Made(i)
    BY <1>3, <2>1, <2>3, SoundPrepares
  <2>11. LeavesSound(under, i, step, b, left)
    BY <1>3, <2>2, <2>10 DEF LeavesSound
  <2>12. QED
    BY <2>5, <2>8, <2>9, <2>11
<1>4. CASE i = 12 /\ step = 2
  <2>1. Len(SCENARIOS[i].prepare) = 2 /\ SCENARIOS[i].prepare[step] = openPolicy
    BY <1>4, PreparedSteps
  <2>2. b.exists /\ left = [b EXCEPT !.policy = TRUE]
    BY <2>1, Steps DEF StepDone
  <2>3. left \in BucketStates /\ left.exists = b.exists
    BY <2>2 DEF BucketStates
  <2>4. left.exists = TRUE
    BY <2>2, <2>3 DEF BucketStates
  <2>5. Kept(under, i, left) /\ Ready(i, left)
    BY <1>4, <2>4 DEF Kept, Ready
  <2>6. b = Fresh => left = Made(i)
    BY <1>4, <2>2, SoundPrepares
  <2>7. LeavesSound(under, i, step, b, left)
    BY <1>4, <2>1, <2>6 DEF LeavesSound
  <2>8. QED
    BY <2>3, <2>5, <2>7
<1>5. QED
  BY <1>1, <1>2, <1>3, <1>4

LEMMA GoneOrFresh ==
  Gone.exists = FALSE /\ Fresh.exists = TRUE
BY DEF Gone, Fresh

\* No pre-state step of the committed bootstrap errs by itself.
LEMMA SoundStepsDoNotErr ==
  ASSUME NEW i \in 2 .. 12, NEW step \in 1 .. 2, step <= Len(SCENARIOS[i].prepare),
         NEW b, b = IF step = 1 THEN Gone ELSE Fresh, under = {}
  PROVE  ~StepErrs(SCENARIOS[i].prepare[step], b)
<1>1. CASE i = 2
  <2>1. step = 1 /\ SCENARIOS[i].prepare[step] = bootstrapOnce
    BY <1>1, PreparedSteps
  <2>2. Bootstrap(under, b).exit = 0
    BY <1>1, <2>1, SoundPrepares
  <2>3. QED
    BY <2>1, <2>2, Steps DEF StepErrs
<1>2. CASE i # 2 /\ step = 1
  <2>1. SCENARIOS[i].prepare[step] = create /\ b.exists = FALSE
    <3>1. SCENARIOS[i].prepare[step] = create
      BY <1>2, PreparedSteps
    <3>2. b.exists = FALSE
      BY <1>2, GoneOrFresh
    <3>3. QED
      BY <3>1, <3>2
  <2>2. QED
    BY <2>1, Steps DEF StepErrs
<1>3. CASE i \in 3 .. 12 /\ step = 2
  <2>1. b.exists = TRUE
    BY <1>3, GoneOrFresh
  <2>2. SCENARIOS[i].prepare[step].do \in {"lifecycle", "policy"}
    BY <1>3, PreparedSteps, Steps
  <2>3. QED
    BY <2>1, <2>2 DEF StepErrs
<1>4. QED
  BY <1>1, <1>2, <1>3

LEMMA StepNumbers ==
  ASSUME NEW x \in 1 .. 3, NEW y \in {1, 2}, x <= y
  PROVE  x \in 1 .. 2 /\ x + 1 \in 1 .. 3 /\ (x # y => x = 1 /\ y = 2 /\ x + 1 <= y)
OBVIOUS

LEMMA PrepareKeeps ==
  ASSUME IInv, NEW c \in Checks, Prepare(c)
  PROVE  IInv'
<1> DEFINE i == n[c]
           step == SCENARIOS[n[c]].prepare[k[c]]
           last == k[c] = Len(SCENARIOS[n[c]].prepare)
<1>1. /\ where[c] = "prepare" /\ where[c] \notin CheckEnded /\ Typed /\ seen' = seen
  BY DEF Prepare, CheckEnded, IInv
<1>2. k[c] <= Len(SCENARIOS[n[c]].prepare) /\ k[c] \in 1 .. 3 /\ wrong[c] = FALSE
  BY <1>1, Here DEF PlacedAt
<1>3. /\ seen[c] \in Observation /\ hurt \subseteq Checks /\ Typed
      /\ Bucket(c) \in BucketStates /\ Kept(under, n[c], Bucket(c))
  BY Here DEF IInv
<1>4. n[c] \in 1 .. 12
  BY Here, TwelveScenarios
<1>5. n[c] # 1
  <2>1. Len(<<>>) = 0
    OBVIOUS
  <2>2. n[c] = 1 => Len(SCENARIOS[n[c]].prepare) = 0
    BY <2>1, PreparedSteps
  <2>3. QED
    BY <1>2, <2>2
<1>6. n[c] \in 2 .. 12
  BY <1>4, <1>5
<1>7. Len(SCENARIOS[n[c]].prepare) \in {1, 2}
  BY <1>6, PreparedSteps
<1>8. k[c] \in 1 .. 2 /\ k[c] + 1 \in 1 .. 3 /\ (~last => k[c] = 1 /\ k[c] + 1 <= Len(SCENARIOS[n[c]].prepare))
  BY <1>2, <1>7, StepNumbers
<1>9. ASSUME under = {}, c \notin hurt
      PROVE  Bucket(c) = IF k[c] = 1 THEN Gone ELSE Fresh
  BY <1>1, <1>9, Here DEF SeesSound, SeesAt
<1>10. ASSUME NEW left, StepDone(step, Bucket(c), left), Leaves(c, left),
              Within(c, IF last THEN "before" ELSE "prepare"),
              k' = [k EXCEPT ![c] = @ + 1], UNCHANGED <<wrong, hurt>>
       PROVE  IInv'
  <2> DEFINE location == IF last THEN "before" ELSE "prepare"
  <2>1. /\ left \in BucketStates /\ Kept(under, n[c], left)
        /\ last => Ready(n[c], left)
        /\ LeavesSound(under, n[c], k[c], Bucket(c), left)
    <3>1. StepDone(SCENARIOS[n[c]].prepare[k[c]], Bucket(c), left)
      BY <1>10
    <3>2. PICK x \in 2 .. 12 : x = n[c]
      BY <1>6
    <3>3. PICK y \in 1 .. 2 : y = k[c]
      BY <1>8
    <3>4. PICK b \in BucketStates : b = Bucket(c)
      BY <1>3
    <3>5. y <= Len(SCENARIOS[x].prepare) /\ Kept(under, x, b) /\ StepDone(SCENARIOS[x].prepare[y], b, left)
      BY <1>2, <1>3, <3>1, <3>2, <3>3, <3>4
    <3>6. left \in BucketStates /\ Kept(under, x, left)
      BY <3>5, StepLeaves
    <3>6a. y = Len(SCENARIOS[x].prepare) => Ready(x, left)
      BY <3>5, StepLeaves
    <3>6b. LeavesSound(under, x, y, b, left)
      BY <3>5, StepLeaves
    <3>7. QED
      BY <3>2, <3>3, <3>4, <3>6, <3>6a, <3>6b
  <2>2. location \in CheckLocations /\ location \notin CheckEnded /\ location # "list" /\ location \in {"before", "prepare"}
    BY DEF CheckLocations, CheckEnded
  <2>3. PlacedAt(location, n[c], k[c] + 1, FALSE)
    <3>1. ~last => k[c] + 1 <= Len(SCENARIOS[n[c]].prepare)
      BY <1>8
    <3>2. QED
      BY <3>1 DEF PlacedAt
  <2>4. LearnsHere(under, location, n[c], left, seen[c], FALSE)
    BY <2>1 DEF LearnsHere
  <2>5. ASSUME under = {}, c \notin hurt'
        PROVE  \A no : no = FALSE => SeesAt(location, n[c], k[c] + 1, left, seen[c], FALSE, no)
    <3>1. (last => left = Made(n[c])) /\ (~last => left = Fresh)
      BY <1>8, <1>9, <1>10, <2>1, <2>5 DEF LeavesSound
    <3>2. location = "prepare" => k[c] + 1 # 1 /\ left = Fresh
      BY <1>8, <3>1
    <3>3. location = "before" => left = Made(n[c])
      BY <3>1
    <3> HIDE DEF location, last
    <3>4. QED
      BY <2>2, <3>2, <3>3 DEF SeesAt
  <2>6. /\ k' = [k EXCEPT ![c] = k[c] + 1] /\ seen' = [seen EXCEPT ![c] = seen[c]]
        /\ wrong' = [wrong EXCEPT ![c] = FALSE]
        /\ buckets' = [buckets EXCEPT ![n[c]] = left]
        /\ hurt \subseteq hurt' /\ hurt' \subseteq Checks
    BY <1>1, <1>2, <1>3, <1>10, Unchanged DEF Leaves
  <2>7. FALSE \in Flags /\ Within(c, location)
    BY <1>10 DEF Flags
  <2> HIDE DEF location, last, step
  <2>8. QED
    BY <1>1, <1>3, <1>8, <2>1, <2>2, <2>3, <2>4, <2>5, <2>6, <2>7, WithinMoves
<1>11. ASSUME (StepErrs(step, Bucket(c)) /\ UNCHANGED hurt) \/ Fails(c),
              Within(c, "clean"), wrong' = [wrong EXCEPT ![c] = TRUE], UNCHANGED <<buckets, k>>
       PROVE  IInv'
  <2>1. /\ k' = [k EXCEPT ![c] = k[c]] /\ seen' = [seen EXCEPT ![c] = seen[c]]
        /\ buckets' = [buckets EXCEPT ![n[c]] = Bucket(c)]
    BY <1>1, <1>11, Unchanged
  <2>2. hurt \subseteq hurt' /\ hurt' \subseteq Checks
    BY <1>3, <1>11, FailsHurts
  <2>3. under = {} => c \in hurt'
    <3>1. SUFFICES ASSUME under = {}, c \notin hurt'
                   PROVE  FALSE
      OBVIOUS
    <3>2. ~Fails(c)
      BY <3>1, FailsHurts
    <3>3. c \notin hurt /\ StepErrs(step, Bucket(c))
      BY <1>11, <3>1, <3>2
    <3>4. Bucket(c) = IF k[c] = 1 THEN Gone ELSE Fresh
      BY <1>9, <3>1, <3>3
    <3>5. QED
      BY <1>2, <1>6, <1>8, <3>1, <3>3, <3>4, SoundStepsDoNotErr
  <2>4. "clean" \in CheckLocations /\ "clean" \notin CheckEnded /\ "clean" # "list" /\ TRUE \in Flags
    BY DEF CheckLocations, CheckEnded, Flags
  <2>5. PlacedAt("clean", n[c], k[c], TRUE)
    BY DEF PlacedAt
  <2>6. LearnsHere(under, "clean", n[c], Bucket(c), seen[c], TRUE)
    BY DEF LearnsHere
  <2>7. QED
    BY <1>1, <1>2, <1>3, <1>11, <2>1, <2>2, <2>3, <2>4, <2>5, <2>6, WithinMoves
<1> HIDE DEF step, last
<1>12. QED
  <2>1. \/ \E left : /\ StepDone(step, Bucket(c), left) /\ Leaves(c, left)
                     /\ Within(c, IF last THEN "before" ELSE "prepare")
                     /\ k' = [k EXCEPT ![c] = @ + 1]
                     /\ UNCHANGED <<wrong, hurt>>
        \/ /\ (StepErrs(step, Bucket(c)) /\ UNCHANGED hurt) \/ Fails(c)
           /\ Within(c, "clean")
           /\ wrong' = [wrong EXCEPT ![c] = TRUE]
           /\ UNCHANGED <<buckets, k>>
    BY DEF Prepare, step, last
  <2>2. QED
    BY <1>10, <1>11, <2>1

\* What a read or a run changes of an observation.
LEMMA ReadBefore ==
  ASSUME NEW o \in Observation, NEW f \in [RuleIds -> RuleStates], NEW p, p = [o EXCEPT !.before = f]
  PROVE  p \in Observation /\ p.before = f
BY DEF Observation, RuleStates

LEMMA ReadAfter ==
  ASSUME NEW o \in Observation, NEW f \in [RuleIds -> RuleStates], NEW p, p = [o EXCEPT !.after = f]
  PROVE  /\ p \in Observation /\ p.after = f
         /\ p.exit = o.exit /\ p.says = o.says /\ p.before = o.before
BY DEF Observation, RuleStates

Sayings == {"", "exists", "policy", "foreign", "configured", "already"}
RanTo(o, exit, says) == [o EXCEPT !.exit = exit, !.says = says]

LEMMA Ran ==
  ASSUME NEW o \in Observation, NEW exit \in {0, 1}, NEW says \in Sayings,
         NEW p, p = RanTo(o, exit, says)
  PROVE  p \in Observation /\ p.exit = exit /\ p.says = says /\ p.before = o.before
BY DEF Observation, RanTo, Sayings

LEMMA SameObservation ==
  ASSUME NEW o \in Observation, NEW p \in Observation,
         o.exit = p.exit, o.says = p.says, o.before = p.before, o.after = p.after
  PROVE  o = p
<1>1. o = [exit |-> o.exit, says |-> o.says, before |-> o.before, after |-> o.after]
  BY DEF Observation
<1>2. p = [exit |-> p.exit, says |-> p.says, before |-> p.before, after |-> p.after]
  BY DEF Observation
<1>3. QED
  BY <1>1, <1>2

LEMMA ReadConfigKeeps ==
  ASSUME IInv, NEW c \in Checks, ReadConfig(c)
  PROVE  IInv'
<1>1. /\ where[c] \in {"before", "after"} /\ where[c] \notin CheckEnded /\ Typed
      /\ UNCHANGED <<buckets, k>>
  BY DEF ReadConfig, CheckEnded, IInv
<1>2. /\ seen[c] \in Observation /\ hurt \subseteq Checks /\ k[c] \in 1 .. 3 /\ n[c] \in Numbers
      /\ Bucket(c) \in BucketStates /\ Kept(under, n[c], Bucket(c)) /\ wrong[c] = FALSE
  BY <1>1, Here DEF PlacedAt
<1>3. /\ k' = [k EXCEPT ![c] = k[c]] /\ buckets' = [buckets EXCEPT ![n[c]] = Bucket(c)]
  BY <1>1, Unchanged
<1>4. PICK f \in [RuleIds -> RuleStates] : f = Bucket(c).rules
  BY <1>2 DEF BucketStates
<1>5. PICK o \in Observation : o = seen[c]
  BY <1>2
<1>6. FALSE \in Flags /\ TRUE \in Flags
  BY DEF Flags
<1>7. LearnsHere(under, where[c], n[c], Bucket(c), o, FALSE)
  BY <1>2, <1>5, Here DEF LearnsAt
<1>8. ASSUME under = {}, c \notin hurt
      PROVE  /\ where[c] = "before" => Bucket(c) = Made(n[c])
             /\ where[c] = "after" =>
                  /\ f = Observed(n[c]).after /\ o.exit = Observed(n[c]).exit
                  /\ o.says = Observed(n[c]).says /\ o.before = Observed(n[c]).before
  BY <1>4, <1>5, <1>8, Here DEF SeesSound, SeesAt
<1>9. ASSUME where[c] = "before", Within(c, "run"), Sees(c, [seen[c] EXCEPT !.before = Bucket(c).rules]),
             UNCHANGED <<wrong, hurt>>
      PROVE  IInv'
  <2>1. PICK p : p = [o EXCEPT !.before = f]
    OBVIOUS
  <2>2. p \in Observation /\ p.before = f
    BY <2>1, ReadBefore
  <2>3. "run" \in CheckLocations /\ "run" \notin CheckEnded /\ "run" # "list"
    BY DEF CheckLocations, CheckEnded
  <2>4. PlacedAt("run", n[c], k[c], FALSE)
    BY DEF PlacedAt
  <2>5. LearnsHere(under, "run", n[c], Bucket(c), p, FALSE)
    BY <1>7, <1>9 DEF LearnsHere
  <2>6. ASSUME under = {}, c \notin hurt'
        PROVE  \A no : no = FALSE => SeesAt("run", n[c], k[c], Bucket(c), p, FALSE, no)
    <3>1. Bucket(c) = Made(n[c])
      BY <1>8, <1>9, <2>6
    <3>2. p.before = Made(n[c]).rules
      BY <1>4, <2>2, <3>1
    <3>3. QED
      BY <3>1, <3>2 DEF SeesAt
  <2>7. /\ seen' = [seen EXCEPT ![c] = p] /\ wrong' = [wrong EXCEPT ![c] = FALSE]
        /\ hurt \subseteq hurt' /\ hurt' \subseteq Checks
    BY <1>1, <1>2, <1>4, <1>5, <1>9, <2>1, Unchanged DEF Sees
  <2>8. QED
    BY <1>1, <1>2, <1>3, <1>6, <1>9, <2>2, <2>3, <2>4, <2>5, <2>6, <2>7, WithinMoves
<1>10. ASSUME where[c] = "after", Within(c, "clean"), Sees(c, [seen[c] EXCEPT !.after = Bucket(c).rules]),
              UNCHANGED <<wrong, hurt>>
       PROVE  IInv'
  <2>1. PICK p : p = [o EXCEPT !.after = f]
    OBVIOUS
  <2>2. /\ p \in Observation /\ p.after = f
        /\ p.exit = o.exit /\ p.says = o.says /\ p.before = o.before
    BY <2>1, ReadAfter
  <2>3. "clean" \in CheckLocations /\ "clean" \notin CheckEnded /\ "clean" # "list"
    BY DEF CheckLocations, CheckEnded
  <2>4. PlacedAt("clean", n[c], k[c], FALSE)
    BY DEF PlacedAt
  <2>5. LearnsHere(under, "clean", n[c], Bucket(c), p, FALSE)
    <3>1. Convincing(n[c], o.exit, o.says, f) => Survived(under, n[c])
      BY <1>4, <1>7, <1>10 DEF LearnsHere
    <3>2. Convincing(n[c], p.exit, p.says, p.after) => Survived(under, n[c])
      BY <2>2, <3>1
    <3>3. QED
      BY <3>2 DEF LearnsHere
  <2>6. ASSUME under = {}, c \notin hurt'
        PROVE  \A no : no = FALSE => SeesAt("clean", n[c], k[c], Bucket(c), p, FALSE, no)
    <3>1. PICK q : q = Observed(n[c])
      OBVIOUS
    <3>2. f = q.after /\ o.exit = q.exit /\ o.says = q.says /\ o.before = q.before
      BY <1>8, <1>10, <2>6, <3>1
    <3>3. q \in Observation
      BY <1>2, <3>1, ObservedFields
    <3>4. p = q
      BY <2>2, <3>2, <3>3, SameObservation
    <3>5. QED
      BY <3>1, <3>4 DEF SeesAt
  <2>7. /\ seen' = [seen EXCEPT ![c] = p] /\ wrong' = [wrong EXCEPT ![c] = FALSE]
        /\ hurt \subseteq hurt' /\ hurt' \subseteq Checks
    BY <1>1, <1>2, <1>4, <1>5, <1>10, <2>1, Unchanged DEF Sees
  <2>8. QED
    BY <1>1, <1>2, <1>3, <1>6, <1>10, <2>2, <2>3, <2>4, <2>5, <2>6, <2>7, WithinMoves
<1>11. ASSUME Fails(c), Within(c, "clean"), wrong' = [wrong EXCEPT ![c] = TRUE], UNCHANGED seen
       PROVE  IInv'
  <2>1. hurt \subseteq hurt' /\ hurt' \subseteq Checks /\ c \in hurt'
    BY <1>11, FailsHurts
  <2>2. "clean" \in CheckLocations /\ "clean" \notin CheckEnded /\ "clean" # "list"
    BY DEF CheckLocations, CheckEnded
  <2>3. PlacedAt("clean", n[c], k[c], TRUE)
    BY DEF PlacedAt
  <2>4. LearnsHere(under, "clean", n[c], Bucket(c), seen[c], TRUE)
    BY DEF LearnsHere
  <2>5. seen' = [seen EXCEPT ![c] = seen[c]]
    BY <1>1, <1>11, Unchanged
  <2>6. QED
    BY <1>1, <1>2, <1>3, <1>6, <1>11, <2>1, <2>2, <2>3, <2>4, <2>5, WithinMoves
<1>12. QED
  <2>1. CASE where[c] = "before"
    BY <1>9, <1>11, <2>1 DEF ReadConfig
  <2>2. CASE where[c] = "after"
    BY <1>10, <1>11, <2>2 DEF ReadConfig
  <2>3. QED
    BY <1>1, <2>1, <2>2

LEMMA RunBootstrapKeeps ==
  ASSUME IInv, NEW c \in Checks, RunBootstrap(c)
  PROVE  IInv'
<1>1. /\ where[c] = "run" /\ where[c] \notin CheckEnded /\ Typed
      /\ Within(c, "after") /\ UNCHANGED <<k, wrong>>
  BY DEF RunBootstrap, CheckEnded, IInv
<1>2. /\ seen[c] \in Observation /\ hurt \subseteq Checks /\ k[c] \in 1 .. 3 /\ n[c] \in Numbers
      /\ Bucket(c) \in BucketStates /\ Kept(under, n[c], Bucket(c)) /\ wrong[c] = FALSE
  BY <1>1, Here DEF PlacedAt
<1>3. /\ k' = [k EXCEPT ![c] = k[c]] /\ wrong' = [wrong EXCEPT ![c] = FALSE] /\ FALSE \in Flags
  BY <1>1, <1>2, Unchanged DEF Flags
<1>4. "after" \in CheckLocations /\ "after" \notin CheckEnded /\ "after" # "list"
  BY DEF CheckLocations, CheckEnded
<1>5. PlacedAt("after", n[c], k[c], FALSE)
  BY DEF PlacedAt
<1>6. PICK o \in Observation : o = seen[c]
  BY <1>2
<1>7. PICK i \in Numbers : i = n[c]
  BY <1>2
<1>8. PICK b \in BucketStates : b = Bucket(c)
  BY <1>2
<1>9. PICK r : r = Bootstrap(under, b)
  OBVIOUS
<1>10. Kept(under, i, b) /\ Ready(i, b)
  <2>1. LearnsHere(under, where[c], n[c], Bucket(c), seen[c], wrong[c])
    BY Here DEF LearnsAt
  <2>2. QED
    BY <1>1, <1>2, <1>7, <1>8, <2>1 DEF LearnsHere
<1>11. CASE /\ Leaves(c, r.left) /\ Sees(c, [seen[c] EXCEPT !.exit = r.exit, !.says = r.says])
            /\ UNCHANGED hurt
  <2>1. r \in Outcomes
    BY <1>9, Runs
  <2>2. /\ r.exit \in {0, 1} /\ r.left \in BucketStates
        /\ r.says \in {"", "exists", "policy", "foreign", "configured", "already"}
    BY <2>1 DEF Outcomes
  <2>3. PICK p : p = RanTo(o, r.exit, r.says)
    OBVIOUS
  <2>4. p \in Observation /\ p.exit = r.exit /\ p.says = r.says /\ p.before = o.before
    <3>1. PICK exit \in {0, 1} : exit = r.exit
      BY <2>2
    <3>2. PICK says \in Sayings : says = r.says
      BY <2>2 DEF Sayings
    <3>3. p = RanTo(o, exit, says)
      BY <2>3, <3>1, <3>2
    <3>4. p \in Observation /\ p.exit = exit /\ p.says = says /\ p.before = o.before
      BY <3>3, Ran
    <3>5. QED
      BY <3>1, <3>2, <3>4
  <2>5. PICK left \in BucketStates : left = r.left
    BY <2>2
  <2>6. Kept(under, i, left)
    BY <1>9, <1>10, <2>5, LeftKept
  <2>7. LearnsHere(under, "after", i, left, p, FALSE)
    <3>1. Convincing(i, r.exit, r.says, r.left.rules) => Survived(under, i)
      BY <1>9, <1>10, ConvincingSurvives
    <3>2. Convincing(i, p.exit, p.says, left.rules) => Survived(under, i)
      BY <2>4, <2>5, <3>1
    <3>3. QED
      BY <3>2 DEF LearnsHere
  <2>8. ASSUME under = {}, c \notin hurt'
        PROVE  \A no : no = FALSE => SeesAt("after", i, k[c], left, p, FALSE, no)
    <3>1. b = Made(i) /\ o.before = Made(i).rules
      BY <1>1, <1>6, <1>7, <1>8, <1>11, <2>8, Here DEF SeesSound, SeesAt
    <3>2. r = Bootstrap({}, Made(i))
      BY <1>9, <2>8, <3>1
    <3>3. PICK q : q = Observed(i)
      OBVIOUS
    <3>4. q.exit = r.exit /\ q.says = r.says /\ q.after = r.left.rules /\ q.before = Made(i).rules
      BY <3>2, <3>3, ObservedFields
    <3>5. left.rules = q.after /\ p.exit = q.exit /\ p.says = q.says /\ p.before = q.before
      BY <2>4, <2>5, <3>1, <3>4
    <3>6. QED
      BY <3>3, <3>5 DEF SeesAt
  <2>9. /\ seen' = [seen EXCEPT ![c] = p] /\ buckets' = [buckets EXCEPT ![n[c]] = left]
        /\ hurt \subseteq hurt' /\ hurt' \subseteq Checks
    BY <1>2, <1>6, <1>11, <2>3, <2>5 DEF Sees, Leaves, RanTo
  <2>10. QED
    BY <1>1, <1>2, <1>3, <1>4, <1>5, <1>7, <2>4, <2>6, <2>7, <2>8, <2>9, WithinMoves
<1>12. CASE /\ Fails(c) /\ \E left \in Halfway(b) : Leaves(c, left)
            /\ Sees(c, [seen[c] EXCEPT !.exit = 1, !.says = ""])
  <2>1. PICK left \in Halfway(b) : Leaves(c, left)
    BY <1>12
  <2>2. left \in BucketStates /\ Kept(under, i, left)
    BY <1>10, HalfwayKept
  <2>3. PICK p : p = RanTo(o, 1, "")
    OBVIOUS
  <2>4. p \in Observation /\ p.exit = 1 /\ p.says = ""
    <3>1. PICK exit \in {0, 1} : exit = 1
      OBVIOUS
    <3>2. PICK says \in Sayings : says = ""
      BY DEF Sayings
    <3>3. p = RanTo(o, exit, says)
      BY <2>3, <3>1, <3>2
    <3>4. p \in Observation /\ p.exit = exit /\ p.says = says
      BY <3>3, Ran
    <3>5. QED
      BY <3>1, <3>2, <3>4
  <2>5. LearnsHere(under, "after", i, left, p, FALSE)
    <3>1. ~Convincing(i, p.exit, p.says, left.rules)
      BY <2>4, CutIsNotConvincing
    <3>2. QED
      BY <3>1 DEF LearnsHere
  <2>6. hurt \subseteq hurt' /\ hurt' \subseteq Checks /\ c \in hurt'
    BY <1>12, FailsHurts
  <2>7. /\ seen' = [seen EXCEPT ![c] = p] /\ buckets' = [buckets EXCEPT ![n[c]] = left]
    BY <1>6, <1>12, <2>1, <2>3 DEF Sees, Leaves, RanTo
  <2>8. QED
    BY <1>1, <1>2, <1>3, <1>4, <1>5, <1>7, <2>2, <2>4, <2>5, <2>6, <2>7, WithinMoves
<1>13. QED
  BY <1>8, <1>9, <1>11, <1>12 DEF RunBootstrap

LEMMA CleanKeeps ==
  ASSUME IInv, NEW c \in Checks, Clean(c)
  PROVE  IInv'
<1>1. /\ where[c] = "clean" /\ where[c] \notin CheckEnded /\ Typed
  BY DEF Clean, CheckEnded, IInv
<1>2. /\ hurt \subseteq Checks /\ n[c] \in Numbers /\ wrong[c] \in BOOLEAN
      /\ Bucket(c) \in BucketStates /\ Kept(under, n[c], Bucket(c))
  BY Here
<1>3. ASSUME wrong[c] = FALSE, checkScenario(SCENARIOS[n[c]], seen[c])
      PROVE  Survived(under, n[c])
  <2>1. LearnsHere(under, where[c], n[c], Bucket(c), seen[c], wrong[c])
    BY Here DEF LearnsAt
  <2>2. Convincing(n[c], seen[c].exit, seen[c].says, seen[c].after)
    BY <1>3 DEF checkScenario, Convincing
  <2>3. QED
    BY <1>1, <1>3, <2>1, <2>2 DEF LearnsHere
<1>4. ASSUME under = {}, c \notin hurt
      PROVE  wrong[c] = FALSE /\ checkScenario(SCENARIOS[n[c]], seen[c])
  <2>1. wrong[c] = FALSE /\ seen[c] = Observed(n[c])
    BY <1>1, <1>4, Here DEF SeesSound, SeesAt
  <2>2. QED
    BY <1>2, <2>1, SoundPasses
<1> DEFINE failed == wrong[c] \/ ~checkScenario(SCENARIOS[n[c]], seen[c])
<1>5. ASSUME Leaves(c, Gone), NextScenario(c, failed), UNCHANGED hurt
      PROVE  IInv'
  <2>1. PICK bad \in BOOLEAN : bad = failed
    BY <1>2
  <2>2. bad = FALSE => wrong[c] = FALSE /\ checkScenario(SCENARIOS[n[c]], seen[c])
    BY <1>2, <2>1
  <2>3. bad = FALSE => Survived(under, n[c])
    BY <1>3, <2>2
  <2>4. under = {} /\ c \notin hurt' => bad = FALSE
    <3>1. SUFFICES ASSUME under = {}, c \notin hurt' PROVE bad = FALSE
      OBVIOUS
    <3>2. wrong[c] = FALSE /\ checkScenario(SCENARIOS[n[c]], seen[c])
      BY <1>4, <1>5, <3>1
    <3>3. QED
      BY <2>1, <3>2
  <2>5. NextScenario(c, bad)
    BY <1>5, <2>1
  <2>6. buckets' = [buckets EXCEPT ![n[c]] = Gone] /\ hurt \subseteq hurt' /\ hurt' \subseteq Checks
    BY <1>2, <1>5 DEF Leaves
  <2>7. Gone \in BucketStates /\ Kept(under, n[c], Gone)
    BY GoneKept
  <2>8. QED
    BY <1>1, <2>3, <2>4, <2>5, <2>6, <2>7, NextMoves
<1>6. ASSUME Fails(c), NEW thrown \in BOOLEAN, NextScenario(c, failed \/ thrown), UNCHANGED buckets
      PROVE  IInv'
  <2>1. PICK bad \in BOOLEAN : bad = (failed \/ thrown)
    BY <1>2
  <2>2. bad = FALSE => wrong[c] = FALSE /\ checkScenario(SCENARIOS[n[c]], seen[c])
    BY <1>2, <2>1
  <2>3. bad = FALSE => Survived(under, n[c])
    BY <1>3, <2>2
  <2>4. hurt \subseteq hurt' /\ hurt' \subseteq Checks /\ c \in hurt'
    BY <1>6, FailsHurts
  <2>5. NextScenario(c, bad)
    BY <1>6, <2>1
  <2>6. buckets' = [buckets EXCEPT ![n[c]] = Bucket(c)]
    BY <1>1, <1>6, Unchanged
  <2>7. QED
    BY <1>1, <1>2, <2>3, <2>4, <2>5, <2>6, NextMoves
<1>7. QED
  BY <1>5, <1>6 DEF Clean

LEMMA ListKeeps ==
  ASSUME IInv, NEW c \in Checks, List(c)
  PROVE  IInv'
<1>1. where[c] = "list" /\ where[c] \notin CheckEnded /\ Typed /\ UNCHANGED buckets
  BY DEF List, CheckEnded, IInv
<1>2. /\ hurt \subseteq Checks /\ n[c] \in Numbers
      /\ Bucket(c) \in BucketStates /\ Kept(under, n[c], Bucket(c))
      /\ buckets' = [buckets EXCEPT ![n[c]] = Bucket(c)]
  BY <1>1, Here, Unchanged
<1>3. ASSUME under = {}, c \notin hurt
      PROVE  ~(failures[c] \/ \E i \in Numbers : buckets[i].exists)
  <2>1. SeesSound(c)
    BY <1>3, Here
  <2>2. n[c] = 12 /\ failures[c] = FALSE
    BY <1>1, <2>1, Here DEF PlacedAt, SeesSound, SeesAt
  <2>3. Bucket(c) = Gone
    BY <1>1, <2>1 DEF SeesSound, SeesAt
  <2>4. \A j \in 1 .. (n[c] - 1) : buckets[j] = Gone
    BY <1>1, <2>1 DEF SeesSound
  <2>5. \A j \in Numbers : j = n[c] \/ j \in 1 .. (n[c] - 1)
    BY <2>2, TwelveScenarios
  <2>6. \A j \in Numbers : buckets[j] = Gone
    BY <2>3, <2>4, <2>5 DEF Bucket
  <2>7. \A j \in Numbers : buckets[j].exists = FALSE
    BY <2>6, GoneOrFresh
  <2>8. QED
    BY <2>2, <2>7
<1>4. CASE /\ Exit(c, IF failures[c] \/ \E i \in Numbers : buckets[i].exists THEN "failed" ELSE "passed")
           /\ UNCHANGED hurt
  <2>1. PICK location :
          location = IF failures[c] \/ \E i \in Numbers : buckets[i].exists THEN "failed" ELSE "passed"
    OBVIOUS
  <2>2. location \in CheckEnded /\ Exit(c, location)
    BY <1>4, <2>1 DEF CheckEnded
  <2>3. under = {} /\ c \notin hurt' => location # "failed"
    BY <1>3, <1>4, <2>1
  <2>4. hurt \subseteq hurt' /\ hurt' \subseteq Checks
    BY <1>2, <1>4
  <2>5. QED
    BY <1>1, <1>2, <2>2, <2>3, <2>4, ExitMoves
<1>5. CASE Fails(c) /\ Exit(c, "failed")
  <2>1. hurt \subseteq hurt' /\ hurt' \subseteq Checks /\ c \in hurt'
    BY <1>5, FailsHurts
  <2>2. "failed" \in CheckEnded
    BY DEF CheckEnded
  <2>3. QED
    BY <1>1, <1>2, <1>5, <2>1, <2>2, ExitMoves
<1>6. QED
  BY <1>4, <1>5 DEF List

LEMMA KillKeeps ==
  ASSUME IInv, NEW c \in Checks, Kill(c)
  PROVE  IInv'
<1>1. where[c] \notin CheckEnded /\ Typed /\ Fails(c) /\ Exit(c, "killed") /\ "killed" \in CheckEnded
  BY DEF Kill, RunningChecks, CheckEnded, IInv
<1>2. n[c] \in Numbers /\ Bucket(c) \in BucketStates /\ Kept(under, n[c], Bucket(c))
  BY Here
<1>3. hurt \subseteq hurt' /\ hurt' \subseteq Checks /\ c \in hurt'
  BY <1>1, FailsHurts
<1>4. PICK left \in {Bucket(c)} \cup Halfway(Bucket(c)) : buckets' = [buckets EXCEPT ![n[c]] = left]
  <2>1. CASE where[c] = "run"
    BY <2>1 DEF Kill, Leaves
  <2>2. CASE where[c] # "run"
    BY <1>1, <2>2, Unchanged DEF Kill
  <2>3. QED
    BY <2>1, <2>2
<1>5. left \in BucketStates /\ Kept(under, n[c], left)
  BY <1>2, HalfwayKept
<1>6. QED
  BY <1>1, <1>3, <1>4, <1>5, ExitMoves

LEMMA InitIInv == CheckInit => IInv
<1> SUFFICES ASSUME CheckInit PROVE IInv
  OBVIOUS
<1>1. 1 \in Numbers /\ Nothing \in Observation /\ 1 \in 1 .. 3 /\ "idle" \in CheckLocations
      /\ "idle" \in CheckEnded /\ Gone \in BucketStates
  BY TwelveScenarios, NothingTyped, GoneKept DEF CheckLocations, CheckEnded
<1>2. Typed
  BY <1>1 DEF CheckInit, Typed
<1>3. ASSUME NEW c \in Checks
      PROVE  /\ where[c] = "idle" /\ n[c] = 1 /\ k[c] = 1
             /\ wrong[c] = FALSE /\ failures[c] = FALSE
  BY DEF CheckInit
<1>4. Alone
  BY <1>1, <1>3 DEF Alone
<1>5. \A i \in Numbers : Kept(under, i, buckets[i])
  BY GoneKept DEF CheckInit
<1>6. ASSUME NEW c \in Checks
      PROVE  Placed(c) /\ Learns(c) /\ SeesSound(c)
  <2>1. Placed(c)
    BY <1>3 DEF Placed, PlacedAt
  <2>2. Learns(c)
    <3>1. \A j : j \notin 1 .. (1 - 1)
      OBVIOUS
    <3>2. LearnsHere(under, where[c], n[c], Bucket(c), seen[c], wrong[c])
      BY <1>3 DEF LearnsHere
    <3>3. \A j \in 1 .. (n[c] - 1) : Survived(under, j)
      BY <1>3, <3>1
    <3>4. where[c] # "list"
      BY <1>3
    <3>5. QED
      BY <3>2, <3>3, <3>4 DEF Learns, LearnsAt
  <2>3. SeesSound(c)
    BY <1>1, <1>3 DEF SeesSound, SeesAt
  <2>4. QED
    BY <2>1, <2>2, <2>3
<1>7. QED
  BY <1>2, <1>4, <1>5, <1>6 DEF IInv

LEMMA NextIInv == IInv /\ [CheckNext]_checkVars => IInv'
<1> SUFFICES ASSUME IInv, [CheckNext]_checkVars PROVE IInv'
  OBVIOUS
<1>1. ASSUME NEW c \in Checks, Start(c) \/ CheckStep(c) \/ Kill(c)
      PROVE  IInv'
  BY <1>1, StartKeeps, RemoveKeeps, PrepareKeeps, ReadConfigKeeps, RunBootstrapKeeps,
     CleanKeeps, ListKeeps, KillKeeps DEF CheckStep
<1>2. ASSUME UNCHANGED checkVars
      PROVE  IInv'
  BY <1>2 DEF checkVars, runVars, IInv, Typed, Alone, Placed, Learns, SeesSound, Bucket
<1>3. QED
  BY <1>1, <1>2 DEF CheckNext

LEMMA Invariance == CheckSpec => []IInv
<1>1. QED
  BY InitIInv, NextIInv, PTL DEF CheckSpec

\* The types, the pre-state step a check is at, and that a bucket that is not
\* there has no policy and no rule, for any number of checks and defects.
THEOREM ScenarioTypes == CheckSpec => []CheckTypeOK
BY Invariance, TypedImplies, PTL

\* The committed bootstrap is never blamed by a check none of whose calls
\* failed, whatever earlier checks, interrupted or not, left behind.
THEOREM SoundIsNeverBlamed == CheckSpec => []SoundBootstrapPasses
<1>1. IInv => SoundBootstrapPasses
  <2>1. SUFFICES ASSUME IInv, NEW c \in Checks \ hurt, under = {}
                 PROVE  where[c] # "failed" /\ ~failures[c]
    BY DEF SoundBootstrapPasses
  <2>2. SeesSound(c)
    BY <2>1, Here
  <2>3. QED
    BY <2>1, <2>2 DEF SeesSound, SeesAt
<1>2. QED
  BY <1>1, Invariance, PTL

\* A check that passes has seen a bootstrap that accepts, refuses and repairs every
\* bucket of Findable as the committed one does: with any number of defects at
\* once, any number of failing calls and any number of interrupted checks before.
THEOREM DefectsAreCaught == CheckSpec => DefectsCaught
<1> DEFINE Caught(c) ==
             where[c] # "passed" /\ where'[c] = "passed" =>
               \A b \in Findable :
                 /\ Bootstrap(under, b).exit = Bootstrap({}, b).exit
                 /\ Bootstrap(under, b).left = Bootstrap({}, b).left
<1>1. IInv /\ [CheckNext]_checkVars => [\A c \in Checks : Caught(c)]_checkVars
  <2>1. SUFFICES ASSUME IInv, CheckNext, NEW c \in Checks, where[c] # "passed", where'[c] = "passed",
                        NEW b \in Findable
                 PROVE  /\ Bootstrap(under, b).exit = Bootstrap({}, b).exit
                        /\ Bootstrap(under, b).left = Bootstrap({}, b).left
    OBVIOUS
  <2>2. PICK d \in Checks : Start(d) \/ CheckStep(d) \/ Kill(d)
    BY <2>1 DEF CheckNext
  <2>3. where \in [Checks -> CheckLocations]
    BY <2>1 DEF IInv, Typed
  <2>4. List(d)
    <3>1. ASSUME NEW location, Goes(d, location), location # "passed"
          PROVE  FALSE
      BY <2>1, <2>3, <3>1 DEF Goes
    <3>2. ~Start(d) /\ ~Kill(d)
      BY <3>1 DEF Start, Kill, Exit
    <3>3. ASSUME NEW failed, NextScenario(d, failed)
          PROVE  FALSE
      <4>1. (IF n[d] = Len(SCENARIOS) THEN "list" ELSE "remove") # "passed"
        OBVIOUS
      <4>2. QED
        BY <3>1, <3>3, <4>1 DEF NextScenario
    <3>4. ASSUME NEW location, Within(d, location), location # "passed"
          PROVE  FALSE
      BY <3>1, <3>4 DEF Within
    <3>5. ~Remove(d)
      BY <3>3, <3>4 DEF Remove, Prepared
    <3>6. ~Prepare(d) /\ ~ReadConfig(d) /\ ~RunBootstrap(d)
      BY <3>4 DEF Prepare, ReadConfig, RunBootstrap
    <3>7. ~Clean(d)
      BY <3>3 DEF Clean
    <3>8. QED
      BY <2>2, <3>2, <3>5, <3>6, <3>7 DEF CheckStep
  <2>5. c = d
    BY <2>1, <2>3, <2>4 DEF List, Exit, Goes
  <2>6. where[c] = "list" /\ ~failures[c]
    BY <2>1, <2>3, <2>4, <2>5 DEF List, Exit, Goes
  <2>7. failures[c] = FALSE /\ n[c] = 12
    BY <2>1, <2>6, Here DEF PlacedAt
  <2>8. /\ \A j \in 1 .. (n[c] - 1) : Survived(under, j)
        /\ Survived(under, n[c])
    BY <2>1, <2>6, <2>7, Here DEF LearnsAt
  <2>9. \A j \in 1 .. 12 : Survived(under, j)
    <3>1. \A j \in 1 .. 12 : j = 12 \/ j \in 1 .. (12 - 1)
      OBVIOUS
    <3>2. QED
      BY <2>7, <2>8, <3>1
  <2>10. QED
    BY <2>9, SurvivorAgrees
<1>2. QED
  BY <1>1, Invariance, PTL DEF CheckSpec, DefectsCaught

-----------------------------------------------------------------------------
(* The script and its one step: a pod that runs alone on a bucket nobody   *)
(* else changes, and whose calls are answered, does call by call what      *)
(* StorageScenarios takes for one step.                                    *)

\* The bucket of StorageBootstrap, as StorageScenarios sees it: a rule that is
\* not right is one in some aspect, here "disabled".
RulesSeen == [id \in RuleIds |->
  LET state == rules[IF id = Operator THEN Foreign ELSE id]
  IN IF state = "wrong" THEN "disabled" ELSE state]
TheBucket == [exists |-> exists, policy |-> policy, rules |-> RulesSeen]
Foretold == Bootstrap({}, TheBucket)

\* What the committed bootstrap comes to.
Acceptable(b) == b.policy = FALSE /\ RulesOf(b) \subseteq Owned

LEMMA OneStepOutcome ==
  ASSUME NEW b \in BucketStates
  PROVE  \A r : r = Bootstrap({}, b) =>
           /\ r.left \in BucketStates /\ r.left.exists = TRUE
           /\ r.left.policy = b.policy
           /\ IF Acceptable(b) THEN r.exit = 0 /\ r.left.rules = OWNED_RULES
                               ELSE r.exit = 1 /\ r.left.rules = b.rules
<1>1. PICK u : u = {}
  OBVIOUS
<1>2. SUFFICES ASSUME NEW r, r = Bootstrap(u, b)
      PROVE  /\ r.left \in BucketStates /\ r.left.exists = TRUE
             /\ r.left.policy = b.policy
             /\ IF Acceptable(b) THEN r.exit = 0 /\ r.left.rules = OWNED_RULES
                                 ELSE r.exit = 1 /\ r.left.rules = b.rules
  BY <1>1
<1>3. r \in Outcomes /\ r.left.exists = TRUE
  BY <1>2, Runs
<1>4. r.left \in BucketStates
  BY <1>3 DEF Outcomes
<1>5. r.left.policy = b.policy
  BY <1>2, KeepsPolicy
<1>6. /\ <<"once", "only">> \notin u /\ <<"rewrite", "announced">> \notin u
      /\ <<"rewrite", "silent">> \notin u /\ <<"no refusal", "policy">> \notin u
      /\ <<"no refusal", "foreign">> \notin u
  BY <1>1
<1>7. Mine(u) = Owned /\ Writes(u) = OWNED_RULES
  BY <1>1, WritesTyped
<1>8. Configured(u, b) <=> b.rules = OWNED_RULES
  BY <1>1, SoundConfigured
<1>9. b.policy \in BOOLEAN
  BY DEF BucketStates
<1>10. CASE b.policy = TRUE
  <2>1. r.exit = 1 /\ r.left.rules = b.rules
    BY <1>2, <1>6, <1>10, Refuses
  <2>2. ~Acceptable(b)
    BY <1>10 DEF Acceptable
  <2>3. QED
    BY <1>3, <1>4, <1>5, <2>1, <2>2
<1>11. CASE b.policy = FALSE /\ ~(RulesOf(b) \subseteq Owned)
  <2>1. r.exit = 1 /\ r.left.rules = b.rules
    BY <1>2, <1>6, <1>7, <1>11, Refuses
  <2>2. ~Acceptable(b)
    BY <1>11 DEF Acceptable
  <2>3. QED
    BY <1>3, <1>4, <1>5, <2>1, <2>2
<1>12. CASE b.policy = FALSE /\ RulesOf(b) \subseteq Owned
  <2>1. r.exit = 0
    BY <1>2, <1>6, <1>7, <1>12, Accepts
  <2>2. CASE b.rules = OWNED_RULES
    <3>1. r.left.rules = b.rules
      BY <1>2, <1>6, <1>7, <1>8, <1>12, <2>2, Accepts
    <3>2. QED
      BY <1>3, <1>4, <1>5, <1>12, <2>1, <2>2, <3>1 DEF Acceptable
  <2>3. CASE b.rules # OWNED_RULES
    <3>1. r.left.rules = OWNED_RULES
      BY <1>2, <1>6, <1>7, <1>8, <1>12, <2>3, Accepts
    <3>2. QED
      BY <1>3, <1>4, <1>5, <1>12, <2>1, <3>1 DEF Acceptable
  <2>4. QED
    BY <2>2, <2>3
<1>13. QED
  BY <1>9, <1>10, <1>11, <1>12

LEMMA SameIds ==
  /\ Owned = Ours /\ RuleIds = Ours \cup {Operator}
  /\ Operator \notin Ours /\ Ids = Ours \cup {Foreign} /\ Foreign \notin Ours
BY DEF Owned, RuleIds, Operator, Ours, Ids, Foreign

LEMMA SeenRules ==
  ASSUME TypeOK
  PROVE  /\ RulesSeen \in [RuleIds -> RuleStates]
         /\ {id \in RuleIds : RulesSeen[id] # "absent"} \subseteq Owned
              <=> rules[Foreign] = "absent"
         /\ rules = desired => RulesSeen = OWNED_RULES
<1>1. rules \in [Ids -> {"absent", "right", "wrong"}]
  BY DEF TypeOK, Configurations
<1>2. ASSUME NEW id \in RuleIds
      PROVE  RulesSeen[id] \in RuleStates
  <2>1. (IF id = Operator THEN Foreign ELSE id) \in Ids
    BY SameIds
  <2>2. QED
    BY <1>1, <2>1 DEF RulesSeen, RuleStates, Aspects
<1>3. RulesSeen \in [RuleIds -> RuleStates]
  BY <1>2 DEF RulesSeen
<1>4. RulesSeen[Operator] = "absent" <=> rules[Foreign] = "absent"
  BY <1>1, SameIds DEF RulesSeen
<1>5. {id \in RuleIds : RulesSeen[id] # "absent"} \subseteq Owned
        <=> RulesSeen[Operator] = "absent"
  BY SameIds
<1>6. ASSUME rules = desired
      PROVE  RulesSeen = OWNED_RULES
  <2>1. ASSUME NEW id \in RuleIds
        PROVE  RulesSeen[id] = OWNED_RULES[id]
    BY <1>6, SameIds, DesiredSuits DEF RulesSeen, OWNED_RULES
  <2>2. QED
    BY <1>3, <2>1, RulesTyped
<1>7. QED
  BY <1>3, <1>4, <1>5, <1>6

LEMMA SeenBucket ==
  ASSUME TypeOK, NEW b, b = TheBucket
  PROVE  /\ b \in BucketStates /\ b.exists = exists /\ b.policy = policy /\ b.rules = RulesSeen
         /\ Acceptable(b) <=> policy = FALSE /\ rules[Foreign] = "absent"
<1>1. exists \in BOOLEAN /\ policy \in BOOLEAN /\ RulesSeen \in [RuleIds -> RuleStates]
  BY SeenRules DEF TypeOK
<1>2. b \in BucketStates /\ b.exists = exists /\ b.policy = policy /\ b.rules = RulesSeen
  BY <1>1, BucketFields DEF TheBucket
<1>3. RulesOf(b) = {id \in RuleIds : RulesSeen[id] # "absent"}
  BY <1>2 DEF RulesOf
<1>4. QED
  BY <1>2, <1>3, SeenRules DEF Acceptable

\* What the one step comes to, in the script's own terms.
LEMMA ForetoldFields ==
  ASSUME TypeOK
  PROVE  /\ Foretold.left \in BucketStates /\ Foretold.left.exists = TRUE
         /\ Foretold.left.policy = policy
         /\ IF policy = FALSE /\ rules[Foreign] = "absent"
            THEN Foretold.exit = 0 /\ Foretold.left.rules = OWNED_RULES
            ELSE Foretold.exit = 1 /\ Foretold.left.rules = RulesSeen
<1>1. PICK b : b = TheBucket
  OBVIOUS
<1>2. PICK r : r = Bootstrap({}, b)
  OBVIOUS
<1>3. /\ b \in BucketStates /\ b.policy = policy /\ b.rules = RulesSeen
      /\ Acceptable(b) <=> policy = FALSE /\ rules[Foreign] = "absent"
  BY <1>1, SeenBucket
<1>4. /\ r.left \in BucketStates /\ r.left.exists = TRUE
      /\ r.left.policy = b.policy
      /\ IF Acceptable(b) THEN r.exit = 0 /\ r.left.rules = OWNED_RULES
                          ELSE r.exit = 1 /\ r.left.rules = b.rules
  BY <1>2, <1>3, OneStepOutcome
<1>5. r = Foretold
  BY <1>1, <1>2 DEF Foretold
<1>6. QED
  BY <1>3, <1>4, <1>5

\* What a pod knows of the bucket at each of its calls, when it runs alone.
KnowsAll(p) ==
  /\ pc[p] = "make" => exists = FALSE
  /\ pc[p] \notin Ended \cup {"head", "make"} => exists = TRUE
  /\ pc[p] \notin Ended \cup {"head", "make", "policy"} => policy = FALSE
  /\ pc[p] = "owned" => total[p] = Cardinality(Present) /\ Present # {}
  /\ pc[p] \in {"sources", "zips", "abort"} => Present = Ours
  /\ pc[p] \in {"zips", "abort"} => rules["expire-sources"] = "right"
  /\ pc[p] = "abort" => rules["expire-zips"] = "right"
  /\ pc[p] = "put" => rules[Foreign] = "absent"
  /\ pc[p] \in {"vTotal", "vSources", "vZips", "vAbort"} => rules = desired
Lone(p) == (p \in Running => Running = {p}) /\ KnowsAll(p)
LoneInductive == TypeOK /\ \A p \in Undisturbed : Lone(p)

\* Three owned rules and no other are all of ours; if right, the desired ones.
LEMMA OursCounted ==
  /\ Cardinality(Present \cap Ours) = Cardinality(Present) /\ Cardinality(Present) = 3 => Present = Ours
  /\ Present \cap Ours = Present => rules[Foreign] = "absent"
  /\ rules[Foreign] = "absent" => Present \cap Ours = Present
<1>1. IsFiniteSet(Present) /\ IsFiniteSet(Ours) /\ Present \cap Ours \subseteq Present
      /\ Present \cap Ours \subseteq Ours
  BY IdsFinite, FS_Subset DEF Present, Ids
<1>2. Cardinality(Present \cap Ours) = Cardinality(Present) => Present \cap Ours = Present
  BY <1>1, FS_Subset
<1>3. Cardinality(Present \cap Ours) = 3 => Present \cap Ours = Ours
  BY <1>1, IdsFinite, FS_Subset
<1>4. Present \cap Ours = Present => rules[Foreign] = "absent"
  BY SameIds DEF Present
<1>5. rules[Foreign] = "absent" => Present \cap Ours = Present
  BY SameIds DEF Present
<1>6. QED
  BY <1>2, <1>3, <1>4, <1>5

LEMMA AllRight ==
  ASSUME TypeOK, Present = Ours, \A i \in Ours : rules[i] = "right"
  PROVE  rules = desired
<1>1. rules[Foreign] = "absent"
  BY SameIds DEF Present
<1>2. rules \in [Ids -> {"absent", "right", "wrong"}]
  BY DEF TypeOK, Configurations
<1>3. \A i \in Ids : rules[i] = desired[i]
  BY <1>1, SameIds, DesiredSuits
<1>4. QED
  BY <1>2, <1>3 DEF desired

\* A pod's own call, answered, moves its knowledge along with it.
LEMMA KnowsNext ==
  ASSUME TypeOK, NEW p \in Pods, KnowsAll(p), ScriptStep(p) \/ StartPod(p),
         CallsFail = FALSE
  PROVE  KnowsAll(p)'
<1>1. ASSUME NEW location, Goto(p, location)
      PROVE  pc'[p] = location
  BY <1>1 DEF Goto, TypeOK
<1>2. CASE StartPod(p)
  <2>1. pc'[p] = "head"
    BY <1>1, <1>2 DEF StartPod
  <2>2. QED
    BY <2>1 DEF KnowsAll, Ended
<1>3. CASE HeadBucket(p)
  <2>1. \/ exists = TRUE /\ exists' = TRUE /\ pc'[p] = "policy"
        \/ exists' = FALSE /\ pc'[p] = "make"
    BY <1>1, <1>3 DEF HeadBucket, bucketVars, TypeOK
  <2>2. QED
    BY <2>1 DEF KnowsAll, Ended
<1>4. CASE CreateBucket(p)
  <2>1. exists' = TRUE /\ pc'[p] \in {"policy", "failed"}
    BY <1>1, <1>4 DEF CreateBucket
  <2>2. QED
    BY <2>1 DEF KnowsAll, Ended
<1>5. CASE AssertNoPolicy(p)
  <2>1. \/ exists' = TRUE /\ policy' = FALSE /\ pc'[p] = "total"
        \/ pc'[p] = "failed"
    BY <1>1, <1>5 DEF AssertNoPolicy, bucketVars, TypeOK
  <2>2. QED
    BY <2>1 DEF KnowsAll, Ended
<1>6. CASE ReadTotal(p)
  <2>1. exists' = TRUE /\ policy' = FALSE /\ rules' = rules /\ Present' = Present
    BY <1>6 DEF ReadTotal, bucketVars, KnowsAll, Present, Ended
  <2>2. \/ Present = {} /\ pc'[p] = "put"
        \/ Present # {} /\ pc'[p] = "owned" /\ total'[p] = Cardinality(Present)
    BY <1>1, <1>6 DEF ReadTotal, TypeOK
  <2>3. Present = {} => rules[Foreign] = "absent"
    BY OursCounted
  <2>4. QED
    BY <2>1, <2>2, <2>3 DEF KnowsAll, Ended
<1>7. CASE ReadOwned(p)
  <2>1. exists' = TRUE /\ policy' = FALSE /\ rules' = rules /\ Present' = Present /\ Ours' = Ours
    BY <1>7 DEF ReadOwned, bucketVars, KnowsAll, Present, Ended
  <2>2. total[p] = Cardinality(Present)
    BY <1>7 DEF ReadOwned, KnowsAll
  <2>3. \/ pc'[p] = "failed"
        \/ /\ Cardinality(Present \cap Ours) = total[p]
           /\ IF total[p] = 3 THEN pc'[p] = "sources" ELSE pc'[p] = "put"
    BY <1>1, <1>7 DEF ReadOwned
  <2>4. pc'[p] = "sources" => Present = Ours
    BY <2>2, <2>3, OursCounted
  <2>5. pc'[p] = "put" => rules[Foreign] = "absent"
    BY <2>2, <2>3, AllOwned
  <2>6. QED
    BY <2>1, <2>3, <2>4, <2>5 DEF KnowsAll, Ended
<1>8. CASE CheckConfigured(p)
  <2>1. exists' = TRUE /\ policy' = FALSE /\ rules' = rules /\ Present' = Present /\ Ours' = Ours
        /\ desired' = desired
    BY <1>8 DEF CheckConfigured, CheckRule, bucketVars, KnowsAll, Present, desired, Ended
  <2>2. Present = Ours
    BY <1>8 DEF CheckConfigured, CheckRule, KnowsAll
  <2>3. rules[Foreign] = "absent"
    BY <2>2, OursCounted
  <2>4. \/ pc'[p] = "put"
        \/ pc'[p] = "zips" /\ rules["expire-sources"] = "right"
        \/ pc'[p] = "abort" /\ rules["expire-sources"] = "right" /\ rules["expire-zips"] = "right"
        \/ pc'[p] = "vTotal" /\ \A i \in Ours : rules[i] = "right"
    BY <1>1, <1>8 DEF CheckConfigured, CheckRule, KnowsAll, Ours
  <2>5. pc'[p] = "vTotal" => rules = desired
    BY <2>2, <2>4, AllRight
  <2>6. QED
    BY <2>1, <2>2, <2>3, <2>4, <2>5 DEF KnowsAll, Ended
<1>9. CASE PutLifecycle(p)
  <2>1. exists' = TRUE /\ policy' = FALSE /\ rules' = desired' /\ pc'[p] = "vTotal"
    BY <1>1, <1>9 DEF PutLifecycle, KnowsAll, Ended, desired
  <2>2. QED
    BY <2>1 DEF KnowsAll, Ended
<1>10. CASE VerifyTotal(p) \/ VerifyRules(p)
  <2>1. exists' = TRUE /\ policy' = FALSE /\ rules' = desired'
    BY <1>10 DEF VerifyTotal, VerifyRules, CheckRule, bucketVars, KnowsAll, Ended, desired
  <2>2. pc'[p] \in Ended \cup {"vSources", "vZips", "vAbort"}
    BY <1>1, <1>10 DEF VerifyTotal, VerifyRules, CheckRule, Ended
  <2>3. QED
    BY <2>1, <2>2 DEF KnowsAll, Ended
<1>11. QED
  BY <1>2, <1>3, <1>4, <1>5, <1>6, <1>7, <1>8, <1>9, <1>10 DEF ScriptStep

LEMMA LoneNext ==
  ASSUME LoneInductive, [Next]_vars, CallsFail = FALSE
  PROVE  LoneInductive'
<1>1. TypeOK'
  BY NextTyped DEF LoneInductive
<1>2. ASSUME NEW p \in Undisturbed' PROVE Lone(p)'
  <2>1. p \in Pods /\ p \in Undisturbed
    BY <1>2 DEF Undisturbed, Next, StartPod, ScriptStep, HeadBucket, CreateBucket,
         AssertNoPolicy, ReadTotal, ReadOwned, CheckConfigured, CheckRule,
         PutLifecycle, VerifyTotal, VerifyRules, CallFails, JobEnds,
         OperatorEdit, historyVars, vars
  <2>2. Lone(p) /\ TypeOK
    BY <2>1 DEF LoneInductive
  <2>3. p \notin joined' /\ p \notin touched'
    BY <1>2 DEF Undisturbed
  <2>4. CASE ScriptStep(p) \/ StartPod(p)
    <3>1. KnowsAll(p)'
      BY <2>1, <2>2, <2>4, KnowsNext DEF Lone
    <3>2. Running' \subseteq {p}
      <4>1. CASE StartPod(p)
        <5>1. Running = {}
          BY <2>3, <4>1 DEF StartPod
        <5>2. QED
          BY <2>1, <2>2, <4>1, <5>1, OthersRun
      <4>2. CASE ScriptStep(p) /\ ~StartPod(p)
        <5>1. Running = {p}
          BY <2>1, <2>2, <4>2, OthersRun DEF Lone
        <5>2. QED
          BY <2>1, <2>2, <4>2, <5>1, OthersRun
      <4>3. QED
        BY <2>4, <4>1, <4>2
    <3>3. QED
      BY <3>1, <3>2 DEF Lone
  <2>5. ASSUME NEW q \in Pods, q # p, StartPod(q) \/ ScriptStep(q)
        PROVE  Lone(p)'
    <3>1. pc'[p] = pc[p]
      BY <2>1, <2>2, <2>5, OthersRun
    <3>2. p \notin Running
      <4>1. CASE StartPod(q)
        BY <2>3, <4>1 DEF StartPod
      <4>2. CASE ~StartPod(q)
        BY <2>1, <2>2, <2>5, <4>2, OthersRun DEF Lone
      <4>3. QED
        BY <4>1, <4>2
    <3>3. pc'[p] \in Ended
      BY <2>1, <3>1, <3>2 DEF Running
    <3>4. QED
      BY <3>3 DEF Lone, KnowsAll, Running, Ended
  <2>6. CASE JobEnds \/ UNCHANGED vars
    BY <2>1, <2>2, <2>6 DEF JobEnds, vars, bucketVars, Lone, KnowsAll, Running, Present, desired
  <2>7. CASE OperatorEdit
    <3>1. pc'[p] \in Ended
      BY <2>1, <2>3, <2>7 DEF OperatorEdit, Running
    <3>2. QED
      BY <3>1 DEF Lone, KnowsAll, Running, Ended
  <2>8. \A q \in Pods : ~CallFails(q)
    BY DEF CallFails
  <2>9. QED
    BY <2>4, <2>5, <2>6, <2>7, <2>8 DEF Next
<1>3. QED
  BY <1>1, <1>2 DEF LoneInductive

LEMMA SeenAll ==
  TypeOK => \A a : a = TheBucket =>
    a \in BucketStates /\ a.exists = exists /\ a.policy = policy /\ a.rules = RulesSeen
BY SeenBucket

\* Every call leaves what the one step foretells as it was; where the pod ends,
\* it has come true.
LEMMA StepsAgree ==
  ASSUME TypeOK, TypeOK', NEW p \in Pods, KnowsAll(p), ScriptStep(p), CallsFail = FALSE
  PROVE  /\ Foretold'.exit = Foretold.exit /\ Foretold'.left = Foretold.left
         /\ pc'[p] = "ok" => Foretold.exit = 0 /\ TheBucket' = Foretold.left
         /\ pc'[p] = "failed" => Foretold.exit = 1 /\ TheBucket' = Foretold.left
<1>1. /\ Foretold.left \in BucketStates /\ Foretold.left.exists = TRUE
      /\ Foretold.left.policy = policy
      /\ IF policy = FALSE /\ rules[Foreign] = "absent"
         THEN Foretold.exit = 0 /\ Foretold.left.rules = OWNED_RULES
         ELSE Foretold.exit = 1 /\ Foretold.left.rules = RulesSeen
  BY ForetoldFields
<1>2. /\ Foretold'.left \in BucketStates /\ Foretold'.left.exists = TRUE
      /\ Foretold'.left.policy = policy'
      /\ IF policy' = FALSE /\ rules'[Foreign] = "absent"
         THEN Foretold'.exit = 0 /\ Foretold'.left.rules = OWNED_RULES
         ELSE Foretold'.exit = 1 /\ Foretold'.left.rules = RulesSeen'
  <2>1. (TypeOK => /\ Foretold.left \in BucketStates /\ Foretold.left.exists = TRUE
                   /\ Foretold.left.policy = policy
                   /\ IF policy = FALSE /\ rules[Foreign] = "absent"
                      THEN Foretold.exit = 0 /\ Foretold.left.rules = OWNED_RULES
                      ELSE Foretold.exit = 1 /\ Foretold.left.rules = RulesSeen)'
    BY ForetoldFields, PTL
  <2>2. QED
    BY <2>1
<1>3. policy' = policy /\ (rules' = rules \/ (PutLifecycle(p) /\ rules' = desired))
  BY DEF ScriptStep, HeadBucket, CreateBucket, AssertNoPolicy, ReadTotal, ReadOwned,
     CheckConfigured, CheckRule, PutLifecycle, VerifyTotal, VerifyRules, bucketVars
<1>4. rules' = rules => RulesSeen' = RulesSeen
  BY DEF RulesSeen
<1>5. PutLifecycle(p) => policy = FALSE /\ rules[Foreign] = "absent" /\ desired[Foreign] = "absent"
  BY DesiredSuits DEF PutLifecycle, KnowsAll, Ended
<1>6. /\ Foretold'.exit = Foretold.exit
      /\ Foretold'.left.policy = Foretold.left.policy
      /\ Foretold'.left.rules = Foretold.left.rules
  <2>1. CASE rules' = rules
    BY <1>1, <1>2, <1>3, <1>4, <2>1
  <2>2. CASE PutLifecycle(p) /\ rules' = desired
    BY <1>1, <1>2, <1>3, <1>5, <2>2
  <2>3. QED
    BY <1>3, <2>1, <2>2
<1>7. Foretold'.left = Foretold.left
  BY <1>1, <1>2, <1>6, SameBucket
<1>8. PICK b : b = TheBucket'
  OBVIOUS
<1>9. b \in BucketStates /\ b.exists = exists' /\ b.policy = policy' /\ b.rules = RulesSeen'
  <2>1. (TypeOK => \A a : a = TheBucket =>
           a \in BucketStates /\ a.exists = exists /\ a.policy = policy /\ a.rules = RulesSeen)'
    BY SeenAll, PTL
  <2>2. QED
    BY <1>8, <2>1
<1>10. ASSUME pc'[p] = "ok"
       PROVE  Foretold.exit = 0 /\ TheBucket' = Foretold.left
  <2>1. pc[p] = "vAbort" /\ exists' = exists /\ rules' = rules
    BY <1>10 DEF ScriptStep, HeadBucket, CreateBucket, AssertNoPolicy, ReadTotal, ReadOwned,
       CheckConfigured, CheckRule, PutLifecycle, VerifyTotal, VerifyRules, bucketVars, Goto, TypeOK
  <2>2. exists = TRUE /\ policy = FALSE /\ rules = desired
    BY <2>1 DEF KnowsAll, Ended
  <2>3. rules[Foreign] = "absent" /\ RulesSeen = OWNED_RULES
    BY <2>2, DesiredSuits, SeenRules
  <2>4. b.exists = TRUE /\ b.policy = policy /\ b.rules = OWNED_RULES
    BY <1>3, <1>4, <1>9, <2>1, <2>2, <2>3
  <2>5. Foretold.exit = 0 /\ Foretold.left.rules = OWNED_RULES
    BY <1>1, <2>2, <2>3
  <2>6. b = Foretold.left
    BY <1>1, <1>9, <2>4, <2>5, SameBucket
  <2>7. QED
    BY <1>8, <2>5, <2>6
<1>11. ASSUME pc'[p] = "failed"
       PROVE  Foretold.exit = 1 /\ TheBucket' = Foretold.left
  <2>1. ASSUME NEW location, Goto(p, location)
        PROVE  pc'[p] = location
    BY <2>1 DEF Goto, TypeOK
  <2>2. \/ pc[p] = "policy" /\ ~(exists /\ ~policy) /\ UNCHANGED bucketVars
        \/ pc[p] = "owned" /\ UNCHANGED bucketVars
           /\ ~(Present # {} /\ Cardinality(Present \cap Ours) = total[p])
    <3>1. ~HeadBucket(p) /\ ~ReadTotal(p) /\ ~CheckConfigured(p) /\ ~PutLifecycle(p)
      BY <1>11, <2>1 DEF HeadBucket, ReadTotal, CheckConfigured, CheckRule, PutLifecycle
    <3>2. ~CreateBucket(p)
      BY <1>11, <2>1 DEF CreateBucket, KnowsAll
    <3>3. ~VerifyTotal(p)
      <4>1. pc[p] = "vTotal" => Cardinality(Present) = 3
        BY DesiredIsThree DEF KnowsAll
      <4>2. QED
        BY <1>11, <2>1, <4>1 DEF VerifyTotal
    <3>4. ~VerifyRules(p)
      <4>1. pc[p] \in {"vSources", "vZips", "vAbort"} => \A i \in Ours : rules[i] = "right"
        BY DesiredSuits DEF KnowsAll
      <4>2. QED
        BY <1>11, <2>1, <4>1 DEF VerifyRules, CheckRule, Ours
    <3>5. AssertNoPolicy(p) => pc[p] = "policy" /\ ~(exists /\ ~policy) /\ UNCHANGED bucketVars
      BY <1>11, <2>1 DEF AssertNoPolicy
    <3>6. ReadOwned(p) => pc[p] = "owned" /\ UNCHANGED bucketVars
            /\ ~(Present # {} /\ Cardinality(Present \cap Ours) = total[p])
      BY <1>11, <2>1 DEF ReadOwned
    <3>7. QED
      BY <3>1, <3>2, <3>3, <3>4, <3>5, <3>6 DEF ScriptStep
  <2>3. exists = TRUE /\ exists' = exists /\ rules' = rules
    BY <2>2 DEF KnowsAll, Ended, bucketVars
  <2>4. ~(policy = FALSE /\ rules[Foreign] = "absent")
    <3>1. CASE pc[p] = "policy" /\ ~(exists /\ ~policy)
      BY <2>3, <3>1 DEF TypeOK
    <3>2. CASE pc[p] = "owned" /\ ~(Present # {} /\ Cardinality(Present \cap Ours) = total[p])
      BY <3>2, OursCounted DEF KnowsAll
    <3>3. QED
      BY <2>2, <3>1, <3>2
  <2>5. Foretold.exit = 1 /\ Foretold.left.rules = RulesSeen
    BY <1>1, <2>4
  <2>6. b.exists = TRUE /\ b.policy = policy /\ b.rules = RulesSeen
    BY <1>3, <1>4, <1>9, <2>3
  <2>7. b = Foretold.left
    BY <1>1, <1>9, <2>5, <2>6, SameBucket
  <2>8. QED
    BY <1>8, <2>5, <2>7
<1>12. QED
  BY <1>6, <1>7, <1>10, <1>11

\* What StorageScenarios takes for one step is what the script of the committed
\* bootstrap does call by call, whatever the bucket it finds: at every call of a
\* pod that runs alone the one step would still come to the same, and the pod
\* ends with its exit and leaves its bucket. A call that fails is a step of its
\* own in both modules, so none fails here.
THEOREM OneStepAgrees ==
  ASSUME CallsFail = FALSE
  PROVE  Spec =>
           [][\A p \in Undisturbed : ScriptStep(p) =>
                /\ Foretold'.exit = Foretold.exit /\ Foretold'.left = Foretold.left
                /\ pc'[p] = "ok" => Foretold.exit = 0 /\ TheBucket' = Foretold.left
                /\ pc'[p] = "failed" => Foretold.exit = 1 /\ TheBucket' = Foretold.left]_vars
<1> DEFINE Agrees(p) ==
             /\ Foretold'.exit = Foretold.exit /\ Foretold'.left = Foretold.left
             /\ pc'[p] = "ok" => Foretold.exit = 0 /\ TheBucket' = Foretold.left
             /\ pc'[p] = "failed" => Foretold.exit = 1 /\ TheBucket' = Foretold.left
<1>1. Init => LoneInductive
  <2> SUFFICES ASSUME Init PROVE LoneInductive
    OBVIOUS
  <2>1. \A p \in Pods : pc[p] = "waiting"
    BY DEF Init
  <2>2. QED
    BY <2>1, InitTyped DEF LoneInductive, Undisturbed, Lone, KnowsAll, Running, Ended
<1>2. LoneInductive /\ [Next]_vars => LoneInductive'
  BY LoneNext
<1>3. LoneInductive /\ [Next]_vars => [\A p \in Undisturbed : ScriptStep(p) => Agrees(p)]_vars
  <2>1. SUFFICES ASSUME LoneInductive, Next, NEW p \in Undisturbed, ScriptStep(p)
                 PROVE  Agrees(p)
    OBVIOUS
  <2>2. TypeOK /\ KnowsAll(p) /\ p \in Pods
    BY <2>1 DEF LoneInductive, Lone, Undisturbed
  <2>3. TypeOK'
    BY <1>2, <2>1 DEF LoneInductive
  <2>4. QED
    BY <2>1, <2>2, <2>3, StepsAgree
<1>4. QED
  BY <1>1, <1>2, <1>3, PTL DEF Spec
===============================================================================
