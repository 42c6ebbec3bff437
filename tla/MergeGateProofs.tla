--------------------------- MODULE MergeGateProofs ---------------------------
(* Theorems about MergeGate, for every set of pull requests.               *)
EXTENDS MergeGate, SequenceTheorems, FiniteSetTheorems, WellFoundedInduction, TLAPS

\* A step no failure of which goes unnoticed.
Must(j, i) ==
  LET step == StepsOf(j)[i]
  IN step.cond = "" /\ ~step.cont /\ Faithful(step)

\* What a job has done so far, and how it ended.
JobInv(j) ==
  /\ state[j] = "waiting" => at[j] = 1
  /\ state[j] # "waiting" => Has(workflow, j)
  /\ state[j] = "running" =>
       /\ at[j] <= Len(StepsOf(j)) + 1
       /\ ~red[j] => \A i \in 1 .. (at[j] - 1) : Must(j, i) => i \in passed[j]
  /\ state[j] = "success" /\ ~workflow.jobs[j].cont =>
       \A i \in DOMAIN StepsOf(j) : Must(j, i) => i \in passed[j]
  /\ state[j] = "skipped" /\ workflow.jobs[j].cond = "" =>
       \E k \in workflow.jobs[j].needs : state[k] \in Concluded \ {"success"}

IInv ==
  /\ TypeOK
  /\ change \in Changes
  /\ \A j \in JobNames : JobInv(j)
  /\ merged => Mergeable

-----------------------------------------------------------------------------

\* What the constants' assumption says of a job of the change.
LEMMA Parsed ==
  ASSUME change \in Changes, NEW j \in DOMAIN workflow.jobs
  PROVE  /\ j \in JobNames /\ workflow.jobs[j] \in Job
         /\ StepsOf(j) \in Seq(Step)
         /\ Len(StepsOf(j)) \in Nat /\ DOMAIN StepsOf(j) = 1 .. Len(StepsOf(j))
         /\ \A i \in DOMAIN StepsOf(j) : StepsOf(j)[i] \in Step
BY ConstantsAssumption DEF workflow, StepsOf, Job

\* Where nothing is written in quotes the guard sees what is there.
LEMMA SeenInTheOpen ==
  ASSUME change \in Changes, InTheOpen(workflow), NEW j \in DOMAIN workflow.jobs
  PROVE  Seen(workflow.jobs[j]) = workflow.jobs[j] /\ parseSteps(workflow.jobs[j]) = StepsOf(j)
<1>1. Seen(workflow.jobs[j]) = workflow.jobs[j]
  BY DEF Seen, InTheOpen
<1>2. \A i \in DOMAIN StepsOf(j) : Seen(StepsOf(j)[i]) = StepsOf(j)[i]
  BY DEF Seen, InTheOpen, StepsOf
<1>3. StepsOf(j) = [i \in DOMAIN StepsOf(j) |-> StepsOf(j)[i]]
  BY Parsed
<1>4. parseSteps(workflow.jobs[j]) = [i \in DOMAIN StepsOf(j) |-> Seen(StepsOf(j)[i])]
  BY DEF parseSteps, StepsOf
<1>. QED BY <1>1, <1>2, <1>3, <1>4

\* A step keeps the types and the pull request.
LEMMA TypesStep ==
  ASSUME TypeOK, change \in Changes, [Next]_vars
  PROVE  TypeOK' /\ change' \in Changes
<1>1. ASSUME NEW j \in JobNames, StartJob(j)
      PROVE  TypeOK' /\ change' \in Changes
  BY <1>1 DEF StartJob, TypeOK, Concluded
<1>2. ASSUME NEW j \in JobNames, SkipStep(j)
      PROVE  TypeOK' /\ change' \in Changes
  BY <1>2 DEF SkipStep, Move, TypeOK
<1>3. ASSUME NEW j \in JobNames, StepPasses(j)
      PROVE  TypeOK' /\ change' \in Changes
  BY <1>3 DEF StepPasses, Move, TypeOK
<1>4. ASSUME NEW j \in JobNames, StepFails(j)
      PROVE  TypeOK' /\ change' \in Changes
  <2>1. red' \in [JobNames -> BOOLEAN]
    BY <1>4 DEF StepFails, TypeOK
  <2>2. mishaps' \in 0 .. MaxMishaps
    BY <1>4, ConstantsAssumption DEF StepFails, Mishap, TypeOK
  <2>3. at' \in [JobNames -> Nat \ {0}] /\ \A k \in JobNames : passed'[k] \subseteq 1 .. (at'[k] - 1)
    BY <1>4 DEF StepFails, Move, TypeOK
  <2>. QED BY <1>4, <2>1, <2>2, <2>3 DEF StepFails, TypeOK
<1>5. ASSUME NEW j \in JobNames, EndJob(j)
      PROVE  TypeOK' /\ change' \in Changes
  BY <1>5 DEF EndJob, TypeOK, Concluded
<1>6. ASSUME NEW j \in JobNames, CutJob(j)
      PROVE  TypeOK' /\ change' \in Changes
  BY <1>6, ConstantsAssumption DEF CutJob, Mishap, TypeOK, Concluded
<1>7. CASE SiblingMerges BY <1>7 DEF SiblingMerges, runVars, TypeOK
<1>8. CASE Merge BY <1>8 DEF Merge, runVars, TypeOK
<1>9. ASSUME NEW c \in calls, OperatorRuns(c)
      PROVE  TypeOK' /\ change' \in Changes
  BY <1>9 DEF OperatorRuns, runVars, TypeOK
<1>10. CASE UNCHANGED vars BY <1>10 DEF vars, runVars, TypeOK
<1>. QED BY <1>1, <1>2, <1>3, <1>4, <1>5, <1>6, <1>7, <1>8, <1>9, <1>10 DEF Next, JobStep

\* The types hold at the start.
LEMMA TypesInit == Init => TypeOK /\ change \in Changes
<1> SUFFICES ASSUME Init PROVE TypeOK /\ change \in Changes
  OBVIOUS
<1>1. state \in [JobNames -> {"waiting", "running"} \cup Concluded] /\ at \in [JobNames -> Nat \ {0}]
  BY DEF Init
<1>2. red \in [JobNames -> BOOLEAN]
  BY DEF Init
<1>3. passed \in [JobNames -> SUBSET Nat] /\ \A j \in JobNames : passed[j] \subseteq 1 .. (at[j] - 1)
  BY DEF Init
<1>4. mishaps \in 0 .. MaxMishaps
  BY ConstantsAssumption DEF Init
<1>5. merged \in BOOLEAN /\ change \in Changes
  BY DEF Init
<1>. QED BY <1>1, <1>2, <1>3, <1>4, <1>5 DEF TypeOK

\* TypeOK, for every set of pull requests.
THEOREM GateTypes == Spec => [](TypeOK /\ change \in Changes)
<1>1. Init => TypeOK /\ change \in Changes
  BY TypesInit
<1>2. TypeOK /\ change \in Changes /\ [Next]_vars => (TypeOK /\ change \in Changes)'
  BY TypesStep
<1>. QED BY <1>1, <1>2, PTL DEF Spec

-----------------------------------------------------------------------------

\* What a job's past depends on: nothing that another job does, except that a
\* skipped job owes it to one that is concluded and stays so.
LEMMA OthersKeepJob ==
  ASSUME TypeOK, change \in Changes, NEW k \in JobNames, JobInv(k), change' = change,
         state'[k] = state[k], at'[k] = at[k], red'[k] = red[k], passed'[k] = passed[k],
         \A l \in JobNames : state[l] \in Concluded => state'[l] = state[l]
  PROVE  JobInv(k)'
<1>1. workflow' = workflow /\ StepsOf(k)' = StepsOf(k) /\ \A i : Must(k, i)' = Must(k, i)
  BY DEF workflow, StepsOf, Must, Faithful
<1>2. ASSUME state[k] # "waiting"
      PROVE  k \in DOMAIN workflow.jobs
  BY <1>2 DEF JobInv, Has
<1>3. CASE state[k] = "waiting"
  BY <1>1, <1>3 DEF JobInv
<1>4. CASE state[k] = "running"
  BY <1>1, <1>4 DEF JobInv, Has
<1>5. CASE state[k] = "success"
  BY <1>1, <1>5 DEF JobInv, Has
<1>6. CASE state[k] = "skipped"
  <2>1. ASSUME workflow'.jobs[k].cond = ""
        PROVE  \E l \in workflow'.jobs[k].needs : state'[l] \in Concluded \ {"success"}
    <3>1. PICK l \in workflow.jobs[k].needs : state[l] \in Concluded \ {"success"}
      BY <1>1, <1>6, <2>1 DEF JobInv
    <3>2. l \in JobNames
      BY <1>2, <1>6, <3>1, Parsed DEF Job
    <3>. QED BY <1>1, <3>1, <3>2
  <2>. QED BY <1>1, <1>6, <2>1 DEF JobInv, Has, Concluded
<1>7. CASE state[k] = "failure"
  BY <1>1, <1>7 DEF JobInv, Has
<1>. QED BY <1>3, <1>4, <1>5, <1>6, <1>7 DEF TypeOK, Concluded

\* A step of job j moves on, and passed[j] is what it was or has grown by
\* the step; a step that must pass and did not leaves the job red.
LEMMA MovedKeepsJob ==
  ASSUME TypeOK, change \in Changes, NEW j \in JobNames, JobInv(j), change' = change,
         Move(j), state' = state, red'[j] \in BOOLEAN,
         passed[j] \subseteq passed'[j],
         red[j] => red'[j],
         ~red'[j] /\ Must(j, at[j]) => at[j] \in passed'[j]
  PROVE  JobInv(j)'
<1>1. workflow' = workflow /\ StepsOf(j)' = StepsOf(j) /\ \A i : Must(j, i)' = Must(j, i)
  BY DEF workflow, StepsOf, Must, Faithful
<1>2. /\ state[j] = "running" /\ state'[j] = "running"
      /\ at[j] \in Nat \ {0} /\ at[j] <= Len(StepsOf(j)) /\ at'[j] = at[j] + 1
  BY DEF Move, TypeOK
<1>3. Has(workflow, j)
  BY <1>2 DEF JobInv
<1>4. Len(StepsOf(j)) \in Nat
  BY <1>3, Parsed DEF Has
<1>5. ASSUME ~red'[j], NEW i \in 1 .. (at'[j] - 1), Must(j, i)
      PROVE  i \in passed'[j]
  <2>1. CASE i = at[j] BY <1>5, <2>1
  <2>2. CASE i # at[j]
    <3>1. i \in 1 .. (at[j] - 1)
      BY <1>2, <2>2
    <3>. QED BY <1>2, <1>5, <3>1 DEF JobInv, TypeOK
  <2>. QED BY <2>1, <2>2
<1>6. at'[j] <= Len(StepsOf(j)) + 1
  BY <1>2, <1>4
<1>. QED BY <1>1, <1>2, <1>3, <1>5, <1>6 DEF JobInv, Has

\* A step keeps what is known of every job's past.
LEMMA JobsStep ==
  ASSUME IInv, [Next]_vars
  PROVE  \A k \in JobNames : JobInv(k)'
<1>. TypeOK /\ change \in Changes /\ \A k \in JobNames : JobInv(k)
  BY DEF IInv
<1>1. ASSUME NEW j \in JobNames, StartJob(j), NEW k \in JobNames
      PROVE  JobInv(k)'
  <2>1. state[j] = "waiting" /\ Has(workflow, j)
        /\ \A l \in JobNames : state[l] \in Concluded => state'[l] = state[l]
    BY <1>1 DEF StartJob, Startable, TypeOK, Concluded
  <2>2. CASE k # j BY <1>1, <2>1, <2>2, OthersKeepJob DEF StartJob, TypeOK
  <2>3. workflow' = workflow /\ StepsOf(j)' = StepsOf(j) /\ at'[j] = 1
        /\ state'[j] = IF Admitted(j) THEN "running" ELSE "skipped"
    BY <1>1, <2>1 DEF StartJob, TypeOK, workflow, StepsOf, JobInv
  <2>4. CASE k = j /\ Admitted(j)
    <3>1. Len(StepsOf(j)) \in Nat
      BY <2>1, Parsed DEF Has
    <3>2. at'[j] <= Len(StepsOf(j)') + 1
      BY <2>3, <3>1
    <3>3. 1 .. (at'[j] - 1) = {}
      BY <2>3
    <3>4. state'[j] = "running" /\ Has(workflow, j)'
      BY <2>1, <2>3, <2>4 DEF Has
    <3>. QED BY <2>4, <3>2, <3>3, <3>4 DEF JobInv
  <2>5. CASE k = j /\ ~Admitted(j)
    <3>1. ASSUME workflow.jobs[j].cond = ""
          PROVE  \E l \in workflow.jobs[j].needs : state'[l] \in Concluded \ {"success"}
      <4>1. PICK l \in workflow.jobs[j].needs : state[l] # "success"
        BY <2>5, <3>1 DEF Admitted
      <4>2. l \in JobNames /\ state[l] \in Concluded
        BY <1>1, <2>1, Parsed DEF StartJob, Startable, Has, Job
      <4>. QED BY <2>1, <4>1, <4>2
    <3>. QED BY <2>1, <2>3, <2>5, <3>1 DEF JobInv, Has
  <2>. QED BY <2>2, <2>4, <2>5
<1>2. ASSUME NEW j \in JobNames, SkipStep(j), NEW k \in JobNames
      PROVE  JobInv(k)'
  <2>1. CASE k # j BY <1>2, <2>1, OthersKeepJob DEF SkipStep, Move, TypeOK
  <2>2. CASE k = j
    <3>1. ~(~red[j] /\ Must(j, at[j]))
      BY <1>2 DEF SkipStep, Runs, Must, StepAt
    <3>. QED BY <1>2, <2>2, <3>1, MovedKeepsJob DEF SkipStep, TypeOK
  <2>. QED BY <2>1, <2>2
<1>3. ASSUME NEW j \in JobNames, StepPasses(j), NEW k \in JobNames
      PROVE  JobInv(k)'
  <2>1. CASE k # j BY <1>3, <2>1, OthersKeepJob DEF StepPasses, Move, TypeOK
  <2>2. CASE k = j
    <3>1. passed'[j] = passed[j] \cup {at[j]}
      BY <1>3 DEF StepPasses, TypeOK
    <3>. QED BY <1>3, <2>2, <3>1, MovedKeepsJob DEF StepPasses, TypeOK
  <2>. QED BY <2>1, <2>2
<1>4. ASSUME NEW j \in JobNames, StepFails(j), NEW k \in JobNames
      PROVE  JobInv(k)'
  <2>1. CASE k # j BY <1>4, <2>1, OthersKeepJob DEF StepFails, Move, TypeOK
  <2>2. CASE k = j
    <3>1. red'[j] \in BOOLEAN /\ (red[j] => red'[j]) /\ (Must(j, at[j]) => red'[j])
      BY <1>4 DEF StepFails, TypeOK, Must, StepAt
    <3>. QED BY <1>4, <2>2, <3>1, MovedKeepsJob DEF StepFails
  <2>. QED BY <2>1, <2>2
<1>5. ASSUME NEW j \in JobNames, EndJob(j), NEW k \in JobNames
      PROVE  JobInv(k)'
  <2>1. CASE k # j BY <1>5, <2>1, OthersKeepJob DEF EndJob, TypeOK, Concluded
  <2>2. CASE k = j
    <3>1. workflow' = workflow /\ StepsOf(j)' = StepsOf(j) /\ (\A i : Must(j, i)' = Must(j, i))
      BY <1>5 DEF EndJob, workflow, StepsOf, Must, Faithful
    <3>2. /\ state[j] = "running" /\ at[j] = Len(StepsOf(j)) + 1 /\ passed'[j] = passed[j]
          /\ state'[j] = IF red[j] /\ ~workflow.jobs[j].cont THEN "failure" ELSE "success"
      BY <1>5 DEF EndJob, TypeOK
    <3>3. Has(workflow, j)
      BY <3>2 DEF JobInv
    <3>4. DOMAIN StepsOf(j) = 1 .. (at[j] - 1)
      BY <3>2, <3>3, Parsed DEF Has
    <3>5. ~red[j] => \A i \in DOMAIN StepsOf(j) : Must(j, i) => i \in passed[j]
      BY <3>2, <3>4 DEF JobInv
    <3>. QED BY <2>2, <3>1, <3>2, <3>3, <3>5 DEF JobInv, Has
  <2>. QED BY <2>1, <2>2
<1>6. ASSUME NEW j \in JobNames, CutJob(j), NEW k \in JobNames
      PROVE  JobInv(k)'
  <2>1. CASE k # j BY <1>6, <2>1, OthersKeepJob DEF CutJob, TypeOK, Concluded
  <2>2. CASE k = j
    <3>1. workflow' = workflow /\ state'[j] = "failure" /\ state[j] # "waiting"
      BY <1>6 DEF CutJob, TypeOK, workflow
    <3>. QED BY <2>2, <3>1 DEF JobInv, Has
  <2>. QED BY <2>1, <2>2
<1>7. ASSUME UNCHANGED <<change, state, at, red, passed>>, NEW k \in JobNames
      PROVE  JobInv(k)'
  BY <1>7, OthersKeepJob
<1>. QED
  BY <1>1, <1>2, <1>3, <1>4, <1>5, <1>6, <1>7
  DEF Next, JobStep, SiblingMerges, Merge, OperatorRuns, vars, runVars

\* What made the change mergeable does not go away.
LEMMA MergedStays ==
  ASSUME IInv, [Next]_vars
  PROVE  (merged => Mergeable)'
<1>1. workflow' = workflow /\ \A j \in JobNames : Has(workflow, j)' = Has(workflow, j)
  BY DEF Next, JobStep, StartJob, SkipStep, StepPasses, StepFails, EndJob, CutJob, SiblingMerges,
         Merge, OperatorRuns, vars, runVars, workflow, Has
<1>2. ASSUME NEW j \in JobNames, state[j] \in {"success", "skipped"}
      PROVE  state'[j] = state[j]
  <2>. TypeOK BY DEF IInv
  <2>. QED BY <1>2 DEF Next, JobStep, StartJob, Startable, SkipStep, Move, StepPasses, StepFails,
         EndJob, CutJob, SiblingMerges, Merge, OperatorRuns, vars, runVars, TypeOK
<1>3. Required \subseteq JobNames
  BY DEF Required, JobNames
<1>4. merged' => Mergeable
  BY DEF IInv, Next, JobStep, StartJob, SkipStep, StepPasses, StepFails, EndJob, CutJob,
         SiblingMerges, Merge, OperatorRuns, vars, runVars
<1>. QED BY <1>1, <1>2, <1>3, <1>4 DEF Mergeable

\* IInv is an invariant.
LEMMA Inductive == Spec => []IInv
<1>1. Init => IInv
  <2>1. Init => \A j \in JobNames : state[j] = "waiting" /\ at[j] = 1
    BY DEF Init
  <2>. QED BY <2>1, TypesInit DEF IInv, JobInv, Init
<1>2. IInv /\ [Next]_vars => IInv'
  BY TypesStep, JobsStep, MergedStays DEF IInv
<1>. QED BY <1>1, <1>2, PTL DEF Spec

-----------------------------------------------------------------------------
(* What the commands said of the change.                                   *)

\* A verdict that stays what it is while the job runs: what the integration job
\* compares the database script with is checked out when it starts.
Lasting(j, i) == StepsOf(j)[i].run # "db-check" \/ j = "integration"

\* What passed judged the change right, and without a mishap a job is only red for
\* a step that judged it wrong.
JudgedInv(j) ==
  /\ \A i \in passed[j] : i \in DOMAIN StepsOf(j) /\ (Lasting(j, i) => Judges(StepsOf(j)[i].run))
  /\ state[j] = "waiting" => ~red[j]
  /\ mishaps = 0 /\ (red[j] \/ state[j] = "failure") =>
       \E i \in DOMAIN StepsOf(j) : Lasting(j, i) => ~Judges(StepsOf(j)[i].run)

\* The verdicts a job rests on do not change under it.
LEMMA VerdictsKept ==
  ASSUME change' = change, NEW j, checkout' = checkout \/ j # "integration"
  PROVE  /\ StepsOf(j)' = StepsOf(j)
         /\ \A i : Lasting(j, i)' <=> Lasting(j, i)
         /\ \A i : Lasting(j, i) => (Judges(StepsOf(j)[i].run)' <=> Judges(StepsOf(j)[i].run))
<1>1. workflow' = workflow /\ calls' = calls /\ StepsOf(j)' = StepsOf(j)
  BY DEF workflow, calls, StepsOf
<1>2. \A i : Lasting(j, i)' <=> Lasting(j, i)
  BY <1>1 DEF Lasting
<1>3. ASSUME NEW i, Lasting(j, i)
      PROVE  Judges(StepsOf(j)[i].run)' <=> Judges(StepsOf(j)[i].run)
  <2>1. StepsOf(j)[i].run = "db-check" => checkout' = checkout
    BY <1>3 DEF Lasting
  <2>. QED BY <1>1, <2>1 DEF Judges
<1>. QED BY <1>1, <1>2, <1>3

\* Nothing of the job itself has moved.
LEMMA OthersKeepVerdicts ==
  ASSUME NEW k \in JobNames, JudgedInv(k), change' = change, checkout' = checkout \/ k # "integration",
         state'[k] = state[k], red'[k] = red[k], passed'[k] = passed[k], mishaps' = 0 => mishaps = 0
  PROVE  JudgedInv(k)'
BY VerdictsKept DEF JudgedInv

\* A step keeps what is known of the verdicts.
LEMMA VerdictsStep ==
  ASSUME IInv, \A k \in JobNames : JudgedInv(k), [Next]_vars
  PROVE  \A k \in JobNames : JudgedInv(k)'
<1>. TypeOK /\ change \in Changes /\ \A k \in JobNames : JobInv(k)
  BY DEF IInv
<1>0. \A k \in JobNames : state[k] # "waiting" =>
        k \in DOMAIN workflow.jobs /\ Len(StepsOf(k)) \in Nat /\ DOMAIN StepsOf(k) = 1 .. Len(StepsOf(k))
  BY Parsed DEF JobInv, Has
<1>1. ASSUME NEW j \in JobNames, StartJob(j), NEW k \in JobNames
      PROVE  JudgedInv(k)'
  <2>1. state[j] = "waiting" /\ passed[j] = {} /\ change' = change /\ mishaps' = mishaps
        /\ red' = red /\ passed' = passed /\ (j # "integration" => checkout' = checkout)
    <3>1. state[j] = "waiting"
      BY <1>1 DEF StartJob, Startable
    <3>2. at[j] = 1
      BY <3>1 DEF JobInv
    <3>3. passed[j] \subseteq 1 .. 0
      BY <3>2 DEF TypeOK
    <3>. QED BY <1>1, <3>1, <3>3 DEF StartJob, TypeOK
  <2>2. CASE k # j
    <3>1. state'[k] = state[k]
      BY <1>1, <2>2 DEF StartJob, TypeOK
    <3>2. checkout' = checkout \/ k # "integration"
      BY <2>1, <2>2
    <3>. QED BY <2>1, <3>1, <3>2, OthersKeepVerdicts
  <2>3. CASE k = j
    <3>1. ~red[j] /\ state'[j] \in {"running", "skipped"}
      BY <1>1, <2>1 DEF StartJob, TypeOK, JudgedInv
    <3>. QED BY <2>1, <2>3, <3>1 DEF JudgedInv
  <2>. QED BY <2>2, <2>3
<1>2. ASSUME NEW j \in JobNames, SkipStep(j), NEW k \in JobNames
      PROVE  JudgedInv(k)'
  BY <1>2, OthersKeepVerdicts DEF SkipStep
<1>3. ASSUME NEW j \in JobNames, StepPasses(j), NEW k \in JobNames
      PROVE  JudgedInv(k)'
  <2>1. CASE k # j
    <3>1. passed'[k] = passed[k]
      BY <1>3, <2>1 DEF StepPasses, TypeOK
    <3>. QED BY <1>3, <3>1, OthersKeepVerdicts DEF StepPasses
  <2>2. CASE k = j
    <3>1. /\ passed'[j] = passed[j] \cup {at[j]} /\ at[j] \in DOMAIN StepsOf(j)
          /\ Judges(StepsOf(j)[at[j]].run)
          /\ change' = change /\ checkout' = checkout
          /\ state' = state /\ red' = red /\ mishaps' = mishaps
      BY <1>0, <1>3 DEF StepPasses, Move, StepAt, TypeOK
    <3>. QED BY <2>2, <3>1, VerdictsKept DEF JudgedInv
  <2>. QED BY <2>1, <2>2
<1>4. ASSUME NEW j \in JobNames, StepFails(j), NEW k \in JobNames
      PROVE  JudgedInv(k)'
  <2>1. mishaps' = 0 => mishaps = 0 /\ ~Judges(StepsOf(j)[at[j]].run)
    BY <1>4 DEF StepFails, Mishap, StepAt, TypeOK
  <2>2. CASE k # j
    <3>1. red'[k] = red[k]
      BY <1>4, <2>2 DEF StepFails, TypeOK
    <3>. QED BY <1>4, <2>1, <3>1, OthersKeepVerdicts DEF StepFails
  <2>3. CASE k = j
    <3>1. /\ at[j] \in DOMAIN StepsOf(j) /\ state[j] = "running"
          /\ change' = change /\ checkout' = checkout /\ state' = state /\ passed' = passed
      BY <1>0, <1>4 DEF StepFails, Move, TypeOK
    <3>. QED BY <2>1, <2>3, <3>1, VerdictsKept DEF JudgedInv
  <2>. QED BY <2>2, <2>3
<1>5. ASSUME NEW j \in JobNames, EndJob(j), NEW k \in JobNames
      PROVE  JudgedInv(k)'
  <2>1. CASE k # j
    <3>1. state'[k] = state[k]
      BY <1>5, <2>1 DEF EndJob, TypeOK
    <3>. QED BY <1>5, <3>1, OthersKeepVerdicts DEF EndJob
  <2>2. CASE k = j
    <3>1. /\ state'[j] # "waiting" /\ (state'[j] = "failure" => red[j])
          /\ change' = change /\ checkout' = checkout /\ red' = red
          /\ passed' = passed /\ mishaps' = mishaps
      BY <1>5 DEF EndJob, TypeOK
    <3>. QED BY <2>2, <3>1, VerdictsKept DEF JudgedInv
  <2>. QED BY <2>1, <2>2
<1>6. ASSUME NEW j \in JobNames, CutJob(j), NEW k \in JobNames
      PROVE  JudgedInv(k)'
  <2>1. /\ mishaps' # 0 /\ state'[k] \in {state[k], "failure"}
        /\ change' = change /\ checkout' = checkout /\ red' = red /\ passed' = passed
    BY <1>6 DEF CutJob, Mishap, TypeOK
  <2>. QED BY <2>1, VerdictsKept DEF JudgedInv
<1>7. ASSUME UNCHANGED <<change, checkout, state, red, passed, mishaps>>, NEW k \in JobNames
      PROVE  JudgedInv(k)'
  BY <1>7, OthersKeepVerdicts
<1>. QED
  BY <1>1, <1>2, <1>3, <1>4, <1>5, <1>6, <1>7
  DEF Next, JobStep, SiblingMerges, Merge, OperatorRuns, vars, runVars

\* IInv and what the commands said, together.
LEMMA InductiveVerdicts == Spec => [](IInv /\ \A j \in JobNames : JudgedInv(j))
<1>1. Init => \A j \in JobNames : JudgedInv(j)
  BY DEF Init, JudgedInv
<1>2. IInv /\ (\A j \in JobNames : JudgedInv(j)) /\ [Next]_vars => (\A j \in JobNames : JudgedInv(j))'
  BY VerdictsStep
<1>. QED BY <1>1, <1>2, Inductive, PTL DEF Spec

-----------------------------------------------------------------------------
(* What an accepted workflow means for a job.                              *)

\* A job nothing in which is swallowed and whose green is real has run every
\* step that must pass.
LEMMA GreenIsReal ==
  ASSUME IInv, Accepted(workflow), InTheOpen(workflow),
         NEW j \in JobNames \ {"extra"}, state[j] = "success"
  PROVE  /\ Has(workflow, j)
         /\ \A i \in DOMAIN StepsOf(j) :
              StepsOf(j)[i].cond = "" /\ StepsOf(j)[i].text = "alone" => i \in passed[j]
<1>1. Has(workflow, j) /\ NothingSwallowed(workflow, j) /\ ~workflow.shell
  BY DEF Accepted, IntegrationSound, docsLinksSound, topologySound, kubernetesSound, JobNames
<1>2. Seen(workflow.jobs[j]) = workflow.jobs[j] /\ parseSteps(workflow.jobs[j]) = StepsOf(j)
  BY <1>1, SeenInTheOpen DEF IInv, Has
<1>3. ~workflow.jobs[j].cont
      /\ \A i \in DOMAIN StepsOf(j) : ~StepsOf(j)[i].cont /\ ~StepsOf(j)[i].shell
  BY <1>1, <1>2 DEF NothingSwallowed, StepsOf
<1>4. \A i \in DOMAIN StepsOf(j) : Must(j, i) => i \in passed[j]
  BY <1>3 DEF IInv, JobInv
<1>. QED BY <1>1, <1>3, <1>4 DEF Must, Faithful

\* The required jobs of a merged change are green: none of them can have been
\* skipped, since only topology may be needed and topology needs nothing.
LEMMA RequiredAreGreen ==
  ASSUME IInv, merged, Accepted(workflow), InTheOpen(workflow), NEW j \in Required
  PROVE  state[j] = "success"
<1>1. ASSUME NEW k \in Required, state[k] # "success"
      PROVE  \E l \in workflow.jobs[k].needs : state[l] \in Concluded \ {"success"}
  <2>1. Has(workflow, k) /\ state[k] = "skipped" /\ k \in JobNames
    BY <1>1 DEF IInv, Mergeable, Required, JobNames
  <2>2. NothingSwallowed(workflow, k)
    BY DEF Accepted, IntegrationSound, docsLinksSound, topologySound, Required
  <2>3. workflow.jobs[k].cond = ""
    BY <2>1, <2>2, SeenInTheOpen DEF NothingSwallowed, IInv, Has
  <2>. QED BY <2>1, <2>3 DEF IInv, JobInv
<1>2. ASSUME NEW k \in {"topology", "docs-links"}
      PROVE  state[k] = "success"
  <2>1. Has(workflow, k) /\ k \in Required
    BY DEF IInv, Mergeable, Required
  <2>2. workflow.jobs[k].needs = {}
    BY <2>1 DEF InTheOpen, Has
  <2>. QED BY <1>1, <2>1, <2>2
<1>3. CASE j = "integration"
  <2>1. workflow.jobs[j].needs \subseteq {"topology"}
    BY <1>3 DEF InTheOpen, IInv, Mergeable, Required, Has
  <2>. QED BY <1>1, <1>2, <2>1
<1>. QED BY <1>2, <1>3 DEF Required

-----------------------------------------------------------------------------

\* A merged change whose workflow the guard accepts has run the stack.
LEMMA StackRan ==
  ASSUME IInv PROVE StackProved
<1> SUFFICES ASSUME merged, Accepted(workflow), InTheOpen(workflow)
             PROVE  /\ StackAt(StepsOf("integration")) \subseteq passed["integration"]
                    /\ InOrder(StepsOf("integration"), StackAt(StepsOf("integration")), STACK_COMMANDS)
                    /\ \A command \in TOPOLOGY_COMMANDS : Proved("topology", command)
                    /\ Proved("docs-links", DOCS_LINKS)
  <2> SUFFICES ASSUME StackAt(StepsOf("integration")) \subseteq passed["integration"]
               PROVE  passed["integration"] \cap StackAt(StepsOf("integration"))
                        = StackAt(StepsOf("integration"))
    BY DEF StackProved
  <2>. QED OBVIOUS
<1>1. \A j \in Required : j \in JobNames \ {"extra"} /\ state[j] = "success"
  BY RequiredAreGreen DEF Required, JobNames
<1>2. \A j \in Required : Has(workflow, j) /\ parseSteps(workflow.jobs[j]) = StepsOf(j)
  BY <1>1, GreenIsReal, SeenInTheOpen DEF IInv, Has
<1>3. StackAt(StepsOf("integration")) \subseteq passed["integration"]
      /\ InOrder(StepsOf("integration"), StackAt(StepsOf("integration")), STACK_COMMANDS)
  <2>1. /\ OnlyConditioned(StepsOf("integration"), CONDITIONED_STEPS, STACK_SET)
        /\ InOrder(StepsOf("integration"), StackAt(StepsOf("integration")), STACK_COMMANDS)
    BY <1>2 DEF Accepted, IntegrationSound, StackComplete, Required
  <2>2. ASSUME NEW i \in StackAt(StepsOf("integration"))
        PROVE  i \in passed["integration"]
    <3>1. i \in DOMAIN StepsOf("integration") /\ StepsOf("integration")[i].text = "alone"
          /\ StepsOf("integration")[i].cond = ""
      BY <2>1, <2>2 DEF StackAt, OnlyConditioned
    <3>. QED BY <1>1, <3>1, GreenIsReal DEF Required
  <2>. QED BY <2>1, <2>2
<1>4. \A command \in TOPOLOGY_COMMANDS : Proved("topology", command)
  <2>. /\ OnlyConditioned(StepsOf("topology"), {}, {})
       /\ \A command \in TOPOLOGY_COMMANDS : RunsAlone(StepsOf("topology"), command)
    BY <1>2 DEF Accepted, topologySound, Required
  <2>. \A i \in DOMAIN StepsOf("topology") : StepsOf("topology")[i].cond = ""
    BY DEF OnlyConditioned
  <2>. QED BY <1>1, GreenIsReal DEF Proved, RunsAlone, Required
<1>5. Proved("docs-links", DOCS_LINKS)
  <2>. OnlyConditioned(StepsOf("docs-links"), {}, {}) /\ RunsAlone(StepsOf("docs-links"), DOCS_LINKS)
    BY <1>2 DEF Accepted, docsLinksSound, Required
  <2>. \A i \in DOMAIN StepsOf("docs-links") : StepsOf("docs-links")[i].cond = ""
    BY DEF OnlyConditioned
  <2>. QED BY <1>1, GreenIsReal DEF Proved, RunsAlone, Required
<1>. QED BY <1>3, <1>4, <1>5

\* StackProved, for every set of pull requests: the guard's rules, the needs
\* of the jobs and what GitHub calls green together leave no way to merge a
\* workflow that does not run the stack.
THEOREM StackIsProved == Spec => []StackProved
BY Inductive, StackRan, PTL

\* A green kubernetes job has run the cluster's commands.
LEMMA KubernetesRan ==
  ASSUME IInv PROVE KubernetesProved
<1> SUFFICES ASSUME state["kubernetes"] = "success", Accepted(workflow), InTheOpen(workflow),
                    NEW command \in KUBERNETES_COMMANDS
             PROVE  Proved("kubernetes", command)
  BY DEF KubernetesProved
<1>1. "kubernetes" \in JobNames \ {"extra"}
  BY DEF JobNames
<1>2. parseSteps(workflow.jobs["kubernetes"]) = StepsOf("kubernetes")
  BY <1>1, GreenIsReal, SeenInTheOpen DEF IInv, Has
<1>3. /\ OnlyConditioned(StepsOf("kubernetes"), KUBERNETES_CONDITIONED_STEPS, KUBERNETES_COMMANDS)
      /\ RunsAlone(StepsOf("kubernetes"), command)
  BY <1>2 DEF Accepted, kubernetesSound
<1>4. PICK i \in DOMAIN StepsOf("kubernetes") :
        StepsOf("kubernetes")[i].run = command /\ StepsOf("kubernetes")[i].text = "alone"
  BY <1>3 DEF RunsAlone
<1>5. StepsOf("kubernetes")[i].cond = ""
  BY <1>3, <1>4 DEF OnlyConditioned
<1>. QED BY <1>1, <1>4, <1>5, GreenIsReal DEF Proved

\* KubernetesProved, for every set of pull requests.
THEOREM KubernetesIsProved == Spec => []KubernetesProved
BY Inductive, KubernetesRan, PTL

-----------------------------------------------------------------------------
(* The argument guards of scripts/kube.mjs.                                *)

Pinned(args) == <<Flag("--context", "alone"), Word(KUBE_CONTEXT)>> \o args

\* The pinned context stands before the arguments.
LEMMA PinnedShape ==
  ASSUME NEW args \in Seq(Argument)
  PROVE  /\ Len(args) \in Nat /\ DOMAIN args = 1 .. Len(args)
         /\ Len(Pinned(args)) = Len(args) + 2 /\ DOMAIN Pinned(args) = 1 .. Len(args) + 2
         /\ Pinned(args)[1] = Flag("--context", "alone") /\ Pinned(args)[2] = Word(KUBE_CONTEXT)
         /\ \A i \in DOMAIN args : i + 2 \in DOMAIN Pinned(args) /\ Pinned(args)[i + 2] = args[i]
         /\ \A i \in DOMAIN Pinned(args) : i > 2 => i - 2 \in DOMAIN args /\ Pinned(args)[i] = args[i - 2]
<1>. DEFINE head == <<Flag("--context", "alone"), Word(KUBE_CONTEXT)>>
            any == Argument \cup {Flag("--context", "alone"), Word(KUBE_CONTEXT)}
<1>1. /\ head \in Seq(any) /\ Len(head) = 2
      /\ head[1] = Flag("--context", "alone") /\ head[2] = Word(KUBE_CONTEXT)
  OBVIOUS
<1>2. args \in Seq(any)
  BY SeqMonotonic
<1>3. Pinned(args) = head \o args
  BY DEF Pinned
<1>. HIDE DEF head, any
<1>4. /\ head \o args \in Seq(any) /\ Len(head \o args) = Len(head) + Len(args)
      /\ \A i \in 1 .. Len(head) + Len(args) :
           (head \o args)[i] = IF i <= Len(head) THEN head[i] ELSE args[i - Len(head)]
  BY <1>1, <1>2, ConcatProperties, Zenon
<1>5. Len(args) \in Nat /\ DOMAIN args = 1 .. Len(args) /\ DOMAIN Pinned(args) = 1 .. Len(args) + 2
  BY <1>1, <1>2, <1>3, <1>4, LenProperties
<1>. QED BY <1>1, <1>3, <1>4, <1>5

\* What kubectl reads of a pinned line: the context, then what it reads of the arguments
LEMMA PinnedOwn ==
  ASSUME NEW args \in Seq(Argument)
  PROVE  /\ 1 \in Own(Pinned(args)) /\ 2 \in Own(Pinned(args))
         /\ \A i \in DOMAIN Pinned(args) : i > 2 => (i \in Own(Pinned(args)) <=> i - 2 \in Own(args))
<1>1. \A i \in DOMAIN Pinned(args) : i \in Separators(Pinned(args)) <=> i > 2 /\ i - 2 \in Separators(args)
  BY PinnedShape DEF Separators, Word, Flag, KUBE_CONTEXT
<1>2. ASSUME NEW i \in DOMAIN Pinned(args), i > 2, i \in Own(Pinned(args))
      PROVE  i - 2 \in Own(args)
  <2>1. i \in Nat /\ i - 2 \in DOMAIN args
    BY <1>2, PinnedShape
  <2>2. ASSUME NEW s \in Separators(args)
        PROVE  i - 2 < s
    <3>1. s \in DOMAIN args /\ s \in Nat /\ s >= 1 /\ s + 2 \in DOMAIN Pinned(args)
      BY <2>2, PinnedShape DEF Separators
    <3>2. s + 2 \in Separators(Pinned(args))
      BY <1>1, <2>2, <3>1
    <3>3. i < s + 2
      BY <1>2, <3>2 DEF Own
    <3>. QED BY <2>1, <3>1, <3>3
  <2>. QED BY <2>1, <2>2 DEF Own
<1>3. ASSUME NEW i \in DOMAIN Pinned(args), i <= 2 \/ i - 2 \in Own(args)
      PROVE  i \in Own(Pinned(args))
  <2>. SUFFICES ASSUME NEW s \in Separators(Pinned(args))
                PROVE  i < s
    BY DEF Own
  <2>1. s \in Nat /\ i \in Nat /\ s > 2 /\ s - 2 \in Separators(args)
    BY <1>1, PinnedShape DEF Separators
  <2>2. i - 2 \in Own(args) => i - 2 < s - 2
    BY <2>1 DEF Own
  <2>. QED BY <1>3, <2>1, <2>2
<1>4. 1 \in DOMAIN Pinned(args) /\ 2 \in DOMAIN Pinned(args)
  BY PinnedShape
<1>. QED BY <1>2, <1>3, <1>4

\* A pinned line that names no other cluster reaches the project's own.
LEMMA PinnedReaches ==
  ASSUME NEW args \in Seq(Argument), NEW current,
         \A i \in Own(args) : args[i].name \notin REDIRECTING_FLAGS
  PROVE  ClusterOf(Pinned(args), current) = KUBE_CONTEXT
<1>. DEFINE line == Pinned(args)
     named == {i \in Own(line) : line[i].name \in REDIRECTING_FLAGS}
     last == CHOOSE i \in named : \A j \in named : j <= i
<1>1. named = {1}
  <2>1. 1 \in named
    BY PinnedShape, PinnedOwn DEF Flag, REDIRECTING_FLAGS
  <2>2. 2 \notin named
    BY PinnedShape DEF Word, KUBE_CONTEXT, REDIRECTING_FLAGS
  <2>3. ASSUME NEW i \in named, i > 2
        PROVE  FALSE
    <3>1. i \in DOMAIN line
      BY <2>3 DEF Own
    <3>2. i - 2 \in Own(args) /\ line[i] = args[i - 2]
      BY <2>3, <3>1, PinnedShape, PinnedOwn
    <3>. QED BY <2>3, <3>2
  <2>4. \A i \in named : i \in Nat /\ i >= 1
    BY PinnedShape DEF Own
  <2>. HIDE DEF named
  <2>. QED BY <2>1, <2>2, <2>3, <2>4
<1>2. last = 1
  <2>. HIDE DEF named
  <2>. QED BY <1>1
<1>3. line[last] = Flag("--context", "alone") /\ last < Len(line) /\ line[last + 1].name = KUBE_CONTEXT
  <2>. HIDE DEF last
  <2>. QED BY <1>2, PinnedShape DEF Word
<1>4. ClusterOf(line, current) = IF named = {} THEN current
     ELSE IF line[last] = Flag("--context", "alone") /\ last < Len(line)
          THEN line[last + 1].name
          ELSE "elsewhere"
  BY DEF ClusterOf
<1>. HIDE DEF last, named, line
<1>5. ClusterOf(line, current) = KUBE_CONTEXT
  BY <1>1, <1>3, <1>4
<1>. QED BY <1>5 DEF line

\* A pinned line whose first word is not `config` is no `kubectl config`.
LEMMA PinnedIsNoConfig ==
  ASSUME NEW args \in Seq(Argument),
         \/ \A i \in Own(args) : args[i].name # "config"
         \/ 1 \in Own(args) /\ ~IsFlag(args[1]) /\ args[1] # Word("config")
  PROVE  "config" \notin Subcommand(Pinned(args))
<1>. DEFINE line == Pinned(args)
     words == {i \in Own(line) : ~IsFlag(line[i]) /\ (i = 1 \/ line[i - 1].form # "alone")}
<1>1. SUFFICES ASSUME NEW i \in words, \A l \in words : i <= l, line[i].name = "config"
               PROVE  FALSE
  BY DEF Subcommand
<1>2. i \in DOMAIN line /\ i \in Nat \ {0}
  BY PinnedShape DEF Own
<1>3. i # 1 /\ i # 2
  <2>1. line[1].name = "--context" /\ line[2].name = KUBE_CONTEXT
    BY PinnedShape DEF Flag, Word
  <2>. HIDE DEF line
  <2>. QED BY <1>1, <2>1 DEF KUBE_CONTEXT
<1>4. i - 2 \in Own(args) /\ line[i] = args[i - 2]
  <2>1. i \in Own(Pinned(args)) /\ i > 2
    BY <1>2, <1>3, PinnedShape
  <2>. QED BY <1>2, <2>1, PinnedShape, PinnedOwn
<1>5. CASE \A k \in Own(args) : args[k].name # "config"
  BY <1>1, <1>4, <1>5
<1>6. CASE 1 \in Own(args) /\ ~IsFlag(args[1]) /\ args[1] # Word("config")
  <2>1. 1 \in DOMAIN args /\ 3 \in DOMAIN line /\ line[3] = args[1] /\ line[2].form = "word"
    BY <1>6, PinnedShape DEF Own, Word
  <2>2. 3 \in words
    BY <1>6, <2>1, PinnedOwn
  <2>3. i = 3
    <3>. HIDE DEF words
    <3>. QED BY <1>1, <1>2, <1>3, <2>2
  <2>4. args[1] \in Argument /\ args[1].form = "word"
    BY <1>6, <2>1 DEF IsFlag
  <2>. QED BY <1>1, <1>6, <2>1, <2>3, <2>4 DEF Word, Argument
<1>. QED BY <1>5, <1>6

\* A call that is refused or not run moves nothing.
LEMMA NothingRun ==
  ASSUME NEW tool PROVE ~MovesContext(tool, <<>>)
<1>1. Own(<<>>) = {}
  BY DEF Own
<1>2. Subcommand(<<>>) = {}
  BY <1>1 DEF Subcommand
<1>. QED BY <1>2 DEF MovesContext

\* kubectl().
LEMMA KubectlStays ==
  ASSUME NEW args \in Seq(Argument), KubectlArgs(args) # <<>>, NEW current
  PROVE  /\ ClusterOf(KubectlArgs(args), current) = KUBE_CONTEXT
         /\ ~MovesContext("kubectl", KubectlArgs(args))
<1>1. /\ 1 \in Own(args) /\ ~IsFlag(args[1]) /\ args[1] # Word("config")
      /\ \A i \in Own(args) : args[i].name \notin REDIRECTING_FLAGS
      /\ KubectlArgs(args) = Pinned(args)
  BY DEF KubectlArgs, Pinned
<1>. QED BY <1>1, PinnedReaches, PinnedIsNoConfig DEF MovesContext

\* kind(): create and delete name the cluster and its own kubeconfig.
LEMMA KindStays ==
  ASSUME NEW args \in Seq(Argument), KindArgs(args) # <<>>
  PROVE  /\ KindArgs(args)[1] \in {Word("create"), Word("delete")} => KindCluster(KindArgs(args)) = KUBE_CONTEXT
         /\ ~MovesContext("kind", KindArgs(args))
<1>. DEFINE command == {c \in KIND_COMMANDS : Len(c) <= Len(args) /\ \A i \in DOMAIN c : c[i] = args[i]}
            tail == <<Flag("--name", "alone"), Word(KIND_CLUSTER),
                      Flag("--kubeconfig", "alone"), Word("kind-fiapx.config")>>
            any == Argument \cup {Flag("--name", "alone"), Word(KIND_CLUSTER),
                      Flag("--kubeconfig", "alone"), Word("kind-fiapx.config")}
<1>1. Len(args) \in Nat /\ DOMAIN args = 1 .. Len(args) /\ args \in Seq(any)
  BY SeqMonotonic
<1>2. CASE \E c \in command : c[Len(c)] = Word("cluster")
  <2>1. KindArgs(args) = args \o tail
    BY <1>2 DEF KindArgs
  <2>2. /\ tail \in Seq(any) /\ Len(tail) = 4
        /\ tail[1] = Flag("--name", "alone") /\ tail[2] = Word(KIND_CLUSTER)
        /\ tail[3] = Flag("--kubeconfig", "alone")
    OBVIOUS
  <2>. HIDE DEF tail, any, command
  <2>3. /\ args \o tail \in Seq(any) /\ Len(args \o tail) = Len(args) + Len(tail)
        /\ \A i \in 1 .. Len(args) + Len(tail) :
             (args \o tail)[i] = IF i <= Len(args) THEN args[i] ELSE tail[i - Len(args)]
    BY <1>1, <2>2, ConcatProperties, Zenon
  <2>. DEFINE line == KindArgs(args)
  <2>4. DOMAIN line = 1 .. Len(args) + 4 /\ Len(line) = Len(args) + 4
    BY <1>1, <2>1, <2>2, <2>3, LenProperties
  <2>5. /\ line[Len(args) + 1] = Flag("--name", "alone") /\ line[(Len(args) + 1) + 1] = Word(KIND_CLUSTER)
        /\ line[Len(args) + 3] = Flag("--kubeconfig", "alone")
    BY <1>1, <2>1, <2>2, <2>3
  <2>. HIDE DEF line
  <2>6. Len(args) + 1 \in DOMAIN line /\ Len(args) + 1 < Len(line) /\ Len(args) + 3 \in DOMAIN line
    BY <1>1, <2>4
  <2>7. KindCluster(line) = KUBE_CONTEXT
    BY <2>5, <2>6 DEF KindCluster
  <2>8. ~MovesContext("kind", line)
    BY <2>5, <2>6 DEF MovesContext, Flag
  <2>. QED BY <2>7, <2>8 DEF line
<1>3. CASE ~\E c \in command : c[Len(c)] = Word("cluster")
  <2>1. KindArgs(args) = args /\ command # {}
    BY <1>3 DEF KindArgs
  <2>2. Len(args) >= 1 /\ args[1] \in {Word("version"), Word("get")}
    <3>1. PICK c \in command : TRUE
      BY <2>1
    <3>2. CASE c = <<Word("version")>>
      BY <1>1, <3>1, <3>2
    <3>3. CASE c = <<Word("get"), Word("clusters")>>
      BY <1>1, <3>1, <3>3
    <3>4. ASSUME NEW w, c = <<w, Word("cluster")>>
          PROVE  FALSE
      BY <1>3, <3>4
    <3>. QED BY <3>1, <3>2, <3>3, <3>4 DEF KIND_COMMANDS
  <2>. HIDE DEF command
  <2>3. ~IsFlag(args[1]) /\ args[1] # Word("--") /\ args[1].name \in {"version", "get"}
    BY <2>2 DEF IsFlag, Word
  <2>4. 1 \in Own(args)
    BY <1>1, <2>2, <2>3 DEF Own, Separators
  <2>5. Subcommand(args) \subseteq {"version", "get"}
    <3>. DEFINE words == {i \in Own(args) : ~IsFlag(args[i]) /\ (i = 1 \/ args[i - 1].form # "alone")}
    <3>1. 1 \in words
      BY <2>3, <2>4
    <3>2. \A i \in words : i \in 1 .. Len(args)
      BY <1>1 DEF Own
    <3>3. Subcommand(args) = {args[i].name : i \in {k \in words : \A l \in words : k <= l}}
      BY DEF Subcommand
    <3>. HIDE DEF words
    <3>4. {k \in words : \A l \in words : k <= l} \subseteq {1}
      BY <3>1, <3>2
    <3>. QED BY <2>3, <3>3, <3>4
  <2>6. ~MovesContext("kind", args)
    BY <2>5 DEF MovesContext
  <2>. QED BY <2>1, <2>2, <2>6 DEF Word
<1>. QED BY <1>2, <1>3

\* Whatever a script that passed the scan calls in a way the scan looks for, it
\* acts on the project's cluster.
LEMMA SoundCall ==
  ASSUME NEW c \in ScriptCall, RawKubectlProblems({c}) \cup RawKindProblems({c}) = {},
         InScansSight(c), PinnedStays(c), NEW current
  PROVE  Reaches(c, current) \subseteq {KUBE_CONTEXT} /\ ~MovesContext(c.tool, CommandLine(c))
<1>. c.tool \in {"kubectl", "kind"} /\ c.spelled \in Spellings /\ c.args \in Seq(Argument)
  BY DEF ScriptCall
<1>1. CASE c.spelled = "comment"
  <2>1. CommandLine(c) = <<>>
    BY <1>1 DEF CommandLine
  <2>. QED BY <2>1, NothingRun DEF Reaches
<1>2. CASE c.spelled = "helper" /\ c.tool = "kubectl"
  <2>1. CommandLine(c) = KubectlArgs(c.args)
    BY <1>2 DEF CommandLine
  <2>. QED BY <1>2, <2>1, NothingRun, KubectlStays DEF Reaches
<1>3. CASE c.spelled = "helper" /\ c.tool = "kind"
  <2>1. CommandLine(c) = KindArgs(c.args)
    BY <1>3 DEF CommandLine
  <2>. QED BY <1>3, <2>1, NothingRun, KindStays DEF Reaches
<1>4. CASE c.spelled = "pinned" /\ c.tool = "kubectl"
  <2>1. CommandLine(c) = Pinned(c.args)
    BY <1>4 DEF CommandLine, Pinned
  <2>2. \A i \in Own(c.args) : c.args[i].name \notin REDIRECTING_FLAGS /\ c.args[i].name # "config"
    BY <1>4 DEF PinnedStays
  <2>. QED BY <1>4, <2>1, <2>2, PinnedReaches, PinnedIsNoConfig DEF Reaches, MovesContext
<1>. QED BY <1>1, <1>2, <1>3, <1>4 DEF Spellings, RawKubectlProblems, RawKindProblems, InScansSight

\* What an accepted workflow's merge says of the scripts.
LEMMA ScannedClean ==
  ASSUME IInv, \A j \in JobNames : JudgedInv(j), merged, Accepted(workflow), InTheOpen(workflow)
  PROVE  RawKubectlProblems(calls) \cup RawKindProblems(calls) = {}
<1>1. Proved("topology", "check-kubernetes")
  BY StackRan DEF StackProved, TOPOLOGY_COMMANDS
<1>2. "topology" \in JobNames
  BY DEF JobNames
<1>. QED BY <1>1, <1>2 DEF Proved, JudgedInv, Lasting, Judges

\* What the operator's calls have reached.
OperatorInv ==
  /\ ~merged => reached = {} /\ context = "another"
  /\ OnlyOurCluster

\* A step keeps what is known of the operator's machine.
LEMMA OperatorStep ==
  ASSUME IInv, \A j \in JobNames : JudgedInv(j), OperatorInv, [Next]_vars
  PROVE  OperatorInv'
<1>1. change' = change /\ workflow' = workflow /\ calls' = calls
  <2>1. change' = change
    BY DEF Next, JobStep, StartJob, SkipStep, StepPasses, StepFails, EndJob, CutJob, SiblingMerges,
           Merge, OperatorRuns, vars, runVars
  <2>. QED BY <2>1 DEF workflow, calls
<1>2. ASSUME NEW c \in calls, OperatorRuns(c)
      PROVE  OperatorInv'
  <2>1. merged /\ merged' = merged
    BY <1>2 DEF OperatorRuns
  <2>2. ASSUME Accepted(workflow), InTheOpen(workflow),
             \A d \in calls : InScansSight(d) /\ PinnedStays(d)
        PROVE  reached' \subseteq {KUBE_CONTEXT} /\ context' = "another"
    <3>1. reached \subseteq {KUBE_CONTEXT} /\ context = "another"
      BY <2>1, <2>2 DEF OperatorInv, OnlyOurCluster
    <3>2. RawKubectlProblems({c}) \cup RawKindProblems({c}) = {}
      BY <2>1, <2>2, ScannedClean DEF RawKubectlProblems, RawKindProblems
    <3>3. c \in ScriptCall /\ InScansSight(c) /\ PinnedStays(c)
      BY <2>2, ConstantsAssumption DEF IInv, calls
    <3>4. Reaches(c, context) \subseteq {KUBE_CONTEXT} /\ ~MovesContext(c.tool, CommandLine(c))
      BY <3>2, <3>3, SoundCall
    <3>. QED BY <1>2, <3>1, <3>4 DEF OperatorRuns
  <2>. QED BY <1>1, <2>1, <2>2 DEF OperatorInv, OnlyOurCluster
<1>3. CASE Merge
  <2>1. ~merged /\ merged' /\ reached' = reached /\ context' = context
    BY <1>3 DEF Merge
  <2>. QED BY <2>1 DEF OperatorInv, OnlyOurCluster
<1>4. CASE UNCHANGED <<merged, context, reached>>
  BY <1>1, <1>4 DEF OperatorInv, OnlyOurCluster
<1>5. CASE UNCHANGED vars
  BY <1>4, <1>5 DEF vars
<1>. QED
  BY <1>2, <1>3, <1>4, <1>5
  DEF Next, JobStep, StartJob, SkipStep, StepPasses, StepFails, EndJob, CutJob, SiblingMerges

\* OnlyOurCluster, for every set of pull requests and every argument list: of
\* the spellings the scan looks for, it lets only calls of the helper and pinned
\* command lines through, and the helper refuses every argument that would lead
\* kubectl or kind elsewhere.
THEOREM OnlyOurClusterIsReached == Spec => []OnlyOurCluster
<1>1. Init => OperatorInv
  BY DEF Init, OperatorInv, OnlyOurCluster
<1>2. IInv /\ (\A j \in JobNames : JudgedInv(j)) /\ OperatorInv /\ [Next]_vars => OperatorInv'
  BY OperatorStep
<1>3. OperatorInv => OnlyOurCluster
  BY DEF OperatorInv
<1>. QED BY <1>1, <1>2, <1>3, InductiveVerdicts, PTL DEF Spec

-----------------------------------------------------------------------------
(* The guards do not stand in the way.                                     *)

\* A workflow whose guarded jobs are main's own is accepted.
LEMMA SoundIsAccepted ==
  ASSUME \A j \in JobNames \ {"extra"} : Has(workflow, j) /\ workflow.jobs[j] = Main.jobs[j],
         ~workflow.shell, ~workflow.token
  PROVE  Accepted(workflow)
<1>1. \A j \in {"topology", "docs-links", "integration", "kubernetes"} :
        /\ Has(workflow, j) /\ workflow.jobs[j] = Main.jobs[j]
        /\ NothingSwallowed(Main, j) => NothingSwallowed(workflow, j)
  BY DEF JobNames, NothingSwallowed
<1>2. Accepted(Main)
  BY MainAssumption
<1>3. IntegrationSound(workflow)
  BY <1>1, <1>2 DEF Accepted, IntegrationSound
<1>4. docsLinksSound(workflow)
  BY <1>1, <1>2 DEF Accepted, docsLinksSound
<1>5. topologySound(workflow)
  BY <1>1, <1>2 DEF Accepted, topologySound
<1>6. kubernetesSound(workflow)
  BY <1>1, <1>2 DEF Accepted, kubernetesSound
<1>. QED BY <1>3, <1>4, <1>5, <1>6 DEF Accepted

\* A required job of a sound change cannot be red.
LEMMA SoundMerges ==
  ASSUME IInv, \A j \in JobNames : JudgedInv(j) PROVE SoundChangeMerges
<1> SUFFICES ASSUME mishaps = 0,
                    \A j \in DOMAIN workflow.jobs : state[j] \in Concluded,
                    \A j \in JobNames \ {"extra"} : Has(workflow, j) /\ workflow.jobs[j] = Main.jobs[j],
                    ~workflow.shell, ~workflow.token,
                    \A c \in calls : \/ c.spelled \in {"helper", "comment"}
                                     \/ c.spelled = "pinned" /\ c.tool = "kubectl",
                    change.script = Generate(checkout), change.script # Failure,
                    NEW j \in Required
             PROVE  Has(workflow, j) /\ state[j] \in {"success", "skipped"}
  BY DEF SoundChangeMerges, Mergeable
<1>1. j \in JobNames \ {"extra"} /\ Has(workflow, j) /\ state[j] \in Concluded
      /\ workflow.jobs[j] = Main.jobs[j]
  BY DEF Required, JobNames, Has
<1>2. Accepted(workflow)
  BY SoundIsAccepted
<1>3. RawKubectlProblems(calls) \cup RawKindProblems(calls) = {}
  BY DEF RawKubectlProblems, RawKindProblems
<1>4. ~DriftProblem(change.script, checkout)
  BY DEF DriftProblem
<1>5. \A r : Judges(r)
  BY <1>2, <1>3, <1>4 DEF Judges
<1>6. ASSUME state[j] = "failure"
      PROVE  FALSE
  <2>1. PICK i \in DOMAIN StepsOf(j) : Lasting(j, i) => ~Judges(StepsOf(j)[i].run)
    BY <1>1, <1>6 DEF JudgedInv
  <2>2. StepsOf(j)[i].run = "db-check" /\ j # "integration"
    BY <1>5, <2>1 DEF Lasting
  <2>3. StepsOf(j) = Main.jobs[j].steps
    BY <1>1 DEF StepsOf
  <2>4. j \in DOMAIN Main.jobs
    BY MainAssumption
    DEF Accepted, IntegrationSound, docsLinksSound, topologySound, Has, Required
  <2>. QED BY <2>1, <2>2, <2>3, <2>4, MainAssumption
<1>. QED BY <1>1, <1>6 DEF Concluded

\* SoundChangeMerges, for every set of pull requests: a required job is never
\* red for a change that leaves the guarded jobs, the scripts and the database
\* script as the guards want them.
THEOREM SoundChangesMerge == Spec => []SoundChangeMerges
BY InductiveVerdicts, SoundMerges, PTL

-----------------------------------------------------------------------------
(* The database script.                                                    *)

\* The rank of an element among finitely many numbers: from 1 on, and growing.
LEMMA Ranks ==
  ASSUME NEW some \in SUBSET Nat, IsFiniteSet(some)
  PROVE  /\ \A i \in some : Rank(some, i) \in 1 .. Cardinality(some)
         /\ \A i, k \in some : Rank(some, i) = Rank(some, k) => i = k
<1>. DEFINE Below(i) == {k \in some : k <= i}
<1>1. ASSUME NEW i \in some
      PROVE  /\ IsFiniteSet(Below(i)) /\ Cardinality(Below(i)) \in 1 .. Cardinality(some)
  <2>1. Below(i) \in SUBSET some /\ i \in Below(i)
    OBVIOUS
  <2>2. IsFiniteSet(Below(i)) /\ Cardinality(Below(i)) <= Cardinality(some)
    BY <2>1, FS_Subset
  <2>3. Cardinality(Below(i)) \in Nat /\ Cardinality(some) \in Nat
    BY <2>2, FS_CardinalityType
  <2>4. Cardinality(Below(i)) # 0
    BY <2>1, <2>2, FS_EmptySet
  <2>. QED BY <2>2, <2>3, <2>4
<1>2. ASSUME NEW i \in some, NEW k \in some, Cardinality(Below(i)) = Cardinality(Below(k)), i < k
      PROVE  FALSE
  <2>1. Below(i) \in SUBSET Below(k) /\ k \in Below(k) /\ k \notin Below(i)
    <3>1. i \in Nat /\ k \in Nat /\ i < k /\ \A l \in some : l \in Nat
      BY <1>2
    <3>2. \A l \in some : l <= i => l <= k
      BY <3>1
    <3>3. ~(k <= i) /\ k <= k
      BY <3>1
    <3>. QED BY <3>2, <3>3
  <2>2. Below(k) = Below(i)
    BY <1>1, <1>2, <2>1, FS_Subset
  <2>. QED BY <2>1, <2>2
<1>3. \A i \in some : Rank(some, i) = Cardinality(Below(i))
  BY DEF Rank
<1>. HIDE DEF Below
<1>4. \A i, k \in some : Rank(some, i) = Rank(some, k) => ~(i < k)
  BY <1>2, <1>3
<1>. QED BY <1>1, <1>3, <1>4

\* Steps that are the commands in their order include each of them.
LEMMA EachInOrder ==
  ASSUME NEW some \in SUBSET Nat, IsFiniteSet(some), NEW commands, NEW steps,
         Len(commands) \in Nat, InOrder(steps, some, commands), NEW k \in 1 .. Len(commands)
  PROVE  \E i \in some : steps[i].run = commands[k]
<1>. DEFINE rank == [i \in some |-> Rank(some, i)]
            places == 1 .. Len(commands)
<1>1. rank \in Injection(some, places)
  <2>1. rank \in [some -> places]
    BY Ranks DEF InOrder
  <2>. QED BY <2>1, Ranks DEF Injection, IsInjective
<1>2. IsFiniteSet(places) /\ Cardinality(places) = Cardinality(some)
  <2>1. IsFiniteSet(places) /\ Cardinality(places) = IF 1 > Len(commands) THEN 0 ELSE Len(commands) - 1 + 1
    BY FS_Interval
  <2>. QED BY <2>1 DEF InOrder
<1>. HIDE DEF rank, places
<1>3. rank \in Surjection(some, places)
  BY <1>1, <1>2, FS_Injection
<1>4. PICK i \in some : rank[i] = k
  BY <1>3 DEF Surjection, places
<1>. QED BY <1>4 DEF rank, InOrder

\* A merged change commits exactly what the services' migrations generate, as
\* they were when the integration job checked them out.
ScriptIsGenerated ==
  merged /\ Accepted(workflow) /\ InTheOpen(workflow) =>
    change.script = Generate(checkout) /\ change.script # Failure

\* The integration job of a merged change compared the database script.
LEMMA ScriptCompared ==
  ASSUME IInv, \A j \in JobNames : JudgedInv(j) PROVE ScriptIsGenerated
<1> SUFFICES ASSUME merged, Accepted(workflow), InTheOpen(workflow)
             PROVE  ~DriftProblem(change.script, checkout)
  BY DEF ScriptIsGenerated, DriftProblem
<1>. DEFINE steps == StepsOf("integration")
            some == passed["integration"] \cap StackAt(steps)
<1>1. InOrder(steps, some, STACK_COMMANDS)
  BY StackRan DEF StackProved
<1>2. some \in SUBSET Nat /\ IsFiniteSet(some)
  <2>1. at["integration"] \in Nat /\ some \in SUBSET (1 .. (at["integration"] - 1))
    BY DEF IInv, TypeOK, JobNames
  <2>2. IsFiniteSet(1 .. (at["integration"] - 1))
    BY <2>1, FS_Interval
  <2>3. some \in SUBSET Nat
    BY <2>1
  <2>. HIDE DEF some
  <2>. QED BY <2>1, <2>2, <2>3, FS_Subset
<1>3. Len(STACK_COMMANDS) = 10 /\ STACK_COMMANDS[3] = "db-check"
  BY DEF STACK_COMMANDS
<1>4. PICK i \in some : steps[i].run = "db-check"
  <2>. HIDE DEF some, steps
  <2>. QED BY <1>1, <1>2, <1>3, EachInOrder
<1>5. i \in passed["integration"] /\ "integration" \in JobNames
  BY DEF JobNames
<1>. QED BY <1>4, <1>5 DEF JudgedInv, Lasting, Judges

\* For every set of pull requests and every way the services' migrations
\* move meanwhile, the database script on main is the generated one.
THEOREM ScriptIsTheGenerated == Spec => []ScriptIsGenerated
BY InductiveVerdicts, ScriptCompared, PTL

-----------------------------------------------------------------------------
(* What the generated script executes.                                     *)

\* Every set of numbers that has one has a least one.
LEMMA Least ==
  ASSUME NEW T \in SUBSET Nat, T # {}
  PROVE  \E x \in T : \A y \in T : x <= y
<1> DEFINE R == {ss \in Nat \X Nat : ss[1] < ss[2]}
<1>1. IsWellFoundedOn(R, Nat)
  BY NatLessThanWellFounded DEF OpToRel
<1>2. \E x \in T : \A y \in T : ~ (<<y, x>> \in R)
  BY <1>1, WFMin, Zenon
<1>3. \A x, y \in Nat : <<y, x>> \notin R => x <= y
  OBVIOUS
<1>. QED BY <1>2, <1>3

\* Counting up.
LEMMA Climb ==
  ASSUME NEW n \in Nat, NEW T, 1 \in T, \A i \in 2 .. n : i - 1 \in T => i \in T
  PROVE  1 .. n \subseteq T
<1> DEFINE Stuck == {i \in 1 .. n : i \notin T}
<1>1. CASE Stuck # {}
  <2>1. PICK i \in Stuck : \A k \in Stuck : i <= k
    <3>1. Stuck \in SUBSET Nat
      OBVIOUS
    <3> HIDE DEF Stuck
    <3>. QED BY <1>1, <3>1, Least
  <2>2. i \in 2 .. n /\ i - 1 \in 1 .. n /\ ~(i <= i - 1)
    <3>1. i \in 1 .. n /\ i # 1
      BY <2>1
    <3>. QED BY <3>1
  <2>3. i - 1 \in T
    BY <2>1, <2>2
  <2>. QED BY <2>1, <2>2, <2>3
<1>2. CASE Stuck = {}
  BY <1>2
<1>. QED BY <1>1, <1>2

\* The files of a directory in the order of their timestamps.
InTime(run, s) ==
  /\ s \in [1 .. Cardinality(run) -> run]
  /\ \A i, j \in DOMAIN s : i < j => s[i] # s[j] /\ s[i].stamp <= s[j].stamp

\* The first file goes before those that are in order.
LEMMA OneMoreInTime ==
  ASSUME NEW run, IsFiniteSet(run), \A m \in run : m.stamp \in Nat,
         NEW first \in run, \A m \in run : first.stamp <= m.stamp,
         NEW s, InTime(run \ {first}, s)
  PROVE  \E t : InTime(run, t)
<1> DEFINE n == Cardinality(run \ {first})
           t == [i \in 1 .. n + 1 |-> IF i = 1 THEN first ELSE s[i - 1]]
<1>1. n \in Nat /\ Cardinality(run) = n + 1
  <2>1. IsFiniteSet(run \ {first}) /\ Cardinality(run \ {first}) = Cardinality(run) - 1
    BY FS_RemoveElement
  <2>. QED BY <2>1, FS_CardinalityType
<1>2. s \in [1 .. n -> run \ {first}]
  BY DEF InTime
<1>3. \A i, j \in 1 .. n : i < j => s[i] # s[j] /\ s[i].stamp <= s[j].stamp
  BY <1>2 DEF InTime
<1> HIDE DEF n
<1>4. \A i \in 1 .. n + 1 : i # 1 => i - 1 \in 1 .. n /\ t[i] = s[i - 1]
  BY <1>1
<1>5. t[1] = first
  BY <1>1
<1>6. t \in [1 .. n + 1 -> run]
  BY <1>1, <1>2, <1>4
<1>7. ASSUME NEW i \in 1 .. n + 1, NEW j \in 1 .. n + 1, i < j
      PROVE  t[i] # t[j] /\ t[i].stamp <= t[j].stamp
  <2>1. j # 1 /\ j - 1 \in 1 .. n /\ t[j] = s[j - 1] /\ s[j - 1] \in run \ {first}
    BY <1>1, <1>2, <1>4, <1>7
  <2>2. CASE i = 1
    BY <1>5, <2>1, <2>2
  <2>3. CASE i # 1
    <3>1. i - 1 \in 1 .. n /\ t[i] = s[i - 1] /\ i - 1 < j - 1
      BY <1>1, <1>4, <1>7, <2>3
    <3>. QED BY <1>3, <2>1, <3>1
  <2>. QED BY <2>2, <2>3
<1> HIDE DEF t
<1>. QED BY <1>1, <1>6, <1>7 DEF InTime

\* A finite directory can be sorted.
LEMMA CanBeSorted ==
  ASSUME NEW run, IsFiniteSet(run), \A m \in run : m.stamp \in Nat
  PROVE  \E s : InTime(run, s)
<1> DEFINE Stuck == {n \in Nat : \E r \in SUBSET run : Cardinality(r) = n /\ ~\E s : InTime(r, s)}
<1>1. CASE Stuck = {}
  <2>1. Cardinality(run) \in Nat
    BY FS_CardinalityType
  <2>. QED BY <1>1, <2>1
<1>2. CASE Stuck # {}
  <2>1. PICK n \in Stuck : \A k \in Stuck : n <= k
    <3>1. Stuck \in SUBSET Nat
      OBVIOUS
    <3> HIDE DEF Stuck
    <3>. QED BY <1>2, <3>1, Least
  <2>2. PICK r \in SUBSET run : Cardinality(r) = n /\ ~\E s : InTime(r, s)
    BY <2>1
  <2>3. IsFiniteSet(r) /\ n \in Nat
    BY <2>1, FS_Subset
  <2>4. r # {}
    <3>1. ASSUME r = {} PROVE FALSE
      <4>1. Cardinality(r) = 0 /\ 1 .. 0 = {}
        BY <3>1, FS_EmptySet
      <4>2. InTime(r, [i \in 1 .. 0 |-> i])
        BY <3>1, <4>1 DEF InTime
      <4>. QED BY <2>2, <4>2
    <3>. QED BY <3>1
  <2>5. PICK first \in r : \A m \in r : first.stamp <= m.stamp
    <3> DEFINE stamps == {m.stamp : m \in r}
    <3>1. stamps \in SUBSET Nat /\ stamps # {}
      BY <2>4
    <3>2. PICK x \in stamps : \A y \in stamps : x <= y
      <4> HIDE DEF stamps
      <4>. QED BY <3>1, Least
    <3>. QED BY <3>2
  <2>6. IsFiniteSet(r \ {first}) /\ Cardinality(r \ {first}) = n - 1 /\ n - 1 \in Nat
    <3>1. IsFiniteSet(r \ {first}) /\ Cardinality(r \ {first}) = Cardinality(r) - 1
      BY <2>3, FS_RemoveElement
    <3>2. Cardinality(r \ {first}) \in Nat
      BY <3>1, FS_CardinalityType
    <3>. QED BY <2>2, <3>1, <3>2
  <2>7. n - 1 \notin Stuck
    <3> HIDE DEF Stuck
    <3>. QED BY <2>1, <2>3
  <2>8. PICK s : InTime(r \ {first}, s)
    BY <2>6, <2>7
  <2>9. \E t : InTime(r, t)
    <3>1. \A m \in r : m.stamp \in Nat
      OBVIOUS
    <3>. QED BY <2>3, <2>5, <2>8, <3>1, OneMoreInTime
  <2>. QED BY <2>2, <2>9
<1>. QED BY <1>1, <1>2

\* What the recursion of FlattenSeq computes.
Joins(ss, F) ==
  /\ F[1] = ss[1]
  /\ \A i \in 2 .. Len(ss) : F[i] = F[i - 1] \o ss[i]
JoinTo(ss, n, F) ==
  F = [i \in 1 .. n |-> IF i = 1 THEN ss[1] ELSE F[i - 1] \o ss[i]]

\* The recursion has a solution.
LEMMA JoinsExist ==
  ASSUME NEW ss, NEW n \in Nat
  PROVE  \E F : JoinTo(ss, n, F)
<1> DEFINE Stuck == {k \in Nat : ~\E F : JoinTo(ss, k, F)}
<1>1. CASE Stuck # {}
  <2>1. PICK k \in Stuck : \A l \in Stuck : k <= l
    <3>1. Stuck \in SUBSET Nat
      OBVIOUS
    <3> HIDE DEF Stuck
    <3>. QED BY <1>1, <3>1, Least
  <2>2. k \in Nat /\ ~\E F : JoinTo(ss, k, F)
    BY <2>1
  <2>3. k # 0
    <3>1. ASSUME k = 0 PROVE FALSE
      <4> DEFINE G == [i \in 1 .. 0 |-> ss[1]]
      <4>1. G = [i \in 1 .. 0 |-> IF i = 1 THEN ss[1] ELSE G[i - 1] \o ss[i]]
        OBVIOUS
      <4> HIDE DEF G
      <4>. QED BY <2>2, <3>1, <4>1 DEF JoinTo
    <3>. QED BY <3>1
  <2>4. k - 1 \in Nat /\ k - 1 \notin Stuck
    <3>1. k - 1 \in Nat /\ ~(k <= k - 1)
      BY <2>2, <2>3
    <3> HIDE DEF Stuck
    <3>. QED BY <2>1, <3>1
  <2>5. PICK F : JoinTo(ss, k - 1, F)
    BY <2>4
  <2> DEFINE G == [i \in 1 .. k |-> IF i = 1 THEN ss[1] ELSE F[i - 1] \o ss[i]]
  <2>6. \A i \in 1 .. k - 1 : G[i] = F[i]
    <3>1. \A i \in 1 .. k - 1 : F[i] = IF i = 1 THEN ss[1] ELSE F[i - 1] \o ss[i]
      BY <2>5 DEF JoinTo
    <3>. QED BY <2>2, <3>1
  <2>7. \A i \in 1 .. k : i # 1 => G[i - 1] = F[i - 1]
    <3> HIDE DEF G
    <3>1. \A i \in 1 .. k : i # 1 => i - 1 \in 1 .. k - 1
      BY <2>2
    <3>. QED BY <2>6, <3>1
  <2>8. G = [i \in 1 .. k |-> IF i = 1 THEN ss[1] ELSE G[i - 1] \o ss[i]]
    <3>1. \A i \in 1 .. k : G[i] = IF i = 1 THEN ss[1] ELSE G[i - 1] \o ss[i]
      BY <2>7
    <3>2. DOMAIN G = 1 .. k /\ G = [i \in 1 .. k |-> G[i]]
      OBVIOUS
    <3> HIDE DEF G
    <3>. QED BY <3>1, <3>2
  <2> HIDE DEF G
  <2>. QED BY <2>2, <2>8 DEF JoinTo
<1>2. CASE Stuck = {}
  BY <1>2
<1>. QED BY <1>1, <1>2

\* FlattenSeq puts the sequences one behind the other.
LEMMA Flattened ==
  ASSUME NEW ss, Len(ss) \in Nat, Len(ss) # 0
  PROVE  \E F : Joins(ss, F) /\ FlattenSeq(ss) = F[Len(ss)]
<1> DEFINE n == Len(ss)
           F == CHOOSE F : F = [i \in 1 .. n |-> IF i = 1 THEN ss[i] ELSE F[i - 1] \o ss[i]]
<1>1. FlattenSeq(ss) = F[n]
  BY DEF FlattenSeq
<1>2. F = [i \in 1 .. n |-> IF i = 1 THEN ss[i] ELSE F[i - 1] \o ss[i]]
  <2>1. PICK G : JoinTo(ss, n, G)
    BY JoinsExist
  <2>2. G = [i \in 1 .. n |-> IF i = 1 THEN ss[i] ELSE G[i - 1] \o ss[i]]
    BY <2>1 DEF JoinTo
  <2>. QED BY <2>2
<1> HIDE DEF F
<1>3. Joins(ss, F)
  <2>1. n \in Nat /\ n # 0
    OBVIOUS
  <2> HIDE DEF n
  <2>2. 1 \in 1 .. n /\ \A i \in 2 .. n : i \in 1 .. n /\ i # 1
    BY <2>1
  <2>3. \A i \in 1 .. n : F[i] = IF i = 1 THEN ss[i] ELSE F[i - 1] \o ss[i]
    BY <1>2
  <2>. QED BY <2>2, <2>3 DEF Joins, n
<1>. QED BY <1>1, <1>3

\* The sequences ss[1], ..., ss[j] stand one behind the other in f, the one at i
\* after the first off[i] elements, and nothing else stands there.
Laid(ss, j, f, off) ==
  /\ \A i \in 1 .. j : \A c \in 1 .. Len(ss[i]) :
       off[i] + c \in 1 .. Len(f) /\ f[off[i] + c] = ss[i][c]
  /\ \A k \in 1 .. Len(f) : \E i \in 1 .. j : \E c \in 1 .. Len(ss[i]) : k = off[i] + c
  /\ \A i \in 1 .. j : off[i] + Len(ss[i]) <= Len(f)
  /\ \A i, l \in 1 .. j : i < l => off[i] + Len(ss[i]) <= off[l]

\* One more sequence behind those that stand there.
LEMMA OneMoreLaid ==
  ASSUME NEW S, NEW ss, NEW j \in Nat, NEW f \in Seq(S), ss[j + 1] \in Seq(S), NEW off,
         \A i \in 1 .. j + 1 : off[i] \in Nat /\ Len(ss[i]) \in Nat,
         Laid(ss, j, f, off), off[j + 1] = Len(f)
  PROVE  Laid(ss, j + 1, f \o ss[j + 1], off)
<1> DEFINE g == f \o ss[j + 1]
<1>1. /\ Len(f) \in Nat /\ Len(g) = Len(f) + Len(ss[j + 1])
      /\ \A k \in 1 .. Len(f) + Len(ss[j + 1]) :
           g[k] = IF k <= Len(f) THEN f[k] ELSE ss[j + 1][k - Len(f)]
  BY ConcatProperties, LenProperties
<1> HIDE DEF g
<1>2. j + 1 \in 1 .. j + 1 /\ Len(ss[j + 1]) \in Nat /\ \A i \in 1 .. j + 1 : i # j + 1 => i \in 1 .. j
  OBVIOUS
<1>3. ASSUME NEW i \in 1 .. j + 1, NEW c \in 1 .. Len(ss[i])
      PROVE  off[i] + c \in 1 .. Len(g) /\ g[off[i] + c] = ss[i][c]
  <2>1. CASE i = j + 1
    <3>1. Len(f) + c \in 1 .. Len(g) /\ ~(Len(f) + c <= Len(f)) /\ Len(f) + c - Len(f) = c
      BY <1>1, <1>2, <2>1
    <3>. QED BY <1>1, <2>1, <3>1
  <2>2. CASE i # j + 1
    <3>1. off[i] + c \in 1 .. Len(f) /\ f[off[i] + c] = ss[i][c]
      BY <1>2, <2>2 DEF Laid
    <3>2. off[i] + c \in 1 .. Len(g) /\ off[i] + c <= Len(f)
      BY <1>1, <1>2, <3>1
    <3>. QED BY <1>1, <3>1, <3>2
  <2>. QED BY <2>1, <2>2
<1>4. ASSUME NEW k \in 1 .. Len(g)
      PROVE  \E i \in 1 .. j + 1 : \E c \in 1 .. Len(ss[i]) : k = off[i] + c
  <2>1. CASE k <= Len(f)
    <3>1. k \in 1 .. Len(f)
      BY <1>1, <2>1
    <3>2. PICK i \in 1 .. j : \E c \in 1 .. Len(ss[i]) : k = off[i] + c
      BY <3>1 DEF Laid
    <3>. QED BY <3>2
  <2>2. CASE ~(k <= Len(f))
    <3>1. k - Len(f) \in 1 .. Len(ss[j + 1]) /\ k = off[j + 1] + (k - Len(f))
      BY <1>1, <1>2, <2>2
    <3>. QED BY <1>2, <3>1
  <2>. QED BY <2>1, <2>2
<1>5. ASSUME NEW i \in 1 .. j + 1
      PROVE  off[i] + Len(ss[i]) <= Len(g)
  <2>1. CASE i = j + 1
    BY <1>1, <1>2, <2>1
  <2>2. CASE i # j + 1
    <3>1. off[i] + Len(ss[i]) <= Len(f) /\ off[i] \in Nat /\ Len(ss[i]) \in Nat
      BY <1>2, <2>2 DEF Laid
    <3>. QED BY <1>1, <1>2, <3>1
  <2>. QED BY <2>1, <2>2
<1>6. ASSUME NEW i \in 1 .. j + 1, NEW l \in 1 .. j + 1, i < l
      PROVE  off[i] + Len(ss[i]) <= off[l]
  <2>1. i \in 1 .. j
    BY <1>6
  <2>2. CASE l = j + 1
    BY <2>1, <2>2 DEF Laid
  <2>3. CASE l # j + 1
    BY <1>2, <1>6, <2>1, <2>3 DEF Laid
  <2>. QED BY <2>2, <2>3
<1>. QED BY <1>3, <1>4, <1>5, <1>6 DEF Laid, g

\* Where FlattenSeq puts the sequences.
LEMMA FlatLaid ==
  ASSUME NEW S, NEW n \in Nat \ {0}, NEW ss \in [1 .. n -> Seq(S)]
  PROVE  /\ FlattenSeq(ss) \in Seq(S)
         /\ \E off \in [1 .. n -> Nat] : Laid(ss, n, FlattenSeq(ss), off)
<1>1. Len(ss) = n /\ ss \in Seq(Seq(S))
  OBVIOUS
<1>2. PICK F : Joins(ss, F) /\ FlattenSeq(ss) = F[n]
  BY <1>1, Flattened
<1>3. \A i \in 1 .. n : ss[i] \in Seq(S) /\ Len(ss[i]) \in Nat
  OBVIOUS
<1> DEFINE off == [i \in 1 .. n |-> IF i = 1 THEN 0 ELSE Len(F[i - 1])]
           T == {j \in 1 .. n : F[j] \in Seq(S) /\ Laid(ss, j, F[j], off)}
<1>4. F[1] = ss[1] /\ \A i \in 2 .. n : F[i] = F[i - 1] \o ss[i]
  BY <1>1, <1>2 DEF Joins
<1>5. 1 .. n \subseteq {j \in 1 .. n : F[j] \in Seq(S)}
  <2> DEFINE U == {j \in 1 .. n : F[j] \in Seq(S)}
  <2>1. 1 \in U
    BY <1>3, <1>4
  <2>2. ASSUME NEW i \in 2 .. n, i - 1 \in U
        PROVE  i \in U
    <3>1. i \in 1 .. n
      OBVIOUS
    <3>2. F[i - 1] \in Seq(S) /\ ss[i] \in Seq(S) /\ F[i] = F[i - 1] \o ss[i]
      BY <1>3, <1>4, <2>2, <3>1
    <3>3. F[i - 1] \o ss[i] \in Seq(S)
      BY <3>2, ConcatProperties
    <3>. QED BY <3>1, <3>2, <3>3
  <2> HIDE DEF U
  <2>3. 1 .. n \subseteq U
    BY <2>1, <2>2, Climb
  <2>. QED BY <2>3 DEF U
<1>6. \A i \in 1 .. n : F[i] \in Seq(S) /\ Len(F[i]) \in Nat
  BY <1>5
<1>7. \A i \in 1 .. n : off[i] \in Nat /\ (i = 1 => off[i] = 0) /\ (i # 1 => off[i] = Len(F[i - 1]))
  <2>1. \A i \in 1 .. n : i # 1 => i - 1 \in 1 .. n
    OBVIOUS
  <2>. QED BY <1>6, <2>1
<1>8. off \in [1 .. n -> Nat]
  BY <1>7
<1> HIDE DEF off
<1>9. 1 \in T
  <2>1. 1 \in 1 .. n /\ \A i \in 1 .. 1 : i = 1
    OBVIOUS
  <2>2. off[1] = 0 /\ Len(ss[1]) \in Nat /\ F[1] = ss[1]
    BY <1>3, <1>4, <1>7, <2>1
  <2>3. Laid(ss, 1, F[1], off)
    <3>1. \A c \in 1 .. Len(ss[1]) : 0 + c = c
      BY <2>2
    <3>. QED BY <2>1, <2>2, <3>1 DEF Laid
  <2>. QED BY <1>6, <2>1, <2>3
<1>10. ASSUME NEW i \in 2 .. n, i - 1 \in T
       PROVE  i \in T
  <2>1. i - 1 \in Nat /\ i - 1 + 1 = i /\ i \in 1 .. n /\ i # 1 /\ 1 .. i \subseteq 1 .. n
    OBVIOUS
  <2>2. F[i - 1] \in Seq(S) /\ Laid(ss, i - 1, F[i - 1], off) /\ off[i] = Len(F[i - 1])
    BY <1>7, <1>10, <2>1
  <2>3. \A k \in 1 .. i : off[k] \in Nat /\ Len(ss[k]) \in Nat
    BY <1>3, <1>7, <2>1
  <2>4. \A m \in Nat : m + 1 = i /\ Laid(ss, m, F[i - 1], off) => Laid(ss, i, F[i - 1] \o ss[i], off)
    <3>1. SUFFICES ASSUME NEW m \in Nat, m + 1 = i, Laid(ss, m, F[i - 1], off)
                   PROVE  Laid(ss, m + 1, F[i - 1] \o ss[m + 1], off)
      OBVIOUS
    <3>2. ss[m + 1] \in Seq(S) /\ off[m + 1] = Len(F[i - 1])
      BY <1>3, <2>1, <2>2, <3>1
    <3>3. \A k \in 1 .. m + 1 : off[k] \in Nat /\ Len(ss[k]) \in Nat
      BY <2>3, <3>1
    <3>. QED BY <2>2, <3>1, <3>2, <3>3, OneMoreLaid
  <2>5. Laid(ss, i, F[i - 1] \o ss[i], off)
    BY <2>1, <2>2, <2>4
  <2>. QED BY <1>4, <1>6, <2>1, <2>5
<1> HIDE DEF T
<1>11. n \in T
  <2>1. 1 .. n \subseteq T
    BY <1>9, <1>10, Climb
  <2>. QED BY <2>1
<1>. QED BY <1>2, <1>8, <1>11 DEF T

\* What MigrationsFor returns.
LEMMA MigrationsSorted ==
  ASSUME NEW dir \in SUBSET Migration, IsFiniteSet(dir)
  PROVE  /\ InTime({m \in dir : m.kind = "ts"}, MigrationsFor(dir))
         /\ IsFiniteSet({m \in dir : m.kind = "ts"})
<1> DEFINE run == {m \in dir : m.kind = "ts"}
<1>1. IsFiniteSet(run) /\ \A m \in run : m.stamp \in Nat
  BY FS_Subset DEF Migration
<1> HIDE DEF run
<1>2. \E s : InTime(run, s)
  BY <1>1, CanBeSorted
<1>3. MigrationsFor(dir) = CHOOSE s \in [1 .. Cardinality(run) -> run] :
                             \A i, j \in DOMAIN s : i < j => s[i] # s[j] /\ s[i].stamp <= s[j].stamp
  BY DEF MigrationsFor, run
<1>4. InTime(run, MigrationsFor(dir))
  BY <1>2, <1>3, Zenon DEF InTime
<1>. QED BY <1>1, <1>4 DEF run

\* The lines of a script.
Line == {<<"bootstrap">>, <<"reset">>} \cup {<<"search_path", SERVICES[k]>> : k \in {1, 2}}
          \cup {<<"sql", x>> : x \in STRING}

\* The files of a service are generated from in turn.
Blocks(dir) == [i \in DOMAIN MigrationsFor(dir) |-> ExtractUpStatements(MigrationsFor(dir)[i])]

\* What ServiceBlock is made of.
LEMMA BlockLaid ==
  ASSUME NEW dir \in SUBSET Migration, IsFiniteSet(dir), NEW service,
         ServiceBlock(service, dir) # Failure
  PROVE  LET run == {m \in dir : m.kind = "ts"}
             n == Cardinality(run)
             s == MigrationsFor(dir)
             f == FlattenSeq(Blocks(dir))
         IN /\ n \in Nat \ {0} /\ DOMAIN s = 1 .. n
            /\ f \in Seq({<<"sql", x>> : x \in STRING})
            /\ ServiceBlock(service, dir) = <<<<"search_path", service>>>> \o f
            /\ \A i \in 1 .. n : /\ s[i] \in run /\ s[i].calls \in Seq(UpCall)
                                 /\ Blocks(dir)[i] = Statements(s[i].calls)
                                 /\ Len(Blocks(dir)[i]) = Len(s[i].calls)
            /\ \E off \in [1 .. n -> Nat] : Laid(Blocks(dir), n, f, off)
<1> DEFINE run == {m \in dir : m.kind = "ts"}
           n == Cardinality(run)
           s == MigrationsFor(dir)
           ss == Blocks(dir)
           Sql == {<<"sql", x>> : x \in STRING}
<1>1. s \in [1 .. n -> run] /\ n \in Nat
  BY MigrationsSorted, FS_CardinalityType DEF InTime
<1> HIDE DEF n, s
<1>2. DOMAIN ss = 1 .. n /\ ss = [i \in 1 .. n |-> ss[i]] /\ \A i \in 1 .. n : ss[i] = ExtractUpStatements(s[i])
  BY <1>1 DEF Blocks, s
<1>3. /\ ss # <<>> /\ \A i \in 1 .. n : ss[i] # Failure
      /\ ServiceBlock(service, dir) = <<<<"search_path", service>>>> \o FlattenSeq(ss)
  <2>1. ServiceBlock(service, dir)
          = IF ss = <<>> \/ \E i \in DOMAIN ss : ss[i] = Failure
            THEN Failure
            ELSE <<<<"search_path", service>>>> \o FlattenSeq(ss)
    BY DEF ServiceBlock, Blocks
  <2> HIDE DEF ss
  <2>. QED BY <1>2, <2>1
<1> HIDE DEF ss
<1>4. n # 0
  <2>1. ASSUME n = 0
        PROVE  FALSE
    <3>1. ss = [i \in 1 .. 0 |-> ss[i]] /\ 1 .. 0 = {}
      BY <1>2, <2>1
    <3>2. ss = <<>>
      BY <3>1
    <3>. QED BY <1>3, <3>2
  <2>. QED BY <2>1
<1>5. ASSUME NEW i \in 1 .. n
      PROVE  /\ s[i] \in run /\ s[i].calls \in Seq(UpCall)
             /\ ss[i] = Statements(s[i].calls)
             /\ Len(ss[i]) = Len(s[i].calls) /\ ss[i] \in Seq(Sql)
  <2>1. s[i] \in run /\ s[i].calls \in Seq(UpCall)
    BY <1>1 DEF Migration
  <2>2. ss[i] = Statements(s[i].calls)
    BY <1>2, <1>3 DEF ExtractUpStatements
  <2> DEFINE ups == s[i].calls
  <2>3. Len(ups) \in Nat /\ DOMAIN ups = 1 .. Len(ups) /\ \A c \in 1 .. Len(ups) : ups[c].sql \in STRING
    <3>1. \A c \in 1 .. Len(ups) : ups[c] \in UpCall
      BY <2>1
    <3>. QED BY <2>1, <3>1 DEF UpCall
  <2> HIDE DEF ups, Sql
  <2>4. Statements(ups) = [c \in 1 .. Len(ups) |-> <<"sql", ups[c].sql>>]
    BY <2>3 DEF Statements
  <2>5. \A c \in 1 .. Len(ups) : <<"sql", ups[c].sql>> \in Sql
    BY <2>3 DEF Sql
  <2>6. Statements(ups) \in Seq(Sql) /\ Len(Statements(ups)) = Len(ups)
    BY <2>3, <2>4, <2>5
  <2>. QED BY <2>1, <2>2, <2>6 DEF ups
<1> HIDE DEF run, Sql
<1>6. ss \in [1 .. n -> Seq(Sql)]
  BY <1>2, <1>5
<1>7. FlattenSeq(ss) \in Seq(Sql) /\ \E off \in [1 .. n -> Nat] : Laid(ss, n, FlattenSeq(ss), off)
  BY <1>1, <1>4, <1>6, FlatLaid
<1>8. DOMAIN s = 1 .. n
  BY <1>1
<1>. QED BY <1>1, <1>3, <1>4, <1>5, <1>7, <1>8 DEF ss, n, s, run, Sql

\* The lines of a service's block, at their places in the script, are what its
\* migrations run.
LEMMA BlockExecutes ==
  ASSUME NEW dir \in SUBSET Migration, IsFiniteSet(dir), NEW service,
         ServiceBlock(service, dir) # Failure, NEW script, NEW base \in Nat,
         \A i \in 1 .. Len(FlattenSeq(Blocks(dir))) : script[base + i] = FlattenSeq(Blocks(dir))[i],
         {i \in DOMAIN script : script[i][1] = "sql" /\ SchemaAt(script, i) = service}
           = {base + i : i \in 1 .. Len(FlattenSeq(Blocks(dir)))}
  PROVE  Executes(service, dir, script)
<1> DEFINE run == {m \in dir : m.kind = "ts"}
           n == Cardinality(run)
           s == MigrationsFor(dir)
           ss == Blocks(dir)
           f == FlattenSeq(ss)
           own == {i \in DOMAIN script : script[i][1] = "sql" /\ SchemaAt(script, i) = service}
           Lines(m, c) == {i \in own : script[i][2] = m.calls[c].sql}
           all == UNION {{<<m, c>> : c \in DOMAIN m.calls} : m \in run}
<1>1. /\ n \in Nat \ {0} /\ Len(f) \in Nat
      /\ \A i \in 1 .. n : /\ s[i] \in run /\ s[i].calls \in Seq(UpCall)
                           /\ ss[i] = Statements(s[i].calls)
                           /\ Len(ss[i]) = Len(s[i].calls)
  <2>1. n \in Nat \ {0}
    BY BlockLaid
  <2>2. f \in Seq({<<"sql", x>> : x \in STRING})
    BY BlockLaid
  <2>3. Len(f) \in Nat
    <3> HIDE DEF f
    <3>. QED BY <2>2
  <2>4. \A i \in 1 .. n : /\ s[i] \in run /\ s[i].calls \in Seq(UpCall)
                         /\ ss[i] = Statements(s[i].calls)
                         /\ Len(ss[i]) = Len(s[i].calls)
    BY BlockLaid
  <2>. QED BY <2>1, <2>3, <2>4
<1>2. PICK off \in [1 .. n -> Nat] : Laid(ss, n, f, off)
  BY BlockLaid
<1>3. /\ s \in [1 .. n -> run] /\ IsFiniteSet(run)
      /\ \A i, j \in 1 .. n : i < j => s[i] # s[j] /\ s[i].stamp <= s[j].stamp
  BY MigrationsSorted DEF InTime
<1>4. /\ \A i \in 1 .. Len(f) : script[base + i] = f[i]
      /\ own = {base + i : i \in 1 .. Len(f)}
  OBVIOUS
<1> HIDE DEF n, s, ss, f, own
<1>5. \A m \in run : m.stamp \in Nat /\ m.calls \in Seq(UpCall)
  BY DEF Migration
<1> HIDE DEF run
\* Each file has one place in the order.
<1>6. \A m \in run : \E i \in 1 .. n : s[i] = m
  <2>1. s \in Injection(1 .. n, run)
    <3>1. \A i, j \in 1 .. n : s[i] = s[j] => ~(i < j) /\ ~(j < i)
      BY <1>3
    <3>2. \A i, j \in 1 .. n : s[i] = s[j] => i = j
      BY <1>1, <3>1
    <3>. QED BY <1>3, <3>2 DEF Injection, IsInjective
  <2>2. Cardinality(1 .. n) = Cardinality(run)
    <3>1. Cardinality(1 .. n) = n
      BY <1>1, FS_Interval
    <3>. QED BY <3>1 DEF n
  <2>3. s \in Surjection(1 .. n, run)
    BY <1>3, <2>1, <2>2, FS_Injection
  <2>. QED BY <2>3 DEF Surjection
<1> DEFINE spot == [m \in run |-> CHOOSE i \in 1 .. n : s[i] = m]
<1>7. \A m \in run : spot[m] \in 1 .. n /\ s[spot[m]] = m
  BY <1>6
<1> HIDE DEF spot
<1> DEFINE place == [p \in all |-> base + (off[spot[p[1]]] + p[2])]
<1>8. ASSUME NEW p \in all
      PROVE  /\ p = <<p[1], p[2]>> /\ p[1] \in run /\ p[2] \in 1 .. Len(ss[spot[p[1]]])
             /\ p[2] \in Nat /\ off[spot[p[1]]] \in Nat
             /\ place[p] \in own /\ place[p] = base + (off[spot[p[1]]] + p[2])
             /\ script[place[p]][2] = p[1].calls[p[2]].sql
  <2>0. PICK m \in run : \E c \in DOMAIN m.calls : p = <<m, c>>
    OBVIOUS
  <2>1. PICK c \in DOMAIN m.calls : p = <<m, c>>
    BY <2>0
  <2>2. p[1] = m /\ p[2] = c /\ spot[m] \in 1 .. n /\ s[spot[m]] = m
    BY <1>7, <2>1
  <2>3. c \in 1 .. Len(m.calls) /\ Len(m.calls) \in Nat
    BY <1>5, <2>1
  <2>4. Len(ss[spot[m]]) = Len(m.calls) /\ ss[spot[m]] = Statements(m.calls)
    BY <1>1, <2>2
  <2>5. off[spot[m]] + c \in 1 .. Len(f) /\ f[off[spot[m]] + c] = ss[spot[m]][c]
    BY <1>2, <2>2, <2>3, <2>4 DEF Laid
  <2>6. ss[spot[m]][c] = <<"sql", m.calls[c].sql>>
    BY <2>1, <2>4 DEF Statements
  <2>7. script[base + (off[spot[m]] + c)] = <<"sql", m.calls[c].sql>> /\ base + (off[spot[m]] + c) \in own
    BY <1>4, <2>5, <2>6
  <2>8. place[p] = base + (off[spot[m]] + c)
    BY <2>2
  <2> HIDE DEF place, all
  <2>. QED BY <1>2, <2>1, <2>2, <2>3, <2>4, <2>7, <2>8
<1>9. ASSUME NEW p \in all, NEW q \in all,
             spot[p[1]] < spot[q[1]] \/ (p[1] = q[1] /\ p[2] < q[2])
      PROVE  place[p] < place[q]
  <2> HIDE DEF place, all
  <2>1. CASE spot[p[1]] < spot[q[1]]
    <3>1. off[spot[p[1]]] + Len(ss[spot[p[1]]]) <= off[spot[q[1]]]
      BY <1>2, <1>7, <1>8, <2>1 DEF Laid
    <3>2. Len(ss[spot[p[1]]]) \in Nat /\ p[2] <= Len(ss[spot[p[1]]]) /\ q[2] >= 1
      <4>1. Len(ss[spot[p[1]]]) \in Nat
        BY <1>1, <1>7, <1>8
      <4>2. Len(ss[spot[q[1]]]) \in Nat
        BY <1>1, <1>7, <1>8
      <4>. QED BY <1>8, <4>1, <4>2
    <3>3. \A a, b, c, d, l, x \in Nat : a + l <= b /\ c <= l /\ d >= 1 => x + (a + c) < x + (b + d)
      OBVIOUS
    <3>4. off[spot[p[1]]] \in Nat /\ off[spot[q[1]]] \in Nat /\ p[2] \in Nat /\ q[2] \in Nat
      BY <1>8
    <3>5. base + (off[spot[p[1]]] + p[2]) < base + (off[spot[q[1]]] + q[2])
      BY <3>1, <3>2, <3>3, <3>4
    <3>6. place[p] = base + (off[spot[p[1]]] + p[2]) /\ place[q] = base + (off[spot[q[1]]] + q[2])
      BY <1>8
    <3>. QED BY <3>5, <3>6
  <2>2. CASE p[1] = q[1] /\ p[2] < q[2]
    BY <1>8, <2>2
  <2>. QED BY <1>9, <2>1, <2>2
<1>10. place \in Bijection(all, own)
  <2>1. place \in [all -> own]
    BY <1>8
  <2>2. ASSUME NEW p \in all, NEW q \in all, place[p] = place[q]
        PROVE  p = q
    <3> HIDE DEF place, all
    <3>1. spot[p[1]] \in Nat /\ spot[q[1]] \in Nat /\ p[2] \in Nat /\ q[2] \in Nat /\ place[p] \in Nat
      BY <1>1, <1>7, <1>8
    <3>2. ~(place[p] < place[q]) /\ ~(place[q] < place[p])
      BY <2>2, <3>1
    <3>3. spot[p[1]] = spot[q[1]]
      BY <1>9, <3>1, <3>2
    <3>4. p[1] = q[1]
      BY <1>7, <1>8, <3>3
    <3>5. p[2] = q[2]
      BY <1>9, <3>1, <3>2, <3>4
    <3>. QED BY <1>8, <3>4, <3>5
  <2>3. ASSUME NEW k \in own
        PROVE  \E p \in all : place[p] = k
    <3>0. PICK i \in 1 .. n : \E c \in 1 .. Len(ss[i]) : k = base + (off[i] + c)
      BY <1>2, <1>4 DEF Laid
    <3>1. PICK c \in 1 .. Len(ss[i]) : k = base + (off[i] + c)
      BY <3>0
    <3>2. s[i] \in run /\ c \in DOMAIN s[i].calls
      BY <1>1, <3>1
    <3>3. spot[s[i]] = i
      <4>1. spot[s[i]] \in 1 .. n /\ s[spot[s[i]]] = s[i]
        BY <1>7, <3>2
      <4>2. ~(spot[s[i]] < i) /\ ~(i < spot[s[i]])
        BY <1>3, <4>1
      <4>. QED BY <1>1, <4>1, <4>2
    <3>4. <<s[i], c>> \in all
      BY <3>2
    <3>5. place[<<s[i], c>>] = base + (off[spot[s[i]]] + c)
      BY <3>4
    <3>. QED BY <3>1, <3>3, <3>4, <3>5
  <2> HIDE DEF place, all
  <2>. QED BY <2>1, <2>2, <2>3 DEF Bijection, Injection, Surjection, IsInjective
<1>11. Cardinality(own) = Cardinality(all)
  <2>1. IsFiniteSet(own)
    <3>1. IsFiniteSet(1 .. base + Len(f))
      BY <1>1, FS_Interval
    <3>2. own \in SUBSET (1 .. base + Len(f))
      BY <1>1, <1>4
    <3>. QED BY <3>1, <3>2, FS_Subset
  <2>2. IsFiniteSet(all)
    <3> HIDE DEF place, all
    <3>. QED BY <1>10, <2>1, FS_Injection DEF Bijection
  <2> HIDE DEF place, all
  <2>. QED BY <1>10, <2>2, FS_Bijection DEF ExistsBijection
<1>12. \A p \in all : place[p] \in Lines(p[1], p[2])
  <2> HIDE DEF place, all
  <2>. QED BY <1>8
<1>13. ASSUME NEW p \in all, NEW q \in all,
              p[1].stamp < q[1].stamp \/ (p[1] = q[1] /\ p[2] < q[2])
       PROVE  \E a \in Lines(p[1], p[2]), b \in Lines(q[1], q[2]) : a < b
  <2>1. spot[p[1]] < spot[q[1]] \/ (p[1] = q[1] /\ p[2] < q[2])
    <3> HIDE DEF place, all
    <3>1. CASE p[1].stamp < q[1].stamp
      <4>1. p[1] \in run /\ q[1] \in run
        BY <1>8
      <4>2. /\ spot[p[1]] \in 1 .. n /\ spot[q[1]] \in 1 .. n
            /\ s[spot[p[1]]] = p[1] /\ s[spot[q[1]]] = q[1]
        BY <1>7, <4>1
      <4>3. p[1].stamp \in Nat /\ q[1].stamp \in Nat /\ ~(q[1].stamp <= p[1].stamp) /\ p[1] # q[1]
        BY <1>5, <3>1, <4>1
      <4>4. ~(spot[q[1]] < spot[p[1]]) /\ spot[p[1]] # spot[q[1]]
        BY <1>3, <4>2, <4>3
      <4>. QED BY <1>1, <4>2, <4>4
    <3>. QED BY <1>13, <3>1
  <2>2. place[p] < place[q]
    <3> HIDE DEF place, all
    <3>. QED BY <1>9, <2>1
  <2> HIDE DEF place, all, Lines
  <2>. QED BY <1>12, <2>2
<1>14. Executes(service, dir, script)
         <=> /\ Cardinality(own) = Cardinality(all)
             /\ \A p \in all : Lines(p[1], p[2]) # {}
             /\ \A p, q \in all :
                  p[1].stamp < q[1].stamp \/ (p[1] = q[1] /\ p[2] < q[2]) =>
                    \E a \in Lines(p[1], p[2]), b \in Lines(q[1], q[2]) : a < b
  BY DEF Executes, own, run
<1> HIDE DEF place, all, Lines
<1>. QED BY <1>11, <1>12, <1>13, <1>14

\* Two sequences one behind the other.
LEMMA FlattenTwo ==
  ASSUME NEW b, Len(b) = 2
  PROVE  FlattenSeq(b) = b[1] \o b[2]
<1>1. Len(b) \in Nat /\ Len(b) # 0
  OBVIOUS
<1>2. PICK F : Joins(b, F) /\ FlattenSeq(b) = F[Len(b)]
  BY <1>1, Flattened
<1>3. F[1] = b[1] /\ \A i \in 2 .. 2 : F[i] = F[i - 1] \o b[i]
  BY <1>2 DEF Joins
<1>4. 2 \in 2 .. 2 /\ 2 - 1 = 1
  OBVIOUS
<1>5. F[2] = F[2 - 1] \o b[2]
  BY <1>3, <1>4, Zenon
<1>6. F[2] = b[1] \o b[2]
  BY <1>3, <1>4, <1>5, Zenon
<1>. QED BY <1>2, <1>6

\* Their places in the script.
Shape(G, f1, f2) ==
  /\ DOMAIN G = 1 .. Len(f1) + Len(f2) + 4
  /\ G[1] = <<"bootstrap">> /\ G[2] = <<"search_path", SERVICES[1]>>
  /\ \A i \in 1 .. Len(f1) : G[2 + i] = f1[i]
  /\ G[3 + Len(f1)] = <<"search_path", SERVICES[2]>>
  /\ \A i \in 1 .. Len(f2) : G[(3 + Len(f1)) + i] = f2[i]
  /\ G[Len(f1) + Len(f2) + 4] = <<"reset">>

\* What a script with two blocks looks like.
LEMMA ScriptShape ==
  ASSUME NEW f1 \in Seq(Line), NEW f2 \in Seq(Line)
  PROVE  Shape(<<<<"bootstrap">>>> \o ((<<<<"search_path", SERVICES[1]>>>> \o f1)
                 \o (<<<<"search_path", SERVICES[2]>>>> \o f2)) \o <<<<"reset">>>>, f1, f2)
<1> DEFINE boot == <<<<"bootstrap">>>>
           sp1 == <<<<"search_path", SERVICES[1]>>>>
           sp2 == <<<<"search_path", SERVICES[2]>>>>
           reset == <<<<"reset">>>>
           a == sp1 \o f1
           b == sp2 \o f2
           G == boot \o (a \o b) \o reset
<1>2. /\ boot \in Seq(Line) /\ Len(boot) = 1 /\ boot[1] = <<"bootstrap">>
      /\ reset \in Seq(Line) /\ Len(reset) = 1 /\ reset[1] = <<"reset">>
  BY DEF Line
<1>3. /\ sp1 \in Seq(Line) /\ Len(sp1) = 1 /\ sp1[1] = <<"search_path", SERVICES[1]>>
      /\ sp2 \in Seq(Line) /\ Len(sp2) = 1 /\ sp2[1] = <<"search_path", SERVICES[2]>>
  BY DEF Line
<1> HIDE DEF boot, sp1, sp2, reset
<1>4. Len(f1) \in Nat /\ Len(f2) \in Nat
  OBVIOUS
<1>5. /\ a \in Seq(Line) /\ Len(a) = 1 + Len(f1)
      /\ \A i \in 1 .. 1 + Len(f1) : a[i] = IF i <= 1 THEN sp1[i] ELSE f1[i - 1]
  <2>1. /\ a \in Seq(Line) /\ Len(a) = Len(sp1) + Len(f1)
        /\ \A i \in 1 .. Len(sp1) + Len(f1) : a[i] = IF i <= Len(sp1) THEN sp1[i] ELSE f1[i - Len(sp1)]
    BY <1>3, ConcatProperties, Zenon
  <2>. QED BY <1>3, <2>1, Zenon
<1>6. /\ b \in Seq(Line) /\ Len(b) = 1 + Len(f2)
      /\ \A i \in 1 .. 1 + Len(f2) : b[i] = IF i <= 1 THEN sp2[i] ELSE f2[i - 1]
  <2>1. /\ b \in Seq(Line) /\ Len(b) = Len(sp2) + Len(f2)
        /\ \A i \in 1 .. Len(sp2) + Len(f2) : b[i] = IF i <= Len(sp2) THEN sp2[i] ELSE f2[i - Len(sp2)]
    BY <1>3, ConcatProperties, Zenon
  <2>. QED BY <1>3, <2>1, Zenon
<1> HIDE DEF a, b
<1> DEFINE c == a \o b
           d == boot \o c
<1>7. /\ c \in Seq(Line) /\ Len(c) = Len(a) + Len(b)
      /\ \A i \in 1 .. Len(a) + Len(b) : c[i] = IF i <= Len(a) THEN a[i] ELSE b[i - Len(a)]
  BY <1>5, <1>6, ConcatProperties, Zenon
<1>8. G = d \o reset
  OBVIOUS
<1> HIDE DEF c, G
<1>9. /\ d \in Seq(Line) /\ Len(d) = 1 + Len(c)
      /\ \A i \in 1 .. 1 + Len(c) : d[i] = IF i <= 1 THEN boot[i] ELSE c[i - 1]
  <2>1. /\ d \in Seq(Line) /\ Len(d) = Len(boot) + Len(c)
        /\ \A i \in 1 .. Len(boot) + Len(c) : d[i] = IF i <= Len(boot) THEN boot[i] ELSE c[i - Len(boot)]
    <3>1. boot \in Seq(Line) /\ c \in Seq(Line)
      BY <1>2, <1>7
    <3>. QED BY <3>1, ConcatProperties, Zenon
  <2>. QED BY <1>2, <2>1, Zenon
<1> HIDE DEF d
<1>10. /\ G \in Seq(Line) /\ Len(G) = Len(d) + 1
       /\ \A i \in 1 .. Len(d) + 1 : G[i] = IF i <= Len(d) THEN d[i] ELSE reset[i - Len(d)]
  <2>1. /\ d \o reset \in Seq(Line) /\ Len(d \o reset) = Len(d) + Len(reset)
        /\ \A i \in 1 .. Len(d) + Len(reset) :
             (d \o reset)[i] = IF i <= Len(d) THEN d[i] ELSE reset[i - Len(d)]
    BY <1>2, <1>9, ConcatProperties, Zenon
  <2>. QED BY <1>2, <1>8, <2>1, Zenon
<1> DEFINE l1 == Len(f1)
           l2 == Len(f2)
<1>11. /\ l1 \in Nat /\ l2 \in Nat /\ Len(a) = 1 + l1 /\ Len(b) = 1 + l2
       /\ Len(c) = 2 + l1 + l2 /\ Len(d) = 3 + l1 + l2 /\ Len(G) = l1 + l2 + 4
  BY <1>4, <1>5, <1>6, <1>7, <1>9, <1>10
<1>12. DOMAIN G = 1 .. l1 + l2 + 4
  BY <1>10, <1>11
<1> HIDE DEF l1, l2
<1>13. \A i \in 1 .. 2 + l1 + l2 : G[1 + i] = c[i]
  <2>1. ASSUME NEW i \in 1 .. 2 + l1 + l2
        PROVE  G[1 + i] = c[i]
    <3>1. 1 + i \in 1 .. Len(d) + 1 /\ 1 + i <= Len(d) /\ 1 + i \in 1 .. 1 + Len(c)
          /\ ~(1 + i <= 1) /\ 1 + i - 1 = i
      BY <1>11
    <3>2. G[1 + i] = d[1 + i] /\ d[1 + i] = c[1 + i - 1]
      BY <1>9, <1>10, <3>1
    <3>. QED BY <3>1, <3>2
  <2>. QED BY <2>1
<1>14. \A i \in 1 .. 1 + l1 : G[1 + i] = a[i]
  BY <1>7, <1>11, <1>13
<1>15. \A i \in 1 .. 1 + l2 : G[(2 + l1) + i] = b[i]
  <2>1. ASSUME NEW i \in 1 .. 1 + l2
        PROVE  G[(2 + l1) + i] = b[i]
    <3>1. (1 + l1) + i \in 1 .. 2 + l1 + l2 /\ 1 + ((1 + l1) + i) = (2 + l1) + i
          /\ ~((1 + l1) + i <= Len(a)) /\ (1 + l1) + i - Len(a) = i
          /\ (1 + l1) + i \in 1 .. Len(a) + Len(b)
      BY <1>11
    <3>2. G[1 + ((1 + l1) + i)] = c[(1 + l1) + i]
      BY <1>13, <3>1, Zenon
    <3>3. c[(1 + l1) + i] = b[i]
      <4> DEFINE m == (1 + l1) + i
      <4>1. m \in 1 .. Len(a) + Len(b) /\ ~(m <= Len(a)) /\ m - Len(a) = i
        BY <1>11
      <4> HIDE DEF m
      <4>2. c[m] = b[i]
        BY <1>7, <4>1
      <4>. QED BY <4>2 DEF m
    <3>. QED BY <3>1, <3>2, <3>3
  <2>. QED BY <2>1
<1>16. G[1] = <<"bootstrap">>
  <2>1. 1 \in 1 .. Len(d) + 1 /\ 1 <= Len(d) /\ 1 \in 1 .. 1 + Len(c)
    BY <1>11
  <2>. QED BY <1>2, <1>9, <1>10, <2>1
<1>17. G[2] = <<"search_path", SERVICES[1]>>
  <2>1. 1 \in 1 .. 1 + l1 /\ 1 + 1 = 2
    BY <1>11
  <2>2. G[2] = a[1] /\ a[1] = sp1[1]
    BY <1>5, <1>14, <2>1 DEF l1
  <2>. QED BY <1>3, <2>2
<1>18. \A i \in 1 .. l1 : G[2 + i] = f1[i]
  <2>1. ASSUME NEW i \in 1 .. l1
        PROVE  G[2 + i] = f1[i]
    <3>1. 1 + i \in 1 .. 1 + l1 /\ 1 + (1 + i) = 2 + i /\ ~(1 + i <= 1) /\ 1 + i - 1 = i
      BY <1>11
    <3>2. G[2 + i] = a[1 + i] /\ a[1 + i] = f1[1 + i - 1]
      BY <1>5, <1>14, <3>1 DEF l1
    <3>. QED BY <3>1, <3>2
  <2>. QED BY <2>1
<1>19. G[3 + l1] = <<"search_path", SERVICES[2]>>
  <2>1. 1 \in 1 .. 1 + l2 /\ (2 + l1) + 1 = 3 + l1
    BY <1>11
  <2>2. G[3 + l1] = b[1] /\ b[1] = sp2[1]
    BY <1>6, <1>15, <2>1 DEF l2
  <2>. QED BY <1>3, <2>2
<1>20. \A i \in 1 .. l2 : G[(3 + l1) + i] = f2[i]
  <2>1. ASSUME NEW i \in 1 .. l2
        PROVE  G[(3 + l1) + i] = f2[i]
    <3>1. 1 + i \in 1 .. 1 + l2 /\ (2 + l1) + (1 + i) = (3 + l1) + i /\ ~(1 + i <= 1) /\ 1 + i - 1 = i
      BY <1>11
    <3>2. G[(3 + l1) + i] = b[1 + i] /\ b[1 + i] = f2[1 + i - 1]
      BY <1>6, <1>15, <3>1 DEF l2
    <3>. QED BY <3>1, <3>2
  <2>. QED BY <2>1
<1>21. G[l1 + l2 + 4] = <<"reset">>
  <2>1. l1 + l2 + 4 = Len(d) + 1 /\ Len(d) + 1 \in 1 .. Len(d) + 1 /\ ~(Len(d) + 1 <= Len(d)) /\ Len(d) + 1 - Len(d) = 1
    BY <1>11
  <2>2. G[Len(d) + 1] = reset[1]
    BY <1>10, <2>1
  <2>. QED BY <1>2, <2>1, <2>2
<1>. QED BY <1>12, <1>16, <1>17, <1>18, <1>19, <1>20, <1>21 DEF Shape, G, a, b, boot, sp1, sp2, reset, l1, l2

\* The schema of a line: that of the last marker before it.
LEMMA SchemaIs ==
  ASSUME NEW script, NEW i \in Nat, NEW k \in 1 .. i, script[k][1] \in {"search_path", "reset"},
         \A l \in 1 .. i : l > k => script[l][1] \notin {"search_path", "reset"}
  PROVE  SchemaAt(script, i) = IF script[k][1] = "reset" THEN "none" ELSE script[k][2]
<1> DEFINE set == {l \in 1 .. i : script[l][1] \in {"search_path", "reset"}}
<1>1. k \in set /\ \A l \in set : l <= k
  OBVIOUS
<1>2. set \subseteq Nat /\ set # {}
  BY <1>1
<1>3. SchemaAt(script, i)
        = IF set = {} THEN "none"
          ELSE LET k1 == CHOOSE k1 \in set : \A l \in set : l <= k1
               IN IF script[k1][1] = "reset" THEN "none" ELSE script[k1][2]
  BY DEF SchemaAt
<1> HIDE DEF set
<1>4. (CHOOSE k1 \in set : \A l \in set : l <= k1) = k
  <2> DEFINE k1 == CHOOSE x \in set : \A l \in set : l <= x
  <2>1. k1 \in set /\ \A l \in set : l <= k1
    BY <1>1, Zenon
  <2>2. k1 <= k /\ k <= k1 /\ k1 \in Nat /\ k \in Nat
    BY <1>1, <1>2, <2>1
  <2> HIDE DEF k1
  <2>3. k1 = k
    BY <2>2
  <2>. QED BY <2>3 DEF k1
<1>. QED BY <1>2, <1>3, <1>4

\* Which lines run in a service's schema.
LEMMA OwnLines ==
  ASSUME NEW G, NEW f1, NEW f2, Len(f1) \in Nat, Len(f2) \in Nat, Shape(G, f1, f2),
         \A i \in 1 .. Len(f1) : f1[i][1] = "sql", \A i \in 1 .. Len(f2) : f2[i][1] = "sql"
  PROVE  /\ {i \in DOMAIN G : G[i][1] = "sql" /\ SchemaAt(G, i) = SERVICES[1]}
              = {2 + i : i \in 1 .. Len(f1)}
         /\ {i \in DOMAIN G : G[i][1] = "sql" /\ SchemaAt(G, i) = SERVICES[2]}
              = {(3 + Len(f1)) + i : i \in 1 .. Len(f2)}
<1> DEFINE l1 == Len(f1)
           l2 == Len(f2)
           Mark == {"search_path", "reset"}
<1>1. /\ l1 \in Nat /\ l2 \in Nat
      /\ DOMAIN G = 1 .. l1 + l2 + 4
      /\ G[1][1] = "bootstrap" /\ G[2][1] = "search_path" /\ G[2][2] = SERVICES[1]
      /\ G[3 + l1][1] = "search_path" /\ G[3 + l1][2] = SERVICES[2]
      /\ G[l1 + l2 + 4][1] = "reset"
  BY DEF Shape
<1>2. SERVICES[1] # SERVICES[2]
  BY DEF SERVICES
<1>3. /\ \A i \in 1 .. l1 : G[2 + i][1] = "sql"
      /\ \A i \in 1 .. l2 : G[(3 + l1) + i][1] = "sql"
  BY DEF Shape
<1> HIDE DEF l1, l2
<1>4. ASSUME NEW i \in DOMAIN G
      PROVE  \/ i = 1 \/ i = 2 \/ \E c \in 1 .. l1 : i = 2 + c
             \/ i = 3 + l1 \/ \E c \in 1 .. l2 : i = (3 + l1) + c
             \/ i = l1 + l2 + 4
  <2>1. i \in 1 .. l1 + l2 + 4
    BY <1>1
  <2>2. CASE i > 2 /\ i < 3 + l1
    <3>1. i - 2 \in 1 .. l1 /\ i = 2 + (i - 2)
      BY <1>1, <2>1, <2>2
    <3>. QED BY <3>1
  <2>3. CASE i > 3 + l1 /\ i < l1 + l2 + 4
    <3>1. i - (3 + l1) \in 1 .. l2 /\ i = (3 + l1) + (i - (3 + l1))
      BY <1>1, <2>1, <2>3
    <3>. QED BY <3>1
  <2>. QED BY <1>1, <2>1, <2>2, <2>3
<1>5. ASSUME NEW c \in 1 .. l1
      PROVE  /\ 2 + c \in DOMAIN G /\ G[2 + c][1] = "sql" /\ SchemaAt(G, 2 + c) = SERVICES[1]
  <2>1. 2 + c \in DOMAIN G /\ 2 + c \in Nat /\ 2 \in 1 .. 2 + c
    BY <1>1
  <2>2. ASSUME NEW l \in 1 .. 2 + c, l > 2
        PROVE  G[l][1] \notin Mark
    <3>1. l - 2 \in 1 .. l1 /\ l = 2 + (l - 2)
      BY <1>1, <2>2
    <3>2. G[l][1] = "sql"
      BY <1>3, <3>1
    <3>. QED BY <3>2
  <2>3. SchemaAt(G, 2 + c) = IF G[2][1] = "reset" THEN "none" ELSE G[2][2]
    <3>1. G[2][1] \in Mark
      BY <1>1
    <3>. QED BY <2>1, <2>2, <3>1, SchemaIs
  <2>. QED BY <1>1, <1>3, <2>1, <2>3
<1>6. ASSUME NEW c \in 1 .. l2
      PROVE  /\ (3 + l1) + c \in DOMAIN G /\ G[(3 + l1) + c][1] = "sql"
             /\ SchemaAt(G, (3 + l1) + c) = SERVICES[2]
  <2>1. (3 + l1) + c \in DOMAIN G /\ (3 + l1) + c \in Nat /\ 3 + l1 \in 1 .. (3 + l1) + c
    BY <1>1
  <2>2. ASSUME NEW l \in 1 .. (3 + l1) + c, l > 3 + l1
        PROVE  G[l][1] \notin Mark
    <3>1. l - (3 + l1) \in 1 .. l2 /\ l = (3 + l1) + (l - (3 + l1))
      BY <1>1, <2>2
    <3>2. G[l][1] = "sql"
      BY <1>3, <3>1
    <3>. QED BY <3>2
  <2>3. SchemaAt(G, (3 + l1) + c) = IF G[3 + l1][1] = "reset" THEN "none" ELSE G[3 + l1][2]
    <3>1. G[3 + l1][1] \in Mark
      BY <1>1
    <3>. QED BY <2>1, <2>2, <3>1, SchemaIs
  <2>. QED BY <1>1, <1>3, <2>1, <2>3
<1>7. ASSUME NEW i \in DOMAIN G, G[i][1] = "sql"
      PROVE  \/ \E c \in 1 .. l1 : i = 2 + c
             \/ \E c \in 1 .. l2 : i = (3 + l1) + c
  BY <1>1, <1>4, <1>7
<1>8. {i \in DOMAIN G : G[i][1] = "sql" /\ SchemaAt(G, i) = SERVICES[1]} = {2 + i : i \in 1 .. l1}
  BY <1>2, <1>5, <1>6, <1>7, Zenon
<1>9. {i \in DOMAIN G : G[i][1] = "sql" /\ SchemaAt(G, i) = SERVICES[2]}
        = {(3 + l1) + i : i \in 1 .. l2}
  BY <1>2, <1>5, <1>6, <1>7, Zenon
<1>. QED BY <1>8, <1>9 DEF l1, l2

\* What is generated from the services' migrations executes them.
LEMMA GeneratedExecutes ==
  ASSUME NEW dirs, NEW k \in DOMAIN SERVICES, Generate(dirs) # Failure,
         \A l \in DOMAIN SERVICES :
           dirs[SERVICES[l]] \subseteq Migration /\ IsFiniteSet(dirs[SERVICES[l]])
  PROVE  Executes(SERVICES[k], dirs[SERVICES[k]], Generate(dirs))
<1> DEFINE B == [i \in DOMAIN SERVICES |-> ServiceBlock(SERVICES[i], dirs[SERVICES[i]])]
           Text(i) == FlattenSeq(Blocks(dirs[SERVICES[i]]))
           Sql == {<<"sql", x>> : x \in STRING}
<1>1. DOMAIN SERVICES = {1, 2}
  BY DEF SERVICES
<1>2. /\ \A i \in {1, 2} : B[i] # Failure
      /\ Generate(dirs) = <<<<"bootstrap">>>> \o FlattenSeq(B) \o <<<<"reset">>>>
  <2>1. Generate(dirs) = IF \E i \in DOMAIN B : B[i] = Failure
                         THEN Failure
                         ELSE <<<<"bootstrap">>>> \o FlattenSeq(B) \o <<<<"reset">>>>
    BY DEF Generate
  <2>2. DOMAIN B = {1, 2}
    BY <1>1
  <2> HIDE DEF B
  <2>. QED BY <2>1, <2>2
<1>3. \A i \in {1, 2} : B[i] = ServiceBlock(SERVICES[i], dirs[SERVICES[i]])
  BY <1>1
<1>4. Len(B) = 2
  <2>1. DOMAIN B = 1 .. 2 /\ B = [i \in DOMAIN B |-> B[i]]
    BY <1>1
  <2> HIDE DEF B
  <2> DEFINE R == {B[i] : i \in 1 .. 2}
  <2>2. B \in [1 .. 2 -> R]
    BY <2>1
  <2> HIDE DEF R
  <2>3. Len(B) = 2
    BY <2>2
  <2>. QED BY <2>3
<1> HIDE DEF B
<1>5. ASSUME NEW i \in {1, 2}
      PROVE  /\ Text(i) \in Seq(Sql) /\ B[i] = <<<<"search_path", SERVICES[i]>>>> \o Text(i)
             /\ ServiceBlock(SERVICES[i], dirs[SERVICES[i]]) # Failure
  <2>1. /\ dirs[SERVICES[i]] \in SUBSET Migration /\ IsFiniteSet(dirs[SERVICES[i]])
        /\ ServiceBlock(SERVICES[i], dirs[SERVICES[i]]) # Failure
    BY <1>1, <1>2, <1>3
  <2>. QED BY <1>3, <2>1, BlockLaid
<1>6. ASSUME NEW i \in {1, 2}
      PROVE  /\ Text(i) \in Seq(Line) /\ Len(Text(i)) \in Nat
             /\ \A c \in 1 .. Len(Text(i)) : Text(i)[c][1] = "sql"
  <2> DEFINE f == Text(i)
  <2>1. f \in Seq(Sql)
    BY <1>5
  <2> HIDE DEF f
  <2>2. Len(f) \in Nat /\ \A c \in 1 .. Len(f) : f[c] \in Sql
    <3> HIDE DEF Sql
    <3>. QED BY <2>1
  <2>3. Sql \subseteq Line
    BY DEF Line
  <2>4. f \in Seq(Line)
    <3> HIDE DEF Sql
    <3>. QED BY <2>1, <2>3, SeqMonotonic
  <2>. QED BY <2>2, <2>4 DEF f
<1> DEFINE G == Generate(dirs)
<1> HIDE DEF Text
<1>7. Shape(G, Text(1), Text(2))
  <2>1. FlattenSeq(B) = (<<<<"search_path", SERVICES[1]>>>> \o Text(1))
                          \o (<<<<"search_path", SERVICES[2]>>>> \o Text(2))
    BY <1>4, <1>5, FlattenTwo
  <2>. QED BY <1>2, <1>6, <2>1, ScriptShape
<1>8. /\ {i \in DOMAIN G : G[i][1] = "sql" /\ SchemaAt(G, i) = SERVICES[1]}
           = {2 + i : i \in 1 .. Len(Text(1))}
      /\ {i \in DOMAIN G : G[i][1] = "sql" /\ SchemaAt(G, i) = SERVICES[2]}
           = {(3 + Len(Text(1))) + i : i \in 1 .. Len(Text(2))}
  BY <1>6, <1>7, OwnLines
<1> HIDE DEF G
<1>9. /\ \A i \in 1 .. Len(Text(1)) : G[2 + i] = Text(1)[i]
      /\ \A i \in 1 .. Len(Text(2)) : G[(3 + Len(Text(1))) + i] = Text(2)[i]
  BY <1>7 DEF Shape
<1>10. ASSUME NEW i \in {1, 2}, NEW base \in Nat,
              {j \in DOMAIN G : G[j][1] = "sql" /\ SchemaAt(G, j) = SERVICES[i]}
                = {base + j : j \in 1 .. Len(Text(i))},
              \A j \in 1 .. Len(Text(i)) : G[base + j] = Text(i)[j]
       PROVE  Executes(SERVICES[i], dirs[SERVICES[i]], G)
  <2>1. /\ dirs[SERVICES[i]] \in SUBSET Migration /\ IsFiniteSet(dirs[SERVICES[i]])
        /\ ServiceBlock(SERVICES[i], dirs[SERVICES[i]]) # Failure
    BY <1>1, <1>5
  <2>. QED BY <1>10, <2>1, BlockExecutes DEF Text
<1>11. 2 \in Nat /\ 3 + Len(Text(1)) \in Nat
  BY <1>6
<1>12. Executes(SERVICES[1], dirs[SERVICES[1]], G)
  BY <1>8, <1>9, <1>10, <1>11
<1>13. Executes(SERVICES[2], dirs[SERVICES[2]], G)
  BY <1>8, <1>9, <1>10, <1>11
<1>. QED BY <1>1, <1>12, <1>13 DEF G

\* What the integration job checks out is one of the services' states.
CheckoutInv ==
  /\ change \in Changes
  /\ {siblings, checkout} \subseteq SiblingDirs \cup {c.dirs : c \in Changes}

\* A step keeps it.
LEMMA CheckoutStep ==
  ASSUME CheckoutInv, [Next]_vars PROVE CheckoutInv'
<1>1. CASE SiblingMerges
  BY <1>1 DEF CheckoutInv, SiblingMerges
<1>2. ASSUME NEW j \in JobNames, StartJob(j)
      PROVE  CheckoutInv'
  BY <1>2 DEF CheckoutInv, StartJob
<1>3. CASE UNCHANGED <<change, siblings, checkout>>
  BY <1>3 DEF CheckoutInv
<1>. QED
  BY <1>1, <1>2, <1>3
  DEF Next, JobStep, SkipStep, StepPasses, StepFails, EndJob, CutJob, Merge, OperatorRuns, vars, runVars

\* What the drift check compared executes the migrations.
LEMMA ScriptRuns ==
  ASSUME CheckoutInv, ScriptIsGenerated PROVE ScriptExecutesMigrations
<1> SUFFICES ASSUME change.script = Generate(checkout), change.script # Failure,
                    NEW k \in DOMAIN SERVICES
             PROVE  Executes(SERVICES[k], checkout[SERVICES[k]], change.script)
  BY DEF ScriptExecutesMigrations, ScriptIsGenerated
<1>1. \A l \in DOMAIN SERVICES :
        checkout[SERVICES[l]] \subseteq Migration /\ IsFiniteSet(checkout[SERVICES[l]])
  BY ConstantsAssumption DEF CheckoutInv
<1>. QED BY <1>1, GeneratedExecutes

\* ScriptExecutesMigrations, for every set of pull requests and every way the
\* services' migrations move meanwhile: in each service's schema the merged
\* script runs every call of every migration's up(), once and in the order of
\* the timestamps, and nothing else.
THEOREM MigrationsAreExecuted == Spec => []ScriptExecutesMigrations
<1>1. Init => CheckoutInv
  BY DEF Init, CheckoutInv
<1>2. CheckoutInv /\ [Next]_vars => CheckoutInv'
  BY CheckoutStep
<1>. QED BY <1>1, <1>2, ScriptIsTheGenerated, ScriptRuns, PTL DEF Spec
=============================================================================
