-------------------------- MODULE StorageBootstrap --------------------------
(***************************************************************************)
(* storage/bootstrap.sh, run by the pods of Job storage-init               *)
(* (k8s/storage-init-job.yaml): makes the bucket, asserts that it has no   *)
(* policy and writes its three retention rules.  Every aws call is one     *)
(* step, so an operator may edit the bucket, a call may fail, and a pod of *)
(* a deleted Job may still run beside its successor, between any two.      *)
(*                                                                         *)
(* A rule is one of the script's own IDs or one foreign ID; it is "right"  *)
(* when the script's query counts it and "wrong" otherwise.                *)
(***************************************************************************)
EXTENDS Naturals, FiniteSets

CONSTANTS
  BackoffLimit,   \* the Job's backoffLimit: retries after the first pod
  Overlap,        \* whether a pod may start while an earlier one runs
  CallsFail,      \* whether storage calls may fail
  OperatorEdits   \* how many edits of the bucket an operator makes

ASSUME ConstantsAssumption ==
  /\ BackoffLimit \in Nat /\ OperatorEdits \in Nat
  /\ Overlap \in BOOLEAN /\ CallsFail \in BOOLEAN

Pods == 1 .. (BackoffLimit + 1)

Ours == {"expire-sources", "expire-zips", "abort-incomplete-uploads"}
Foreign == "foreign"
Ids == Ours \cup {Foreign}

Configurations == [Ids -> {"absent", "right", "wrong"}]
NoRules == [i \in Ids |-> "absent"]
desired == [i \in Ids |-> IF i \in Ours THEN "right" ELSE "absent"]

VARIABLES
  exists,    \* the bucket exists
  policy,    \* it has a bucket policy
  rules,     \* its lifecycle configuration; NoRules when it has none
  pc,        \* where each pod is
  total,     \* each pod's count of the rules, read once and kept
  status,    \* of the Job: "running", "complete", "failed"
  edits,     \* edits the operator has made
  touched,   \* history: the pods during whose run the operator edited
  misread,   \* history: the pods one of whose reads failed
  joined     \* history: the pods that ran beside another one

bucketVars == <<exists, policy, rules>>
historyVars == <<edits, touched, misread, joined>>
vars == <<bucketVars, pc, total, status, historyVars>>

Ended == {"waiting", "ok", "failed"}
Reads == {"policy", "total", "owned", "sources", "zips", "abort",
          "vTotal", "vSources", "vZips", "vAbort"}
Locations == Ended \cup Reads \cup {"head", "make", "put"}
Running == {p \in Pods : pc[p] \notin Ended}

TypeOK ==
  /\ exists \in BOOLEAN
  /\ policy \in BOOLEAN
  /\ rules \in Configurations
  /\ pc \in [Pods -> Locations]
  /\ total \in [Pods -> 0 .. 4]
  /\ status \in {"running", "complete", "failed"}
  /\ edits \in 0 .. OperatorEdits
  /\ touched \in SUBSET Pods
  /\ misread \in SUBSET Pods
  /\ joined \in SUBSET Pods

Init ==
  /\ exists \in BOOLEAN
  /\ policy \in BOOLEAN /\ (policy => exists)
  /\ rules \in Configurations /\ (rules # NoRules => exists)
  /\ rules[Foreign] # "wrong"
  /\ pc = [p \in Pods |-> "waiting"]
  /\ total = [p \in Pods |-> 0]
  /\ status = "running"
  /\ edits = 0 /\ touched = {} /\ misread = {} /\ joined = {}

Present == {i \in Ids : rules[i] # "absent"}

Goto(p, location) == pc' = [pc EXCEPT ![p] = location]

-----------------------------------------------------------------------------
(* The Job: one pod after the other, a retry after each failure.           *)

StartPod(p) ==
  /\ status = "running"
  /\ pc[p] = "waiting"
  /\ \A q \in 1 .. (p - 1) : pc[q] = "failed" \/ (Overlap /\ pc[q] # "waiting")
  /\ Goto(p, "head")
  /\ joined' = IF Running = {} THEN joined ELSE joined \cup Running \cup {p}
  /\ UNCHANGED <<bucketVars, total, status, edits, touched, misread>>

\* Mutant: failures are retried without a limit.
JobEndsNever ==
  /\ status = "running"
  /\ (\E p \in Pods : pc[p] = "ok") /\ status' = "complete"
  /\ UNCHANGED <<bucketVars, pc, total, historyVars>>

JobEnds ==
  /\ status = "running"
  /\ \/ (\E p \in Pods : pc[p] = "ok") /\ status' = "complete"
     \/ (\A p \in Pods : pc[p] = "failed") /\ status' = "failed"
  /\ UNCHANGED <<bucketVars, pc, total, historyVars>>

-----------------------------------------------------------------------------
(* The script, one action per aws call.                                    *)

\* `if aws ... head-bucket`: any failure is taken for "no bucket".
HeadBucket(p) ==
  /\ pc[p] = "head"
  /\ \/ exists /\ Goto(p, "policy")
     \/ (~exists \/ CallsFail) /\ Goto(p, "make")
  /\ UNCHANGED <<bucketVars, total, status, historyVars>>

\* create-bucket answers an existing bucket of the same owner with success or
\* with an error, depending on the server.
CreateBucket(p) ==
  /\ pc[p] = "make"
  /\ exists' = TRUE
  /\ \/ Goto(p, "policy")
     \/ exists /\ Goto(p, "failed")
  /\ UNCHANGED <<policy, rules, total, status, historyVars>>

\* Mutant: a policy is reported and the script goes on.
AssertNoPolicyWarns(p) ==
  /\ pc[p] = "policy"
  /\ Goto(p, IF exists THEN "total" ELSE "failed")
  /\ UNCHANGED <<bucketVars, total, status, historyVars>>

AssertNoPolicy(p) ==
  /\ pc[p] = "policy"
  /\ Goto(p, IF exists /\ ~policy THEN "total" ELSE "failed")
  /\ UNCHANGED <<bucketVars, total, status, historyVars>>

\* NoSuchLifecycleConfiguration counts as 0 rules.
ReadTotal(p) ==
  /\ pc[p] = "total"
  /\ total' = [total EXCEPT ![p] = Cardinality(Present)]
  /\ Goto(p, IF Present = {} THEN "put" ELSE "owned")
  /\ UNCHANGED <<bucketVars, status, historyVars>>

\* Mutant: the ownership of the rules is not compared.
ReadOwnedIgnored(p) ==
  /\ pc[p] = "owned"
  /\ Goto(p, IF total[p] = 3 THEN "sources" ELSE "put")
  /\ UNCHANGED <<bucketVars, total, status, historyVars>>

\* Mutant: what is configured is never compared with what is desired.
ReadOwnedAlwaysPut(p) ==
  /\ pc[p] = "owned"
  /\ Goto(p, IF Present # {} /\ Cardinality(Present \cap Ours) = total[p]
             THEN "put" ELSE "failed")
  /\ UNCHANGED <<bucketVars, total, status, historyVars>>

\* A second read: the rules with one of our IDs, against the first count.
ReadOwned(p) ==
  /\ pc[p] = "owned"
  /\ Goto(p, IF Present # {} /\ Cardinality(Present \cap Ours) = total[p]
             THEN IF total[p] = 3 THEN "sources" ELSE "put"
             ELSE "failed")
  /\ UNCHANGED <<bucketVars, total, status, historyVars>>

\* `correct` and `abort_correct`: one read per rule, in the order of the test.
CheckRule(p, id, here, right, wrong) ==
  /\ pc[p] = here
  /\ Goto(p, IF rules[id] = "right" THEN right ELSE wrong)
  /\ UNCHANGED <<bucketVars, total, status, historyVars>>

CheckConfigured(p) ==
  \/ CheckRule(p, "expire-sources", "sources", "zips", "put")
  \/ CheckRule(p, "expire-zips", "zips", "abort", "put")
  \/ CheckRule(p, "abort-incomplete-uploads", "abort", "vTotal", "put")

\* put-bucket-lifecycle-configuration replaces the whole configuration.
PutLifecycle(p) ==
  /\ pc[p] = "put"
  /\ exists
  /\ rules' = desired
  /\ Goto(p, "vTotal")
  /\ UNCHANGED <<exists, policy, total, status, historyVars>>

\* The configuration is read back: the count, then each rule.
VerifyTotal(p) ==
  /\ pc[p] = "vTotal"
  /\ Goto(p, IF Cardinality(Present) = 3 THEN "vSources" ELSE "failed")
  /\ UNCHANGED <<bucketVars, total, status, historyVars>>

VerifyRules(p) ==
  \/ CheckRule(p, "expire-sources", "vSources", "vZips", "failed")
  \/ CheckRule(p, "expire-zips", "vZips", "vAbort", "failed")
  \/ CheckRule(p, "abort-incomplete-uploads", "vAbort", "ok", "failed")

\* A failing aws call.  Inside `[[ ... ]]` its empty answer is "not correct",
\* so the script goes on to the put; anywhere else `set -e` or an exit ends it.
CallFails(p) ==
  /\ CallsFail
  /\ pc[p] \in Reads \cup {"make", "put"}
  /\ Goto(p, IF pc[p] \in {"sources", "zips", "abort"} THEN "put" ELSE "failed")
  /\ misread' = IF pc[p] \in Reads THEN misread \cup {p} ELSE misread
  /\ UNCHANGED <<bucketVars, total, status, edits, touched, joined>>

ScriptStep(p) ==
  \/ HeadBucket(p) \/ CreateBucket(p) \/ AssertNoPolicy(p)
  \/ ReadTotal(p) \/ ReadOwned(p) \/ CheckConfigured(p)
  \/ PutLifecycle(p) \/ VerifyTotal(p) \/ VerifyRules(p)

-----------------------------------------------------------------------------
(* An operator opens the bucket, or sets or removes one rule.              *)

OperatorEdit ==
  /\ exists
  /\ edits < OperatorEdits
  /\ edits' = edits + 1
  /\ touched' = touched \cup Running
  /\ \/ policy' = ~policy /\ UNCHANGED rules
     \/ /\ \E i \in Ids, state \in {"absent", "right", "wrong"} :
             (i = Foreign => state # "wrong") /\ rules' = [rules EXCEPT ![i] = state]
        /\ UNCHANGED policy
  /\ UNCHANGED <<exists, pc, total, status, misread, joined>>

Next ==
  \/ \E p \in Pods : StartPod(p) \/ ScriptStep(p) \/ CallFails(p)
  \/ JobEnds
  \/ OperatorEdit

Spec == Init /\ [][Next]_vars

\* The Job controller keeps starting pods, and every aws call returns.
Fairness == WF_vars(JobEnds) /\ \A p \in Pods : WF_vars(StartPod(p) \/ ScriptStep(p))
FairSpec == Spec /\ Fairness

-----------------------------------------------------------------------------
(* Properties.                                                             *)

\* A pod that succeeds leaves a private bucket with exactly the three rules,
\* whatever it found there, unless an operator edited the bucket meanwhile:
\* the count and the rules are separate reads of a bucket others also write.
SuccessMeansRetention ==
  [][\A p \in Pods \ touched : pc[p] # "ok" /\ pc'[p] = "ok" =>
       exists' /\ ~policy' /\ rules' = desired]_vars

\* A put never deletes a rule that was in the bucket when the pod began.
ForeignRulesSurvive ==
  [][\A p \in Pods \ touched : PutLifecycle(p) => rules[Foreign] = "absent"]_vars

\* A put never rewrites a configuration that was already right when the pod
\* began and every read of which was answered ("already configured"), unless a
\* pod beside it wrote that configuration.
RerunWritesNothing ==
  [][\A p \in Pods \ (touched \cup misread \cup joined) :
       PutLifecycle(p) => rules # desired]_vars

\* The Job always settles: the retries are bounded and the script is finite.
JobSettles == <>(status # "running")

\* "it is written only when every rule in the bucket is one of ours"
\* (storage/bootstrap.sh:35-36), of the bucket the put replaces.
WrittenOnlyWhenOurs ==
  [][\A p \in Pods : PutLifecycle(p) => Present \subseteq Ours]_vars

\* "any other error must stop the bootstrap rather than be taken as an empty
\* configuration and overwritten" (storage/bootstrap.sh:61-63).
ReadErrorStops == [][\A p \in misread : ~PutLifecycle(p)]_vars
=============================================================================
