------------------------------ MODULE MergeGate ------------------------------
(***************************************************************************)
(* What can reach main.  A pull request changes the workflow, the scripts  *)
(* or the generated database script; GitHub runs its workflow              *)
(* (.github/workflows/ci.yml), whose topology job judges that workflow     *)
(* (scripts/check-ci-governance.mjs) and those scripts                     *)
(* (scripts/check-kubernetes.mjs) and whose integration job compares the   *)
(* database script; the required checks (ci/required-checks.json) decide   *)
(* about the merge; and an operator then runs what was merged on a         *)
(* machine whose current kube context is another cluster.                  *)
(*                                                                         *)
(* A step is [name, run, text, cond, cont, shell, hidden]: `run` is the    *)
(* command its text mentions, `text` says whether that is all of it,       *)
(* `cond` is its condition, `cont` and `shell` whether it sets             *)
(* continue-on-error and shell, and `hidden` whether it writes its keys in *)
(* quotes, where the guard's line patterns do not see them.  A job is the  *)
(* same with its `needs` and its steps.                                    *)
(***************************************************************************)
EXTENDS KubeGuard, DbScript

CONSTANTS
  Main,           \* the workflow on main
  Changes,        \* the pull requests: [workflow, calls, dirs, script]
  SiblingDirs,    \* what the services' migrations may become meanwhile
  MaxMishaps      \* bound: failures the change is not to blame for

JobNames == {"topology", "docs-links", "integration", "kubernetes", "extra"}
\* ci/required-checks.json, for this repository.
Required == {"topology", "docs-links", "integration"}
Conditions == {"", "failure()", "always()", "false"}

Step == [name : STRING, run : STRING, text : {"alone", "wrapped"}, cond : Conditions,
         cont : BOOLEAN, shell : BOOLEAN, hidden : BOOLEAN]
Job == [cond : Conditions, cont : BOOLEAN, shell : BOOLEAN, hidden : BOOLEAN,
        needs : SUBSET JobNames, steps : Seq(Step)]

ASSUME ConstantsAssumption ==
  /\ MaxMishaps \in Nat
  /\ \A c \in Changes :
       /\ DOMAIN c.workflow.jobs \subseteq JobNames
       /\ \A j \in DOMAIN c.workflow.jobs : c.workflow.jobs[j] \in Job
       /\ c.calls \subseteq ScriptCall
  /\ \A dirs \in SiblingDirs \cup {c.dirs : c \in Changes} : \A k \in DOMAIN SERVICES :
       dirs[SERVICES[k]] \subseteq Migration /\ IsFiniteSet(dirs[SERVICES[k]])

STACK_COMMANDS ==
  <<"compose-up", "storage-scenarios", "db-check", "smoke", "identity", "recreate",
    "smoke", "identity", "load", "observability-live">>
STACK_SET == {STACK_COMMANDS[i] : i \in 1 .. Len(STACK_COMMANDS)}
TOPOLOGY_COMMANDS ==
  {"observability", "observability-self-test", "load-self-test", "kube-self-test",
   "check-kubernetes", "check-kubernetes-self-test", "k8s-up-self-test",
   "k8s-down-self-test", "kustomize-render", "kubeconform"}
KUBERNETES_COMMANDS == {"k8s-up", "k8s-smoke", "k8s-live"}
DOCS_LINKS == "check-docs-links"

-----------------------------------------------------------------------------
(* scripts/check-ci-governance.mjs: what it reads, and what it accepts.    *)

\* What the line patterns see of a job or of a step: nothing of the keys that
\* are written in quotes.
Seen(x) == IF x.hidden THEN [x EXCEPT !.cond = "", !.cont = FALSE, !.shell = FALSE] ELSE x

Has(w, j) == j \in DOMAIN w.jobs
parseSteps(job) == [i \in DOMAIN job.steps |-> Seen(job.steps[i])]

\* Mutant: continue-on-error is looked for among the job's own keys only.
NothingSwallowedByJob(w, j) ==
  LET job == Seen(w.jobs[j])
  IN job.cond = "" /\ ~job.cont /\ ~job.shell
     /\ \A i \in DOMAIN job.steps : ~parseSteps(job)[i].shell

\* The job is never conditioned and keeps the default shell, and nothing in
\* it may let a failed command pass.
NothingSwallowed(w, j) ==
  LET job == Seen(w.jobs[j])
  IN job.cond = "" /\ ~job.cont /\ ~job.shell
     /\ \A i \in DOMAIN job.steps : ~parseSteps(job)[i].cont /\ ~parseSteps(job)[i].shell

CONDITIONED_STEPS ==
  {<<"collect-logs", "failure()">>, <<"upload-logs", "failure()">>, <<"tear-down", "always()">>}
KUBERNETES_CONDITIONED_STEPS ==
  {<<"collect-state", "failure()">>, <<"upload-state", "failure()">>, <<"delete-cluster", "always()">>}

\* Only the listed steps carry a condition, each its own, and none of them
\* mentions a command that must run.
OnlyConditioned(steps, listed, commands) ==
  \A i \in DOMAIN steps : steps[i].cond # "" =>
    <<steps[i].name, steps[i].cond>> \in listed /\ steps[i].run \notin commands

RunsAlone(steps, command) == \E i \in DOMAIN steps : steps[i].run = command /\ steps[i].text = "alone"

\* The steps that are a stack command and nothing else, and whether some of
\* the steps are exactly these commands, in their order.
StackAt(steps) == {i \in DOMAIN steps : steps[i].run \in STACK_SET /\ steps[i].text = "alone"}
Rank(some, i) == Cardinality({k \in some : k <= i})
InOrder(steps, some, commands) ==
  /\ Cardinality(some) = Len(commands)
  /\ \A i \in some : steps[i].run = commands[Rank(some, i)]

\* Mutant: the order of the stack commands is not compared.
StackCompleteUnordered(steps) == \A command \in STACK_SET : RunsAlone(steps, command)

\* Every stack command stands alone in its step, in the expected order.
StackComplete(steps) ==
  /\ \A i \in DOMAIN steps : steps[i].run \in STACK_SET => steps[i].text = "alone"
  /\ InOrder(steps, StackAt(steps), STACK_COMMANDS)

IntegrationSound(w) ==
  /\ Has(w, "integration")
  /\ NothingSwallowed(w, "integration") /\ ~w.shell /\ ~w.token
  /\ LET steps == parseSteps(w.jobs["integration"])
     IN OnlyConditioned(steps, CONDITIONED_STEPS, STACK_SET) /\ StackComplete(steps)

docsLinksSound(w) ==
  /\ Has(w, "docs-links")
  /\ NothingSwallowed(w, "docs-links")
  /\ LET steps == parseSteps(w.jobs["docs-links"])
     IN OnlyConditioned(steps, {}, {}) /\ RunsAlone(steps, DOCS_LINKS)

topologySound(w) ==
  /\ Has(w, "topology")
  /\ NothingSwallowed(w, "topology")
  /\ LET steps == parseSteps(w.jobs["topology"])
     IN OnlyConditioned(steps, {}, {}) /\ \A command \in TOPOLOGY_COMMANDS : RunsAlone(steps, command)

kubernetesSound(w) ==
  /\ Has(w, "kubernetes")
  /\ NothingSwallowed(w, "kubernetes") /\ w.jobs["kubernetes"].needs = {"topology"}
  /\ LET steps == parseSteps(w.jobs["kubernetes"])
     IN /\ OnlyConditioned(steps, KUBERNETES_CONDITIONED_STEPS, KUBERNETES_COMMANDS)
        /\ \A command \in KUBERNETES_COMMANDS : RunsAlone(steps, command)

\* workflowProblems finds nothing.
Accepted(w) == IntegrationSound(w) /\ docsLinksSound(w) /\ topologySound(w) /\ kubernetesSound(w)

\* What is on main is accepted, and only its integration job, which checks the
\* services out, compares the database script.
ASSUME MainAssumption ==
  /\ Accepted(Main)
  /\ \A j \in DOMAIN Main.jobs \ {"integration"} :
       \A i \in DOMAIN Main.jobs[j].steps : Main.jobs[j].steps[i].run # "db-check"

-----------------------------------------------------------------------------
(* The run of a change's workflow.                                         *)

VARIABLES
  change,    \* the pull request
  siblings,  \* the services' migrations on their main branches
  checkout,  \* what the integration job checked out of them
  state,     \* each job: "waiting", "running", "success", "failure", "skipped"
  at,        \* the step it is at
  red,       \* whether a step of it has failed
  passed,    \* history: its steps whose command ran and succeeded
  mishaps,   \* history: failures the change is not to blame for
  merged,    \* whether the change is on main
  context,   \* the current kube context of the operator's machine
  reached    \* the clusters a script run by the operator has acted on

runVars == <<state, at, red, passed>>
vars == <<change, siblings, checkout, runVars, mishaps, merged, context, reached>>

workflow == change.workflow
calls == change.calls
Concluded == {"success", "failure", "skipped"}
StepsOf(j) == workflow.jobs[j].steps

TypeOK ==
  /\ state \in [JobNames -> {"waiting", "running"} \cup Concluded]
  /\ at \in [JobNames -> Nat \ {0}]
  /\ red \in [JobNames -> BOOLEAN]
  /\ passed \in [JobNames -> SUBSET Nat] /\ \A j \in JobNames : passed[j] \subseteq 1 .. (at[j] - 1)
  /\ mishaps \in 0 .. MaxMishaps /\ merged \in BOOLEAN

Init ==
  /\ change \in Changes
  /\ siblings = change.dirs /\ checkout = siblings
  /\ state = [j \in JobNames |-> "waiting"]
  /\ at = [j \in JobNames |-> 1]
  /\ red = [j \in JobNames |-> FALSE]
  /\ passed = [j \in JobNames |-> {}]
  /\ mishaps = 0 /\ merged = FALSE
  /\ context = "another" /\ reached = {}

\* A job starts when those it needs are concluded.  Without a condition of its
\* own it is skipped unless all of them succeeded; a workflow that names a job it
\* has not is not run.
Startable(j) ==
  /\ state[j] = "waiting" /\ Has(workflow, j)
  /\ \A k \in DOMAIN workflow.jobs : workflow.jobs[k].needs \subseteq DOMAIN workflow.jobs
  /\ \A k \in workflow.jobs[j].needs : state[k] \in Concluded

Admitted(j) ==
  LET job == workflow.jobs[j]
      good == \A k \in job.needs : state[k] = "success"
  IN CASE job.cond = "" -> good
       [] job.cond = "always()" -> TRUE
       [] job.cond = "failure()" -> ~good
       [] OTHER -> FALSE

StartJob(j) ==
  /\ Startable(j)
  /\ state' = [state EXCEPT ![j] = IF Admitted(j) THEN "running" ELSE "skipped"]
  /\ checkout' = IF j = "integration" THEN siblings ELSE checkout
  /\ UNCHANGED <<change, siblings, at, red, passed, mishaps, merged, context, reached>>

\* A step without a condition runs while no step has failed.
Runs(step, failed) ==
  CASE step.cond = "" -> ~failed
    [] step.cond = "always()" -> TRUE
    [] step.cond = "failure()" -> failed
    [] OTHER -> FALSE

\* The shell stops at the first error, and the text is the command alone.
Faithful(step) == step.text = "alone" /\ ~step.shell /\ ~workflow.shell

\* What the commands that judge the change itself say of it.
Judges(command) ==
  /\ command = "ci-governance" => Accepted(workflow)
  /\ command = "check-kubernetes" => RawKubectlProblems(calls) \cup RawKindProblems(calls) = {}
  /\ command = "db-check" => ~DriftProblem(change.script, checkout)

Move(j) == state[j] = "running" /\ at[j] <= Len(StepsOf(j)) /\ at' = [at EXCEPT ![j] = @ + 1]
StepAt(j) == StepsOf(j)[at[j]]
Mishap == mishaps < MaxMishaps /\ mishaps' = mishaps + 1

SkipStep(j) ==
  /\ Move(j) /\ ~Runs(StepAt(j), red[j])
  /\ UNCHANGED <<change, siblings, checkout, state, red, passed, mishaps, merged, context, reached>>

StepPasses(j) ==
  /\ Move(j) /\ Runs(StepAt(j), red[j]) /\ Judges(StepAt(j).run)
  /\ passed' = [passed EXCEPT ![j] = @ \cup {at[j]}]
  /\ UNCHANGED <<change, siblings, checkout, state, red, mishaps, merged, context, reached>>

\* A command fails because it judges the change wrong or for a reason of its
\* own.  The step fails with it unless its text or its shell swallows that.
StepFails(j) ==
  /\ Move(j) /\ Runs(StepAt(j), red[j])
  /\ \/ red' = [red EXCEPT ![j] = IF StepAt(j).cont THEN @ ELSE TRUE]
     \/ ~Faithful(StepAt(j)) /\ UNCHANGED red
  /\ IF Judges(StepAt(j).run) THEN Mishap ELSE UNCHANGED mishaps
  /\ UNCHANGED <<change, siblings, checkout, state, passed, merged, context, reached>>

EndJob(j) ==
  /\ state[j] = "running" /\ at[j] = Len(StepsOf(j)) + 1
  /\ state' = [state EXCEPT ![j] = IF red[j] /\ ~workflow.jobs[j].cont THEN "failure" ELSE "success"]
  /\ UNCHANGED <<change, siblings, checkout, at, red, passed, mishaps, merged, context, reached>>

\* timeout-minutes, or a newer push of the pull request cancels the run.
CutJob(j) ==
  /\ state[j] = "running"
  /\ state' = [state EXCEPT ![j] = "failure"] /\ Mishap
  /\ UNCHANGED <<change, siblings, checkout, at, red, passed, merged, context, reached>>

\* A service merges a migration of its own; once it is checked out, this run
\* no longer sees it.
SiblingMerges ==
  /\ state["integration"] = "waiting"
  /\ \E dirs \in SiblingDirs : dirs # siblings /\ siblings' = dirs
  /\ UNCHANGED <<change, checkout, runVars, mishaps, merged, context, reached>>

\* A required check that was skipped counts as one that passed.
Mergeable == \A j \in Required : Has(workflow, j) /\ state[j] \in {"success", "skipped"}

Merge ==
  /\ ~merged /\ Mergeable /\ merged' = TRUE
  /\ UNCHANGED <<change, siblings, checkout, runVars, mishaps, context, reached>>

\* The operator runs a script of main, one of whose calls is `c`.
OperatorRuns(c) ==
  /\ merged
  /\ reached' = reached \cup Reaches(c, context)
  /\ context' = IF MovesContext(c.tool, CommandLine(c)) THEN KUBE_CONTEXT ELSE context
  /\ UNCHANGED <<change, siblings, checkout, runVars, mishaps, merged>>

JobStep(j) == StartJob(j) \/ SkipStep(j) \/ StepPasses(j) \/ StepFails(j) \/ EndJob(j)

Next ==
  \/ \E j \in JobNames : JobStep(j) \/ CutJob(j)
  \/ SiblingMerges \/ Merge
  \/ \E c \in calls : OperatorRuns(c)

Spec == Init /\ [][Next]_vars

-----------------------------------------------------------------------------
(* Properties.                                                             *)

\* What the guard cannot see: keys in quotes, and a job that a required one
\* needs beside topology, which may be skipped.
InTheOpen(w) ==
  /\ \A j \in DOMAIN w.jobs :
       ~w.jobs[j].hidden /\ \A i \in DOMAIN w.jobs[j].steps : ~w.jobs[j].steps[i].hidden
  /\ \A j \in DOMAIN w.jobs : j \in {"topology", "docs-links"} => w.jobs[j].needs = {}
  /\ \A j \in DOMAIN w.jobs : j = "integration" => w.jobs[j].needs \subseteq {"topology"}

Proved(j, command) == \E i \in passed[j] : StepsOf(j)[i].run = command

\* "An empty list means the integration job always runs the stack"
\* (scripts/check-ci-governance.mjs): whatever a pull request did to the
\* workflow, if the guard accepts it and it merged, then every stack command
\* ran, in order, and succeeded, and so did the offline checks.
StackProved ==
  merged /\ Accepted(workflow) /\ InTheOpen(workflow) =>
    /\ InOrder(StepsOf("integration"),
               passed["integration"] \cap StackAt(StepsOf("integration")), STACK_COMMANDS)
    /\ \A command \in TOPOLOGY_COMMANDS : Proved("topology", command)
    /\ Proved("docs-links", DOCS_LINKS)

\* A kubernetes job that shows green brought a cluster up, ran the smoke on it
\* and checked it live (it is not a required check, so it may also be red).
KubernetesProved ==
  state["kubernetes"] = "success" /\ Accepted(workflow) /\ InTheOpen(workflow) =>
    \A command \in KUBERNETES_COMMANDS : Proved("kubernetes", command)

\* A script that reached main acts on the project's own cluster only and
\* leaves the machine's current context where it is, whatever arguments it
\* passes to kubectl() or kind() and in whichever way the scan looks for it
\* spells a call of its own.  (What it does not look for is left out: a tool
\* behind another word, a kind kept in a variable, and of a pinned command line
\* all but the context.)
OnlyOurCluster ==
  /\ merged /\ Accepted(workflow) /\ InTheOpen(workflow)
  /\ \A c \in calls : InScansSight(c) /\ PinnedStays(c)
  => reached \subseteq {KUBE_CONTEXT} /\ context = "another"

\* The database script on main runs what the services' migrations run, as
\* they were when the integration job checked them out.
ScriptExecutesMigrations ==
  merged /\ Accepted(workflow) /\ InTheOpen(workflow) =>
    \A k \in DOMAIN SERVICES :
      Executes(SERVICES[k], checkout[SERVICES[k]], change.script)

\* The guards do not stand in the way: a change that leaves the guarded jobs
\* as they are on main, calls kubectl and kind only through the helper (or names them
\* in a comment or a pinned command line) and commits the generated script can
\* be merged when its run is over and nothing failed for another reason.
SoundChangeMerges ==
  /\ mishaps = 0
  /\ \A j \in DOMAIN workflow.jobs : state[j] \in Concluded
  /\ \A j \in JobNames \ {"extra"} : Has(workflow, j) /\ workflow.jobs[j] = Main.jobs[j]
  /\ ~workflow.shell /\ ~workflow.token
  /\ \A c \in calls : c.spelled \in {"helper", "comment"} \/ (c.spelled = "pinned" /\ c.tool = "kubectl")
  /\ change.script = Generate(checkout) /\ change.script # Failure
  => Mergeable
=============================================================================
