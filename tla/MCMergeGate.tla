----------------------------- MODULE MCMergeGate -----------------------------
(* The committed workflow and scripts, and the pull requests against them.  *)
EXTENDS MergeGate

Plain(n, r) == [name |-> n, run |-> r, text |-> "alone", cond |-> "", cont |-> FALSE,
                shell |-> FALSE, hidden |-> FALSE]
Conditioned(n, c) == [Plain(n, "none") EXCEPT !.cond = c]
Commands(s) == [i \in DOMAIN s |-> Plain("step", s[i])]
PlainJob(needed, steps) == [cond |-> "", cont |-> FALSE, shell |-> FALSE, hidden |-> FALSE,
                            needs |-> needed, steps |-> steps]

\* .github/workflows/ci.yml; topology's steps that no rule names are one.
Committed ==
  [shell |-> FALSE, token |-> FALSE,
   jobs |-> [j \in JobNames \ {"extra"} |->
     CASE j = "topology" ->
            PlainJob({}, Commands(<<"worker-sizing", "ci-governance", "observability",
              "observability-self-test", "load-self-test", "kube-self-test", "check-kubernetes",
              "check-kubernetes-self-test", "k8s-up-self-test", "k8s-down-self-test",
              "kustomize-render", "kubeconform">>))
       [] j = "integration" ->
            PlainJob({"topology"}, Commands(STACK_COMMANDS) \o
              <<Conditioned("collect-logs", "failure()"), Conditioned("upload-logs", "failure()"),
                Conditioned("tear-down", "always()")>>)
       [] j = "kubernetes" ->
            PlainJob({"topology"}, Commands(<<"k8s-up", "k8s-smoke", "k8s-live">>) \o
              <<Conditioned("collect-state", "failure()"), Conditioned("upload-state", "failure()"),
                Conditioned("delete-cluster", "always()")>>)
       [] OTHER -> PlainJob({}, Commands(<<"checkout", DOCS_LINKS>>))]]

\* One edit of one step.
StepEdits == {"wrap", "condition", "on-failure", "continue", "shell", "hide"}
EditedStep(kind, s) ==
  CASE kind = "wrap" -> [s EXCEPT !.text = "wrapped"]
    [] kind = "condition" -> [s EXCEPT !.cond = "false"]
    [] kind = "on-failure" -> [s EXCEPT !.cond = "failure()"]
    [] kind = "continue" -> [s EXCEPT !.cont = TRUE]
    [] kind = "shell" -> [s EXCEPT !.shell = TRUE]
    [] kind = "hide" -> [s EXCEPT !.cond = "false", !.hidden = TRUE]

\* One edit of the steps of a job, at position i.
JobEdits == {"drop", "swap", "double"}
EditedSteps(kind, s, i) ==
  CASE kind = "drop" -> SubSeq(s, 1, i - 1) \o SubSeq(s, i + 1, Len(s))
    [] kind = "swap" -> IF i = Len(s) THEN s ELSE [s EXCEPT ![i] = s[i + 1], ![i + 1] = s[i]]
    [] kind = "double" -> SubSeq(s, 1, i) \o SubSeq(s, i, Len(s))

Steps(j) == Committed.jobs[j].steps
WithSteps(j, s) == [Committed EXCEPT !.jobs[j].steps = s]
Extra(cond, needed) ==
  [PlainJob(needed, Commands(<<"smoke">>)) EXCEPT !.cond = cond]
WithExtra(w, cond, needed) ==
  [w EXCEPT !.jobs = [j \in JobNames |-> IF j = "extra" THEN Extra(cond, needed) ELSE w.jobs[j]]]
Without(j) == [Committed EXCEPT !.jobs = [k \in (JobNames \ {j, "extra"}) |-> Committed.jobs[k]]]

\* The steps that are edited: of those the rules treat alike, a few.
Edited == [j \in DOMAIN Committed.jobs |->
  CASE j = "topology" -> {1, 2, 7, 12}        \* an unnamed step, the guard, two of the rules'
    [] j = "integration" -> {1, 4, 10, 13}     \* first, a repeated one, last, a conditioned one
    [] j = "kubernetes" -> {1, 4}
    [] OTHER -> {2}]
OfStep == UNION {{<<kind, j, i>> : kind \in StepEdits \cup JobEdits, i \in Edited[j]} :
                   j \in DOMAIN Committed.jobs}
OfJob == {"job-condition", "job-always", "job-continue", "job-shell", "job-gone", "needs-none", "needs-extra"}
           \X (DOMAIN Committed.jobs) \X {0}
OfWorkflow == {<<kind, "none", 0>> : kind \in {"as-is", "default-shell", "token", "extra-job"}}

EditedWorkflow(e) ==
  LET kind == e[1]  j == e[2]  i == e[3]
  IN CASE kind \in StepEdits -> WithSteps(j, [Steps(j) EXCEPT ![i] = EditedStep(kind, @)])
       [] kind \in JobEdits -> WithSteps(j, EditedSteps(kind, Steps(j), i))
       [] kind = "job-condition" -> [Committed EXCEPT !.jobs[j].cond = "false"]
       [] kind = "job-always" -> [Committed EXCEPT !.jobs[j].cond = "always()"]
       [] kind = "job-continue" -> [Committed EXCEPT !.jobs[j].cont = TRUE]
       [] kind = "job-shell" -> [Committed EXCEPT !.jobs[j].shell = TRUE]
       [] kind = "job-gone" -> Without(j)
       [] kind = "needs-none" -> [Committed EXCEPT !.jobs[j].needs = {}]
       [] kind = "needs-extra" -> [WithExtra(Committed, "false", {}) EXCEPT !.jobs[j].needs = @ \cup {"extra"}]
       [] kind = "default-shell" -> [Committed EXCEPT !.shell = TRUE]
       [] kind = "token" -> [Committed EXCEPT !.token = TRUE]
       [] kind = "extra-job" -> WithExtra(Committed, "failure()", {"topology", "docs-links"})
       [] OTHER -> Committed

\* The scripts' calls: every short list of arguments handed to kubectl() and
\* to kind(), and one call of each other spelling.
KubectlTokens == {Word("get"), Word("config"), Word("--"), Word("psql"), Flag("--context", "alone"),
                  Flag("--server", "equals"), Flag("-n", "alone")}
KindTokens == {Word("get"), Word("clusters"), Word("create"), Word("cluster"), Flag("--name", "equals")}
Call(t, s, a) == [tool |-> t, spelled |-> s, args |-> a]
HelperCalls ==
  {Call("kubectl", "helper", a) : a \in UNION {[1 .. n -> KubectlTokens] : n \in 0 .. 3}} \cup
  {Call("kind", "helper", a) : a \in UNION {[1 .. n -> KindTokens] : n \in 0 .. 3}}
Spelled(t, s) == Call(t, s, IF t = "kubectl" THEN <<Word("get"), Word("pods")>>
                                           ELSE <<Word("delete"), Word("cluster")>>)
OfScripts == {"kubectl", "kind"} \X (Spellings \ {"helper"}) \X {0}
\* `kind` has no context to be pinned to.
CallsOf(e) ==
  IF e \in OfScripts THEN {Spelled(e[1], e[2])}
  ELSE IF e = <<"helpers", "none", 0>> THEN HelperCalls ELSE {Spelled("kubectl", "helper")}

\* The services' migrations and the committed script.
Sql(s) == [sql |-> s, readable |-> TRUE]
TsFile(f, n, c) == [file |-> f, stamp |-> n, kind |-> "ts", layout |-> "up-first", calls |-> c]
Users == TsFile("users", 1, <<Sql("a"), Sql("b")>>)
Requests == TsFile("requests", 3, <<Sql("c")>>)
Later == TsFile("later", 5, <<Sql("e")>>)
Note == [TsFile("note", 4, <<Sql("x")>>) EXCEPT !.kind = "other"]
Dirs(catalog) == [s \in {"processing-catalog", "notification-service"} |->
                    IF s = "processing-catalog" THEN catalog
                    ELSE {TsFile("deliveries", 2, <<Sql("d")>>)}]
Base == Dirs({Users, Requests})
Grown == Dirs({Users, Requests, Later, Note})
Unreadable == Dirs({[Users EXCEPT !.calls[2].readable = FALSE], Requests})
DownFirst == Dirs({[Users EXCEPT !.layout = "down-first"], Requests})

\* <<the migrations when the change is made, the script it commits>>
OfDatabase ==
  {<<"db", "same", 0>>, <<"db", "grown", 0>>, <<"db", "stale", 0>>, <<"db", "dropped", 0>>,
   <<"db", "unreadable", 0>>, <<"db", "down-first", 0>>, <<"db", "missing", 0>>, <<"db", "swapped", 0>>}
DatabaseOf(e) ==
  CASE e = <<"db", "grown", 0>> -> <<Grown, Generate(Grown)>>
    [] e = <<"db", "stale", 0>> -> <<Grown, Generate(Base)>>
    [] e = <<"db", "dropped", 0>> -> <<Base, SelectSeq(Generate(Base), LAMBDA l : l # <<"sql", "b">>)>>
    [] e = <<"db", "unreadable", 0>> -> <<Unreadable, SelectSeq(Generate(Base), LAMBDA l : l # <<"sql", "b">>)>>
    [] e = <<"db", "down-first", 0>> -> <<DownFirst, Generate(Base)>>
    [] e = <<"db", "missing", 0>> -> <<Dirs({}), Generate(Base)>>
    [] e = <<"db", "swapped", 0>> ->
         <<Base, [Generate(Base) EXCEPT ![3] = <<"sql", "c">>, ![5] = <<"sql", "a">>]>>
    [] OTHER -> <<Base, Generate(Base)>>

Edits == OfStep \cup OfJob \cup OfWorkflow \cup OfScripts \cup {<<"helpers", "none", 0>>} \cup OfDatabase
MCChanges ==
  {[workflow |-> EditedWorkflow(e), calls |-> CallsOf(e),
    dirs |-> DatabaseOf(e)[1], script |-> DatabaseOf(e)[2]] : e \in Edits}
MCSiblingDirs == {Grown}
=============================================================================
