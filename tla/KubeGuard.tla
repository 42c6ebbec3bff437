------------------------------ MODULE KubeGuard ------------------------------
(***************************************************************************)
(* scripts/kube.mjs, the only way a script reaches a cluster, and the scan *)
(* of scripts/check-kubernetes.mjs for scripts that spawn kubectl or kind  *)
(* themselves.  Pure operators: what a call is refused for, the command    *)
(* line it becomes, and the cluster that command line reaches.             *)
(*                                                                         *)
(* An argument is [name, form]: a word, a flag alone (its value follows),  *)
(* or a flag written with `=`.                                             *)
(***************************************************************************)
EXTENDS Naturals, Sequences

REDIRECTING_FLAGS == {"--context", "--kubeconfig", "--cluster", "--server", "-s", "--user"}
KIND_CLUSTER == "fiapx"
KUBE_CONTEXT == "kind-fiapx"

Argument == [name : STRING, form : {"word", "alone", "equals"}]

Word(w) == [name |-> w, form |-> "word"]
Flag(f, form) == [name |-> f, form |-> form]
IsFlag(a) == a.form # "word"

\* The arguments kubectl itself reads: those before the first `--`.
Separators(args) == {i \in DOMAIN args : args[i] = Word("--")}
Own(args) == {i \in DOMAIN args : \A s \in Separators(args) : i < s}

\* Mutant: only the first argument is looked at.
KubectlArgsFirst(args) ==
  IF args = <<>> \/ IsFlag(args[1]) \/ args[1] = Word("config") THEN <<>>
  ELSE <<Flag("--context", "alone"), Word(KUBE_CONTEXT)>> \o args

\* The full argument list, or <<>> when the call is refused.
KubectlArgs(args) ==
  IF \/ 1 \notin Own(args)
     \/ IsFlag(args[1])
     \/ args[1] = Word("config")
     \/ \E i \in Own(args) : args[i].name \in REDIRECTING_FLAGS
  THEN <<>>
  ELSE <<Flag("--context", "alone"), Word(KUBE_CONTEXT)>> \o args

KIND_COMMANDS == {<<Word("version")>>, <<Word("get"), Word("clusters")>>,
                  <<Word("create"), Word("cluster")>>, <<Word("delete"), Word("cluster")>>}

\* `kind`: one of four commands; create and delete always name the cluster
\* fiapx and its own kubeconfig.
KindArgs(args) ==
  LET command == {c \in KIND_COMMANDS :
                    Len(c) <= Len(args) /\ \A i \in DOMAIN c : c[i] = args[i]}
      naming == {i \in DOMAIN args : args[i].name \in {"--name", "--kubeconfig", "-n"}}
  IN IF command = {} \/ naming # {} THEN <<>>
     ELSE IF \E c \in command : c[Len(c)] = Word("cluster")
          THEN args \o <<Flag("--name", "alone"), Word(KIND_CLUSTER),
                         Flag("--kubeconfig", "alone"), Word("kind-fiapx.config")>>
          ELSE args

-----------------------------------------------------------------------------
(* What kubectl and kind do with a command line.                           *)

\* kubectl reads flags up to `--`; of several that name a cluster the last one
\* counts.  Without any it uses the kubeconfig's current context.
ClusterOf(line, current) ==
  LET named == {i \in Own(line) : line[i].name \in REDIRECTING_FLAGS}
      last == CHOOSE i \in named : \A j \in named : j <= i
  IN IF named = {} THEN current
     ELSE IF line[last] = Flag("--context", "alone") /\ last < Len(line)
          THEN line[last + 1].name
          ELSE "elsewhere"

\* The first word that is not the value of a flag before it.
Subcommand(line) ==
  LET words == {i \in Own(line) : ~IsFlag(line[i]) /\ (i = 1 \/ line[i - 1].form # "alone")}
  IN {line[i].name : i \in {k \in words : \A l \in words : k <= l}}

\* `kubectl config` acts on the kubeconfig; kind writes the current context
\* of the kubeconfig it is given, the machine's own one by default.
MovesContext(tool, line) ==
  IF tool = "kubectl" THEN "config" \in Subcommand(line)
  ELSE /\ Subcommand(line) \cap {"create", "delete"} # {}
       /\ \A i \in DOMAIN line : line[i].name # "--kubeconfig"

\* The cluster whose context kind derives from its name: `kind-<name>`.
KindCluster(line) ==
  IF \E i \in DOMAIN line : /\ line[i] = Flag("--name", "alone") /\ i < Len(line)
                            /\ line[i + 1] = Word(KIND_CLUSTER)
  THEN KUBE_CONTEXT ELSE "elsewhere"

-----------------------------------------------------------------------------
(* The calls of scripts/*.mjs, the files the scan reads, as they spell them. *)

\* "helper": kubectl() or kind() of kube.mjs.  "bare": the binary's name as a
\* string, spawned on the spot.  "line": a command line in a string, likewise.
\* "pinned": a command line that names the context.  "stored": a name or a
\* command line kept under another identifier and spawned later.  "behind": a
\* string in which the name is not the first word (`cd k8s && kubectl ...`).
\* "variable": the identifier that holds the name.  "comment": a `//` line.
Spellings == {"helper", "bare", "line", "pinned", "stored", "behind", "variable", "comment"}
ScriptCall == [tool : {"kubectl", "kind"}, spelled : Spellings, args : Seq(Argument)]

\* Mutant: comments are scanned like code.
RawKubectlProblemsComments(files) ==
  {c \in files : c.tool = "kubectl" /\ c.spelled \in {"bare", "line", "stored", "variable", "comment"}}

\* Any string that is kubectl or begins with it, spawned there or not.
RawKubectlProblems(files) ==
  {c \in files : c.tool = "kubectl" /\ c.spelled \in {"bare", "line", "stored", "variable"}}

\* "kind" is a word of other things too: of its strings only those that are
\* spawned on the spot, pinned or not.
RawKindProblems(files) ==
  {c \in files : c.tool = "kind" /\ c.spelled \in {"bare", "line", "pinned", "variable"}}

\* What the patterns are made for: no tool behind another word, no kind that
\* is spawned elsewhere than it is spelled.
InScansSight(c) == c.spelled # "behind" /\ (c.tool = "kind" => c.spelled # "stored")

\* The command line a call runs; <<>> when the helper refuses it, or when it
\* is not run at all.
CommandLine(c) ==
  CASE c.spelled = "comment" -> <<>>
    [] c.spelled = "helper" /\ c.tool = "kubectl" -> KubectlArgs(c.args)
    [] c.spelled = "helper" /\ c.tool = "kind" -> KindArgs(c.args)
    [] c.spelled = "pinned" -> <<Flag("--context", "alone"), Word(KUBE_CONTEXT)>> \o c.args
    [] OTHER -> c.args

\* A pinned command line that names nothing else to go to: the scan looks no
\* further than the context.
PinnedStays(c) ==
  c.spelled = "pinned" =>
    \A i \in Own(c.args) : c.args[i].name \notin REDIRECTING_FLAGS \cup {"config"}

\* The cluster a call acts on, on a machine whose current context is `current`.
Reaches(c, current) ==
  LET line == CommandLine(c)
  IN IF line = <<>> THEN {}
     ELSE IF c.tool = "kubectl" THEN {ClusterOf(line, current)}
     ELSE IF line[1] \in {Word("create"), Word("delete")} THEN {KindCluster(line)} ELSE {}
=============================================================================
