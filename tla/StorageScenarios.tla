--------------------------- MODULE StorageScenarios ---------------------------
(***************************************************************************)
(* scripts/check-storage-bootstrap.mjs: the twelve scenarios that decide   *)
(* whether a copy of storage/bootstrap.sh may be trusted with the bucket.  *)
(* A scenario removes its scratch bucket, prepares it, runs the bootstrap  *)
(* under test on it between two reads of its configuration, removes it     *)
(* again and is judged.  Every call is a container of its own, so a check  *)
(* may be interrupted between two calls, and a call may fail.  Checks of   *)
(* one storage run one after the other: nothing is claimed of two at once, *)
(* which would share their scratch buckets.                                *)
(*                                                                         *)
(* The bootstrap under test is the committed one (StorageBootstrap.tla,    *)
(* here as one step) with some defects; the question is which of them the  *)
(* scenarios let pass.  StorageProofs.tla extends both modules, so `where` *)
(* is a check's pc, and no definition has a name of that module.           *)
(***************************************************************************)
EXTENDS Integers, Sequences, FiniteSets

CONSTANTS
  Checks,       \* invocations of the script
  MaxDefects,   \* bound: defects of the bootstrap under test
  MaxMishaps,   \* bound: checks that meet a failing call or an interruption
  MishapsRepeat \* bound: whether such a check may meet another

ASSUME BoundsAssumption == MaxDefects \in Nat /\ MaxMishaps \in Nat /\ MishapsRepeat \in BOOLEAN

-----------------------------------------------------------------------------
(* Lifecycle configurations: a function from rule IDs to what the rule is. *)

Owned == {"expire-sources", "expire-zips", "abort-incomplete-uploads"}
Operator == "operator-rule"
Aspects == {"disabled", "days", "narrowed", "extra"}
RuleIds == Owned \cup {Operator}

RulesAbsent == [i \in RuleIds |-> "absent"]
OWNED_RULES == [i \in RuleIds |-> IF i \in Owned THEN "right" ELSE "absent"]
S5_RULES == [OWNED_RULES EXCEPT !["abort-incomplete-uploads"] = "absent"]
WithOperatorRule == [OWNED_RULES EXCEPT ![Operator] = "right"]
withRule(id, aspect) == [OWNED_RULES EXCEPT ![id] = aspect]

Gone == [exists |-> FALSE, policy |-> FALSE, rules |-> RulesAbsent]
Fresh == [Gone EXCEPT !.exists = TRUE]
RulesOf(b) == {i \in RuleIds : b.rules[i] # "absent"}

-----------------------------------------------------------------------------
(* The bootstrap under test.                                               *)

\* `correct` compares both expiry rules, `abort_correct` the abort rule.
Kind(id) == IF id = "abort-incomplete-uploads" THEN "abort" ELSE "expire"

\* A refusal left out, a rule left out, a rewrite of what is right (announced
\* or not), a start that works only once, and a comparison that overlooks an
\* aspect of a rule.
Defects ==
  {<<"no refusal", "policy">>, <<"no refusal", "foreign">>, <<"no rule", "abort">>,
   <<"rewrite", "announced">>, <<"rewrite", "silent">>, <<"once", "only">>}
  \cup ({"abort", "expire"} \X Aspects)

BootstrapsUnderTest == {d \in SUBSET Defects : Cardinality(d) <= MaxDefects}

\* What a bootstrap with these defects takes for a right rule, and writes.
Counts(under, id, rule) == rule = "right" \/ <<Kind(id), rule>> \in under
Writes(under) == IF <<"no rule", "abort">> \in under THEN S5_RULES ELSE OWNED_RULES
Mine(under) == {i \in RuleIds : Writes(under)[i] # "absent"}
Configured(under, b) ==
  RulesOf(b) = Mine(under) /\ \A i \in Mine(under) : Counts(under, i, b.rules[i])

\* storage/bootstrap.sh on bucket b: how it exits, what it says, what it leaves.
Bootstrap(under, b) ==
  LET made == [b EXCEPT !.exists = TRUE]
      written == [made EXCEPT !.rules = Writes(under)]
      Ends(exit, says, left) == [exit |-> exit, says |-> says, left |-> left]
      once == b.exists /\ <<"once", "only">> \in under
      policy == b.policy /\ <<"no refusal", "policy">> \notin under
      foreign == ~(RulesOf(b) \subseteq Mine(under)) /\ <<"no refusal", "foreign">> \notin under
  IN CASE once -> Ends(1, "exists", b)
       [] ~once /\ policy -> Ends(1, "policy", made)
       [] ~once /\ ~policy /\ foreign -> Ends(1, "foreign", made)
       [] OTHER ->
            IF ~Configured(under, b) \/ <<"rewrite", "announced">> \in under
            THEN Ends(0, "configured", written)
            ELSE Ends(0, "already", IF <<"rewrite", "silent">> \in under THEN written ELSE made)

-----------------------------------------------------------------------------
(* The scenarios: how the bucket is prepared and what is expected of the   *)
(* run.  An empty `says` expects nothing of the output.                    *)

Step(do, rules) == [do |-> do, rules |-> rules]
create == Step("create", RulesAbsent)
lifecycle(rules) == Step("lifecycle", rules)
openPolicy == Step("policy", RulesAbsent)
bootstrapOnce == Step("bootstrap", RulesAbsent)

Scenario(prepare, exit, says, unchanged, owned) ==
  [prepare |-> prepare, exit |-> exit, says |-> says, unchanged |-> unchanged, rules |-> owned]
Repairs(rules) == Scenario(<<create, lifecycle(rules)>>, 0, "", FALSE, TRUE)
Abort(aspect) == Repairs(withRule("abort-incomplete-uploads", aspect))
Expire(aspect) == Repairs(withRule("expire-zips", aspect))

SCENARIOS ==
  <<Scenario(<<>>, 0, "", FALSE, TRUE),                                            \* fresh
    Scenario(<<bootstrapOnce>>, 0, "already", TRUE, TRUE),                         \* rerun
    Repairs(S5_RULES),                                                             \* upgrade
    Scenario(<<create, lifecycle(WithOperatorRule)>>, 1, "foreign", TRUE, FALSE),  \* foreign
    Abort("disabled"), Abort("days"), Abort("narrowed"), Abort("extra"),
    Expire("extra"), Expire("disabled"), Expire("narrowed"),
    Scenario(<<create, openPolicy>>, 1, "policy", FALSE, FALSE)>>                  \* policy
Numbers == DOMAIN SCENARIOS

Observation == [exit : {0, 1}, says : {"", "exists", "policy", "foreign", "configured", "already"},
                before : [RuleIds -> {"absent", "right"} \cup Aspects],
                after : [RuleIds -> {"absent", "right"} \cup Aspects]]
Nothing == [exit |-> 0, says |-> "", before |-> RulesAbsent, after |-> RulesAbsent]

\* Mutant: the configuration the run leaves is not compared.
checkScenarioOutput(scenario, seen) ==
  /\ seen.exit = scenario.exit
  /\ scenario.says # "" => seen.says = scenario.says

checkScenario(scenario, seen) ==
  /\ seen.exit = scenario.exit
  /\ scenario.says # "" => seen.says = scenario.says
  /\ scenario.unchanged => seen.before = seen.after
  /\ scenario.rules => seen.after = OWNED_RULES

-----------------------------------------------------------------------------
VARIABLES
  under,     \* the defects of the bootstrap under test
  buckets,   \* the scratch bucket of each scenario
  where,     \* where each check is
  n,         \* the scenario it is at
  k,         \* the pre-state step it is at
  seen,      \* what it has observed of this scenario
  wrong,     \* whether a call of this scenario threw
  failures,  \* whether a scenario of it failed
  hurt       \* history: the checks that were interrupted or had a failing call

runVars == <<where, n, k, seen, wrong, failures>>
checkVars == <<under, buckets, runVars, hurt>>

CheckEnded == {"idle", "killed", "passed", "failed"}
CheckLocations == CheckEnded \cup {"remove", "prepare", "before", "run", "after", "clean", "list"}

CheckTypeOK ==
  /\ where \in [Checks -> CheckLocations]
  /\ n \in [Checks -> Numbers]
  /\ k \in [Checks -> 1 .. 3]
  /\ seen \in [Checks -> Observation]
  /\ \A c \in Checks : where[c] = "prepare" => k[c] <= Len(SCENARIOS[n[c]].prepare)
  /\ hurt \subseteq Checks
  /\ \A i \in Numbers : ~buckets[i].exists => buckets[i] = Gone

CheckInit ==
  /\ under \in BootstrapsUnderTest
  /\ buckets = [i \in Numbers |-> Gone]
  /\ where = [c \in Checks |-> "idle"]
  /\ n = [c \in Checks |-> 1] /\ k = [c \in Checks |-> 1]
  /\ seen = [c \in Checks |-> Nothing]
  /\ wrong = [c \in Checks |-> FALSE] /\ failures = [c \in Checks |-> FALSE]
  /\ hurt = {}

RunningChecks == {c \in Checks : where[c] \notin CheckEnded}
Bucket(c) == buckets[n[c]]
Leaves(c, b) == buckets' = [buckets EXCEPT ![n[c]] = b]
Goes(c, location) == where' = [where EXCEPT ![c] = location]
Sees(c, observation) == seen' = [seen EXCEPT ![c] = observation]
Fails(c) ==
  /\ IF c \in hurt THEN MishapsRepeat ELSE Cardinality(hurt) < MaxMishaps
  /\ hurt' = hurt \cup {c}

Start(c) ==
  /\ where[c] = "idle" /\ RunningChecks = {}
  /\ Goes(c, "remove")
  /\ UNCHANGED <<under, buckets, n, k, seen, wrong, failures, hurt>>

\* The next scenario, or the listing after the last one.
NextScenario(c, failed) ==
  /\ Goes(c, IF n[c] = Len(SCENARIOS) THEN "list" ELSE "remove")
  /\ n' = [n EXCEPT ![c] = IF @ = Len(SCENARIOS) THEN @ ELSE @ + 1]
  /\ k' = [k EXCEPT ![c] = 1]
  /\ wrong' = [wrong EXCEPT ![c] = FALSE]
  /\ failures' = [failures EXCEPT ![c] = @ \/ failed]
  /\ Sees(c, Nothing)
  /\ UNCHANGED under

\* The process ends, and what it knew with it.
Exit(c, location) ==
  /\ Goes(c, location)
  /\ n' = [n EXCEPT ![c] = 1] /\ k' = [k EXCEPT ![c] = 1]
  /\ Sees(c, Nothing)
  /\ wrong' = [wrong EXCEPT ![c] = FALSE] /\ failures' = [failures EXCEPT ![c] = FALSE]
  /\ UNCHANGED under

\* A check moves on within its scenario.
Within(c, location) ==
  /\ Goes(c, location)
  /\ UNCHANGED <<under, n, failures>>

\* Mutant: a scenario that prepares nothing is prepared.
PreparedAlways(c) == "prepare"

Prepared(c) == IF SCENARIOS[n[c]].prepare = <<>> THEN "before" ELSE "prepare"

\* Mutant: a bucket that is there already is taken as it is.
RemoveSkipped(c) ==
  /\ where[c] = "remove"
  /\ Within(c, Prepared(c))
  /\ UNCHANGED <<buckets, k, seen, wrong, hurt>>

\* removeBucket, before: a failing head-bucket is taken for "no bucket"; a
\* failing removal fails the scenario before it began.
Remove(c) ==
  /\ where[c] = "remove"
  /\ \/ Leaves(c, Gone) /\ Within(c, Prepared(c)) /\ UNCHANGED <<k, seen, wrong, hurt>>
     \/ Fails(c) /\ Within(c, Prepared(c)) /\ UNCHANGED <<buckets, k, seen, wrong>>
     \/ Fails(c) /\ NextScenario(c, TRUE) /\ UNCHANGED buckets

\* What a pre-state step makes of bucket b; create-bucket answers an existing
\* bucket of the same owner with success or with an error.
StepDone(step, b, left) ==
  CASE step.do = "create" -> left = [b EXCEPT !.exists = TRUE]
    [] step.do = "lifecycle" -> b.exists /\ left = [b EXCEPT !.rules = step.rules]
    [] step.do = "policy" -> b.exists /\ left = [b EXCEPT !.policy = TRUE]
    [] step.do = "bootstrap" -> Bootstrap(under, b).exit = 0 /\ left = Bootstrap(under, b).left
StepErrs(step, b) ==
  CASE step.do = "create" -> b.exists
    [] step.do = "bootstrap" -> Bootstrap(under, b).exit # 0
    [] OTHER -> ~b.exists

Prepare(c) ==
  LET scenario == SCENARIOS[n[c]]
      step == scenario.prepare[k[c]]
      last == k[c] = Len(scenario.prepare)
      after == {Bucket(c), [Bucket(c) EXCEPT !.exists = TRUE], [Bucket(c) EXCEPT !.rules = step.rules],
                [Bucket(c) EXCEPT !.policy = TRUE], Bootstrap(under, Bucket(c)).left}
  IN
  /\ where[c] = "prepare"
  /\ UNCHANGED seen
  /\ \/ /\ \E left \in after : StepDone(step, Bucket(c), left) /\ Leaves(c, left)
        /\ Within(c, IF last THEN "before" ELSE "prepare")
        /\ k' = [k EXCEPT ![c] = @ + 1]
        /\ UNCHANGED <<wrong, hurt>>
     \/ /\ (StepErrs(step, Bucket(c)) /\ UNCHANGED hurt) \/ Fails(c)
        /\ Within(c, "clean")
        /\ wrong' = [wrong EXCEPT ![c] = TRUE]
        /\ UNCHANGED <<buckets, k>>

\* readConfig, before and after: no bucket reads as no configuration.
ReadConfig(c) ==
  /\ where[c] \in {"before", "after"}
  /\ \/ /\ Within(c, IF where[c] = "before" THEN "run" ELSE "clean")
        /\ Sees(c, IF where[c] = "before" THEN [seen[c] EXCEPT !.before = Bucket(c).rules]
                                       ELSE [seen[c] EXCEPT !.after = Bucket(c).rules])
        /\ UNCHANGED <<wrong, hurt>>
     \/ /\ Fails(c) /\ Within(c, "clean")
        /\ wrong' = [wrong EXCEPT ![c] = TRUE] /\ UNCHANGED seen
  /\ UNCHANGED <<buckets, k>>

\* What is left of bucket b by a bootstrap that does not get to its end.
Halfway(b) == {b, [b EXCEPT !.exists = TRUE], Bootstrap(under, b).left}

\* runBootstrap: its exit and its output are observed, whatever they are.  A
\* call that fails inside it ends it with 1 and another message.
RunBootstrap(c) ==
  LET run == Bootstrap(under, Bucket(c))
  IN
  /\ where[c] = "run"
  /\ \/ /\ Leaves(c, run.left)
        /\ Sees(c, [seen[c] EXCEPT !.exit = run.exit, !.says = run.says])
        /\ UNCHANGED hurt
     \/ /\ Fails(c)
        /\ \E left \in Halfway(Bucket(c)) : Leaves(c, left)
        /\ Sees(c, [seen[c] EXCEPT !.exit = 1, !.says = ""])
  /\ Within(c, "after") /\ UNCHANGED <<k, wrong>>

\* removeBucket, after, whatever happened in between; then checkScenario.
Clean(c) ==
  LET failed == wrong[c] \/ ~checkScenario(SCENARIOS[n[c]], seen[c])
  IN
  /\ where[c] = "clean"
  /\ \/ Leaves(c, Gone) /\ NextScenario(c, failed) /\ UNCHANGED hurt
     \/ Fails(c) /\ (\E thrown \in BOOLEAN : NextScenario(c, failed \/ thrown)) /\ UNCHANGED buckets

\* assertNoScratchBuckets over listBuckets, and the exit code.
List(c) ==
  /\ where[c] = "list"
  /\ \/ /\ Exit(c, IF failures[c] \/ \E i \in Numbers : buckets[i].exists THEN "failed" ELSE "passed")
        /\ UNCHANGED hurt
     \/ Fails(c) /\ Exit(c, "failed")
  /\ UNCHANGED buckets

\* The check is interrupted; a bootstrap it started stops halfway.
Kill(c) ==
  /\ c \in RunningChecks
  /\ Fails(c) /\ Exit(c, "killed")
  /\ IF where[c] = "run" THEN \E left \in Halfway(Bucket(c)) : Leaves(c, left) ELSE UNCHANGED buckets

CheckStep(c) ==
  Remove(c) \/ Prepare(c) \/ ReadConfig(c) \/ RunBootstrap(c) \/ Clean(c) \/ List(c)

CheckNext == \E c \in Checks : Start(c) \/ CheckStep(c) \/ Kill(c)

CheckSpec == CheckInit /\ [][CheckNext]_checkVars

-----------------------------------------------------------------------------
(* Properties.                                                             *)

\* The buckets a bootstrap may find: any owned rule in any state, an operator's
\* rule or none, a policy or none; but no expiry rule that is wrong in its number of
\* days only, which no scenario prepares.
ExpireStates == ({"absent", "right"} \cup Aspects) \ {"days"}
Findable ==
  {Gone} \cup
  {[exists |-> TRUE, policy |-> open, rules |-> [OWNED_RULES EXCEPT
      !["expire-sources"] = s, !["expire-zips"] = z, !["abort-incomplete-uploads"] = a, ![Operator] = o]] :
     open \in BOOLEAN, s \in ExpireStates, z \in ExpireStates,
     a \in {"absent", "right"} \cup Aspects, o \in {"absent", "right"}}

\* "Its refusals and repairs are therefore proven here": a bootstrap that passed
\* the twelve scenarios accepts, refuses and repairs every such bucket as the
\* committed one does, although two defects may hide one another, calls fail on
\* the way and a check before was interrupted.
DefectsCaught ==
  [][\A c \in Checks : where[c] # "passed" /\ where'[c] = "passed" =>
       \A b \in Findable :
         /\ Bootstrap(under, b).exit = Bootstrap({}, b).exit
         /\ Bootstrap(under, b).left = Bootstrap({}, b).left]_checkVars

\* "a run interrupted earlier leaves nothing in the way": the committed
\* bootstrap is never blamed by a check whose calls succeed.
SoundBootstrapPasses ==
  \A c \in Checks \ hurt : under = {} => where[c] # "failed" /\ ~failures[c]
===============================================================================
