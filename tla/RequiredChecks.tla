--------------------------- MODULE RequiredChecks ---------------------------
(***************************************************************************)
(* The `protect main` rulesets on GitHub under the two scripts that work   *)
(* on them: apply-required-checks.mjs (--dry-run, --apply) and             *)
(* check-ci-governance.mjs --live.  Each invocation walks the repositories *)
(* of ci/required-checks.json in the file's order with one `gh` process    *)
(* per call, and an administrator or another invocation may write between  *)
(* any two calls.  GitHub's PUT replaces a ruleset and knows no version.   *)
(***************************************************************************)
EXTENDS Naturals, Sequences

CONSTANTS
  Order,        \* the repositories, in the order of the file
  Checks,       \* labels context@integration_id
  Others,       \* values of what a ruleset holds beside its required checks
  Invocations,
  ModeOf,       \* [Invocations -> Modes]
  WantedBy,     \* [Invocations -> [Repos -> the checks its file lists]]
  Found,        \* the rulesets GitHub may hold at the start or after an edit
  MaxEdits      \* bound: edits of the administrators

Modes == {"--dry-run", "--apply", "--live"}
Repos == {Order[i] : i \in DOMAIN Order}

\* A repository's rulesets named `protect main`: how many, and of the one the
\* calls reach, whether it has a required_status_checks rule, the checks of that
\* rule, whether it is active on the default branch alone, and the rest.
Rulesets ==
  [copies : {0, 1, 2}, hasRule : BOOLEAN, checks : SUBSET Checks,
   guards : BOOLEAN, other : Others]

ASSUME ConstantsAssumption ==
  /\ Order \in Seq(Repos) /\ Len(Order) > 0
  /\ \A i, j \in DOMAIN Order : Order[i] = Order[j] => i = j
  /\ ModeOf \in [Invocations -> Modes]
  /\ WantedBy \in [Invocations -> [Repos -> (SUBSET Checks) \ {{}}]]
  /\ Found \subseteq Rulesets /\ Found # {}
  /\ MaxEdits \in Nat

VARIABLES
  live,      \* [Repos -> Rulesets], what GitHub holds
  pc,        \* where each invocation is
  at,        \* the position in Order each invocation works on
  read,      \* the ruleset an invocation is about to PUT back
  problems,  \* whether a --live invocation found a problem
  edits,     \* edits made so far
  touched    \* history: the repositories others wrote since the invocation
             \* began to read them
vars == <<live, pc, at, read, problems, edits, touched>>

Active == {"list", "get", "put"}
Locations == Active \cup {"idle", "ok", "failed"}
Nothing == CHOOSE ruleset \in Found : TRUE

TypeOK ==
  /\ live \in [Repos -> Rulesets]
  /\ pc \in [Invocations -> Locations]
  /\ at \in [Invocations -> 1 .. Len(Order) + 1]
  /\ read \in [Invocations -> Rulesets]
  /\ problems \in [Invocations -> BOOLEAN]
  /\ edits \in 0 .. MaxEdits
  /\ touched \in [Invocations -> SUBSET Repos]
  /\ \A u \in Invocations : pc[u] \in Active \cup {"idle"} => at[u] <= Len(Order)

Init ==
  /\ live \in [Repos -> Found]
  /\ pc = [u \in Invocations |-> "idle"]
  /\ at = [u \in Invocations |-> 1]
  /\ read = [u \in Invocations |-> Nothing]
  /\ problems = [u \in Invocations |-> FALSE]
  /\ edits = 0
  /\ touched = [u \in Invocations |-> {}]

Repo(u) == Order[at[u]]
Wanted(u) == WantedBy[u][Repo(u)]

\* The checks a ruleset requires: none without the rule (liveChecks).
Required(ruleset) == IF ruleset.hasRule THEN ruleset.checks ELSE {}

\* What --live requires of the one ruleset it fetched (rulesetProblems).
Protects(ruleset, wanted) == ruleset.guards /\ Required(ruleset) = wanted

\* Mutant: the end is compared with one repository too many.
AdvanceTooFar(u, problem) ==
  /\ at' = [at EXCEPT ![u] = @ + 1]
  /\ problems' = [problems EXCEPT ![u] = @ \/ problem]
  /\ read' = [read EXCEPT ![u] = Nothing]
  /\ pc' = [pc EXCEPT ![u] = IF at[u] <= Len(Order) THEN "list"
                            ELSE IF problems[u] \/ problem THEN "failed" ELSE "ok"]

\* On to the next repository, or to the end, where --live reports the problems.
Advance(u, problem) ==
  /\ at' = [at EXCEPT ![u] = @ + 1]
  /\ problems' = [problems EXCEPT ![u] = @ \/ problem]
  /\ read' = [read EXCEPT ![u] = Nothing]
  /\ pc' = [pc EXCEPT ![u] = IF at[u] < Len(Order) THEN "list"
                            ELSE IF problems[u] \/ problem THEN "failed" ELSE "ok"]

Goto(u, location, ruleset) ==
  /\ pc' = [pc EXCEPT ![u] = location]
  /\ read' = [read EXCEPT ![u] = ruleset]
  /\ UNCHANGED <<at, problems>>

\* A write by u makes everyone else's read of the repository stale.
WroteBy(u, r) ==
  touched' = [v \in Invocations |-> IF v = u THEN touched[v] ELSE touched[v] \cup {r}]

-----------------------------------------------------------------------------
\* gh is authenticated and the file is valid.
Start(u) ==
  /\ pc[u] = "idle"
  /\ Goto(u, "list", Nothing)
  /\ UNCHANGED <<live, edits, touched>>

\* fetchProtectMain, first call: the summaries.  Anything but one ruleset of
\* the name stops an applier and is a problem to --live.
List(u) ==
  /\ pc[u] = "list"
  /\ IF live[Repo(u)].copies = 1 THEN Goto(u, "get", Nothing)
     ELSE IF ModeOf[u] = "--live" THEN Advance(u, TRUE)
     ELSE Goto(u, "failed", Nothing)
  /\ touched' = [touched EXCEPT ![u] = @ \ {Repo(u)}]
  /\ UNCHANGED <<live, edits>>

\* Mutant: only the checks to add are compared, not those to remove.
GetAdditions(u) ==
  LET ruleset == live[Repo(u)]
      differs == ~ (Wanted(u) \subseteq Required(ruleset))
  IN
  /\ pc[u] = "get"
  /\ ruleset.copies # 0
  /\ IF ModeOf[u] = "--apply" /\ differs
     THEN IF ruleset.hasRule THEN Goto(u, "put", ruleset) ELSE Goto(u, "failed", Nothing)
     ELSE Advance(u, ModeOf[u] = "--live" /\ (differs \/ ~ruleset.guards))
  /\ UNCHANGED <<live, edits, touched>>

\* Mutant: --live compares the checks and not where they apply.
GetChecksOnly(u) ==
  LET ruleset == live[Repo(u)]
      differs == Required(ruleset) # Wanted(u)
  IN
  /\ pc[u] = "get"
  /\ ruleset.copies # 0
  /\ IF ModeOf[u] = "--apply" /\ differs
     THEN IF ruleset.hasRule THEN Goto(u, "put", ruleset) ELSE Goto(u, "failed", Nothing)
     ELSE Advance(u, ModeOf[u] = "--live" /\ differs)
  /\ UNCHANGED <<live, edits, touched>>

\* fetchProtectMain, second call, and the verdict on its answer: an equal list
\* is skipped, a dry run only reports, a ruleset without the rule is refused.
Get(u) ==
  LET ruleset == live[Repo(u)]
      differs == Required(ruleset) # Wanted(u)
  IN
  /\ pc[u] = "get"
  /\ ruleset.copies # 0
  /\ IF ModeOf[u] = "--apply" /\ differs
     THEN IF ruleset.hasRule THEN Goto(u, "put", ruleset) ELSE Goto(u, "failed", Nothing)
     ELSE Advance(u, ModeOf[u] = "--live" /\ ~Protects(ruleset, Wanted(u)))
  /\ UNCHANGED <<live, edits, touched>>

\* Mutant: the body is built from the versioned list alone.
BodyAfresh(u) == [Nothing EXCEPT !.checks = Wanted(u), !.hasRule = TRUE]

\* withRequiredChecks: the ruleset as read, with its list of checks replaced.
Body(u) == [read[u] EXCEPT !.checks = Wanted(u)]

\* The PUT overwrites whatever the ruleset has become since the GET.
Write(u) ==
  /\ pc[u] = "put"
  /\ live[Repo(u)].copies # 0
  /\ live' = [live EXCEPT ![Repo(u)] = [Body(u) EXCEPT !.copies = live[Repo(u)].copies]]
  /\ WroteBy(u, Repo(u))
  /\ UNCHANGED edits

Put(u) == Write(u) /\ Advance(u, FALSE)

\* A PUT whose answer is lost: GitHub applied it, gh reports a failure.
PutAnswerLost(u) == Write(u) /\ Goto(u, "failed", Nothing)

\* A failed call ends the invocation, which names the repository.
CallFails(u) ==
  /\ pc[u] \in Active
  /\ Goto(u, "failed", Nothing)
  /\ UNCHANGED <<live, edits, touched>>

\* An administrator edits, copies or removes a ruleset.  One that was removed
\* is not made again: it would have another id.
AdminEdits(r) ==
  /\ live[r].copies # 0
  /\ edits < MaxEdits
  /\ edits' = edits + 1
  /\ \E ruleset \in Found : live' = [live EXCEPT ![r] = ruleset]
  /\ touched' = [u \in Invocations |-> touched[u] \cup {r}]
  /\ UNCHANGED <<pc, at, read, problems>>

Next ==
  \/ \E u \in Invocations :
       Start(u) \/ List(u) \/ Get(u) \/ Put(u) \/ PutAnswerLost(u) \/ CallFails(u)
  \/ \E r \in Repos : AdminEdits(r)

Spec == Init /\ [][Next]_vars

-----------------------------------------------------------------------------
(* Properties.                                                             *)

\* "The ones before it keep their new list": wherever an --apply is or stopped,
\* each repository behind it that nobody else has written since requires
\* exactly the file's checks.  At the end of a successful run that is all.
AppliedSoFar ==
  \A u \in Invocations : ModeOf[u] = "--apply" =>
    \A i \in 1 .. at[u] - 1 :
      Order[i] \in touched[u] \/ Required(live[Order[i]]) = WantedBy[u][Order[i]]

\* --live passes only when every repository nobody wrote meanwhile has one
\* active ruleset on the default branch requiring exactly the file's checks.
LiveIsTrue ==
  \A u \in Invocations : ModeOf[u] = "--live" /\ pc[u] = "ok" =>
    \A r \in Repos \ touched[u] :
      live[r].copies = 1 /\ Protects(live[r], WantedBy[u][r])

\* An invocation changes a ruleset only when its checks differ, and then only
\* its checks, unless someone else wrote it between the GET and the PUT.
MinimalWrite ==
  [][\A u \in Invocations : Write(u) /\ Repo(u) \notin touched[u] =>
       /\ Required(live[Repo(u)]) # Wanted(u)
       /\ live'[Repo(u)] = [live[Repo(u)] EXCEPT !.checks = Wanted(u)]]_vars

\* What a dry run says of a repository (it "would add ..., remove ...; it would
\* then require ...", apply-required-checks.mjs:109) is what an --apply of the
\* same file then does: it does not refuse the repository.
DryRunForetells ==
  [][\A d, u \in Invocations :
       /\ ModeOf[d] = "--dry-run" /\ pc[d] = "ok" /\ WantedBy[d] = WantedBy[u]
       /\ pc[u] = "get" /\ Repo(u) \notin touched[d]
       => ~ (Get(u) /\ pc'[u] = "failed")]_vars
=============================================================================
