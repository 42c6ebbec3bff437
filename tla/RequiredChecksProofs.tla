------------------------ MODULE RequiredChecksProofs ------------------------
(***************************************************************************)
(* Proofs about RequiredChecks, for any list of repositories, any set of   *)
(* concurrent invocations in any modes, and any number of edits.           *)
(*                                                                         *)
(* Fine(u) is what one invocation may rely on although others write: about *)
(* a repository it has begun to read, it knows the truth or the repository *)
(* is in touched[u].  A step of somebody else keeps Fine(u) because it     *)
(* touches whatever it writes (OthersKeepFine).                            *)
(***************************************************************************)
EXTENDS RequiredChecks, TLAPS

FineRead(u) ==
  /\ pc[u] \in {"get", "put"} /\ Repo(u) \notin touched[u] => live[Repo(u)].copies = 1
  /\ pc[u] = "put" =>
       /\ ModeOf[u] = "--apply"
       /\ read[u].hasRule
       /\ Repo(u) \notin touched[u] =>
            read[u] = live[Repo(u)] /\ Required(live[Repo(u)]) # Wanted(u)

FineApplied(u) ==
  ModeOf[u] = "--apply" =>
    \A i \in 1 .. at[u] - 1 :
      Order[i] \in touched[u] \/ Required(live[Order[i]]) = WantedBy[u][Order[i]]

FineLive(u) ==
  ModeOf[u] = "--live" =>
    \A i \in 1 .. at[u] - 1 :
      \/ problems[u]
      \/ Order[i] \in touched[u]
      \/ live[Order[i]].copies = 1 /\ Protects(live[Order[i]], WantedBy[u][Order[i]])

FineEnd(u) == pc[u] = "ok" => at[u] = Len(Order) + 1 /\ ~problems[u]

Fine(u) == FineRead(u) /\ FineApplied(u) /\ FineLive(u) /\ FineEnd(u)

IInv == TypeOK /\ \A u \in Invocations : Fine(u)

\* Positions and repositories: the file lists each repository once.
LEMMA Positions ==
  /\ Len(Order) \in Nat \ {0}
  /\ DOMAIN Order = 1 .. Len(Order)
  /\ Repos = {Order[i] : i \in 1 .. Len(Order)}
  /\ \A i \in 1 .. Len(Order) : Order[i] \in Repos
  /\ \A i, j \in 1 .. Len(Order) : Order[i] = Order[j] => i = j
<1>1. Order \in Seq(Repos) /\ Len(Order) > 0
  BY ConstantsAssumption
<1>2. Len(Order) \in Nat /\ DOMAIN Order = 1 .. Len(Order)
  BY <1>1
<1>3. \A i, j \in DOMAIN Order : Order[i] = Order[j] => i = j
  BY ConstantsAssumption
<1>4. Repos = {Order[i] : i \in 1 .. Len(Order)}
  BY <1>2 DEF Repos
<1> QED
  BY <1>1, <1>2, <1>3, <1>4

\* The placeholder for "no ruleset read" is a ruleset.
LEMMA NothingType == Nothing \in Found /\ Nothing \in Rulesets
  BY ConstantsAssumption DEF Nothing

\* Two fields of a ruleset replaced, written out.
LEMMA Replaced ==
  ASSUME NEW r \in Rulesets, NEW w, NEW c
  PROVE  [[r EXCEPT !.checks = w] EXCEPT !.copies = c] =
           [copies |-> c, hasRule |-> r.hasRule, checks |-> w,
            guards |-> r.guards, other |-> r.other]
<1>1. r = [copies |-> r.copies, hasRule |-> r.hasRule, checks |-> r.checks,
           guards |-> r.guards, other |-> r.other]
  BY DEF Rulesets
<1>2. [r EXCEPT !.checks = w] =
        [copies |-> r.copies, hasRule |-> r.hasRule, checks |-> w,
         guards |-> r.guards, other |-> r.other]
  BY <1>1
<1>3. \A q : [[copies |-> q, hasRule |-> r.hasRule, checks |-> w,
                guards |-> r.guards, other |-> r.other] EXCEPT !.copies = c] =
               [copies |-> c, hasRule |-> r.hasRule, checks |-> w,
                guards |-> r.guards, other |-> r.other]
  OBVIOUS
<1> QED
  BY <1>2, <1>3

\* The body of a PUT is the ruleset as read with the file's checks.
LEMMA BodyType ==
  ASSUME TypeOK, NEW u \in Invocations, pc[u] = "put",
         NEW c \in {0, 1, 2}
  PROVE  /\ [Body(u) EXCEPT !.copies = c] \in Rulesets
         /\ [Body(u) EXCEPT !.copies = c] =
              [copies |-> c, hasRule |-> read[u].hasRule, checks |-> Wanted(u),
               guards |-> read[u].guards, other |-> read[u].other]
<1>1. at[u] \in 1 .. Len(Order)
  BY Positions DEF TypeOK, Active
<1>2. Repo(u) \in Repos
  BY <1>1, Positions DEF Repo
<1>3. Wanted(u) \in SUBSET Checks
  BY <1>2, ConstantsAssumption DEF Wanted
<1>4. read[u] \in Rulesets
  BY DEF TypeOK
<1>5. read[u].copies \in {0, 1, 2} /\ read[u].hasRule \in BOOLEAN
      /\ read[u].guards \in BOOLEAN /\ read[u].other \in Others
  BY <1>4 DEF Rulesets
<1>6. [Body(u) EXCEPT !.copies = c] =
        [copies |-> c, hasRule |-> read[u].hasRule, checks |-> Wanted(u),
         guards |-> read[u].guards, other |-> read[u].other]
  BY <1>4, Replaced DEF Body
<1> QED
  BY <1>3, <1>5, <1>6 DEF Rulesets

-----------------------------------------------------------------------------
(* Type correctness.                                                       *)

LEMMA InitTypes == Init => TypeOK
<1> SUFFICES ASSUME Init PROVE TypeOK
  OBVIOUS
<1>1. live \in [Repos -> Rulesets]
  BY ConstantsAssumption DEF Init
<1>0. MaxEdits \in Nat
  BY ConstantsAssumption
<1>2. at \in [Invocations -> 1 .. Len(Order) + 1] /\ edits \in 0 .. MaxEdits
  <2>1. 1 \in 1 .. Len(Order) + 1 /\ 0 \in 0 .. MaxEdits
    BY <1>0, Positions
  <2> QED
    BY <2>1 DEF Init
<1>3. \A u \in Invocations : at[u] <= Len(Order)
  BY Positions DEF Init
<1> QED
  BY <1>1, <1>2, <1>3, NothingType DEF Init, TypeOK, Locations

LEMMA StepTypes == TypeOK /\ [Next]_vars => TypeOK'
<1> SUFFICES ASSUME TypeOK, [Next]_vars PROVE TypeOK'
  OBVIOUS
<1> USE Positions, NothingType DEF TypeOK, Locations, Active
<1>1. ASSUME NEW u \in Invocations, Start(u) PROVE TypeOK'
  BY <1>1 DEF Start, Goto
<1>2. ASSUME NEW u \in Invocations, List(u) PROVE TypeOK'
  <2>1. touched' \in [Invocations -> SUBSET Repos]
    BY <1>2 DEF List
  <2>2. CASE Goto(u, "get", Nothing)
    BY <1>2, <2>1, <2>2 DEF List, Goto
  <2>3. CASE Advance(u, TRUE)
    BY <1>2, <2>1, <2>3 DEF List, Advance
  <2>4. CASE Goto(u, "failed", Nothing)
    BY <1>2, <2>1, <2>4 DEF List, Goto
  <2> QED
    BY <1>2, <2>2, <2>3, <2>4 DEF List
<1>3. ASSUME NEW u \in Invocations, Get(u) PROVE TypeOK'
  <2>1. live[Repo(u)] \in Rulesets
    BY <1>3 DEF Get, Repo
  <2>2. CASE Goto(u, "put", live[Repo(u)])
    BY <1>3, <2>1, <2>2 DEF Get, Goto
  <2>3. CASE Goto(u, "failed", Nothing)
    BY <1>3, <2>3 DEF Get, Goto
  <2>4. ASSUME NEW problem \in BOOLEAN, Advance(u, problem) PROVE TypeOK'
    BY <1>3, <2>4 DEF Get, Advance
  <2>5. (ModeOf[u] = "--live" /\ ~Protects(live[Repo(u)], Wanted(u))) \in BOOLEAN
    OBVIOUS
  <2> QED
    BY <1>3, <2>2, <2>3, <2>4, <2>5 DEF Get
<1>4. ASSUME NEW u \in Invocations, Write(u)
      PROVE  live' \in [Repos -> Rulesets] /\ touched' \in [Invocations -> SUBSET Repos]
  <2>1. Repo(u) \in Repos
    BY <1>4 DEF Write, Repo
  <2>2. live[Repo(u)].copies \in {0, 1, 2}
    BY <2>1 DEF Rulesets
  <2>3. [Body(u) EXCEPT !.copies = live[Repo(u)].copies] \in Rulesets
    BY <1>4, <2>2, BodyType DEF Write
  <2> QED
    BY <1>4, <2>1, <2>3 DEF Write, WroteBy
<1>5. ASSUME NEW u \in Invocations, Put(u) PROVE TypeOK'
  <2>1. live' \in [Repos -> Rulesets] /\ touched' \in [Invocations -> SUBSET Repos]
        /\ edits' = edits /\ pc[u] = "put"
    BY <1>4, <1>5 DEF Put, Write
  <2>2. Advance(u, FALSE)
    BY <1>5 DEF Put
  <2> QED
    BY <2>1, <2>2 DEF Advance
<1>6. ASSUME NEW u \in Invocations, PutAnswerLost(u) PROVE TypeOK'
  BY <1>4, <1>6 DEF PutAnswerLost, Write, Goto
<1>7. ASSUME NEW u \in Invocations, CallFails(u) PROVE TypeOK'
  BY <1>7 DEF CallFails, Goto
<1>8. ASSUME NEW r \in Repos, AdminEdits(r) PROVE TypeOK'
  BY <1>8, ConstantsAssumption DEF AdminEdits
<1>9. CASE UNCHANGED vars
  BY <1>9 DEF vars
<1> QED
  BY <1>1, <1>2, <1>3, <1>5, <1>6, <1>7, <1>8, <1>9 DEF Next

\* The state stays in its types, for every file and every set of invocations.
THEOREM TypeCorrect == Spec => []TypeOK
<1> QED
  BY InitTypes, StepTypes, PTL DEF Spec

-----------------------------------------------------------------------------
(* Fine is kept.                                                           *)

\* A step that leaves an invocation's own state alone and adds to touched[v]
\* every repository it writes keeps what v may rely on.
LEMMA OthersKeepFine ==
  ASSUME TypeOK, NEW v \in Invocations, Fine(v),
         pc'[v] = pc[v], at'[v] = at[v], read'[v] = read[v],
         problems'[v] = problems[v],
         touched[v] \subseteq touched'[v],
         \A r \in Repos : r \in touched'[v] \/ live'[r] = live[r]
  PROVE  Fine(v)'
<1>1. ASSUME pc[v] \in {"get", "put"} PROVE Repo(v) \in Repos /\ Repo(v)' = Repo(v)
  BY <1>1, Positions DEF TypeOK, Active, Repo
<1>2. ASSUME NEW i \in 1 .. at[v] - 1 PROVE Order[i] \in Repos
  BY Positions DEF TypeOK
<1>3. FineRead(v)'
  BY <1>1 DEF Fine, FineRead, Wanted, Required
<1>4. FineApplied(v)'
  BY <1>2 DEF Fine, FineApplied, Required
<1>5. FineLive(v)'
  BY <1>2 DEF Fine, FineLive, Protects, Required
<1>6. FineEnd(v)'
  BY DEF Fine, FineEnd
<1> QED
  BY <1>3, <1>4, <1>5, <1>6 DEF Fine

\* Where an invocation goes when it moves on to the next repository.
LEMMA AdvanceFine ==
  ASSUME TypeOK, NEW u \in Invocations, pc[u] \in Active, FineEnd(u),
         NEW problem \in BOOLEAN, Advance(u, problem),
         FineApplied(u), FineLive(u),
         ModeOf[u] = "--apply" => Required(live'[Repo(u)]) = Wanted(u),
         ModeOf[u] = "--live" =>
            problem \/ (live'[Repo(u)].copies = 1 /\ Protects(live'[Repo(u)], Wanted(u)))
                    \/ Repo(u) \in touched'[u],
         \A i \in 1 .. at[u] - 1 :
            live'[Order[i]] = live[Order[i]] /\ (Order[i] \in touched[u] => Order[i] \in touched'[u])
  PROVE  Fine(u)'
<1>1. at'[u] = at[u] + 1 /\ at[u] \in 1 .. Len(Order)
  BY Positions DEF TypeOK, Advance, Active
<1>2. problems'[u] = (problems[u] \/ problem)
  BY DEF TypeOK, Advance
<1>3. pc'[u] = IF at[u] < Len(Order) THEN "list"
               ELSE IF problems[u] \/ problem THEN "failed" ELSE "ok"
  BY DEF TypeOK, Advance
<1>4. \A i \in 1 .. at'[u] - 1 : i = at[u] \/ i \in 1 .. at[u] - 1
  BY <1>1
<1>5. FineRead(u)'
  BY <1>3 DEF FineRead
<1>6. FineApplied(u)'
  BY <1>4 DEF FineApplied, Repo, Wanted, Required
<1>7. FineLive(u)'
  <2> SUFFICES ASSUME ModeOf[u] = "--live", NEW i \in 1 .. at'[u] - 1
               PROVE  \/ problems'[u]
                      \/ Order[i] \in touched'[u]
                      \/ /\ live'[Order[i]].copies = 1
                         /\ Protects(live'[Order[i]], WantedBy[u][Order[i]])
    BY DEF FineLive, Protects, Required
  <2>1. CASE i = at[u]
    BY <1>2, <2>1 DEF Repo, Wanted
  <2>2. CASE i \in 1 .. at[u] - 1
    <3>1. \/ problems[u]
          \/ Order[i] \in touched[u]
          \/ live[Order[i]].copies = 1 /\ Protects(live[Order[i]], WantedBy[u][Order[i]])
      BY <2>2 DEF FineLive
    <3>2. live'[Order[i]] = live[Order[i]] /\ (Order[i] \in touched[u] => Order[i] \in touched'[u])
      BY <2>2
    <3>3. problems[u] => problems'[u]
      BY <1>2
    <3>4. CASE live[Order[i]].copies = 1 /\ Protects(live[Order[i]], WantedBy[u][Order[i]])
      BY <3>2, <3>4 DEF Protects, Required
    <3> QED
      BY <3>1, <3>2, <3>3, <3>4
  <2> QED
    BY <1>4, <2>1, <2>2
<1>8. FineEnd(u)'
  BY <1>1, <1>2, <1>3, Positions DEF FineEnd
<1> QED
  BY <1>5, <1>6, <1>7, <1>8 DEF Fine

\* A stop, or a step to the next call on the same repository.
LEMMA GotoFine ==
  ASSUME TypeOK, NEW u \in Invocations, Fine(u), NEW ruleset \in Rulesets,
         NEW location \in Locations \ {"ok"}, Goto(u, location, ruleset),
         \A i \in 1 .. at[u] - 1 :
            live'[Order[i]] = live[Order[i]] /\ (Order[i] \in touched[u] => Order[i] \in touched'[u]),
         location \in {"get", "put"} => live'[Repo(u)].copies = 1 \/ Repo(u) \in touched'[u],
         location = "put" =>
            /\ ModeOf[u] = "--apply" /\ ruleset.hasRule
            /\ ruleset = live'[Repo(u)] /\ Required(live'[Repo(u)]) # Wanted(u)
  PROVE  Fine(u)'
<1>1. pc'[u] = location /\ read'[u] = ruleset /\ at' = at /\ problems' = problems
  BY DEF TypeOK, Goto
<1>2. FineRead(u)'
  BY <1>1 DEF FineRead, Repo, Wanted, Required
<1>3. FineApplied(u)'
  BY <1>1 DEF Fine, FineApplied, Required
<1>4. FineLive(u)'
  BY <1>1 DEF Fine, FineLive, Protects, Required
<1>5. FineEnd(u)'
  BY <1>1 DEF FineEnd
<1> QED
  BY <1>2, <1>3, <1>4, <1>5 DEF Fine

\* The repositories behind an invocation are not the one it works on.
LEMMA Behind ==
  ASSUME TypeOK, NEW u \in Invocations, pc[u] \in Active
  PROVE  /\ Repo(u) \in Repos
         /\ \A i \in 1 .. at[u] - 1 : Order[i] \in Repos /\ Order[i] # Repo(u)
  BY Positions DEF TypeOK, Repo

LEMMA StepFine == IInv /\ [Next]_vars => \A v \in Invocations : Fine(v)'
<1> SUFFICES ASSUME TypeOK, \A u \in Invocations : Fine(u), [Next]_vars,
                    NEW v \in Invocations
             PROVE  Fine(v)'
  BY DEF IInv
<1>0. Fine(v)
  OBVIOUS
<1>1. ASSUME NEW u \in Invocations, Start(u) PROVE Fine(v)'
  <2>1. CASE u = v
    BY <1>0, <1>1, <2>1, GotoFine, NothingType DEF Start, Locations, Active
  <2>2. CASE u # v
    BY <1>0, <1>1, <2>2, OthersKeepFine DEF Start, Goto, TypeOK
  <2> QED
    BY <2>1, <2>2
<1>2. ASSUME NEW u \in Invocations, List(u) PROVE Fine(v)'
  <2>1. CASE u = v
    <3>1. pc[v] \in Active
      BY <1>2, <2>1 DEF List, Active
    <3>2. \A i \in 1 .. at[v] - 1 :
             live'[Order[i]] = live[Order[i]] /\ (Order[i] \in touched[v] => Order[i] \in touched'[v])
      BY <1>2, <2>1, <3>1, Behind DEF List, TypeOK
    <3>3. CASE live[Repo(v)].copies = 1
      BY <1>0, <1>2, <2>1, <3>2, <3>3, GotoFine, NothingType DEF List, Locations, Active
    <3>4. CASE live[Repo(v)].copies # 1 /\ ModeOf[v] = "--live"
      BY <1>0, <1>2, <2>1, <3>1, <3>2, <3>4, AdvanceFine DEF List, Fine
    <3>5. CASE live[Repo(v)].copies # 1 /\ ModeOf[v] # "--live"
      BY <1>0, <1>2, <2>1, <3>2, <3>5, GotoFine, NothingType DEF List, Locations, Active
    <3> QED
      BY <3>3, <3>4, <3>5
  <2>2. CASE u # v
    <3>1. pc'[v] = pc[v] /\ at'[v] = at[v] /\ read'[v] = read[v] /\ problems'[v] = problems[v]
      BY <1>2, <2>2 DEF List, Goto, Advance, TypeOK
    <3> QED
      BY <1>0, <1>2, <2>2, <3>1, OthersKeepFine DEF List, TypeOK
  <2> QED
    BY <2>1, <2>2
<1>3. ASSUME NEW u \in Invocations, Get(u) PROVE Fine(v)'
  <2>1. CASE u = v
    <3> DEFINE ruleset == live[Repo(v)]
    <3>1. pc[v] = "get" /\ pc[v] \in Active
      BY <1>3, <2>1 DEF Get, Active
    <3>2. ruleset \in Rulesets
      BY <3>1, Behind DEF TypeOK
    <3>3. live' = live /\ touched' = touched
      BY <1>3 DEF Get
    <3>4. CASE ModeOf[v] = "--apply" /\ Required(ruleset) # Wanted(v) /\ ruleset.hasRule
      <4>1. Goto(v, "put", ruleset)
        BY <1>3, <2>1, <3>4 DEF Get
      <4>2. ruleset.copies = 1 \/ Repo(v) \in touched[v]
        BY <1>0, <3>1 DEF Fine, FineRead
      <4> QED
        BY <1>0, <3>2, <3>3, <3>4, <4>1, <4>2, GotoFine DEF Locations, Active
    <3>5. CASE ModeOf[v] = "--apply" /\ Required(ruleset) # Wanted(v) /\ ~ruleset.hasRule
      <4>1. Goto(v, "failed", Nothing)
        BY <1>3, <2>1, <3>5 DEF Get
      <4> QED
        BY <1>0, <3>3, <4>1, GotoFine, NothingType DEF Locations, Active
    <3>6. CASE ~ (ModeOf[v] = "--apply" /\ Required(ruleset) # Wanted(v))
      <4> DEFINE problem == ModeOf[v] = "--live" /\ ~Protects(ruleset, Wanted(v))
      <4>1. Advance(v, problem)
        BY <1>3, <2>1, <3>6 DEF Get
      <4>2. ruleset.copies = 1 \/ Repo(v) \in touched[v]
        BY <1>0, <3>1 DEF Fine, FineRead
      <4>3. problem \in BOOLEAN
        OBVIOUS
      <4>4. FineApplied(v) /\ FineLive(v) /\ FineEnd(v)
        BY <1>0 DEF Fine
      <4>5. ModeOf[v] = "--live" => problem \/ Protects(ruleset, Wanted(v))
        OBVIOUS
      <4> HIDE DEF problem
      <4> QED
        BY <3>1, <3>3, <3>6, <4>1, <4>2, <4>3, <4>4, <4>5, AdvanceFine
    <3> QED
      BY <3>4, <3>5, <3>6
  <2>2. CASE u # v
    <3>1. pc'[v] = pc[v] /\ at'[v] = at[v] /\ read'[v] = read[v] /\ problems'[v] = problems[v]
      BY <1>3, <2>2 DEF Get, Goto, Advance, TypeOK
    <3> QED
      BY <1>0, <1>3, <3>1, OthersKeepFine DEF Get
  <2> QED
    BY <2>1, <2>2
<1>4. ASSUME NEW u \in Invocations, Write(u)
      PROVE  /\ pc[u] = "put" /\ pc[u] \in Active
             /\ \A r \in Repos : r = Repo(u) \/ live'[r] = live[r]
             /\ touched'[u] = touched[u]
             /\ u # v => touched'[v] = touched[v] \cup {Repo(u)}
             /\ ModeOf[u] = "--apply"
             /\ Required(live'[Repo(u)]) = Wanted(u)
  <2>1. pc[u] = "put" /\ pc[u] \in Active
    BY <1>4 DEF Write, Active
  <2>2. Repo(u) \in Repos
    BY <2>1, Behind
  <2>3. ModeOf[u] = "--apply" /\ read[u].hasRule
    BY <2>1 DEF Fine, FineRead
  <2>4. live[Repo(u)].copies \in {0, 1, 2}
    BY <2>2 DEF TypeOK, Rulesets
  <2>5. live'[Repo(u)] = [Body(u) EXCEPT !.copies = live[Repo(u)].copies]
    BY <1>4, <2>2 DEF Write, TypeOK
  <2>6. Required(live'[Repo(u)]) = Wanted(u)
    <3>0. \A c \in {0, 1, 2} : [Body(u) EXCEPT !.copies = c] =
              [copies |-> c, hasRule |-> read[u].hasRule, checks |-> Wanted(u),
               guards |-> read[u].guards, other |-> read[u].other]
      BY <2>1, BodyType
    <3>1. live'[Repo(u)].hasRule = read[u].hasRule /\ live'[Repo(u)].checks = Wanted(u)
      BY <2>4, <2>5, <3>0
    <3> QED
      BY <2>3, <3>1 DEF Required
  <2>7. \A r \in Repos : r = Repo(u) \/ live'[r] = live[r]
    BY <1>4 DEF Write, TypeOK
  <2> QED
    BY <1>4, <2>1, <2>3, <2>6, <2>7 DEF Write, WroteBy, TypeOK
<1>5. ASSUME NEW u \in Invocations, Put(u) PROVE Fine(v)'
  <2>0. Write(u) /\ Advance(u, FALSE)
    BY <1>5 DEF Put
  <2>1. CASE u = v
    <3>1. FineApplied(v) /\ FineLive(v) /\ FineEnd(v)
      BY <1>0 DEF Fine
    <3>2. \A i \in 1 .. at[v] - 1 :
             live'[Order[i]] = live[Order[i]] /\ (Order[i] \in touched[v] => Order[i] \in touched'[v])
      BY <1>4, <2>0, <2>1, Behind
    <3> QED
      BY <1>4, <2>0, <2>1, <3>1, <3>2, AdvanceFine
  <2>2. CASE u # v
    <3>1. pc'[v] = pc[v] /\ at'[v] = at[v] /\ read'[v] = read[v] /\ problems'[v] = problems[v]
      BY <2>0, <2>2 DEF Advance, TypeOK
    <3> QED
      BY <1>0, <1>4, <2>0, <2>2, <3>1, OthersKeepFine
  <2> QED
    BY <2>1, <2>2
<1>6. ASSUME NEW u \in Invocations, PutAnswerLost(u) PROVE Fine(v)'
  <2>0. Write(u) /\ Goto(u, "failed", Nothing)
    BY <1>6 DEF PutAnswerLost
  <2>1. CASE u = v
    <3>2. \A i \in 1 .. at[v] - 1 :
             live'[Order[i]] = live[Order[i]] /\ (Order[i] \in touched[v] => Order[i] \in touched'[v])
      BY <1>4, <2>0, <2>1, Behind
    <3> QED
      BY <1>0, <2>0, <2>1, <3>2, GotoFine, NothingType DEF Locations, Active
  <2>2. CASE u # v
    <3>1. pc'[v] = pc[v] /\ at'[v] = at[v] /\ read'[v] = read[v] /\ problems'[v] = problems[v]
      BY <2>0, <2>2 DEF Goto, TypeOK
    <3> QED
      BY <1>0, <1>4, <2>0, <2>2, <3>1, OthersKeepFine
  <2> QED
    BY <2>1, <2>2
<1>7. ASSUME NEW u \in Invocations, CallFails(u) PROVE Fine(v)'
  <2>1. CASE u = v
    BY <1>0, <1>7, <2>1, GotoFine, NothingType DEF CallFails, Locations, Active
  <2>2. CASE u # v
    BY <1>0, <1>7, <2>2, OthersKeepFine DEF CallFails, Goto, TypeOK
  <2> QED
    BY <2>1, <2>2
<1>8. ASSUME NEW r \in Repos, AdminEdits(r) PROVE Fine(v)'
  <2>1. \A s \in Repos : s \in touched'[v] \/ live'[s] = live[s]
    BY <1>8 DEF AdminEdits, TypeOK
  <2> QED
    BY <1>0, <1>8, <2>1, OthersKeepFine DEF AdminEdits, TypeOK
<1>9. CASE UNCHANGED vars
  BY <1>0, <1>9, OthersKeepFine DEF vars
<1> QED
  BY <1>1, <1>2, <1>3, <1>5, <1>6, <1>7, <1>8, <1>9 DEF Next

LEMMA Invariance == Spec => []IInv
<1>1. Init => IInv
  <2> SUFFICES ASSUME Init PROVE IInv
    OBVIOUS
  <2>1. \A u \in Invocations : pc[u] = "idle" /\ at[u] = 1
    BY DEF Init
  <2> QED
    BY <2>1, InitTypes DEF Init, IInv, Fine, FineRead, FineApplied, FineLive, FineEnd
<1>2. IInv /\ [Next]_vars => IInv'
  BY StepTypes, StepFine DEF IInv
<1> QED
  BY <1>1, <1>2, PTL DEF Spec

-----------------------------------------------------------------------------
\* An --apply that got past a repository left exactly the file's checks there,
\* unless somebody else has written the repository since (run, :92-130).
THEOREM AppliedHolds == Spec => []AppliedSoFar
<1>1. IInv => AppliedSoFar
  BY DEF IInv, Fine, FineApplied, AppliedSoFar
<1> QED
  BY <1>1, Invariance, PTL

\* A --live that passes tells the truth about every repository nobody wrote
\* meanwhile, although it reads them one after the other.
THEOREM LiveTellsTheTruth == Spec => []LiveIsTrue
<1>1. IInv => LiveIsTrue
  <2> SUFFICES ASSUME IInv, NEW u \in Invocations, ModeOf[u] = "--live", pc[u] = "ok",
                      NEW r \in Repos \ touched[u]
               PROVE  live[r].copies = 1 /\ Protects(live[r], WantedBy[u][r])
    BY DEF LiveIsTrue
  <2>1. at[u] = Len(Order) + 1 /\ ~problems[u]
    BY DEF IInv, Fine, FineEnd
  <2>2. PICK i \in 1 .. Len(Order) : r = Order[i]
    BY Positions
  <2>3. i \in 1 .. at[u] - 1
    BY <2>1, Positions
  <2> QED
    BY <2>1, <2>2, <2>3 DEF IInv, Fine, FineLive
<1> QED
  BY <1>1, Invariance, PTL

\* Whatever overlaps, a write to a ruleset nobody else wrote since the GET
\* changes its list of checks and nothing else, and only where they differ.
THEOREM WritesAreMinimal == Spec => MinimalWrite
<1> DEFINE Minimal ==
      \A u \in Invocations : Write(u) /\ Repo(u) \notin touched[u] =>
        /\ Required(live[Repo(u)]) # Wanted(u)
        /\ live'[Repo(u)] = [live[Repo(u)] EXCEPT !.checks = Wanted(u)]
<1>1. IInv => Minimal
  <2> SUFFICES ASSUME IInv, NEW u \in Invocations, Write(u), Repo(u) \notin touched[u]
               PROVE  /\ Required(live[Repo(u)]) # Wanted(u)
                      /\ live'[Repo(u)] = [live[Repo(u)] EXCEPT !.checks = Wanted(u)]
    OBVIOUS
  <2>1. TypeOK /\ pc[u] = "put" /\ pc[u] \in Active
    BY DEF IInv, Write, Active
  <2>2. read[u] = live[Repo(u)] /\ Required(live[Repo(u)]) # Wanted(u)
    BY <2>1 DEF IInv, Fine, FineRead
  <2>3. Repo(u) \in Repos
    BY <2>1, Behind
  <2>4. live[Repo(u)] \in Rulesets
    BY <2>1, <2>3 DEF TypeOK
  <2>5. live'[Repo(u)] = [Body(u) EXCEPT !.copies = live[Repo(u)].copies]
    BY <2>1, <2>3 DEF Write, TypeOK
  <2>6. [Body(u) EXCEPT !.copies = live[Repo(u)].copies]
          = [live[Repo(u)] EXCEPT !.checks = Wanted(u)]
    BY <2>2, <2>4 DEF Body, Rulesets
  <2> QED
    BY <2>2, <2>5, <2>6
<1>2. MinimalWrite <=> [][Minimal]_vars
  BY DEF MinimalWrite
<1> HIDE DEF Minimal
<1>3. IInv /\ [Next]_vars => [Minimal]_vars
  BY <1>1
<1> QED
  BY <1>2, <1>3, Invariance, PTL DEF Spec
=============================================================================
