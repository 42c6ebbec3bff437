------------------------------ MODULE DbScript -------------------------------
(***************************************************************************)
(* scripts/generate-db-script.mjs: db/create-database.sql is what the two  *)
(* services' migrations generate.  Pure operators.  A statement is a model *)
(* value; the lines around the statements are one marker per block.  A     *)
(* line of the script is a tuple that names what it is; <<>> stands for a  *)
(* script that cannot be had.                                              *)
(***************************************************************************)
EXTENDS Naturals, Sequences, FiniteSets, SequencesExt

\* A call of up() is readable when it is written as one template literal.  The
\* generator passes over a file of another `kind` than "ts"; `layout` says
\* whether up() stands before down().
UpCall == [sql : STRING, readable : BOOLEAN]
Migration == [file : STRING, stamp : Nat, kind : {"ts", "other"},
              layout : {"up-first", "down-first"}, calls : Seq(UpCall)]

SERVICES == <<"processing-catalog", "notification-service">>
Failure == <<>>

Statements(calls) == [i \in DOMAIN calls |-> <<"sql", calls[i].sql>>]

\* Mutant: a call the pattern cannot read is left out.
ExtractUpStatementsDrops(m) ==
  Statements(SelectSeq(m.calls, LAMBDA c : c.readable))

\* The statements of up(), in order; an up() that is missing, stands after
\* down(), holds no statement or one the pattern cannot read is an error.
ExtractUpStatements(m) ==
  IF m.layout # "up-first" \/ m.calls = <<>> \/ \E i \in DOMAIN m.calls : ~m.calls[i].readable
  THEN Failure
  ELSE Statements(m.calls)

\* The .ts files of a directory, sorted by name, which begins with the timestamp.
MigrationsFor(dir) ==
  LET run == {m \in dir : m.kind = "ts"}
  IN CHOOSE s \in [1 .. Cardinality(run) -> run] :
       \A i, j \in DOMAIN s : i < j => s[i] # s[j] /\ s[i].stamp <= s[j].stamp

ServiceBlock(service, dir) ==
  LET blocks == [i \in DOMAIN MigrationsFor(dir) |-> ExtractUpStatements(MigrationsFor(dir)[i])]
  IN IF blocks = <<>> \/ \E i \in DOMAIN blocks : blocks[i] = Failure
     THEN Failure
     ELSE <<<<"search_path", service>>>> \o FlattenSeq(blocks)

\* The script: the bootstrap, then every service's statements in its schema.
\* `dirs` maps each service to its migrations; a missing checkout is {}.
Generate(dirs) ==
  LET blocks == [i \in DOMAIN SERVICES |-> ServiceBlock(SERVICES[i], dirs[SERVICES[i]])]
  IN IF \E i \in DOMAIN blocks : blocks[i] = Failure
     THEN Failure
     ELSE <<<<"bootstrap">>>> \o FlattenSeq(blocks) \o <<<<"reset">>>>

\* --check: the committed script must be there and equal what is generated.
DriftProblem(committed, dirs) ==
  Generate(dirs) = Failure \/ committed = Failure \/ committed # Generate(dirs)

-----------------------------------------------------------------------------
(* The reference: what a database that ran the migrations has executed.    *)

\* The schema a line of the script runs in: the last one set before it.
SchemaAt(script, i) ==
  LET set == {k \in 1 .. i : script[k][1] \in {"search_path", "reset"}}
  IN IF set = {} THEN "none" ELSE LET k == CHOOSE k \in set : \A l \in set : l <= k
                                  IN IF script[k][1] = "reset" THEN "none" ELSE script[k][2]

\* In the service's schema the script runs every call of every migration's
\* up(), in the order of the timestamps, and nothing else.
Executes(service, dir, script) ==
  LET run == {m \in dir : m.kind = "ts"}
      own == {i \in DOMAIN script : script[i][1] = "sql" /\ SchemaAt(script, i) = service}
      at(m, c) == {i \in own : script[i][2] = m.calls[c].sql}
      calls == UNION {{<<m, c>> : c \in DOMAIN m.calls} : m \in run}
  IN /\ Cardinality(own) = Cardinality(calls)
     /\ \A p \in calls : at(p[1], p[2]) # {}
     /\ \A p, q \in calls :
          p[1].stamp < q[1].stamp \/ (p[1] = q[1] /\ p[2] < q[2]) =>
            \E a \in at(p[1], p[2]), b \in at(q[1], q[2]) : a < b
=============================================================================
