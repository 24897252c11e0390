----------------------------- MODULE Assertions -----------------------------
(***************************************************************************)
(* The checks of restore verification (internal/verify/assert.go): what    *)
(* came back into the sandbox against what the manifest recorded.          *)
(*                                                                         *)
(* The manifest's tables are a sequence of [name, rows, exact], a restored *)
(* database is a function from names to row counts.  A name is a sequence  *)
(* of one part or two, the schema first.  Tolerances are percentages.      *)
(***************************************************************************)
EXTENDS Integers, Sequences, FiniteSets, Functions

estimateTolerance == 20

\* An assertion that says nothing of tolerance.
Unset == -1

toleranceFor(a, table) ==
    IF a.tolerance # Unset THEN a.tolerance
    ELSE IF table.exact THEN 0 ELSE estimateTolerance

\* Mutant: the drift keeps its sign.
withinSigned(want, got, tolerance) ==
    \/ want = got
    \/ tolerance > 0 /\ 100 * (got - want) <= tolerance * want

withinTolerance(want, got, tolerance) ==
    \/ want = got
    \/ /\ tolerance > 0
       /\ 100 * (IF got > want THEN got - want ELSE want - got) <= tolerance * want

hasRowCounts(tables) == \E i \in DOMAIN tables : tables[i].exact \/ tables[i].rows > 0

unqualified(name) == <<name[Len(name)]>>

\* The tables an assertion names, the first match for each, or all of them.
selectTables(tables, names) ==
    IF names = {} THEN Range(tables)
    ELSE LET Matches(n) == {i \in DOMAIN tables :
                                n \in {tables[i].name, unqualified(tables[i].name)}}
         IN {tables[CHOOSE i \in Matches(n) : \A j \in Matches(n) : i <= j] :
                n \in {m \in names : Matches(m) # {}}}

Missing(tables, names) ==
    {n \in names : \A i \in DOMAIN tables : n \notin {tables[i].name, unqualified(tables[i].name)}}

\* Counting a table that is not there is an error in SQL and zero in MongoDB.
rowCountChecks(sql, db, tables, a) ==
    /\ hasRowCounts(tables) /\ Missing(tables, a.names) = {}
    /\ \A t \in selectTables(tables, a.names) :
        /\ sql => t.name \in DOMAIN db
        /\ withinTolerance(t.rows, IF t.name \in DOMAIN db THEN db[t.name] ELSE 0,
                           toleranceFor(a, t))

tableCountCheck(db, tables) == Cardinality(DOMAIN db) = Len(tables)

\* The queries considered count the rows of a table.
queryCheck(sql, db, a) == sql /\ a.table \in DOMAIN db /\ db[a.table] = a.expect

maxAgeCheck(age, a) == age <= a.maxAge

\* Every assertion is run; one that fails fails the backup.
runAssertions(sql, db, tables, age, assertions) ==
    \A a \in assertions :
        CASE a.type = "table_count" -> tableCountCheck(db, tables)
          [] a.type = "row_count"   -> rowCountChecks(sql, db, tables, a)
          [] a.type = "query"       -> queryCheck(sql, db, a)
          [] a.type = "max_age"     -> maxAgeCheck(age, a)
=============================================================================
