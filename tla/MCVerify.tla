------------------------------ MODULE MCVerify ------------------------------
(* Instances of Verify for TLC.                                            *)
EXTENDS Verify, TLC

CONSTANTS b1, b2

users == <<"app", "users">>
log == <<"app", "log">>

\* users was counted; the rows of log were estimated, two off.
Base ==
    [engine |-> "postgres", object |-> "intact", globals |-> "none", headsum |-> FALSE,
     encrypted |-> TRUE, keys |-> {"right"}, older |-> FALSE, several |-> FALSE,
     backups |-> {b1}, levels |-> {"restore"}, age |-> 1,
     tables |-> <<[name |-> log, rows |-> 10, exact |-> FALSE], [name |-> users, rows |-> 3, exact |-> TRUE]>>,
     rows |-> (users :> 3 @@ log :> 12),
     assertions |-> {[type |-> "row_count", names |-> {}, tolerance |-> Unset]},
     faults |-> 0, cancels |-> 0, crashes |-> 0, collects |-> 0]

All == {[type |-> "table_count"], [type |-> "row_count", names |-> {<<"users">>, log}, tolerance |-> 20],
        [type |-> "max_age", maxAge |-> 1], [type |-> "query", table |-> users, expect |-> 3]}

Engines(s) == {s, [s EXCEPT !.engine = "mongodb"]}

\* Every flaw at every level with every key, one call failing.
Flawed ==
    { [Base EXCEPT !.object = o, !.globals = g, !.encrypted = e, !.levels = Levels, !.keys = k,
                   !.faults = 1, !.headsum = (g # "none"), !.assertions = All] :
        o \in {"intact", "missing", "short", "flipped", "unsound", "lossy", "emptied"},
        g \in {"none", "missing"}, e \in BOOLEAN, k \in {{"none"}, {"wrong"}, {"right"}} }

\* Two verifications of one backup, cancelled or crashed, with a collection.
Crowded ==
    UNION { Engines([Base EXCEPT !.object = o, !.cancels = c, !.crashes = 1 - c, !.collects = 1]) :
                o \in {"intact", "emptied"}, c \in {0, 1} }

\* Two backups, a failing call, a crash and a collection.
Left == Engines([Base EXCEPT !.backups = {b1, b2}, !.faults = 1, !.crashes = 1, !.collects = 1])

\* A staging server that cannot take the backup.
Refusing ==
    { [Base EXCEPT !.older = TRUE], [Base EXCEPT !.engine = "mongodb", !.several = TRUE],
      [Base EXCEPT !.engine = "mongodb", !.assertions = {}, !.cancels = 1] }

MCScenes == Flawed \cup Crowded \cup Left \cup Refusing
=============================================================================
