------------------------------ MODULE Restores ------------------------------
(***************************************************************************)
(* The engines' restorers (internal/engine/*/restore.go): what IsEmpty     *)
(* looks at, which client Restore runs, and where that client writes.  A   *)
(* server's data says what each of its databases holds.                    *)
(***************************************************************************)
EXTENDS Doctor

\* A connection gets to a server of the engine's family, or fails.
Reaches(engine, conn) == ServerOf(conn).up /\ Family(ServerOf(conn).flavor) = Family(engine)

DatabaseOf(conn) == Conns[conn].database

-----------------------------------------------------------------------------
(* What IsEmpty looks at.                                                  *)

IsEmptyPostgres(conn) == ServerOf(conn).data[DatabaseOf(conn)] = {}

IsEmptyMySQL(conn) == ServerOf(conn).data[DatabaseOf(conn)] = {}

\* The database of the URI, or all of the deployment's.
IsEmptyMongo(conn) ==
    LET data == ServerOf(conn).data
    IN  \A d \in (IF DatabaseOf(conn) # "" THEN {DatabaseOf(conn)} ELSE DOMAIN data) : data[d] = {}

DestinationEmpty(engine, conn) ==
    CASE Family(engine) = "postgres" -> IsEmptyPostgres(conn)
      [] Family(engine) = "mysql" -> IsEmptyMySQL(conn)
      [] Family(engine) = "mongodb" -> IsEmptyMongo(conn)

-----------------------------------------------------------------------------
(* Restore: what it may come to, as its result, what the client wrote      *)
(* where, and whether it failed half way by itself.                        *)

Outcome(result, databases, what, hit) ==
    [result |-> result, databases |-> databases, what |-> what, hit |-> hit]

NotStarted == {Outcome("client", {}, "", 0)}

\* The version of the server decides which pg_restore will do.  It applies all
\* of the archive or nothing, and without --clean it stops at what is there.
RestorePostgres(conn, clean) ==
    IF \/ ~ServerOf(conn).up
       \/ resolveBinary(world.host, "pg_restore", Major(ServerOf(conn).version)) = None
    THEN NotStarted
    ELSE {Outcome("restored", {DatabaseOf(conn)}, "backup", 0),
          Outcome("apply", {}, "", IF ~clean /\ ~IsEmptyPostgres(conn) THEN 0 ELSE 1)}

restoreClientNames(flavor) == IF flavor = "mariadb" THEN <<"mariadb", "mysql">> ELSE <<"mysql">>

resolveRestoreClient(flavor) == resolveClient(world.host, restoreClientNames(flavor), flavor)

\* The client connects by itself, and what it applied before it failed stays.
RestoreMySQL(conn, engine) ==
    IF resolveRestoreClient(flavorOf(engine)) = None \/ ~ServerOf(conn).up THEN NotStarted
    ELSE {Outcome("restored", {DatabaseOf(conn)}, "backup", 0),
          Outcome("apply", {DatabaseOf(conn)}, "part of it", 1)}

resolveMongorestore == OnPath(world.host, "mongorestore")

\* The collections go to the databases they came from, whatever the URI names.
RestoreMongo(conn, databases) ==
    IF resolveMongorestore = None \/ ~ServerOf(conn).up THEN NotStarted
    ELSE {Outcome("restored", databases, "backup", 0), Outcome("apply", databases, "part of it", 1)}

Write(conn, outcome) ==
    world' = [world EXCEPT !.servers[Conns[conn].host].data =
                 [d \in DOMAIN @ |-> IF d \in outcome.databases THEN @[d] \cup {outcome.what} ELSE @[d]]]
=============================================================================
