------------------------------- MODULE Dumper -------------------------------
(***************************************************************************)
(* The engines' dumpers (internal/engine/postgres, mysql, mongodb): what   *)
(* Probe finds out, which client it settles on, which options Dump then    *)
(* gives that client, and the consistency it says the dump has.            *)
(*                                                                         *)
(* A host is the set of client programs installed on it, each in one of    *)
(* postgres' versioned directories or on the PATH (directory 0).  A server *)
(* is what the dumper can ask it, its grants included.  Versions are       *)
(* numbers: 80026 is 8.0.26, 160000 is 16.                                 *)
(***************************************************************************)
EXTENDS App

Major(version) == version \div 10000

OnPath(host, name) ==
    LET found == {b \in host : b.name = name /\ b.dir = 0}
    IN  IF found = {} THEN None ELSE CHOOSE b \in found : TRUE

majorSearchRange == 5

\* Mutant: any client will do.
resolveBinaryAny(host, name, major) == OnPath(host, name)

\* pg_dump is at least as new as the server; the directory of the server's
\* own version comes first, then those of newer ones, then the PATH.
resolveBinary(host, name, major) ==
    LET fits(b) == b.name = name /\ Major(b.version) >= major
        dirs == {b \in host : fits(b) /\ b.dir \in major..(major + majorSearchRange)}
        path == OnPath(host, name)
    IN  IF dirs # {} THEN CHOOSE b \in dirs : \A o \in dirs : b.dir <= o.dir
        ELSE IF path # None /\ fits(path) THEN path ELSE None

\* The first of the names whose program is of the server's fork.
resolveClient(host, names, flavor) ==
    LET fits == {i \in DOMAIN names : /\ OnPath(host, names[i]) # None
                                      /\ OnPath(host, names[i]).flavor = flavor}
    IN  IF fits = {} THEN None
        ELSE OnPath(host, names[CHOOSE i \in fits : \A j \in fits : i <= j])

clientNames(flavor) == IF flavor = "mariadb" THEN <<"mariadb-dump", "mysqldump">> ELSE <<"mysqldump">>

-----------------------------------------------------------------------------
(* The options.                                                            *)

transactionalEngines == {"innodb", "rocksdb"}

OnNonInnoDB(t) == Or(t.options.onNonInnoDB, "", "warn")

\* Mutant: a grant counts whatever it is on.
parseGrantsAnywhere(grants) ==
    LET has(privileges) == \E g \in grants : g.privileges \cap privileges # {}
    IN  [canFlush |-> has({"ALL PRIVILEGES", "SUPER", "RELOAD", "FLUSH_TABLES"}),
         canReadPosition |-> has({"ALL PRIVILEGES", "SUPER", "REPLICATION CLIENT", "BINLOG MONITOR"})]

\* What SHOW GRANTS says of the server as a whole: all of a database is none
\* of that.
parseGrants(grants) ==
    LET has(privileges) == \E g \in grants : g.on = "*.*" /\ g.privileges \cap privileges # {}
    IN  [canFlush |-> has({"ALL PRIVILEGES", "SUPER", "RELOAD", "FLUSH_TABLES"}),
         canReadPosition |-> has({"ALL PRIVILEGES", "SUPER", "REPLICATION CLIENT", "BINLOG MONITOR"})]

\* The capabilities of the server, for this account.
inspect(server) ==
    [flavor |-> server.flavor, version |-> server.version, logBin |-> server.logBin,
     gtid |-> server.flavor = "mysql" /\ server.gtid,
     nonInnoDB |-> server.engines \ transactionalEngines, may |-> parseGrants(server.grants)]

\* The server's version decides the spelling.
binlogPositionFlag(caps) ==
    IF caps.flavor = "mysql" /\ caps.version >= 80026 THEN "--source-data" ELSE "--master-data"

dumpArgs(caps, mode) ==
    [args |-> (IF caps.flavor = "mysql" /\ caps.version >= 80000 THEN {"--no-tablespaces"} ELSE {})
              \cup {IF mode = "lock" THEN "--lock-all-tables" ELSE "--single-transaction"}
              \cup (IF caps.logBin /\ caps.may.canFlush /\ caps.may.canReadPosition
                    THEN {binlogPositionFlag(caps)} ELSE {})
              \cup (IF caps.gtid /\ caps.flavor = "mysql" THEN {"--set-gtid-purged"} ELSE {}),
     consistency |-> IF mode = "lock" THEN "locked_tables"
                     ELSE IF caps.nonInnoDB # {} THEN "best_effort" ELSE "single_transaction"]

\* An oplog that cannot be had is done without.
useOplog(t, server) ==
    /\ t.options.oplog # None /\ t.options.oplog
    /\ server.replicaSet /\ Conns[Conn(t)].database = ""

mongoArgs(t, server) ==
    [args |-> (IF useOplog(t, server) THEN {"--oplog"} ELSE {})
              \cup (IF Conns[Conn(t)].database # "" THEN {"--db"} ELSE {}),
     consistency |-> IF useOplog(t, server) THEN "point_in_time" ELSE "best_effort"]

postgresArgs(t) ==
    [args |-> {"--serializable-deferrable"}
              \cup (IF t.options.excludeTableData # <<>> THEN {"--exclude-table-data"} ELSE {}),
     consistency |-> "serializable_snapshot"]

-----------------------------------------------------------------------------
(* Probe: what stops the backup, or the plan that Dump follows.            *)

Plan(err, server, client, how) ==
    [err |-> IF err = "" /\ client = None THEN "client" ELSE err,
     version |-> server.version, client |-> client, how |-> how]

probePostgres(t, server, host) ==
    Plan(Fails(~server.up \/ server.flavor # "postgres", "server"), server,
         resolveBinary(host, "pg_dump", Major(server.version)), postgresArgs(t))

\* What is to be done about tables that have no snapshot.
handleNonInnoDB(caps, mode) == Fails(caps.nonInnoDB # {} /\ mode = "fail", "engines")

probeMySQL(t, server, host) ==
    LET caps == inspect(server)
        mode == OnNonInnoDB(t)
    IN  Plan(FirstOf(<<Fails(~server.up \/ server.flavor \notin {"mysql", "mariadb"}, "server"),
                       Fails(caps.flavor # flavorOf(t.engine), "flavor"),
                       handleNonInnoDB(caps, mode),
                       Fails(mode = "lock" /\ ~caps.may.canFlush, "reload")>>),
             server, resolveClient(host, clientNames(caps.flavor), caps.flavor), dumpArgs(caps, mode))

resolveMongodump(host) == OnPath(host, "mongodump")

probeMongo(t, server, host) ==
    Plan(Fails(~server.up \/ server.flavor # "mongodb", "server"), server,
         resolveMongodump(host), mongoArgs(t, server))

ProbeServer(t, server, host) ==
    CASE t.engine = "postgres" -> probePostgres(t, server, host)
      [] t.engine = "mongodb" -> probeMongo(t, server, host)
      [] OTHER -> probeMySQL(t, server, host)

HasGlobals(t) == t.options.includeGlobals # None /\ t.options.includeGlobals

\* pg_dumpall is looked for when its turn comes, for the server that was probed.
DumpGlobals(plan, host) == resolveBinary(host, "pg_dumpall", Major(plan.version))

-----------------------------------------------------------------------------
(* The clients, as far as the dumpers rely on them.                        *)

\* The options a client knows.  Oracle's mysqldump took the new name of the
\* position option in 8.0.26 and dropped the old one in 8.4.
Understands(client, arg) ==
    CASE arg = "--source-data" -> client.flavor = "mysql" /\ client.version >= 80026
      [] arg = "--master-data" -> client.flavor = "mariadb" \/ client.version < 80400
      [] arg = "--set-gtid-purged" -> client.flavor = "mysql"
      [] OTHER -> TRUE

Flushing == {"RELOAD", "FLUSH_TABLES"}
ReadingPosition == {"REPLICATION CLIENT", "BINLOG MONITOR"}

\* The account may do on the server as a whole what one of these allows.
Granted(server, privileges) ==
    \E g \in server.grants : g.on = "*.*" /\ g.privileges \cap (privileges \cup {"ALL PRIVILEGES", "SUPER"}) # {}

\* What an option asks of the server and of the other options.
Serves(server, args, arg) ==
    CASE arg \in {"--source-data", "--master-data"} ->
           server.logBin /\ Granted(server, Flushing) /\ Granted(server, ReadingPosition)
      [] arg = "--set-gtid-purged" -> server.gtid
      [] arg = "--lock-all-tables" -> Granted(server, Flushing)
      [] arg = "--oplog" -> server.replicaSet /\ "--db" \notin args
      [] OTHER -> TRUE

\* The dump is of one moment.
OneMoment(server, args) ==
    \/ args \cap {"--lock-all-tables", "--serializable-deferrable", "--oplog"} # {}
    \/ "--single-transaction" \in args /\ server.engines \subseteq transactionalEngines

\* A client writes a whole dump only of a server it can represent.
Represents(client, server) ==
    server.flavor = "postgres" => Major(client.version) >= Major(server.version)
=============================================================================
