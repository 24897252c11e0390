-------------------------------- MODULE App ---------------------------------
(***************************************************************************)
(* How a command turns a configuration into the parts it runs              *)
(* (internal/app).  Each operator is what stops the part from being built, *)
(* "" when nothing does.  App memoizes what it built; a part is a function *)
(* of the configuration, so the model builds it every time.                *)
(***************************************************************************)
EXTENDS Stages

CONSTANT Conns  \* the connection strings that parse: engine family, host, database

\* The first of several steps that fails.
FirstOf(errs) ==
    LET bad == {i \in DOMAIN errs : errs[i] # ""}
    IN  IF bad = {} THEN "" ELSE errs[CHOOSE i \in bad : \A j \in bad : i <= j]

Fails(bad, what) == IF bad THEN what ELSE ""

flavorOf(engine) == IF engine = "mariadb" THEN "mariadb" ELSE "mysql"

Family(engine) == IF engine = "mariadb" THEN "mysql" ELSE engine

Parses(family, conn) == conn \in DOMAIN Conns /\ Conns[conn].family = family

parseDSN(conn) ==
    Fails(~Parses("postgres", conn) \/ Conns[conn].host = "" \/ Conns[conn].database = "", "conn")

parseMySQLDSN(conn) == Fails(~Parses("mysql", conn) \/ Conns[conn].database = "", "conn")

\* A URI that names no database is of the whole deployment.
parseURI(conn) == Fails(~Parses("mongodb", conn) \/ Conns[conn].host = "", "conn")

parseConn(engine, conn) ==
    CASE Family(engine) = "postgres" -> parseDSN(conn)
      [] Family(engine) = "mysql" -> parseMySQLDSN(conn)
      [] Family(engine) = "mongodb" -> parseURI(conn)
      [] OTHER -> "engine"

-----------------------------------------------------------------------------

Store(c, name) ==
    LET d == Lookup(c.destinations, name)
    IN  IF d = None THEN "destination" ELSE Fails(d.bucket = "", "bucket")

Layout(c, t) == Fails(Lookup(c.destinations, t.destination) = None, "destination")

Dumper(t) == parseConn(t.engine, Conn(t))

Restorer(engine, conn) == parseConn(engine, conn)

Notifier(c, t) ==
    FirstOf([i \in DOMAIN t.notify |->
        LET n == Lookup(c.notifiers, t.notify[i])
        IN  IF n = None THEN "notifier" ELSE Fails(n.type \notin {"webhook", ""}, "type")])

IndexOf(c, t) == FirstOf(<<Store(c, t.destination), Layout(c, t)>>)

Runner(c, t) ==
    FirstOf(<<Store(c, t.destination), Dumper(t), Layout(c, t), Notifier(c, t)>>)

\* Spooling is refused where the backup is put together.
BackupSpec(c, t) == FirstOf(<<Layout(c, t), Fails(t.spool = "disk", "spool")>>)

pipelineSpec(t) ==
    LET e == IF t.encryption = None THEN [mode |-> "", recipients |-> <<>>, passphrase |-> ""]
             ELSE t.encryption
    IN  [algo |-> t.compression.algo, level |-> t.compression.level,
         mode |-> e.mode, recipients |-> e.recipients, passphrase |-> e.passphrase]

Provisioner(into) ==
    IF into.engine \notin Engines THEN "engine"
    ELSE FirstOf(<<Fails(into.databasePrefix = "", "prefix"), parseConn(into.engine, Conn(into))>>)

attachSandbox(c, t) ==
    IF t.verify = None \/ t.verify.into = "" THEN "into"
    ELSE LET into == Lookup(c.verifyTargets, t.verify.into)
         IN  IF into = None THEN "into"
             ELSE FirstOf(<<Fails(into.engine # t.engine, "engine"), Provisioner(into)>>)

Verifier(c, t, level) ==
    FirstOf(<<Store(c, t.destination), IndexOf(c, t), Notifier(c, t),
              IF level = "restore" THEN attachSandbox(c, t) ELSE "">>)

\* A target without a policy keeps everything.
RetentionPolicy(t) ==
    LET keep(n) == IF t.retention = None THEN 0 ELSE tierKeep(t.retention, n)
    IN  [keep |-> [n \in TierNames |-> keep(n)],
         minKeep |-> IF t.retention = None THEN 1 ELSE t.retention.minKeep]

Pruner(c, t) == FirstOf(<<Store(c, t.destination), IndexOf(c, t), Notifier(c, t)>>)
=============================================================================
