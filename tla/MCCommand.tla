----------------------------- MODULE MCCommand ------------------------------
(* Instances of Command for TLC: files, worlds and the commands run in      *)
(* them.                                                                    *)
EXTENDS Command

\* A reference of each kind: to a variable that is set, to one that is set
\* to nothing, to one that is not set, with a fallback, to a file, to none.
AllReferences ==
    LET var(name, fallback) == [file |-> None, name |-> name, fallback |-> fallback]
        path(p) == [file |-> p, name |-> "", fallback |-> None]
    IN  "${MODE}" :> var("MODE", None) @@ "${BLANK}" :> var("BLANK", None)
        @@ "${BLANK:-none}" :> var("BLANK", "none") @@ "${UNSET}" :> var("UNSET", None)
        @@ "${UNSET:-age}" :> var("UNSET", "age") @@ "${}" :> var("", None)
        @@ "${file:/key}" :> path("/key") @@ "${file:/lost}" :> path("/lost")

MCNames == {"app", "other", "offsite", "spare"}
MCIdents == {"vaultd_"}
MCCrons == {"0 2 * * *"}
MCRecipients == {"age1a", "age1b"}
MCGlobs == {"*_log"}
MCURLs == "https://hook" :> [scheme |-> "https", host |-> "hook"]
          @@ "ftp://hook" :> [scheme |-> "ftp", host |-> "hook"]
MCAddresses == {":8080"}

\* Parts of 2, 2, 4 and 4 chunks hold twelve; the object has one chunk more
\* than the dump: less than a part, one part, a short third one, the last
\* one full, and one chunk too many.
MCSizes == {0, 1, 6, 11, 12}

AllConns ==
    LET to(family, host, database) == [family |-> family, host |-> host, database |-> database]
    IN  "pg://main/app" :> to("postgres", "pg", "app") @@ "pg://main" :> to("postgres", "pg", "")
        @@ "pg://main/new" :> to("postgres", "pg", "new") @@ "pg://stage/new" :> to("postgres", "stage", "new")
        @@ "my://main/app" :> to("mysql", "my", "app") @@ "my://main/new" :> to("mysql", "my", "new")
        @@ "ma://main/app" :> to("mysql", "ma", "app") @@ "ma://main/new" :> to("mysql", "ma", "new")
        @@ "mongodb://main/app" :> to("mongodb", "mo", "app") @@ "mongodb://main" :> to("mongodb", "mo", "")
        @@ "mongodb://main/new" :> to("mongodb", "mo", "new") @@ "mongodb://copy" :> to("mongodb", "copy", "")

-----------------------------------------------------------------------------
(* Files.                                                                   *)

Age == [mode |-> "age", recipients |-> <<"age1a", "age1b">>, passphrase |-> ""]
Pass == [mode |-> "passphrase", recipients |-> <<>>, passphrase |-> "${file:/key}"]
Clear == [mode |-> "none", recipients |-> <<>>, passphrase |-> ""]

Tier(keep, on) == [keep |-> keep, on |-> on]
Policy == [hourly |-> None, daily |-> Tier(7, 0), weekly |-> None, monthly |-> None, yearly |-> None,
           minKeep |-> 0]

Check(type) == [type |-> type, tolerance |-> None, sql |-> "", expect |-> None, value |-> None]
Proof(level, into) == [level |-> level, schedule |-> "", into |-> into, assertions |-> <<>>]

Target(engine, dsn, uri) ==
    [name |-> "app", engine |-> engine, dsn |-> dsn, uri |-> uri, destination |-> "offsite",
     schedule |-> "0 2 * * *",
     options |-> [excludeTableData |-> <<>>, includeGlobals |-> None, onNonInnoDB |-> "", oplog |-> None],
     verify |-> None, compression |-> None, encryption |-> None, retention |-> None, timeout |-> None,
     notify |-> None, spool |-> "", onOverlap |-> "", rowEstimate |-> ""]

Postgres == Target("postgres", "pg://main/app", "")
MySQL == Target("mysql", "my://main/app", "")
MariaDB == Target("mariadb", "ma://main/app", "")
Mongo(uri) == Target("mongodb", "", uri)

Doc(target) ==
    [version |-> 1,
     defaults |-> [compression |-> None, encryption |-> Age, retention |-> None, timeout |-> None,
                   notify |-> <<>>, spool |-> "", onOverlap |-> "", rowEstimate |-> ""],
     destinations |-> <<[name |-> "offsite", provider |-> "s3", bucket |-> "b", endpoint |-> "",
                         region |-> "r", accessKeyID |-> "", secretAccessKey |-> ""]>>,
     targets |-> <<target>>,
     verifyTargets |-> <<[name |-> "stage", engine |-> "postgres", dsn |-> "pg://stage/new", uri |-> "",
                          databasePrefix |-> "vaultd_", maxConcurrent |-> 0]>>,
     notifiers |-> <<[name |-> "ops", type |-> "", url |-> "https://hook", template |-> "",
                      events |-> <<"backup.failed">>, dedupWindow |-> None]>>,
     server |-> [listen |-> "", ui |-> FALSE, metrics |-> FALSE, auth |-> [mode |-> "", token |-> ""]]]

Base == Doc(Postgres)
NoDoc == [state |-> "absent", doc |-> None]
Garbled == [state |-> "garbled", doc |-> None]
File(doc) == [state |-> "document", doc |-> doc]

\* One change to a file at a time: first those that leave it valid.
Documents ==
    <<Base,
      [Base EXCEPT !.targets[1].spool = "disk"],
      [Base EXCEPT !.targets[1].dsn = "pg://main"],
      [Base EXCEPT !.targets[1].dsn = "not a connection"],
      [Base EXCEPT !.targets[1].options.includeGlobals = TRUE],
      [Base EXCEPT !.targets[1].options.excludeTableData = <<"*_log">>],
      [Base EXCEPT !.targets[1].verify = Proof("", "")],
      [Base EXCEPT !.targets[1].verify = Proof("restore", "stage")],
      [Base EXCEPT !.targets[1].verify = [Proof("restore", "stage") EXCEPT !.assertions =
                     <<[Check("row_count") EXCEPT !.tolerance = 5], Check("table_count"),
                       [Check("query") EXCEPT !.sql = "SELECT 1", !.expect = "1"],
                       [Check("max_age") EXCEPT !.value = 1]>>]],
      [Base EXCEPT !.targets[1].retention = Policy],
      [Base EXCEPT !.defaults.retention = [Policy EXCEPT !.monthly = Tier(1, 0), !.weekly = Tier(1, 6)]],
      [Base EXCEPT !.targets[1].retention = [Policy EXCEPT !.daily = None, !.minKeep = -1]],
      [Base EXCEPT !.targets[1].notify = <<"ops">>],
      [Base EXCEPT !.defaults.notify = <<"ops">>, !.targets[1].notify = <<>>],
      [Base EXCEPT !.destinations[1].provider = "r2", !.destinations[1].region = "",
                   !.destinations[1].endpoint = "https://hook"],
      [Base EXCEPT !.server.ui = TRUE, !.server.auth.token = "${file:/key}"],
      \* and then those that do not.
      [Base EXCEPT !.version = 2],
      [Base EXCEPT !.destinations = <<>>],
      [Base EXCEPT !.destinations = @ \o @],
      [Base EXCEPT !.destinations[1].bucket = "${BLANK}"],
      [Base EXCEPT !.destinations[1].provider = "minio"],
      [Base EXCEPT !.destinations[1].region = ""],
      [Base EXCEPT !.destinations[1].accessKeyID = "id"],
      [Base EXCEPT !.targets = <<>>],
      [Base EXCEPT !.targets = @ \o @],
      [Base EXCEPT !.targets[1].engine = "oracle"],
      [Base EXCEPT !.targets[1].uri = "mongodb://main"],
      [Base EXCEPT !.targets[1].destination = "spare"],
      [Base EXCEPT !.targets[1].schedule = "at noon"],
      [Base EXCEPT !.defaults.timeout = 0],
      [Base EXCEPT !.targets[1].options.oplog = TRUE],
      [Base EXCEPT !.targets[1].options.onNonInnoDB = "lock"],
      [Base EXCEPT !.targets[1].options.excludeTableData = <<"[">>],
      [Base EXCEPT !.targets[1].verify = Proof("restore", "")],
      [Base EXCEPT !.targets[1].verify = Proof("restore", "nowhere")],
      [Base EXCEPT !.targets[1].verify = Proof("restore", "stage"), !.verifyTargets[1].engine = "mysql",
                   !.verifyTargets[1].dsn = "my://main/new"],
      [Base EXCEPT !.targets[1].verify = [Proof("", "") EXCEPT !.assertions = <<Check("query")>>]],
      [Base EXCEPT !.targets[1].verify = [Proof("", "") EXCEPT !.assertions = <<Check("row_count")>>],
                   !.targets[1].rowEstimate = "off"],
      [Base EXCEPT !.verifyTargets[1].databasePrefix = ""],
      [Base EXCEPT !.verifyTargets[1].maxConcurrent = -1],
      [Base EXCEPT !.targets[1].retention = [Policy EXCEPT !.daily = Tier(0, 0)]],
      [Base EXCEPT !.targets[1].retention = [Policy EXCEPT !.monthly = Tier(1, 29)]],
      [Base EXCEPT !.targets[1].retention = [Policy EXCEPT !.minKeep = -1]],
      [Base EXCEPT !.targets[1].spool = "tape"],
      [Base EXCEPT !.targets[1].notify = <<"dev">>],
      [Base EXCEPT !.notifiers[1].url = "ftp://hook"],
      [Base EXCEPT !.notifiers[1].events = <<"backup.late">>],
      [Base EXCEPT !.server.metrics = TRUE],
      [Base EXCEPT !.targets[1].destination = "${UNSET}", !.destinations[1].name = "${UNSET}"],
      [Base EXCEPT !.targets[1].name = "${}"]>>

\* What a block of the file can be, and what becomes of its references.
Encryptions ==
    <<None, Age, Pass, Clear,
      [Age EXCEPT !.recipients = <<>>], [Age EXCEPT !.recipients = <<"age1a", "junk">>],
      [Pass EXCEPT !.passphrase = "${BLANK}"], [Pass EXCEPT !.passphrase = "${file:/lost}"],
      [Clear EXCEPT !.passphrase = "${file:/key}"],
      [Age EXCEPT !.mode = "${MODE}"], [Clear EXCEPT !.mode = "${BLANK}"],
      [Clear EXCEPT !.mode = "${BLANK:-none}"], [Age EXCEPT !.mode = "${UNSET:-age}"],
      [Clear EXCEPT !.mode = "${UNSET}"], [Clear EXCEPT !.mode = "plain"]>>

Packing(algo, level) == [algo |-> algo, level |-> level]
Compressions ==
    <<None, Packing("", 0), Packing("none", 0), Packing("gzip", 0), Packing("gzip", 10), Packing("zstd", 19),
      Packing("zstd", 20), Packing("lz4", 1)>>

Environment(allowUnset) ==
    [vars |-> "MODE" :> "age" @@ "BLANK" :> "", files |-> "/key" :> "secret", allowUnset |-> allowUnset]

-----------------------------------------------------------------------------
(* Worlds.                                                                  *)

Program(name, dir, flavor, version) == [name |-> name, dir |-> dir, flavor |-> flavor, version |-> version]

PgClients(dir, version) ==
    {Program(n, dir, "postgres", version) : n \in {"pg_dump", "pg_dumpall", "pg_restore"}}
MyClients(version) == {Program(n, 0, "mysql", version) : n \in {"mysqldump", "mysql"}}
MaClients == {Program(n, 0, "mariadb", 110400) : n \in {"mariadb-dump", "mariadb"}}
MoClients == {Program(n, 0, "mongodb", 100900) : n \in {"mongodump", "mongorestore"}}
Host == PgClients(16, 160000) \cup MyClients(80400) \cup MaClients \cup MoClients

Grant(on, privileges) == [on |-> on, privileges |-> privileges]

Server(flavor, version) ==
    [up |-> TRUE, flavor |-> flavor, version |-> version, engines |-> {"innodb"}, logBin |-> TRUE,
     gtid |-> FALSE, grants |-> {Grant("*.*", {"ALL PRIVILEGES"})}, replicaSet |-> TRUE, canCreate |-> TRUE,
     data |-> [d \in {"app", "new"} |-> IF d = "app" THEN {"rows"} ELSE {}]]

Good == [up |-> TRUE, honoursAbsent |-> TRUE, honoursMatch |-> TRUE]

World ==
    [host |-> Host, store |-> Good, webhook |-> TRUE,
     servers |-> [h \in {"pg", "stage", "my", "ma", "mo", "copy"} |->
         CASE h \in {"pg", "stage"} -> Server("postgres", 160000)
           [] h = "my" -> Server("mysql", 80400)
           [] h = "ma" -> Server("mariadb", 110400)
           [] h = "mo" -> Server("mongodb", 70000)
           [] h = "copy" -> [Server("mongodb", 70000) EXCEPT !.data = [d \in DOMAIN @ |-> {}]]]]

Hosts ==
    <<Host, {}, PgClients(17, 170000), PgClients(0, 150000), PgClients(0, 160000),
      PgClients(15, 160000) \cup PgClients(0, 150000), Host \ {Program("pg_dumpall", 16, "postgres", 160000)},
      MyClients(80026), MyClients(80400) \cup MaClients, {Program("mysqldump", 0, "mariadb", 110400)},
      {Program("mysql", 0, "mysql", 80000), Program("mysqldump", 0, "mysql", 80000)}, MoClients>>

\* Servers as they are found: their storage engines, what the account may
\* do, whether there is a binary log, a replica set.
Tables == <<{"innodb"}, {"rocksdb"}, {"innodb", "myisam"}>>
Rights ==
    <<{Grant("*.*", {"RELOAD", "REPLICATION CLIENT"})}, {Grant("*.*", {"FLUSH_TABLES"})},
      {Grant("*.*", {"BINLOG MONITOR"})}, {Grant("app.*", {"ALL PRIVILEGES"})}>>

Binlogs == <<<<TRUE, FALSE>>, <<TRUE, TRUE>>, <<FALSE, FALSE>>>>
Releases == <<<<"mysql", 80020>>, <<"mysql", 80026>>, <<"mysql", 80400>>, <<"mariadb", 110400>>>>
Modes == <<"", "fail", "lock">>

SQLServer(release, tables, rights, binlog) ==
    [Server(release[1], release[2]) EXCEPT !.engines = tables, !.grants = rights,
        !.logBin = binlog[1], !.gtid = binlog[2]]

Oplog(target) == [target EXCEPT !.options.oplog = TRUE]
Globals == [Postgres EXCEPT !.options.includeGlobals = TRUE]

Targets ==
    <<Postgres, Globals, MySQL, MariaDB, Mongo("mongodb://main"), Oplog(Mongo("mongodb://main")),
      Oplog(Mongo("mongodb://main/app"))>>

Down(h) == [World EXCEPT !.servers[h].up = FALSE]
Changes ==
    <<<<[World EXCEPT !.store.up = FALSE]>>,
      <<Down("pg"), World>>, <<Down("stage")>>,
      <<[World EXCEPT !.servers["pg"].version = 170000]>>,
      <<[World EXCEPT !.host = MyClients(80400)]>>,
      <<[World EXCEPT !.servers["stage"].data["new"] = {"rows"}]>>,
      <<[World EXCEPT !.servers["my"].grants = {}]>>,
      <<[World EXCEPT !.servers["my"].engines = {"myisam"}]>>,
      <<[World EXCEPT !.servers["mo"].replicaSet = FALSE]>>>>

\* Where a restore goes: back, beside, to the staging server, somewhere else.
Restores ==
    <<<<Postgres, "pg://main/app">>, <<Postgres, "pg://main/new">>, <<Postgres, "pg://stage/new">>,
      <<Postgres, "my://main/new">>, <<MySQL, "my://main/new">>, <<MySQL, "ma://main/app">>,
      <<MariaDB, "ma://main/new">>, <<Mongo("mongodb://main"), "mongodb://copy">>,
      <<Mongo("mongodb://main/app"), "mongodb://main">>, <<Mongo("mongodb://main"), "mongodb://main/new">>,
      <<Mongo("mongodb://main"), "nowhere">>>>

-----------------------------------------------------------------------------
(* Scenes.  A dump of one chunk is enough where the stream is not the      *)
(* question.                                                               *)

Scene(doc, commands) ==
    [file |-> File(doc), env |-> Environment(FALSE), world |-> World, changes |-> <<>>,
     commands |-> commands, hits |-> 0, faults |-> 0, sizes |-> {1}, to |-> "pg://stage/new",
     force |-> FALSE, clean |-> FALSE, identities |-> {"age1a"}]

Through == <<"validate", "backup", "restore">>
Checked == <<"doctor", "backup">>

Files == <<File(Base), NoDoc, Garbled>>
Identities == <<{}, {"age1b"}, {"age1c"}>>
Stores ==
    <<Good, [Good EXCEPT !.honoursAbsent = FALSE], [Good EXCEPT !.honoursMatch = FALSE],
      [Good EXCEPT !.up = FALSE]>>

\* All the pairs of an element of a and one of b.
Pairs(a, b) ==
    [i \in 1..(Len(a) * Len(b)) |-> <<a[((i - 1) \div Len(b)) + 1], b[((i - 1) % Len(b)) + 1]>>]

EncryptionPairs == Pairs(Pairs(Encryptions, Encryptions), <<FALSE, TRUE>>)
StagePairs == Pairs(Compressions, <<Age, Pass, Clear>>)
HostPairs == Pairs(Hosts, Targets)
ServerPairs == Pairs(Pairs(Releases, Modes), Pairs(Tables, Pairs(Rights, Binlogs)))
ChangePairs == Pairs(Changes, Targets)
\* without a flag, with --force, with --force and --clean
RestorePairs == Pairs(Restores, <<<<FALSE, FALSE>>, <<TRUE, FALSE>>, <<TRUE, TRUE>>>>)

EncryptionScene(p) ==
    [Scene([Base EXCEPT !.targets[1].encryption = p[1][1], !.defaults.encryption = p[1][2]], Through)
     EXCEPT !.env = Environment(p[2])]

ServerScene(p) ==
    LET release == p[1][1]
        target == IF release[1] = "mysql" THEN MySQL ELSE MariaDB
        h == IF release[1] = "mysql" THEN "my" ELSE "ma"
    IN  [Scene(Doc([target EXCEPT !.options.onNonInnoDB = p[1][2]]), Checked)
         EXCEPT !.world.servers[h] = SQLServer(release, p[2][1], p[2][2][1], p[2][2][2])]

RestoreScene(p) ==
    [Scene(Doc(p[1][1]), <<"backup", "restore">>)
     EXCEPT !.to = p[1][2], !.force = p[2][1], !.clean = p[2][2], !.hits = 1,
            !.changes = <<[World EXCEPT !.servers["copy"].data["app"] = {"rows"}]>>]

AllScenes ==
    [i \in DOMAIN Documents |-> Scene(Documents[i], Through)]
    \o [i \in DOMAIN EncryptionPairs |-> EncryptionScene(EncryptionPairs[i])]
    \o [i \in DOMAIN StagePairs |->
          Scene([Base EXCEPT !.targets[1].compression = StagePairs[i][1],
                             !.targets[1].encryption = StagePairs[i][2]], Through)]
    \o [i \in DOMAIN Files |-> [Scene(Base, Through) EXCEPT !.file = Files[i]]]
    \o [i \in DOMAIN Identities |-> [Scene(Base, Through) EXCEPT !.identities = Identities[i]]]
    \o [i \in DOMAIN Stores |-> [Scene(Base, <<"doctor">>) EXCEPT !.world.store = Stores[i], !.hits = 2]]
    \o [i \in DOMAIN HostPairs |->
          [Scene(Doc(HostPairs[i][2]), Checked) EXCEPT !.world.host = HostPairs[i][1]]]
    \o [i \in DOMAIN ServerPairs |-> ServerScene(ServerPairs[i])]
    \o [i \in DOMAIN ChangePairs |->
          [Scene(Doc(ChangePairs[i][2]), <<"doctor", "plan", "backup", "restore">>)
           EXCEPT !.changes = ChangePairs[i][1]]]
    \o [i \in DOMAIN RestorePairs |-> RestoreScene(RestorePairs[i])]
    \o <<[Scene(Base, <<"backup">>) EXCEPT !.faults = 2, !.sizes = MCSizes]>>

\* TLC evaluates what stands for a constant at each use, and a definition once.
MCReferences == AllReferences
MCConns == AllConns
MCScenes == AllScenes
=============================================================================
