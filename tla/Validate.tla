------------------------------ MODULE Validate ------------------------------
(***************************************************************************)
(* What is wrong with a configuration (internal/config/validate.go), and   *)
(* the loading of one (load.go).  Each check is the set of the fields it   *)
(* complains about.                                                        *)
(***************************************************************************)
EXTENDS Config

Err(bad, field) == IF bad THEN {field} ELSE {}

\* All the errors of a list, whose elements are checked one by one.
ErrEach(list, Op(_)) == UNION {Op(i) : i \in DOMAIN list}

\* A name that is empty or that an earlier element has.
Taken(list, i) == list[i].name = "" \/ \E j \in 1..(i - 1) : list[j].name = list[i].name

\* The first element of that name.
Lookup(list, name) ==
    LET found == {i \in DOMAIN list : list[i].name = name}
    IN  IF found = {} THEN None ELSE list[CHOOSE i \in found : \A j \in found : i <= j]

Conn(t) == IF t.engine = "mongodb" THEN t.uri ELSE t.dsn

-----------------------------------------------------------------------------

validateVersion(c) == Err(c.version # 1, "version")

HttpURL(s) == s \in DOMAIN URLs /\ URLs[s].scheme \in {"http", "https"} /\ URLs[s].host # ""

validateDestination(c, i) ==
    LET d == c.destinations[i]
    IN  Err(Taken(c.destinations, i) \/ d.name \notin Names, "destination.name")
        \cup Err(d.provider \notin {"s3", "r2", "minio", "gcs-interop"}, "destination.provider")
        \cup Err(d.bucket = "", "destination.bucket")
        \cup Err(d.provider \in {"r2", "minio", "gcs-interop"} /\ d.endpoint = "", "destination.endpoint")
        \cup Err(d.provider = "s3" /\ d.region = "", "destination.region")
        \cup Err(d.endpoint # "" /\ ~HttpURL(d.endpoint), "destination.endpoint")
        \cup Err((d.accessKeyID = "") # (d.secretAccessKey = ""), "destination")

validateDestinations(c) ==
    IF c.destinations = <<>> THEN {"destinations"}
    ELSE ErrEach(c.destinations, LAMBDA i : validateDestination(c, i))

validateTargetConn(t) ==
    IF t.engine = "mongodb"
    THEN Err(t.uri = "", "target.uri") \cup Err(t.dsn # "", "target.dsn")
    ELSE Err(t.dsn = "", "target.dsn") \cup Err(t.uri # "", "target.uri")

validateTargetDestination(c, t) ==
    Err(t.destination = "" \/ Lookup(c.destinations, t.destination) = None, "target.destination")

validateAssertion(t, a) ==
    CASE a.type = "row_count" ->
           Err(a.tolerance # None /\ (a.tolerance < 0 \/ a.tolerance > 100), "assertion.tolerance")
           \cup Err(t.rowEstimate = "off", "assertion")
      [] a.type = "query" ->
           Err(a.sql = "", "assertion.sql") \cup Err(a.expect = None, "assertion.expect")
           \cup Err(t.engine = "mongodb", "assertion")
      [] a.type = "max_age" -> Err(a.value = None \/ a.value <= 0, "assertion.value")
      [] a.type = "table_count" -> {}
      [] OTHER -> {"assertion.type"}

\* Mutant: the engine of the staging server is taken on trust.
validateIntoAnyEngine(c, t, v) ==
    Err(v.level = "restore" /\ Lookup(c.verifyTargets, v.into) = None, "verify.into")

validateInto(c, t, v) ==
    LET into == Lookup(c.verifyTargets, v.into)
    IN  Err(v.level = "restore" /\ (v.into = "" \/ into = None \/ into.engine # t.engine), "verify.into")

validateTargetVerify(c, t) ==
    IF t.verify = None THEN {}
    ELSE LET v == t.verify
         IN  Err(v.level \notin {"integrity", "structural", "restore"}, "verify.level")
             \cup Err(v.schedule # "" /\ v.schedule \notin Crons, "verify.schedule")
             \cup validateInto(c, t, v)
             \cup ErrEach(v.assertions, LAMBDA i : validateAssertion(t, v.assertions[i]))

validateOptions(t) ==
    LET o == t.options
    IN  Err((o.excludeTableData # <<>> \/ o.includeGlobals # None) /\ t.engine # "postgres", "options")
        \cup Err(ToSet(o.excludeTableData) \ Globs # {}, "options.exclude_table_data")
        \cup Err(o.onNonInnoDB # "" /\ (\/ t.engine \notin {"mysql", "mariadb"}
                                        \/ o.onNonInnoDB \notin {"warn", "fail", "lock"}),
                 "options.on_non_innodb")
        \cup Err(o.oplog # None /\ t.engine # "mongodb", "options.oplog")

validateCompression(c) ==
    IF c.algo \notin {"zstd", "gzip", "none"} THEN {"compression.algo"}
    ELSE Err(c.algo # "none" /\ c.level \notin 1..(IF c.algo = "zstd" THEN 19 ELSE 9), "compression.level")

validateEncryption(e) ==
    IF e = None THEN {"encryption"}
    ELSE IF e.mode = "age"
    THEN Err(e.recipients = <<>> \/ ToSet(e.recipients) \ Recipients # {}, "encryption.recipients")
         \cup Err(e.passphrase # "", "encryption.passphrase")
    ELSE IF e.mode = "passphrase"
    THEN Err(e.passphrase = "", "encryption.passphrase") \cup Err(e.recipients # <<>>, "encryption.recipients")
    ELSE IF e.mode = "none" THEN Err(e.recipients # <<>> \/ e.passphrase # "", "encryption")
    ELSE {"encryption.mode"}

-----------------------------------------------------------------------------

TierNames == {"hourly", "daily", "weekly", "monthly", "yearly"}

Empty(r) == r = None \/ \A n \in TierNames : r[n] = None

tierKeep(r, n) == IF r[n] = None THEN 0 ELSE r[n].keep

\* A policy without a tier is not looked at further.
validateRetention(r) ==
    IF Empty(r) THEN {}
    ELSE Err(r.weekly # None /\ r.weekly.on \notin 0..6, "retention.weekly.on")
         \cup Err(r.monthly # None /\ r.monthly.on \notin 1..28, "retention.monthly.on")
         \cup Err(\E n \in TierNames : tierKeep(r, n) < 0, "retention.keep")
         \cup Err(0 = tierKeep(r, "hourly") + tierKeep(r, "daily") + tierKeep(r, "weekly")
                      + tierKeep(r, "monthly") + tierKeep(r, "yearly"), "retention")
         \cup Err(r.minKeep < 1, "retention.min_keep")

validateTarget(c, i) ==
    LET t == c.targets[i]
    IN  Err(Taken(c.targets, i) \/ t.name \notin Names, "target.name")
        \cup Err(t.engine \notin Engines, "target.engine")
        \cup validateTargetConn(t) \cup validateTargetDestination(c, t)
        \cup Err(t.schedule # "" /\ t.schedule \notin Crons, "target.schedule")
        \cup Err(t.timeout <= 0, "target.timeout")
        \cup validateOptions(t) \cup validateCompression(t.compression)
        \cup validateEncryption(t.encryption) \cup validateRetention(t.retention)
        \cup Err(t.spool \notin {"none", "disk"}, "target.spool")
        \cup Err(t.onOverlap \notin {"skip", "queue", "fail"}, "target.on_overlap")
        \cup Err(t.rowEstimate \notin {"exact", "estimate", "off"}, "target.row_estimate")
        \cup Err(\E j \in DOMAIN t.notify : Lookup(c.notifiers, t.notify[j]) = None, "target.notify")
        \cup validateTargetVerify(c, t)

validateTargets(c) ==
    IF c.targets = <<>> THEN {"targets"} ELSE ErrEach(c.targets, LAMBDA i : validateTarget(c, i))

validateVerifyTargets(c) ==
    ErrEach(c.verifyTargets, LAMBDA i :
        LET v == c.verifyTargets[i]
        IN  Err(Taken(c.verifyTargets, i), "verify_target.name")
            \cup Err(v.engine \notin Engines, "verify_target.engine")
            \cup Err(Conn(v) = "", "verify_target.conn")
            \cup Err(v.databasePrefix \notin Idents, "verify_target.database_prefix")
            \cup Err(v.maxConcurrent < 1, "verify_target.max_concurrent"))

Events == {"backup.started", "backup.succeeded", "backup.failed", "verify.succeeded", "verify.failed",
           "retention.pruned", "retention.blocked", "schedule.missed", "storage.error"}

validateNotifiers(c) ==
    ErrEach(c.notifiers, LAMBDA i :
        LET n == c.notifiers[i]
        IN  Err(Taken(c.notifiers, i), "notifier.name")
            \cup Err(n.type # "webhook", "notifier.type")
            \cup Err(n.template \notin {"generic", "slack", "discord"}, "notifier.template")
            \cup Err(~HttpURL(n.url), "notifier.url")
            \cup Err(n.events = <<>> \/ ToSet(n.events) \ Events # {}, "notifier.events")
            \cup Err(n.dedupWindow # None /\ n.dedupWindow < 0, "notifier.dedup_window"))

\* A server that serves nothing is not looked at.
validateServer(c) ==
    LET s == c.server
    IN  IF ~s.ui /\ ~s.metrics THEN {}
        ELSE Err(s.listen \notin Addresses, "server.listen")
             \cup Err(s.auth.mode \notin {"token", "none"}, "server.auth.mode")
             \cup Err(s.auth.mode = "token" /\ s.auth.token = "", "server.auth.token")

Validation(c) ==
    validateVersion(c) \cup validateDestinations(c) \cup validateTargets(c)
    \cup validateVerifyTargets(c) \cup validateNotifiers(c) \cup validateServer(c)

-----------------------------------------------------------------------------

\* A file that is missing, or is no document, has no configuration at all;
\* any other problem comes back beside the configuration.
Load(file, env) ==
    IF file.state # "document" THEN [cfg |-> None, errors |-> {file.state}]
    ELSE LET in == interpolate(file.doc, env)
             cfg == ApplyDefaults(in.cfg)
         IN  [cfg |-> cfg, errors |-> in.errors \cup Validation(cfg)]
=============================================================================
