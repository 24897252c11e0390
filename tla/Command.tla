------------------------------ MODULE Command -------------------------------
(***************************************************************************)
(* The commands of vaultd (internal/cli), one after the other, in a world  *)
(* that may change between any two of their steps: validate, doctor,       *)
(* backup --dry-run, backup, restore.  A command loads the configuration,  *)
(* is put together by internal/app and runs.                               *)
(*                                                                         *)
(* This module composes the configuration, the wiring, the dumpers, the    *)
(* doctor and the stream of Upload.  The lock, the manifest and the index  *)
(* that surround a backup are the subject of Lock and Catalog.             *)
(***************************************************************************)
EXTENDS Restores, Upload

CONSTANT Scenes  \* a function: file, environment, world, commands and what may happen

VARIABLES
    scene,    \* which scene is played
    config,   \* what a command loads: the file is left alone
    job,      \* the command being run: where it is, what it found out and when
    log,      \* how the commands before it ended
    changes,  \* how often the world changed
    object    \* the backup that was stored: its layers and its manifest

outer == <<scene, config, job, log, changes, object, world, visit, canary, hits>>
inner == <<size, dump, pipe, put, flight, parts, first, bucket, faults, outcome>>
all == <<outer, inner>>

S == Scenes[scene]
C == config.cfg
T == C.targets[1]

NoJob(now) == [at |-> "load", since |-> now, plan |-> None, probed |-> now, dumped |-> {}]

CommandInit ==
    /\ scene \in DOMAIN Scenes /\ config = Load(S.file, S.env)
    /\ job = NoJob(0)
    /\ log = <<>> /\ changes = 0 /\ object = None
    /\ world = S.world /\ visit = NoVisit /\ canary = NoCanary /\ hits = S.hits
    /\ Init /\ size \in S.sizes

Running == Len(log) < Len(S.commands)
Verb == S.commands[Len(log) + 1]

Goto(at) == job' = [job EXCEPT !.at = at]

\* The command ends, and the next one starts with an empty head.
End(result) ==
    /\ log' = Append(log, [verb |-> Verb, result |-> result, since |-> job.since, until |-> changes])
    /\ job' = NoJob(changes)

-----------------------------------------------------------------------------
(* What every command begins with.                                         *)

LoadConfig ==
    /\ Running /\ job.at = "load"
    /\ IF config.errors # {} THEN End("invalid")
       ELSE IF Verb = "validate" THEN End("valid")
       ELSE Goto(Verb) /\ UNCHANGED log
    /\ visit' = IF job'.at = "doctor" THEN [NoVisit EXCEPT !.at = "clients"] ELSE visit
    /\ UNCHANGED <<scene, config, changes, object, world, canary, hits, inner>>

\* A server goes down or is upgraded, a client is removed, a table is added.
Change ==
    /\ Running /\ changes < Len(S.changes)
    /\ world' = S.changes[changes + 1] /\ changes' = changes + 1
    /\ UNCHANGED <<scene, config, job, log, object, visit, canary, hits, inner>>

Doctor ==
    /\ job.at = "doctor" /\ DoctorStep(C)
    /\ IF visit'.at = "done"
       THEN End(IF ReportOK' THEN "ok" ELSE "fail")
       ELSE UNCHANGED <<job, log>>
    /\ UNCHANGED <<scene, config, changes, object, inner>>

LateWrite == Land /\ UNCHANGED <<scene, config, job, log, changes, object, inner>>

-----------------------------------------------------------------------------
(* backup (cli/backup.go, backup/backup.go).                               *)

Wire ==
    /\ job.at \in {"plan", "backup"}
    /\ LET err == FirstOf(<<BackupSpec(C, T), Runner(C, T)>>)
       IN  IF err # "" THEN End("wiring") ELSE Goto("probe") /\ UNCHANGED log
    /\ UNCHANGED <<scene, config, changes, object, world, visit, canary, hits, inner>>

Probe ==
    /\ job.at = "probe"
    /\ \E plan \in {ProbeServer(T, ServerOf(Conn(T)), world.host)} :
           IF plan.err # "" THEN End("probe")
           ELSE IF Verb = "plan" THEN End("planned")
           ELSE /\ job' = [job EXCEPT !.at = "reserve", !.plan = plan, !.probed = changes]
                /\ UNCHANGED log
    /\ UNCHANGED <<scene, config, changes, object, world, visit, canary, hits, inner>>

\* The object's name is free.
Reserve ==
    /\ job.at = "reserve"
    /\ IF world.store.up THEN Goto("spawn") /\ UNCHANGED log ELSE End("reserve")
    /\ UNCHANGED <<scene, config, changes, object, world, visit, canary, hits, inner>>

Refusal(client, args, server) ==
    FirstOf(<<Fails(~server.up, "server"), Fails(client \notin world.host, "client"),
              Fails(\E a \in args : ~Understands(client, a), "option"),
              Fails(\E a \in args : ~Serves(server, args, a), "privilege")>>)

\* A connection that names no database is to all of them.
Dumped(server) ==
    IF DatabaseOf(Conn(T)) # "" THEN {DatabaseOf(Conn(T))}
    ELSE {d \in DOMAIN server.data : server.data[d] # {}}

\* The client starts, or says why it does not.
Spawn ==
    /\ job.at = "spawn"
    /\ LET refusal == Refusal(job.plan.client, job.plan.how.args, ServerOf(Conn(T)))
       IN  IF writer(pipelineSpec(T)) = None THEN End("pipeline")
           ELSE IF refusal # "" THEN End(refusal)
           ELSE job' = [job EXCEPT !.at = "stream", !.dumped = Dumped(ServerOf(Conn(T)))] /\ UNCHANGED log
    /\ UNCHANGED <<scene, config, changes, object, world, visit, canary, hits, inner>>

\* The stream runs by itself, until it has an outcome.
Stream ==
    /\ job.at = "stream" /\ outcome = None /\ Next /\ faults' <= S.faults
    /\ UNCHANGED outer

Streamed ==
    /\ job.at = "stream" /\ outcome # None
    /\ IF outcome = "stored" THEN Goto("globals") /\ UNCHANGED log ELSE End(outcome)
    /\ UNCHANGED <<scene, config, changes, object, world, visit, canary, hits, inner>>

\* Roles and tablespaces go to an object of their own; then the manifest
\* says how the backup is to be read.
Finish ==
    /\ job.at = "globals"
    /\ IF /\ T.engine = "postgres" /\ HasGlobals(T)
          /\ ~ServerOf(Conn(T)).up \/ ~world.store.up \/ DumpGlobals(job.plan, world.host) = None
       THEN End("globals") /\ UNCHANGED object
       ELSE IF ~world.store.up THEN End("manifest") /\ UNCHANGED object
       ELSE /\ End("stored")
            /\ object' = [layers |-> writer(pipelineSpec(T)),
                          compression |-> CompressionString(pipelineSpec(T)),
                          encryption |-> EncryptionString(pipelineSpec(T)),
                          engine |-> T.engine, databases |-> job.dumped]
    /\ UNCHANGED <<scene, config, changes, world, visit, canary, hits, inner>>

-----------------------------------------------------------------------------
(* restore (cli/restore.go, restore/restore.go, the engines' restorers).   *)

configuredTarget(conn) == \E i \in DOMAIN C.targets : Conn(C.targets[i]) = conn

RestoreStarts ==
    /\ job.at = "restore"
    /\ IF ~world.store.up THEN End("index")
       ELSE IF object = None THEN End("missing")
       ELSE IF configuredTarget(S.to) /\ ~S.force THEN End("production")
       ELSE IF FirstOf(<<IndexOf(C, T), Restorer(object.engine, S.to), Store(C, T.destination)>>) # ""
       THEN End("wiring")
       ELSE Goto("inspect") /\ UNCHANGED log
    /\ UNCHANGED <<scene, config, changes, object, world, visit, canary, hits, inner>>

\* Mutant: a destination that is not empty is overwritten.
IsEmptyTrusting ==
    /\ job.at = "inspect"
    /\ job' = [job EXCEPT !.at = "open", !.probed = changes]
    /\ UNCHANGED <<scene, config, log, changes, object, world, visit, canary, hits, inner>>

IsEmpty ==
    /\ job.at = "inspect"
    /\ IF ~Reaches(object.engine, S.to) THEN End("inspect")
       ELSE IF ~S.force /\ ~DestinationEmpty(object.engine, S.to) THEN End("not empty")
       ELSE job' = [job EXCEPT !.at = "open", !.probed = changes] /\ UNCHANGED log
    /\ UNCHANGED <<scene, config, changes, object, world, visit, canary, hits, inner>>

\* The keys that a restore has: the identities it is given for age, the
\* passphrase of the configuration otherwise.
Keys(mode) == IF mode = "age" THEN S.identities ELSE {T.encryption.passphrase} \ {""}

Open ==
    /\ job.at = "open"
    /\ LET spec == ParseSpec(object.compression, object.encryption)
       IN  IF spec = None THEN End("unreadable")
           ELSE IF spec.mode # "none" /\ Keys(spec.mode) = {} THEN End("no key")
           ELSE IF ~world.store.up THEN End("get")
           ELSE IF Reader(spec, object.layers, Keys(spec.mode)) # <<>> THEN End("unreadable")
           ELSE Goto("apply") /\ UNCHANGED log
    /\ UNCHANGED <<scene, config, changes, object, world, visit, canary, hits, inner>>

Restore ==
    /\ job.at = "apply"
    /\ \E end \in
            CASE Family(object.engine) = "postgres" -> RestorePostgres(S.to, S.clean)
              [] Family(object.engine) = "mysql" -> RestoreMySQL(S.to, object.engine)
              [] Family(object.engine) = "mongodb" -> RestoreMongo(S.to, object.databases) :
         /\ end.hit <= hits /\ hits' = hits - end.hit
         /\ Write(S.to, end) /\ End(end.result)
    /\ UNCHANGED <<scene, config, changes, object, visit, canary, inner>>

CommandNext ==
    \/ LoadConfig \/ Change \/ Doctor \/ LateWrite
    \/ Wire \/ Probe \/ Reserve \/ Spawn \/ Stream \/ Streamed \/ Finish
    \/ RestoreStarts \/ IsEmpty \/ Open \/ Restore

CommandSpec == CommandInit /\ [][CommandNext]_all /\ WF_all(CommandNext)

-----------------------------------------------------------------------------
(* Properties.                                                             *)

Ended(verb, results) == \E i \in DOMAIN log : log[i].verb = verb /\ log[i].result \in results

ConnsParse ==
    /\ \A i \in DOMAIN C.targets : parseConn(C.targets[i].engine, Conn(C.targets[i])) = ""
    /\ \A i \in DOMAIN C.verifyTargets :
         parseConn(C.verifyTargets[i].engine, Conn(C.verifyTargets[i])) = ""

\* What validate accepts can be run: every part that a backup, a prune or a
\* verification is made of can be built, a policy that deletes has a floor,
\* the pipeline opens, and whoever has a key can read what was stored.  Two
\* things are only found out later: a connection string that the driver does
\* not parse, and spool: disk (validate.go against app.go, spec.go, parse.go).
AcceptedIsHonoured ==
    config.errors = {} =>
        /\ ConnsParse => \A i \in DOMAIN C.targets :
             LET t == C.targets[i]
             IN  /\ FirstOf(<<Runner(C, t), Pruner(C, t)>>) = ""
                 /\ BackupSpec(C, t) # "" => t.spool = "disk"
                 /\ Verifier(C, t, IF t.verify = None THEN "integrity" ELSE t.verify.level) = ""
                 /\ LET policy == RetentionPolicy(t)
                    IN  (\E n \in TierNames : policy.keep[n] # 0) =>
                            policy.minKeep >= 1 /\ \A n \in TierNames : policy.keep[n] >= 0
        /\ ~Ended("backup", {"pipeline"})
        /\ Ended("restore", {"unreadable"}) =>
             T.encryption.mode = "age" /\ S.identities \cap ToSet(T.encryption.recipients) = {}

\* Only a file that says so itself, in the target's own block or in the one
\* it inherits, has a backup stored in the clear: not a reference that came
\* out empty, and not a block that is missing (validate.go, validateEncryption;
\* defaults.go, Target.applyDefaults; spec.go, encryptWriter).
SealedAsDeclared ==
    object # None /\ Plaintext(object.layers) =>
        LET doc == S.file.doc
            declared == Or(doc.targets[1].encryption, None, doc.defaults.encryption)
        IN  declared # None /\ expand(declared.mode, S.env) = "none"

\* As long as nothing outside changes, a backup that got through its probe is
\* not turned away by the client or the server afterwards, and the dump is as
\* consistent as its manifest says.  The exception is the option for the
\* binary log's position, which is spelled for the server's release and not
\* for the client's (mysql.go, probe; args.go, dumpArgs; mongodb.go, probe;
\* postgres/binary.go, resolveBinary).
DumpAsProbed ==
    /\ job.at \in {"reserve", "spawn", "stream", "globals"} /\ changes = job.probed =>
         LET server == ServerOf(Conn(T))
             client == job.plan.client
             refusal == Refusal(client, job.plan.how.args, server)
         IN  /\ refusal # "" => refusal = "option" /\ client.version # server.version
             /\ job.plan.how.consistency # "best_effort" => OneMoment(server, job.plan.how.args)
             /\ Represents(client, server)

Undisturbed == hits = S.hits /\ changes = 0

\* A store is said to honour the two conditions that the lock and the index
\* rest on only when it does, whatever is lost or repeated on the way; and a
\* store that honours them and always answers is not accused of anything
\* (doctor/storage.go, conditionalPut and overwriteIfMatch).
StoreVerdict ==
    /\ visit.report.write = "ok" => world.store.honoursAbsent
    /\ visit.report.swap = "ok" => world.store.honoursMatch
    /\ Undisturbed /\ world.store = [up |-> TRUE, honoursAbsent |-> TRUE, honoursMatch |-> TRUE]
         => \A check \in {"write", "read", "swap", "delete"} : visit.report[check] \in {None, "ok"}

\* What the doctor approved of runs: while nothing changes, a backup gets as
\* far as its stream.  The doctor does not see spool: disk, which is refused
\* before anything is tried, nor the spelling that DumpAsProbed is about
\* (doctor.go, Report.OK; targets.go, probeTarget).
GreenMeansGo ==
    \A i, j \in DOMAIN log :
        /\ i < j /\ log[i].verb = "doctor" /\ log[i].result = "ok"
        /\ log[j].verb = "backup" /\ log[j].until = log[i].since
        /\ T.spool # "disk"
        => log[j].result \in {"option", "stored", "globals", "dump", "upload", "empty"}

\* Without --force, a restore writes into no database that held something
\* when it was looked at.  A restore of a mongodb archive through a URI that
\* names a database looks at that one, and writes into the archive's
\* (restore.go, Run; cli/restore.go).
RestoreKeeps ==
    [][ \/ job.at # "apply" \/ S.force \/ changes # job.probed \/ changes' # changes
        \/ object.engine = "mongodb" /\ DatabaseOf(S.to) \notin {""} \cup object.databases
        \/ \A h \in DOMAIN world.servers : \A d \in DOMAIN world.servers[h].data :
             \/ world'.servers[h].data[d] = world.servers[h].data[d]
             \/ world.servers[h].data[d] = {} ]_all

\* Every command comes to its end, and with it the stream it runs: whichever
\* half of it fails, the other does not wait for it forever (pipeline.go, Run).
CommandsEnd == <>~Running
=============================================================================
