------------------------------- MODULE Doctor -------------------------------
(***************************************************************************)
(* vaultd doctor (internal/doctor): the clients on this host, a canary     *)
(* object in the destination, the probe of every target and of its staging *)
(* server, and the notifiers.                                              *)
(*                                                                         *)
(* The world is what a command finds outside: world.host (the clients),    *)
(* world.servers (the database servers by host name), world.store (does it *)
(* answer, does it honour If-None-Match and If-Match), world.webhook.  The *)
(* canary's ETag is its content.                                           *)
(***************************************************************************)
EXTENDS Dumper

VARIABLES
    world,   \* what is outside
    visit,   \* the doctor: where it is, the ETag it read, what it reports
    canary,  \* the object, a write still on its way, and what went wrong with it
    hits     \* failed calls still to come

Checks == {"clients", "write", "read", "swap", "delete", "targets", "sandbox", "notifiers"}

NoVisit == [at |-> "idle", etag |-> None, report |-> [check \in Checks |-> None]]
NoCanary == [object |-> None, late |-> None, landed |-> FALSE, kept |-> FALSE]

Status(check, status, next) ==
    visit' = [visit EXCEPT !.report[check] = status, !.at = next]

\* Nothing failed; a warning is no failure.
ReportOK == \A check \in Checks : visit.report[check] # "fail"

ServerOf(conn) == world.servers[Conns[conn].host]

-----------------------------------------------------------------------------
(* The clients (clients.go).                                               *)

clientsFor(engine) ==
    CASE engine = "postgres" -> {"pg_dump", "pg_dumpall", "pg_restore"}
      [] engine = "mysql" -> {"mysqldump", "mysql"}
      [] engine = "mariadb" -> {"mariadb-dump", "mariadb"}
      [] engine = "mongodb" -> {"mongodump", "mongorestore"}

\* Any version will do here; the probe of a target knows which one it needs.
findClients(engine, name) ==
    {b \in world.host : b.name = name /\ (engine # "postgres" => b.dir = 0)
                        /\ (engine = "postgres" => b.dir \in {0} \cup 12..30)}

clientCheck(engine, name) ==
    IF engine \in {"mysql", "mariadb"}
    THEN \E b \in findClients(engine, name) : b.flavor = flavorOf(engine)
    ELSE findClients(engine, name) # {}

checkClients(c) ==
    /\ visit.at = "clients"
    /\ LET engines == {c.targets[i].engine : i \in DOMAIN c.targets}
                      \cup {c.verifyTargets[i].engine : i \in DOMAIN c.verifyTargets}
       IN  Status("clients", IF \A e \in engines : \A n \in clientsFor(e) : clientCheck(e, n)
                             THEN "ok" ELSE "fail", "create")
    /\ UNCHANGED <<world, canary, hits>>

-----------------------------------------------------------------------------
(* The store, as the S3 adapter's callers see it.  A call that fails may   *)
(* have been lost on the way there or on the way back, or still be on its  *)
(* way; the SDK may have sent it twice.                                    *)

\* The store lets a write on condition `match` (None: the key is absent) over o.
Lets(match, o) ==
    IF match = None THEN o = None \/ ~world.store.honoursAbsent
    ELSE o = match \/ ~world.store.honoursMatch

Landed(match, body, o) == IF Lets(match, o) THEN body ELSE o

\* What a call may come to: the answer, the canary after it, the failures left.
PutIf(match, body) ==
    LET o == canary.object
        done == Landed(match, body, o)
        said(before) == IF Lets(match, before) THEN "written" ELSE "refused"
        call(r, object, lost) ==
            [r |-> r, canary |-> [canary EXCEPT !.object = object], hits |-> hits - lost]
    IN  IF ~world.store.up THEN {call("error", o, 0)}
        ELSE {call(said(o), done, 0)}
             \cup (IF hits = 0 THEN {}
                   ELSE {call("error", o, 1), call("error", done, 1),
                         call(said(done), Landed(match, body, done), 1)})
             \cup (IF hits = 0 \/ canary.late # None THEN {}
                   ELSE {[call("error", o, 1) EXCEPT !.canary.late = [match |-> match, body |-> body]]})

Land ==
    /\ canary.late # None
    /\ canary' = [canary EXCEPT !.object = Landed(canary.late.match, canary.late.body, @),
                                !.late = None, !.landed = TRUE]
    /\ UNCHANGED <<world, visit, hits>>

\* Head and Get: None is an object that is not found.
Ask ==
    LET call(r, lost) == [r |-> r, canary |-> canary, hits |-> hits - lost]
    IN  IF ~world.store.up THEN {call("error", 0)}
        ELSE {call(canary.object, 0)} \cup (IF hits = 0 THEN {} ELSE {call("error", 1)})

Delete ==
    LET call(r, object, kept, lost) ==
            [r |-> r, hits |-> hits - lost,
             canary |-> [canary EXCEPT !.object = object, !.kept = kept]]
    IN  IF ~world.store.up THEN {call("error", canary.object, TRUE, 0)}
        ELSE {call("ok", None, FALSE, 0)}
             \cup (IF hits = 0 THEN {}
                   ELSE {call("error", canary.object, TRUE, 1), call("error", None, canary.kept, 1)})

\* A call is made, and comes to this.
Made(call) == canary' = call.canary /\ hits' = call.hits /\ UNCHANGED world

-----------------------------------------------------------------------------
(* The destination (storage.go).                                           *)

\* A canary that could not be created ends the checks of the destination.
CreateCanary ==
    /\ visit.at = "create"
    /\ \E call \in PutIf(None, "body") :
         /\ Made(call)
         /\ IF call.r = "written" THEN visit' = [visit EXCEPT !.at = "again"]
            ELSE Status("write", "fail", "leave")

\* Mutant: a store that created the key once is trusted.
CreateOnce ==
    /\ visit.at = "again" /\ Status("write", "ok", "read")
    /\ UNCHANGED <<world, canary, hits>>

CreateAgain ==
    /\ visit.at = "again"
    /\ \E call \in PutIf(None, "body") :
         /\ Made(call)
         /\ CASE call.r = "error" -> Status("write", "warn", "read")
              [] call.r = "written" -> Status("write", "fail", "leave")
              [] call.r = "refused" -> Status("write", "ok", "read")

\* Head, and then Get.
readBack ==
    /\ visit.at \in {"read", "get"}
    /\ \E call \in Ask :
         /\ Made(call)
         /\ IF call.r # "body" THEN Status("read", "fail", "etag")
            ELSE IF visit.at = "read" THEN visit' = [visit EXCEPT !.at = "get"]
            ELSE Status("read", "ok", "etag")

ReadETag ==
    /\ visit.at = "etag"
    /\ \E call \in Ask :
         /\ Made(call)
         /\ IF call.r \in {None, "error"} THEN Status("swap", "fail", "delete")
            ELSE visit' = [visit EXCEPT !.etag = call.r, !.at = "swap"]

\* Mutant: the canary is swapped for one that is the same.
SwapSame ==
    /\ visit.at = "swap"
    /\ \E call \in PutIf(visit.etag, "body") :
         /\ Made(call)
         /\ IF call.r = "written" THEN visit' = [visit EXCEPT !.at = "stale"]
            ELSE Status("swap", "fail", "delete")

Swap ==
    /\ visit.at = "swap"
    /\ \E call \in PutIf(visit.etag, "bodyx") :
         /\ Made(call)
         /\ IF call.r = "written" THEN visit' = [visit EXCEPT !.at = "stale"]
            ELSE Status("swap", "fail", "delete")

SwapStale ==
    /\ visit.at = "stale"
    /\ \E call \in PutIf(visit.etag, "body") :
         /\ Made(call)
         /\ CASE call.r = "error" -> Status("swap", "warn", "delete")
              [] call.r = "written" -> Status("swap", "fail", "delete")
              [] call.r = "refused" -> Status("swap", "ok", "delete")

deleteCanary ==
    /\ visit.at = "delete"
    /\ \E call \in Delete :
         /\ Made(call)
         /\ IF call.r = "ok" THEN visit' = [visit EXCEPT !.at = "gone"]
            ELSE Status("delete", "fail", "leave")

HeadGone ==
    /\ visit.at = "gone"
    /\ \E call \in Ask :
         Made(call) /\ Status("delete", IF call.r = None THEN "ok" ELSE "warn", "leave")

\* Mutant: only the checks that ran to their end clean up.
LeaveIfDeleted ==
    /\ visit.at = "leave" /\ visit' = [visit EXCEPT !.at = "targets"]
    /\ UNCHANGED <<world, canary, hits>>

\* Whatever happened, the canary goes away.
LeaveCanary ==
    /\ visit.at = "leave"
    /\ \E call \in Delete : Made(call) /\ visit' = [visit EXCEPT !.at = "targets"]

-----------------------------------------------------------------------------
(* Targets, staging servers, notifiers (targets.go, notifiers.go).         *)

probeTarget(t) ==
    IF Dumper(t) # "" THEN Dumper(t) ELSE ProbeServer(t, ServerOf(Conn(t)), world.host).err

\* Mutant: the targets' servers answer, and that is enough.
checkServers(c) ==
    /\ visit.at = "targets"
    /\ Status("targets", IF \A i \in DOMAIN c.targets : Dumper(c.targets[i]) = "" /\ ServerOf(Conn(c.targets[i])).up
                         THEN "ok" ELSE "fail", "sandbox")
    /\ UNCHANGED <<world, canary, hits>>

checkTargets(c) ==
    /\ visit.at = "targets"
    /\ Status("targets", IF \A i \in DOMAIN c.targets : probeTarget(c.targets[i]) = ""
                         THEN "ok" ELSE "fail", "sandbox")
    /\ UNCHANGED <<world, canary, hits>>

\* Provisioner.Probe: the server answers, is of the right fork and, where that
\* can be asked, lets a database be created.
ProbePostgresSandbox(s) ==
    FirstOf(<<Fails(~s.up \/ s.flavor # "postgres", "server"), Fails(~s.canCreate, "createdb")>>)
ProbeMySQLSandbox(s, flavor) == Fails(~s.up \/ s.flavor # flavor, "server")
ProbeMongoSandbox(s) == Fails(~s.up \/ s.flavor # "mongodb", "server")

probeVerifyTarget(into) ==
    IF Provisioner(into) # "" THEN Provisioner(into)
    ELSE LET s == ServerOf(Conn(into))
         IN  CASE Family(into.engine) = "postgres" -> ProbePostgresSandbox(s)
               [] Family(into.engine) = "mysql" -> ProbeMySQLSandbox(s, flavorOf(into.engine))
               [] Family(into.engine) = "mongodb" -> ProbeMongoSandbox(s)

checkVerifyTargets(c) ==
    /\ visit.at = "sandbox"
    /\ LET used == {c.targets[i].verify.into :
                    i \in {j \in DOMAIN c.targets : c.targets[j].verify # None}} \ {""}
           into(name) == Lookup(c.verifyTargets, name)
       IN  Status("sandbox", IF \A n \in used : into(n) # None /\ probeVerifyTarget(into(n)) = ""
                             THEN "ok" ELSE "fail", "notifiers")
    /\ UNCHANGED <<world, canary, hits>>

checkNotifiers(c) ==
    /\ visit.at = "notifiers"
    /\ Status("notifiers", IF c.notifiers = <<>> \/ world.webhook THEN "ok" ELSE "fail", "done")
    /\ UNCHANGED <<world, canary, hits>>

DoctorStep(c) ==
    \/ checkClients(c)
    \/ CreateCanary \/ CreateAgain \/ readBack \/ ReadETag \/ Swap \/ SwapStale
    \/ deleteCanary \/ HeadGone \/ LeaveCanary
    \/ checkTargets(c) \/ checkVerifyTargets(c) \/ checkNotifiers(c)

-----------------------------------------------------------------------------
(* Properties.                                                             *)

\* The canary outlives the visit only where deleting it failed, or where a
\* write that had timed out arrived after the last delete (storage.go, the
\* deferred Delete).
CanaryGone ==
    visit.at \in {"targets", "sandbox", "notifiers", "done"} /\ ~canary.landed /\ ~canary.kept
        => canary.object = None
=============================================================================
