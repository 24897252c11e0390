------------------------------- MODULE Verify -------------------------------
(***************************************************************************)
(* Verification of stored backups (internal/verify) at its three levels,   *)
(* with the restore of internal/restore and the sandbox databases of       *)
(* the provision.go of each engine.                                        *)
(*                                                                         *)
(* Several verifications may run at once: the daemon holds the target's    *)
(* lock, `vaultd verify` takes none.  A sandbox is named after its backup. *)
(* A scene fixes what is true of the backups and of the staging server,    *)
(* and how much may go wrong.                                              *)
(***************************************************************************)
EXTENDS Assertions

CONSTANTS
    Verifiers,  \* verifications in progress
    Scenes,     \* the situations to consider
    None        \* nothing recorded

Levels == {"integrity", "structural", "restore"}
Verdicts == [level : Levels, out : {"ok", "broken"}]

\* What the proofs take from a scene.
Plausible(s) ==
    /\ None \notin s.backups /\ s.levels \subseteq Levels
    /\ s.tables \in Seq([name : Seq(STRING), rows : Nat, exact : BOOLEAN]) /\ s.tables # <<>>
    /\ \A a \in s.assertions : a.type = "row_count" => a.tolerance \in Int

ASSUME SceneAssumption == \A s \in Scenes : Plausible(s)
ASSUME NoneAssumption == None \notin Verdicts /\ None \notin {"ok", "broken"}

VARIABLES
    scene,      \* the situation
    left,       \* what may still go wrong: faults, cancels, crashes, collections
    happened,   \* what did go wrong
    db,         \* the sandbox of each backup: absent, empty, part, full
    v,          \* the verifications
    gc,         \* `vaultd verify --gc`
    announced,  \* the verdicts sent to the notifier
    man, idx    \* the verdict on the manifest and in the index

vars == <<scene, left, happened, db, v, gc, announced, man, idx>>

sql == scene.engine # "mongodb"

Idle == [pc |-> "idle", b |-> None, level |-> None, key |-> "none",
         out |-> None, ended |-> FALSE, cut |-> FALSE]

Init ==
    /\ scene \in Scenes
    /\ left = [fault |-> scene.faults, cancel |-> scene.cancels,
               crash |-> scene.crashes, collect |-> scene.collects]
    /\ happened = {}
    /\ db = [b \in scene.backups |-> "absent"]
    /\ v = [p \in Verifiers |-> Idle]
    /\ gc = [pc |-> "idle", names |-> {}, quiet |-> TRUE]
    /\ announced = {}
    /\ man = [b \in scene.backups |-> None] /\ idx = man

-----------------------------------------------------------------------------
(* What is true of a backup.                                               *)

\* What a restore of the whole object brings back.
Contents ==
    CASE scene.object = "lossy"   -> [n \in DOMAIN scene.rows \ {scene.tables[1].name} |-> scene.rows[n]]
      [] scene.object = "emptied" -> [scene.rows EXCEPT ![scene.tables[1].name] = 0]
      [] OTHER -> scene.rows

\* What the sandbox of a backup holds.
Restored(b) ==
    CASE db[b] = "full" -> Contents
      [] db[b] = "part" -> [n \in DOMAIN Contents \ {scene.tables[1].name} |-> Contents[n]]
      [] OTHER -> <<>>

\* Nothing is wrong with the backup, nor with what its manifest says of it.
Good ==
    /\ scene.object = "intact" /\ scene.globals \in {"none", "intact"}
    /\ runAssertions(sql, scene.rows, scene.tables, scene.age, scene.assertions)

-----------------------------------------------------------------------------
(* Steps.                                                                  *)

Spend(what) ==
    /\ left[what] > 0 /\ left' = [left EXCEPT ![what] = @ - 1]
    /\ happened' = happened \cup {what}
Fault == Spend("fault")
Calm == UNCHANGED <<left, happened>>

At(p, pc) == v[p].pc = pc
Set(p, r) == v' = [v EXCEPT ![p] = r]
Goto(p, pc) == Set(p, [v[p] EXCEPT !.pc = pc])

\* The check is over before a sandbox was made: only a verdict goes further.
Return(p, out) ==
    Set(p, [v[p] EXCEPT !.out = out, !.pc = IF out \in {"ok", "broken"} THEN "report" ELSE "done"])
\* The check is over and the deferred drop is due.
Leave(p, out) == Set(p, [v[p] EXCEPT !.out = out, !.pc = "drop"])

\* A call that fails, or that is not made since the context has ended.
CallFails(p) == Fault \/ (v[p].ended /\ Calm)
CallWorks(p) == ~v[p].ended /\ Calm

Keep == UNCHANGED <<scene, db, gc, announced, man, idx>>

canDecrypt(p) == scene.encrypted => v[p].key # "none"
WrongKey(p) == scene.encrypted /\ v[p].key = "wrong"

\* Backup reads the manifest; restore verification asks for the key first.
Start(p, b, level, key) ==
    /\ At(p, "idle")
    /\ LET r == [Idle EXCEPT !.b = b, !.level = level, !.key = key] IN
        \/ Fault /\ Set(p, [r EXCEPT !.pc = "done", !.out = "error"])
        \/ /\ Calm
           /\ Set(p, IF level # "restore" THEN [r EXCEPT !.pc = "head"]
                     ELSE IF scene.encrypted => key # "none" THEN [r EXCEPT !.pc = "probe"]
                     ELSE [r EXCEPT !.pc = "done", !.out = "error"])
    /\ Keep

\* What the store says of the object and of the globals.
integrityFinds ==
    IF \/ {"missing", "short"} \cap {scene.object, scene.globals} # {}
       \/ scene.headsum /\ scene.object = "flipped"
    THEN "broken" ELSE "ok"

integrity(p) ==
    /\ At(p, "head")
    /\ \/ CallFails(p) /\ Return(p, "error")
       \/ /\ CallWorks(p)
          /\ IF integrityFinds = "ok" /\ v[p].level = "structural"
             THEN IF canDecrypt(p) THEN Goto(p, "read") ELSE Return(p, "error")
             ELSE Return(p, integrityFinds)
    /\ Keep

\* Mutant: a key that does not match is a backup that cannot be read.
ReadingsBlind(p) ==
    IF WrongKey(p) \/ scene.object \in {"flipped", "short"} THEN {"broken"} ELSE {"ok"}

\* What reading the object to its end may find.  A damaged header can look
\* like a key that does not match; a dump no client restores need not look odd.
Readings(p) ==
    CASE WrongKey(p) -> {"error"}
      [] scene.object \in {"flipped", "short"} -> {"broken"} \cup (IF scene.encrypted THEN {"error"} ELSE {})
      [] scene.object = "unsound" -> {"ok", "broken"}
      [] OTHER -> {"ok"}

\* A stream that breaks off is taken for a broken backup, also when it broke
\* off because the context ended.
structural(p) ==
    /\ At(p, "read")
    /\ \/ CallWorks(p) /\ \E out \in Readings(p) : Return(p, out)
       \/ CallFails(p) /\ \E out \in {"error", "broken"} : Return(p, out)
    /\ Keep

-----------------------------------------------------------------------------
(* Restore verification.                                                   *)

\* A staging server older than the source cannot read the dump.
Probe(p) ==
    /\ At(p, "probe")
    /\ \/ CallFails(p) /\ Return(p, "error")
       \/ CallWorks(p) /\ IF scene.older THEN Return(p, "skipped") ELSE Goto(p, "create")
    /\ Keep

\* Mutant: a sandbox that is there is used.
CreateOver(p) ==
    /\ At(p, "create") /\ CallWorks(p) /\ Goto(p, "check")
    /\ db' = IF sql /\ db[v[p].b] = "absent" THEN [db EXCEPT ![v[p].b] = "empty"] ELSE db
    /\ gc' = [gc EXCEPT !.quiet = FALSE]
    /\ UNCHANGED <<scene, announced, man, idx>>

\* An SQL server creates the database and refuses one that exists.  A create
\* that failed may have been carried out.
CreateSQL(p) ==
    LET b == v[p].b
        free == db[b] = "absent"
        made == [db EXCEPT ![b] = "empty"]
    IN \/ CallWorks(p) /\ free /\ Goto(p, "check") /\ db' = made
       \/ CallWorks(p) /\ ~free /\ Return(p, "error") /\ UNCHANGED db
       \/ CallFails(p) /\ Return(p, "error") /\ db' \in {db, IF free /\ ~v[p].ended THEN made ELSE db}

\* MongoDB has nothing to create: a backup of several databases is not
\* supported, a name with collections is refused.
CreateMongo(p) ==
    /\ \/ scene.several /\ Return(p, "skipped") /\ Calm
       \/ ~scene.several /\ CallFails(p) /\ Return(p, "error")
       \/ /\ ~scene.several /\ CallWorks(p)
          /\ IF db[v[p].b] = "absent" THEN Goto(p, "check") ELSE Return(p, "error")
    /\ UNCHANGED db

Create(p) ==
    /\ At(p, "create") /\ IF sql THEN CreateSQL(p) ELSE CreateMongo(p)
    /\ gc' = [gc EXCEPT !.quiet = FALSE]
    /\ UNCHANGED <<scene, announced, man, idx>>

\* cannotRun: the context ended.  Any other failure is the backup's.
Blame(p) == IF v[p].ended THEN "error" ELSE "broken"

\* The destination must be empty.  A sandbox that is gone is a failure.
IsEmpty(p) ==
    /\ At(p, "check")
    /\ \/ CallFails(p) /\ Leave(p, Blame(p))
       \/ /\ CallWorks(p)
          /\ CASE db[v[p].b] \in {"part", "full"} -> Leave(p, "error")
               [] sql /\ db[v[p].b] = "absent" -> Leave(p, "broken")
               [] OTHER -> Goto(p, "open")
    /\ Keep

\* The object is opened and the client begins to write.
Open(p) ==
    /\ At(p, "open")
    /\ \/ CallFails(p) /\ Leave(p, Blame(p)) /\ UNCHANGED db
       \/ /\ CallWorks(p)
          /\ IF scene.object = "missing" THEN Leave(p, "broken") /\ UNCHANGED db
             ELSE IF WrongKey(p) THEN Leave(p, "error") /\ UNCHANGED db
             ELSE IF sql /\ db[v[p].b] = "absent" THEN Leave(p, "broken") /\ UNCHANGED db
             ELSE /\ Goto(p, "load")
                  /\ db' = [db EXCEPT ![v[p].b] = IF @ = "full" THEN @ ELSE "part"]
    /\ UNCHANGED <<scene, gc, announced, man, idx>>

\* The client ends and the checksum is compared.  A client whose database was
\* dropped fails in SQL; in MongoDB what it writes after that is what is there.
Load(p) ==
    /\ At(p, "load")
    /\ \/ CallFails(p) /\ Leave(p, Blame(p)) /\ UNCHANGED db
       \/ /\ CallWorks(p)
          /\ IF scene.object \in {"flipped", "short", "unsound"} \/ (sql /\ v[p].cut)
             THEN UNCHANGED db /\ \E out \in {"broken"} \cup (Readings(p) \ {"ok"}) : Leave(p, out)
             ELSE /\ Goto(p, "assert")
                  /\ db' = [db EXCEPT ![v[p].b] = IF v[p].cut THEN "part" ELSE "full"]
    /\ UNCHANGED <<scene, gc, announced, man, idx>>

\* An assertion that could not be evaluated fails.  The context is looked at
\* before each one.
Inspect(p) ==
    /\ At(p, "assert")
    /\ \/ CallFails(p) /\ scene.assertions # {}
          /\ \E out \in {"broken"} \cup (IF v[p].ended THEN {"error"} ELSE {}) : Leave(p, out)
       \/ /\ ~v[p].ended \/ scene.assertions = {}
          /\ Calm
          /\ Leave(p, IF runAssertions(sql, Restored(v[p].b), scene.tables, scene.age, scene.assertions)
                      THEN "ok" ELSE "broken")
    /\ Keep

\* The verifications whose sandbox goes while they use it.
Using(p) == v[p].pc \in {"check", "open", "load", "assert", "drop"}
Others(p, b) == {q \in Verifiers \ {p} : v[q].b = b /\ Using(q) /\ ~At(q, "drop")}

Cut(qs, p, r) == [q \in Verifiers |-> IF q = p THEN r ELSE IF q \in qs THEN [v[q] EXCEPT !.cut = TRUE] ELSE v[q]]

\* Mutant: the drop uses the context of the run.
DropIfRunning(p) ==
    /\ At(p, "drop") /\ Calm
    /\ Return(p, v[p].out)
    /\ db' = IF v[p].ended THEN db ELSE [db EXCEPT ![v[p].b] = "absent"]
    /\ UNCHANGED <<scene, gc, announced, man, idx>>

\* The deferred drop runs whatever the context; its error is logged.
Drop(p) ==
    /\ At(p, "drop")
    /\ LET next == [v[p] EXCEPT !.pc = IF v[p].out \in {"ok", "broken"} THEN "report" ELSE "done"]
           shared == Others(p, v[p].b)
       IN \/ Fault /\ Set(p, next) /\ UNCHANGED db
          \/ /\ db' = [db EXCEPT ![v[p].b] = "absent"]
             /\ v' = Cut(shared, p, next)
             /\ happened' = IF shared # {} THEN happened \cup {"shared"} ELSE happened
             /\ UNCHANGED left
    /\ UNCHANGED <<scene, gc, announced, man, idx>>

-----------------------------------------------------------------------------
(* The verdict.                                                            *)

\* Emit runs on a context of its own, before the verdict is recorded.
Report(p) ==
    /\ At(p, "report") /\ Goto(p, "manifest")
    /\ announced' = announced \cup {[b |-> v[p].b, level |-> v[p].level, out |-> v[p].out]}
    /\ UNCHANGED <<scene, left, happened, db, gc, man, idx>>

Verdict(p) == [level |-> v[p].level, out |-> v[p].out]

\* record rewrites the manifest, then the entry.  A call that failed may have
\* been carried out.
RecordManifest(p) ==
    /\ At(p, "manifest")
    /\ LET written == [man EXCEPT ![v[p].b] = Verdict(p)] IN
        \/ CallWorks(p) /\ Goto(p, "index") /\ man' = written
        \/ CallFails(p) /\ Goto(p, "done") /\ man' \in {man, IF v[p].ended THEN man ELSE written}
    /\ UNCHANGED <<scene, db, gc, announced, idx>>

RecordIndex(p) ==
    /\ At(p, "index") /\ Goto(p, "done")
    /\ LET written == [idx EXCEPT ![v[p].b] = Verdict(p)] IN
        \/ CallWorks(p) /\ idx' = written
        \/ CallFails(p) /\ idx' \in {idx, IF v[p].ended THEN idx ELSE written}
    /\ UNCHANGED <<scene, db, gc, announced, man>>

-----------------------------------------------------------------------------
(* What happens to a verification, and the collection of what is left.     *)

Running(p) == v[p].pc \notin {"idle", "done", "gone"}

Cancel(p) ==
    /\ Running(p) /\ ~v[p].ended /\ Spend("cancel")
    /\ Set(p, [v[p] EXCEPT !.ended = TRUE])
    /\ Keep

Crash(p) == Running(p) /\ Spend("crash") /\ Goto(p, "gone") /\ Keep

\* CollectGarbage lists every database with the prefix.
List ==
    /\ gc.pc = "idle" /\ left.collect > 0 /\ left' = [left EXCEPT !.collect = @ - 1]
    /\ gc' = [pc |-> "drop", names |-> {b \in scene.backups : db[b] # "absent"},
              quiet |-> \A p \in Verifiers : ~Using(p)]
    /\ UNCHANGED <<scene, happened, db, v, announced, man, idx>>

\* And drops them one by one, up to the first that fails.
Collect ==
    /\ gc.pc = "drop"
    /\ \/ /\ gc.names = {} /\ gc' = [gc EXCEPT !.pc = "done"]
          /\ UNCHANGED <<left, happened, db, v>>
       \/ \E b \in gc.names :
            \/ /\ gc' = [gc EXCEPT !.names = @ \ {b}]
               /\ db' = [db EXCEPT ![b] = "absent"]
               /\ LET users == {q \in Verifiers : v[q].b = b /\ Using(q)} IN
                   /\ v' = [q \in Verifiers |-> IF q \in users THEN [v[q] EXCEPT !.cut = TRUE] ELSE v[q]]
                   /\ happened' = IF users # {} THEN happened \cup {"collected"} ELSE happened
               /\ UNCHANGED left
            \/ Fault /\ gc' = [gc EXCEPT !.pc = "failed"] /\ UNCHANGED <<db, v>>
    /\ UNCHANGED <<scene, announced, man, idx>>

Next ==
    \/ \E p \in Verifiers :
        \/ \E b \in scene.backups, level \in scene.levels, key \in scene.keys : Start(p, b, level, key)
        \/ integrity(p) \/ structural(p)
        \/ Probe(p) \/ Create(p) \/ IsEmpty(p) \/ Open(p) \/ Load(p) \/ Inspect(p) \/ Drop(p)
        \/ Report(p) \/ RecordManifest(p) \/ RecordIndex(p)
        \/ Cancel(p) \/ Crash(p)
    \/ List \/ Collect

Spec == Init /\ [][Next]_vars

-----------------------------------------------------------------------------
(* Properties.                                                             *)

TypeOK ==
    /\ db \in [scene.backups -> {"absent", "empty", "part", "full"}]
    /\ \A b \in scene.backups : {man[b], idx[b]} \subseteq Verdicts \cup {None}
    /\ announced \subseteq [b : scene.backups, level : Levels, out : {"ok", "broken"}]
    /\ \A p \in Verifiers : v[p].out \in {None, "ok", "broken", "skipped", "error"}
    /\ gc.names \subseteq scene.backups

\* The rows of the table that may be lost are looked at, and losing all of
\* them is not tolerated.
Counts(a) ==
    LET lost == scene.tables[1] IN
    /\ a.type = "row_count" /\ lost \in selectTables(scene.tables, a.names)
    /\ lost.rows > 0 /\ toleranceFor(a, lost) < 100

\* What a level looks at, and would have to miss.
Flaws(level) ==
    CASE level = "integrity"  -> {"missing", "short"}
      [] level = "structural" -> {"missing", "short", "flipped"}
      [] level = "restore"    -> {"missing", "short", "flipped", "unsound"} \cup
            (IF \E a \in scene.assertions : Counts(a) THEN {"lossy", "emptied"} ELSE {})

\* A verdict in the manifest, in the index or announced says a backup passed
\* only if it has none of the flaws its level looks for, whatever other
\* verifications, collections, failures and crashes met it (verify.go,
\* integrity and structural; restore.go, restore; assert.go).
BrokenNeverPasses ==
    \A b \in scene.backups, level \in Levels :
        scene.object \in Flaws(level) =>
            /\ [level |-> level, out |-> "ok"] \notin {man[b], idx[b]}
            /\ [b |-> b, level |-> level, out |-> "ok"] \notin announced

\* A good backup is called broken only after a call failed, a context ended,
\* or a sandbox was taken away while it was in use, which without `verify --gc`
\* happens on MongoDB alone, where Create refuses nothing: not for a wrong or
\* missing key, an old staging server, or what a crashed run left (verify.go,
\* structural; restore.go, cannotRun and versionSkip; provision.go, Create and
\* Drop).
GoodPasses ==
    /\ Good /\ {"fault", "cancel", "shared", "collected"} \cap happened = {} =>
         \A r \in announced : r.out = "ok"
    /\ sql /\ "collected" \notin happened => "shared" \notin happened

\* A verification that has ended, a cancelled one included, leaves no database
\* on the staging server, unless the process died or a call failed; what such
\* a run left is cleared by a collection that meets no verification
\* (restore.go, the deferred drop and CollectGarbage).
SandboxDropped ==
    /\ {"crash", "fault"} \cap happened = {} /\ (\A p \in Verifiers : ~Using(p))
        => \A b \in scene.backups : db[b] = "absent"
    /\ gc.pc = "done" /\ gc.quiet => \A b \in scene.backups : db[b] = "absent"
=============================================================================
