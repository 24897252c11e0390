------------------------------ MODULE Catalog ------------------------------
(***************************************************************************)
(* The bucket of one target and everything that writes to it: the data     *)
(* objects, the manifests and the index, under backups, prunes,            *)
(* verifications and reindexing that overlap.                              *)
(*                                                                         *)
(* Daemon stands for the runs of the executor (internal/scheduler/exec.go).*)
(* They hold the target's lock, so there is one at a time (see Lock).  The *)
(* Users are commands that take no lock: `vaultd prune`, `vaultd verify`,  *)
(* `vaultd reindex` and the prune of the UI.  Each request to the store is *)
(* a step; a process may die between any two.                              *)
(***************************************************************************)
EXTENDS Index, Prune

CONSTANTS
    Daemon,      \* the process that holds the lock
    NoManifest,  \* the manifest object does not exist
    Rules,       \* the target's retention policy
    Scenarios,   \* the workloads to explore, see Scenario
    MaxRuns,     \* bound on the backups of a scenario
    MaxChecks    \* bound on its verifications

ASSUME CatalogAssumption ==
    /\ Daemon \in Writers
    /\ MaxRuns \in Nat /\ MaxChecks \in Nat /\ appendAttempts \in Nat \ {0}
    /\ NoManifest \notin Int
    /\ NoIndex \notin Seq([id : Nat, at : Nat, ok : BOOLEAN, ver : Int])
    /\ Rules \in Policy

VARIABLES
    scene,     \* the scenario
    data,      \* the runs whose data object is in the bucket
    man,       \* the manifests: the verification each records, or NoManifest
    job,       \* what each process is doing
    runs,      \* backups started; run n makes backup n
    checks,    \* verifications recorded, the source of their times
    commands,  \* commands the users may still run
    crashes,   \* processes that may still die
    losses,    \* times the index object may still be lost
    confirmed, \* history: the backups whose Append to the index returned nil
    pruned     \* history: the backups retention decided to delete

history == <<confirmed, pruned>>
vars == <<indexVars, scene, data, man, job, runs, checks, commands, crashes, losses, history>>
bounds == <<scene, runs, checks, commands, crashes, losses>>

\* What happens to the bucket: the commands users run beside the daemon,
\* whether they wait for what is running, and how much of everything.
Scenario == [use : SUBSET {"prune", "orphans", "verify", "reindex"}, overlap : BOOLEAN,
             runs : 0..MaxRuns, checks : 0..MaxChecks, commands : Nat, crashes : Nat,
             losses : Nat, faults : [failed : Nat, resent : Nat]]

ASSUME ScenarioAssumption == Scenarios \subseteq Scenario

Ids == 1..MaxRuns
Users == Writers \ {Daemon}
Rest == [pc |-> "idle", id |-> 0, orphans |-> FALSE, plan |-> NoOp,
         data |-> {}, man |-> {}]

InBackup == {"stream", "manifest", "append", "note"}

CatalogTypeOK ==
    /\ IndexTypeOK([id : 0..MaxRuns, at : Ids, ok : BOOLEAN, ver : (-MaxChecks)..MaxChecks])
    /\ scene \in Scenario
    /\ data \subseteq Ids /\ confirmed \subseteq Ids /\ pruned \subseteq Ids
    /\ man \in [Ids -> (-MaxChecks)..MaxChecks \cup {NoManifest}]
    /\ \A w \in Writers :
        /\ job[w].pc \in {"idle", "plan", "sweep", "delete", "remove", "check",
                          "record", "noted", "fetch", "replace"} \cup InBackup
        /\ job[w].id \in 0..MaxRuns
        /\ job[w].data \subseteq Ids /\ job[w].man \subseteq Ids

Init ==
    /\ scene \in Scenarios
    /\ faults = scene.faults /\ commands = scene.commands
    /\ crashes = scene.crashes /\ losses = scene.losses
    /\ IndexInit /\ idx = NoIndex
    /\ data = {} /\ confirmed = {} /\ pruned = {}
    /\ man = [b \in Ids |-> NoManifest]
    /\ job = [w \in Writers |-> Rest]
    /\ runs = 0 /\ checks = 0

\* A process may start something; a careful one waits until nothing runs.
Free(w) ==
    /\ job[w].pc = "idle"
    /\ scene.overlap \/ \A v \in Writers : job[v].pc = "idle"

\* A user runs a command.
Command(w, name) ==
    /\ w \in Users /\ name \in scene.use /\ Free(w)
    /\ commands > 0 /\ commands' = commands - 1

Do(w, pc) == job' = [job EXCEPT ![w].pc = pc]
Done(w) == job' = [job EXCEPT ![w] = Rest]

\* The process calls the index and goes on when the call returned.
CallIndex(w, op, pc) == Call(w, op) /\ Do(w, pc)

\* Mutant: the rebuilt entries carry no verification.
RebuildUnverified(ids) ==
    Kept([i \in Ids |-> NewEntry(i, 0)], ids)

\* index.Rebuild: the manifests, oldest first.  Failed runs have none.
Rebuild(ids) ==
    Kept([i \in Ids |-> NewEntry(i, man[i])], ids)

Manifests == {b \in Ids : man[b] # NoManifest}

\* index.Entries.
Entries == IF idx = NoIndex THEN Rebuild(Manifests) ELSE idx

-----------------------------------------------------------------------------
(* Backup (internal/backup): data, then manifest, then index.              *)

StartBackup ==
    /\ Free(Daemon) /\ runs < scene.runs
    /\ runs' = runs + 1
    /\ job' = [job EXCEPT ![Daemon] = [Rest EXCEPT !.pc = "stream", !.id = runs + 1]]
    /\ UNCHANGED <<indexVars, scene, data, man, checks, commands, crashes, losses, history>>

\* recordFailure, on a context of its own.
RecordFailure(id) == CallIndex(Daemon, AppendOp(NewFailureEntry(id)), "note")

\* The dump is uploaded, or the run fails: with no object, or with an object
\* nothing will refer to (the globals failed, an empty dump was not removed,
\* the response was lost).
Stream ==
    /\ job[Daemon].pc = "stream"
    /\ LET id == job[Daemon].id IN
        \/ data' = data \cup {id} /\ Do(Daemon, "manifest") /\ UNCHANGED io
        \/ UNCHANGED data /\ RecordFailure(id)
        \/ data' = data \cup {id} /\ RecordFailure(id)
    /\ UNCHANGED <<idx, faults, man, bounds, history>>

PutManifest ==
    /\ job[Daemon].pc = "manifest"
    /\ LET id == job[Daemon].id
           stored == man' = [man EXCEPT ![id] = 0]
       IN \/ stored /\ NoFault /\ CallIndex(Daemon, AppendOp(NewEntry(id, 0)), "append")
          \/ UNCHANGED man /\ Fault /\ RecordFailure(id)
          \/ stored /\ Fault /\ RecordFailure(id)
    /\ UNCHANGED <<idx, data, bounds, history>>

\* A failed Append is only warned about.  The executor then prunes, unless it
\* was told not to.
Appended ==
    /\ job[Daemon].pc = "append" /\ io[Daemon].pc \in Returned
    /\ Hangup(Daemon)
    /\ confirmed' = IF io[Daemon].pc = "ok" THEN confirmed \cup {job[Daemon].id} ELSE confirmed
    /\ Do(Daemon, "plan") \/ Done(Daemon)
    /\ UNCHANGED <<idx, faults, data, man, bounds, pruned>>

-----------------------------------------------------------------------------
(* Prune (internal/prune, internal/cli/prune.go): objects, then index.     *)

StartPrune(w) ==
    /\ \E name \in {"prune", "orphans"} :
        /\ Command(w, name)
        /\ job' = [job EXCEPT ![w] = [Rest EXCEPT !.pc = "plan", !.orphans = (name = "orphans")]]
    /\ UNCHANGED <<indexVars, scene, data, man, runs, checks, crashes, losses, history>>

\* Plan reads the entries and fixes what Apply will delete.
PlanPrune(w) ==
    /\ job[w].pc = "plan"
    /\ LET doomed == Doomed(Rules, Entries)
           planned == [Rest EXCEPT !.pc = "delete", !.plan = RemovalOf(Entries, doomed),
                                   !.data = doomed, !.man = doomed]
       IN /\ job' = [job EXCEPT ![w] =
            IF @.orphans THEN [planned EXCEPT !.pc = "sweep"]
            ELSE IF doomed = {} THEN Rest
            ELSE planned]
          /\ pruned' = pruned \cup doomed
    /\ UNCHANGED <<indexVars, data, man, bounds, confirmed>>

\* Mutant: no grace period.
GraceNone == runs

\* The newest run whose objects may be older than the grace period, which
\* those of a run in progress never are.
Grace == IF job[Daemon].pc \in InBackup THEN job[Daemon].id - 1 ELSE runs

\* findOrphans: what no index entry claims and is older than the grace period.
Sweep(w) ==
    /\ job[w].pc = "sweep"
    /\ \E last \in 0..Grace :
        LET strays == {b \in 1..last : ~Listed(Entries, b)}
            d == job[w].data \cup (strays \cap data)
            m == job[w].man \cup (strays \cap Manifests)
        IN job' = [job EXCEPT ![w] =
            IF d \cup m = {} THEN Rest
            ELSE [@ EXCEPT !.pc = "delete", !.data = d, !.man = m]]
    /\ UNCHANGED <<indexVars, data, man, bounds, history>>

\* Mutant: the index forgets the backups although some manifests were not
\* deleted.
ApplyPruneRegardless(w) ==
    /\ job[w].pc = "delete"
    /\ \E m \in SUBSET job[w].man :
        /\ data' = data \ job[w].data
        /\ man' = [b \in Ids |-> IF b \in m THEN NoManifest ELSE man[b]]
        /\ m = job[w].man \/ faults.failed > 0
    /\ CallIndex(w, job[w].plan, "remove")
    /\ UNCHANGED <<idx, faults, bounds, history>>

\* Store.Delete, which may fail after deleting some of the keys, and then
\* Index.Remove.
ApplyPrune(w) ==
    /\ job[w].pc = "delete"
    /\ \E d \in SUBSET job[w].data, m \in SUBSET job[w].man :
        /\ data' = data \ d
        /\ man' = [b \in Ids |-> IF b \in m THEN NoManifest ELSE man[b]]
        /\ \/ d = job[w].data /\ m = job[w].man /\ NoFault
              /\ CallIndex(w, job[w].plan, "remove")
           \/ Fault /\ Done(w) /\ UNCHANGED io
    /\ UNCHANGED <<idx, bounds, history>>

-----------------------------------------------------------------------------
(* Verification (internal/verify): read, check, rewrite, index.            *)

\* exec.go takes the newest backup, the command line any.
StartVerify(w) ==
    /\ checks < scene.checks
    /\ \/ w = Daemon /\ Free(w) /\ UNCHANGED commands
       \/ Command(w, "verify")
    /\ \E e \in Backups(Entries) :
        /\ w = Daemon => \A f \in Backups(Entries) : f.at <= e.at
        /\ man[e.id] # NoManifest
        /\ job' = [job EXCEPT ![w] = [Rest EXCEPT !.pc = "check", !.id = e.id]]
    /\ UNCHANGED <<indexVars, scene, data, man, runs, checks, crashes, losses, history>>

\* The check itself.  It cannot pass without the data; a skip records nothing.
Check(w) ==
    /\ job[w].pc = "check"
    /\ \/ \E outcome \in {-1, 1} :
            /\ checks < scene.checks
            /\ outcome = 1 => job[w].id \in data
            /\ checks' = checks + 1
            /\ job' = [job EXCEPT ![w].pc = "record",
                                  ![w].plan = VerifyOp(job[w].id, outcome * (checks + 1))]
       \/ Done(w) /\ UNCHANGED checks
    /\ UNCHANGED <<indexVars, scene, data, man, runs, commands, crashes, losses, history>>

\* record: an unconditional Put of the manifest, then the index.
Record(w) ==
    /\ job[w].pc = "record"
    /\ LET stored == man' = [man EXCEPT ![job[w].id] = job[w].plan.ver]
       IN \/ stored /\ NoFault /\ CallIndex(w, job[w].plan, "noted")
          \/ UNCHANGED man /\ Fault /\ Done(w) /\ UNCHANGED io
          \/ stored /\ Fault /\ Done(w) /\ UNCHANGED io
    /\ UNCHANGED <<idx, data, bounds, history>>

-----------------------------------------------------------------------------
(* Reindex (internal/cli/reindex.go): list, fetch each, replace.           *)

\* The keys are listed first.
StartReindex(w) ==
    /\ Command(w, "reindex")
    /\ job' = [job EXCEPT ![w] = [Rest EXCEPT !.pc = "fetch", !.man = Manifests]]
    /\ UNCHANGED <<indexVars, scene, data, man, runs, checks, crashes, losses, history>>

\* A manifest that was deleted since fails the whole rebuild.
Fetch(w) ==
    /\ job[w].pc = "fetch"
    /\ IF job[w].man \subseteq Manifests
       THEN CallIndex(w, ReplaceOp(Rebuild(job[w].man)), "replace")
       ELSE Done(w) /\ UNCHANGED io
    /\ UNCHANGED <<idx, faults, data, man, bounds, history>>

-----------------------------------------------------------------------------
\* A call to the index that was the last thing the process had to do.
Finish(w) ==
    /\ job[w].pc \in {"note", "remove", "noted", "replace"} /\ io[w].pc \in Returned
    /\ Hangup(w) /\ Done(w)
    /\ UNCHANGED <<idx, faults, data, man, bounds, history>>

UseIndex(w) == Access(w) /\ UNCHANGED <<data, man, job, bounds, history>>

\* The process dies; what it wrote stays.
Crash(w) ==
    /\ job[w].pc # "idle" /\ crashes > 0
    /\ crashes' = crashes - 1
    /\ Hangup(w) /\ Done(w)
    /\ UNCHANGED <<idx, faults, scene, data, man, runs, checks, commands, losses, history>>

\* The index object is lost; the bucket keeps the rest.
LoseIndex ==
    /\ idx # NoIndex /\ losses > 0
    /\ losses' = losses - 1 /\ idx' = NoIndex
    /\ UNCHANGED <<io, faults, scene, data, man, job, runs, checks, commands, crashes, history>>

Next ==
    \/ StartBackup \/ Stream \/ PutManifest \/ Appended \/ LoseIndex
    \/ \E w \in Writers :
        \/ StartPrune(w) \/ PlanPrune(w) \/ Sweep(w) \/ ApplyPrune(w)
        \/ StartVerify(w) \/ Check(w) \/ Record(w)
        \/ StartReindex(w) \/ Fetch(w)
        \/ UseIndex(w) \/ Finish(w) \/ Crash(w)

Spec == Init /\ [][Next]_vars

-----------------------------------------------------------------------------
(* Properties.  Each says under which scenarios it is claimed.             *)

Restorable == data \cap Manifests
Deletes == Restorable' \subseteq Restorable /\ Restorable' # Restorable

DaemonAlone == scene.use = {}
Serial == ~scene.overlap
Alone == DaemonAlone \/ Serial
Overwrites == "reindex" \in scene.use \/ scene.losses > 0

(* A backup that was indexed and is still in the bucket is listed: no      *)
(* writer hides it, whichever way their requests interleave or fail (the   *)
(* package comments of internal/index and internal/prune).  Only a reindex *)
(* that overlaps with a backup, or an index object that was lost, can hide *)
(* one.                                                                    *)
NoHiddenBackup ==
    ~Overwrites => \A b \in confirmed \cap Restorable : Listed(Entries, b)

(* An entry is added for a backup that is in the bucket, data and          *)
(* manifest, at that moment: a crash before that leaves objects nothing    *)
(* lists, and the sweep of orphans leaves a run in progress alone          *)
(* (Runner.Run, findOrphans).  What retention decided to delete may be     *)
(* listed once more: an Append that is sent again after the prune, or a    *)
(* write whose ETag is older than its contents and is current again        *)
(* (Index.Load).  A reindex may list a backup deleted since.               *)
ListedIsRestorable ==
    [][ ~Overwrites /\ idx # NoIndex /\ idx' # NoIndex =>
            \A b \in Ids : Listed(idx', b) /\ ~Listed(idx, b) => b \in Restorable' \cup pruned ]_vars

\* No backup has two entries, which a resent Append leaves behind.
Distinct ==
    \A i, j \in DOMAIN Entries :
        Entries[i].ok /\ Entries[j].ok /\ Entries[i].id = Entries[j].id => i = j

\* The backups retention would keep although they are gone: a prune that died
\* or failed half way left their entries.
Ghosts == {e.id : e \in Backups(Entries)} \ (Doomed(Rules, Entries) \cup Restorable)

(* A deletion leaves min_keep backups that can be restored, and is short   *)
(* of that only by the dead entries that its plan took for backups, as     *)
(* long as nothing overlaps with the prune (Policy.Plan, invariant 1,      *)
(* carried through Apply).                                                 *)
FloorKept ==
    [][ /\ Alone /\ scene.losses = 0 /\ scene.use \subseteq {"prune", "verify"}
        /\ Distinct /\ Deletes
        => Cardinality(Restorable' \cup Ghosts) >= Rules.minKeep ]_vars

(* The floor as its comment states it: "prune never leaves fewer than this *)
(* many backups, whatever the tiers say" (Policy.MinKeep).                 *)
FloorKeptEver == [][ Deletes => Cardinality(Restorable') >= Rules.minKeep ]_vars

(* A deletion never takes the newest backup the index knows as verified,   *)
(* as long as no verification overlaps with it and the index is not lost   *)
(* in between (invariant 2).                                               *)
VerifiedKept ==
    [][ LET verified == {e.id : e \in {f \in Backups(Entries) : f.verified}}
            deleted == Restorable \ Restorable'
        IN Alone /\ scene.losses = 0 /\ scene.use \subseteq {"prune", "verify"} =>
            \A b \in deleted \cap verified : \E c \in verified \ deleted : c > b ]_vars

(* Nothing is deleted while the most recent run on record failed, as long  *)
(* as no run overlaps with the deletion (invariant 3).                     *)
FrozenWhileFailing ==
    [][ Alone /\ "orphans" \notin scene.use /\ Deletes => ~LastRunFailed(Entries) ]_vars

(* A backup that was indexed and whose data is gone while its manifest     *)
(* remains, because a Delete failed half way, is still listed: the next    *)
(* prune finishes it (Apply, objects first).                               *)
HalfDeletedIsListed ==
    Alone /\ ~Overwrites => \A b \in confirmed \cap (Manifests \ data) : Listed(Entries, b)

(* A reindex that nothing overlaps lists what the bucket holds, no more    *)
(* and no less, each with the verification its manifest records: whatever  *)
(* crash, failed write, lost index or half-done prune came before (the     *)
(* command's help: "this repairs an index that was lost, truncated or left *)
(* behind by an interrupted run").                                         *)
ReindexRepairs ==
    [][ \A w \in Writers :
            Serial /\ job[w].pc = "replace" /\ io[w].pc = "ok" /\ job'[w].pc = "idle" =>
                {<<Entries[i].id, Entries[i].ver>> : i \in DOMAIN Entries}
                    = {<<b, man[b]>> : b \in Manifests} ]_vars
=============================================================================
