--------------------------- MODULE CatalogProofs ---------------------------
(***************************************************************************)
(* Proofs about module Catalog, for any number of processes, runs,         *)
(* verifications, commands, crashes and failed or resent requests, and for *)
(* any retention policy.                                                   *)
(***************************************************************************)
EXTENDS CatalogControl

-----------------------------------------------------------------------------
(* Turns: where processes do not overlap, one works at a time.             *)

Single ==
    Alone => \A v, w \in Writers :
        /\ job[v].pc # "idle" /\ job[w].pc # "idle" => v = w
        /\ DaemonAlone /\ job[v].pc # "idle" => v = Daemon
        /\ job[w].pc \in {"check", "record"} => job[w].id \notin Ids \ Manifests

(* A process that takes a step was at work, or was free to start; what the *)
(* others do is not its business.                                          *)
LEMMA Turn ==
    ASSUME Types, Control, NEW w \in Writers,
           \/ w = Daemon /\ (StartBackup \/ Stream \/ PutManifest \/ Appended)
           \/ StartPrune(w) \/ PlanPrune(w) \/ Sweep(w) \/ ApplyPrune(w)
           \/ StartVerify(w) \/ Check(w) \/ Record(w)
           \/ StartReindex(w) \/ Fetch(w)
           \/ UseIndex(w) \/ Finish(w) \/ Crash(w)
    PROVE  /\ scene' = scene
           /\ \A v \in Writers \ {w} : job'[v] = job[v] /\ io'[v] = io[v]
           /\ job[w].pc # "idle" \/ (Free(w) /\ (w = Daemon \/ scene.use # {}))
<1>0. DOMAIN io = Writers /\ DOMAIN job = Writers /\ ControlOf(w)
  BY Zenon DEF Types, Control
<1>1. CASE w = Daemon /\ (StartBackup \/ Stream \/ PutManifest \/ Appended)
  <2>1. CASE StartBackup
    BY <1>0, <1>1, <2>1, Zenon DEF StartBackup, indexVars
  <2>2. CASE Stream
    BY <1>0, <1>1, <2>2, Zenon DEF Stream, RecordFailure, CallIndex, Call, Do, bounds
  <2>3. CASE PutManifest
    BY <1>0, <1>1, <2>3, Zenon DEF PutManifest, RecordFailure, CallIndex, Call, Do, bounds
  <2>4. CASE Appended
    BY <1>0, <1>1, <2>4, Zenon DEF Appended, Hangup, Do, Done, bounds
  <2> QED BY <1>1, <2>1, <2>2, <2>3, <2>4, ZenonT(20)
<1>2. CASE StartPrune(w)
  BY <1>0, <1>2 DEF StartPrune, Command, indexVars
<1>3. CASE PlanPrune(w)
  BY <1>0, <1>3, Zenon DEF PlanPrune, indexVars, bounds
<1>4. CASE Sweep(w)
  BY <1>0, <1>4, Zenon DEF Sweep, indexVars, bounds
<1>5. CASE ApplyPrune(w)
  BY <1>0, <1>5, Zenon DEF ApplyPrune, CallIndex, Call, Do, Done, bounds
<1>6. CASE StartVerify(w)
  BY <1>0, <1>6, Zenon DEF StartVerify, Command, indexVars
<1>7. CASE Check(w)
  BY <1>0, <1>7, Zenon DEF Check, Done, indexVars
<1>8. CASE Record(w)
  BY <1>0, <1>8, Zenon DEF Record, CallIndex, Call, Do, Done, bounds
<1>9. CASE StartReindex(w)
  BY <1>0, <1>9, Zenon DEF StartReindex, Command, indexVars
<1>10. CASE Fetch(w)
  BY <1>0, <1>10, Zenon DEF Fetch, CallIndex, Call, Do, Done, bounds
<1>11. CASE Finish(w)
  BY <1>0, <1>11, Zenon DEF Finish, Hangup, Done, bounds
<1>12. CASE Crash(w)
  BY <1>0, <1>12, Zenon DEF Crash, Hangup, Done
<1>13. CASE UseIndex(w)
  <2>1. UNCHANGED <<job, scene>> /\ Access(w)
    BY <1>13, Zenon DEF UseIndex, bounds
  <2>2. PICK X : io' = [io EXCEPT ![w] = X] /\ io[w].pc \in {"head", "get", "put", "replace"}
    BY <2>1, AccessShape, Zenon
  <2>3. job[w].pc # "idle"
    BY <1>0, <2>2, Zenon DEF ControlOf, Calling, InBackup
  <2> QED BY <1>0, <2>1, <2>2, <2>3, Zenon
<1> QED BY <1>1, <1>2, <1>3, <1>4, <1>5, <1>6, <1>7, <1>8, <1>9, <1>10, <1>11, <1>12, <1>13, ZenonT(20)

(* What happens to the manifests and to what is being verified.            *)
LEMMA Verifying ==
    ASSUME Types, Control, NEW w \in Writers,
           \/ w = Daemon /\ (StartBackup \/ Stream \/ PutManifest \/ Appended)
           \/ StartPrune(w) \/ PlanPrune(w) \/ Sweep(w) \/ ApplyPrune(w)
           \/ StartVerify(w) \/ Check(w) \/ Record(w)
           \/ StartReindex(w) \/ Fetch(w)
           \/ UseIndex(w) \/ Finish(w) \/ Crash(w)
    PROVE  /\ ~(Manifests \subseteq Manifests') => job'[w].pc \notin {"check", "record"}
           /\ job'[w].pc \in {"check", "record"} =>
                \/ job'[w].id \notin Ids \ Manifests'
                \/ job[w].pc \in {"check", "record"} /\ job'[w].id = job[w].id /\ Manifests' = Manifests
<1>0. /\ DOMAIN io = Writers /\ DOMAIN job = Writers /\ job[w] \in Job(Reached)
      /\ man \in [Ids -> Int \cup {NoManifest}]
  BY Zenon DEF Types
<1>1. man' = man => Manifests' = Manifests
  BY Zenon DEF Manifests
<1>2. Rest.pc = "idle"
  BY Zenon DEF Rest
<1>3. CASE w = Daemon /\ (StartBackup \/ Stream \/ PutManifest \/ Appended)
  <2>1. CASE StartBackup
    BY <1>0, <1>1, <1>3, <2>1, Zenon DEF StartBackup, Rest
  <2>2. CASE Stream
    BY <1>0, <1>1, <1>3, <2>2 DEF Stream, RecordFailure, CallIndex, Do, Job
  <2>3. CASE PutManifest
    <3>1. job'[w].pc \in {"note", "append"}
      BY <1>0, <1>3, <2>3, ZenonT(30) DEF PutManifest, RecordFailure, CallIndex, Do, Job
    <3> QED BY <3>1, Zenon
  <2>4. CASE Appended
    BY <1>0, <1>1, <1>2, <1>3, <2>4, ZenonT(30) DEF Appended, Do, Done, Job
  <2> QED BY <1>3, <2>1, <2>2, <2>3, <2>4, Zenon
<1>4. CASE StartPrune(w)
  BY <1>0, <1>1, <1>4 DEF StartPrune, Rest
<1>5. CASE PlanPrune(w)
  <2> DEFINE Z(r) == [Rest EXCEPT !.pc = "delete", !.plan = r, !.data = Doomed(Rules, Entries),
                                  !.man = Doomed(Rules, Entries)]
             r0 == RemovalOf(Entries, Doomed(Rules, Entries))
  <2>1. man' = man /\ job'[w] \in {[Z(r0) EXCEPT !.pc = "sweep"], Rest, Z(r0)}
    BY <1>0, <1>5, Zenon DEF PlanPrune
  <2>2. Z(r0).pc = "delete" /\ [Z(r0) EXCEPT !.pc = "sweep"].pc = "sweep"
    BY DEF Rest
  <2> QED BY <1>1, <1>2, <2>1, <2>2, Zenon
<1>6. CASE Sweep(w)
  <2>1. PICK last \in 0..Grace :
          LET strays == {b \in 1..last : ~Listed(Entries, b)}
              d == job[w].data \cup (strays \cap data)
              m == job[w].man \cup (strays \cap Manifests)
          IN job' = [job EXCEPT ![w] = IF d \cup m = {} THEN Rest
                                       ELSE [job[w] EXCEPT !.pc = "delete", !.data = d, !.man = m]]
    BY <1>6, Zenon DEF Sweep
  <2>2. man' = man
    BY <1>6, Zenon DEF Sweep
  <2>3. job'[w].pc \in {"idle", "delete"}
    BY <1>0, <1>2, <2>1, Zenon DEF Job
  <2> QED BY <1>1, <2>2, <2>3, Zenon
<1>7. CASE ApplyPrune(w)
  <2>1. job'[w].pc \in {"remove", "idle"}
    BY <1>0, <1>2, <1>7, Zenon DEF ApplyPrune, CallIndex, Do, Done, Job
  <2> QED BY <2>1, Zenon
<1>8. CASE StartVerify(w)
  <2>1. PICK e \in Backups(Entries) :
            /\ man[e.id] # NoManifest
            /\ job' = [job EXCEPT ![w] = [Rest EXCEPT !.pc = "check", !.id = e.id]]
    BY <1>8, Zenon DEF StartVerify
  <2>2. man' = man /\ job'[w].id = e.id
    BY <1>0, <1>8, <2>1, Zenon DEF StartVerify, Rest
  <2> QED BY <1>1, <2>1, <2>2, Zenon DEF Manifests
<1>9. CASE Check(w)
  <2>1. man' = man /\ job[w].pc = "check"
    BY <1>9, Zenon DEF Check
  <2>2. job'[w] = Rest \/ \E v : job'[w] = [job[w] EXCEPT !.pc = "record", !.plan = v]
    BY <1>0, <1>9, Zenon DEF Check, Done, Job
  <2>3. job'[w].pc = "idle" \/ job'[w].id = job[w].id
    BY <1>0, <1>2, <2>2, Zenon DEF Job
  <2> QED BY <1>1, <2>1, <2>3, Zenon
<1>10. CASE Record(w)
  <2>1. job'[w].pc \in {"noted", "idle"}
    BY <1>0, <1>2, <1>10, Zenon DEF Record, CallIndex, Do, Done, Job
  <2> QED BY <2>1, Zenon
<1>11. CASE StartReindex(w)
  BY <1>0, <1>1, <1>11, Zenon DEF StartReindex, Rest
<1>12. CASE Fetch(w)
  BY <1>0, <1>1, <1>2, <1>12 DEF Fetch, CallIndex, Do, Done, Job
<1>13. CASE Finish(w) \/ Crash(w)
  BY <1>0, <1>1, <1>2, <1>13, Zenon DEF Finish, Crash, Done
<1>14. CASE UseIndex(w)
  BY <1>0, <1>1, <1>14, Zenon DEF UseIndex
<1> QED BY <1>3, <1>4, <1>5, <1>6, <1>7, <1>8, <1>9, <1>10, <1>11, <1>12, <1>13, <1>14, Zenon

(* Where processes do not overlap, one works at a time, and what it        *)
(* verifies has a manifest.                                                *)
LEMMA SingleStep ==
    ASSUME Types, Control, Single, [Next]_vars
    PROVE  Single'
<1>1. ASSUME UNCHANGED <<scene, man, job>> PROVE Single'
  <2>1. Manifests' = Manifests
    BY <1>1, Zenon DEF Manifests
  <2> QED BY <1>1, <2>1, Zenon DEF Single, Alone, DaemonAlone, Serial
<1>2. CASE LoseIndex
  <2>1. UNCHANGED <<scene, man, job>>
    BY <1>2, Zenon DEF LoseIndex
  <2> QED BY <1>1, <2>1, Zenon
<1>3. CASE UNCHANGED vars
  <2>1. UNCHANGED <<scene, man, job>>
    BY <1>3, Zenon DEF vars
  <2> QED BY <1>1, <2>1
<1>4. ASSUME NEW w \in Writers,
             \/ w = Daemon /\ (StartBackup \/ Stream \/ PutManifest \/ Appended)
             \/ StartPrune(w) \/ PlanPrune(w) \/ Sweep(w) \/ ApplyPrune(w)
             \/ StartVerify(w) \/ Check(w) \/ Record(w)
             \/ StartReindex(w) \/ Fetch(w)
             \/ UseIndex(w) \/ Finish(w) \/ Crash(w)
      PROVE  Single'
  <2>1. /\ scene' = scene
        /\ \A v \in Writers \ {w} : job'[v] = job[v] /\ io'[v] = io[v]
        /\ job[w].pc # "idle" \/ (Free(w) /\ (w = Daemon \/ scene.use # {}))
    BY <1>4, Turn, Zenon
  <2>2. /\ ~(Manifests \subseteq Manifests') => job'[w].pc \notin {"check", "record"}
        /\ job'[w].pc \in {"check", "record"} =>
                \/ job'[w].id \notin Ids \ Manifests'
                \/ job[w].pc \in {"check", "record"} /\ job'[w].id = job[w].id /\ Manifests' = Manifests
    BY <1>4, Verifying, Zenon
  <2>3. (Alone' <=> Alone) /\ (DaemonAlone' <=> DaemonAlone)
    BY <2>1, Zenon DEF Alone, DaemonAlone, Serial
  <2>4. CASE ~Alone
    BY <2>3, <2>4, Zenon DEF Single
  <2>5. CASE Alone
    <3>1. \A v \in Writers \ {w} : job[v].pc = "idle" /\ job'[v].pc = "idle"
      <4>1. CASE job[w].pc # "idle"
        BY <2>1, <2>5, <4>1, Zenon DEF Single
      <4>2. CASE job[w].pc = "idle" /\ DaemonAlone
        BY <2>1, <2>5, <4>2, Zenon DEF Single, DaemonAlone
      <4>3. CASE job[w].pc = "idle" /\ ~DaemonAlone
        BY <2>1, <2>5, <4>3, Zenon DEF Free, Alone, Serial
      <4> QED BY <4>1, <4>2, <4>3, Zenon
    <3>2. DaemonAlone => w = Daemon
      BY <2>1, <2>5, Zenon DEF Single, DaemonAlone
    <3>3. job'[w].pc \in {"check", "record"} => job'[w].id \notin Ids \ Manifests'
      BY <2>2, <2>5, Zenon DEF Single
    <3>4. \A u, v \in Writers :
            /\ job'[u].pc # "idle" /\ job'[v].pc # "idle" => u = v
            /\ DaemonAlone /\ job'[u].pc # "idle" => u = Daemon
            /\ job'[v].pc \in {"check", "record"} => job'[v].id \notin Ids' \ Manifests'
      BY <3>1, <3>2, <3>3, Zenon DEF Ids
    <3> QED BY <2>3, <3>4, Zenon DEF Single
  <2> QED BY <2>4, <2>5, Zenon
<1> QED BY <1>2, <1>3, <1>4, CatalogAssumption, Zenon DEF Next

(* Under the same, a verification makes no manifest.                       *)
LEMMA RecordKeeps ==
    ASSUME Types, Control, Single, Alone, NEW w \in Writers, Record(w)
    PROVE  Manifests' = Manifests
<1>1. job[w].pc = "record" /\ man' \in {man, [man EXCEPT ![job[w].id] = job[w].plan.ver]}
  BY Zenon DEF Record
<1>2. job[w].plan.kind = "verify" /\ job[w].plan \in Op(Reached)
  BY <1>1, Zenon DEF Control, ControlOf, Types, Job
<1>3. job[w].plan.ver \in Int /\ man \in [Ids -> Int \cup {NoManifest}] /\ NoManifest \notin Int
  BY <1>2, CatalogAssumption, Zenon DEF Op, Removal, Types
<1>4. job[w].id \notin Ids \ Manifests
  BY <1>1, Zenon DEF Single
<1> QED BY <1>1, <1>3, <1>4, Zenon DEF Manifests

-----------------------------------------------------------------------------
(* The index never loses a backup that is held.                            *)

\* The backups retention has not decided on, or has not deleted yet.
Held == {b \in Ids : b \notin pruned \/ b \in data \/ (Alone /\ b \in Manifests)}

\* What is taken off the index is not held: the objects went first (Apply).
Removals == \A w \in Writers : io[w].op.kind = "remove" => io[w].op.gone \cap Held = {}

(* A run that somebody may know of is held only if it was before.          *)
LEMMA HeldStep ==
    ASSUME Types, Control, Single, [Next]_vars
    PROVE  /\ \A b \in Held' : b <= Reached => b \in Held
           /\ pruned \subseteq pruned' /\ scene' = scene
<1>0. runs \in Nat /\ Reached \in Int /\ Ids \subseteq Int
  BY Bounds DEF Ids
<1>1. man' = man => Manifests' = Manifests
  BY Zenon DEF Manifests
<1>2. Ids' = Ids
  BY Zenon DEF Ids
<1>3. ASSUME scene' = scene, pruned \subseteq pruned', data' \subseteq data \cup {Reached + 1},
             Alone => Manifests' \subseteq Manifests \cup {Reached + 1}
      PROVE  \A b \in Held' : b <= Reached => b \in Held
  <2>1. Alone' <=> Alone
    BY <1>3, Zenon DEF Alone, DaemonAlone, Serial
  <2> QED BY <1>0, <1>2, <1>3, <2>1 DEF Held
<1>4. job[Daemon].pc \in {"stream", "manifest"} => job[Daemon].id = Reached + 1
  <2>1. job[Daemon].pc \in {"stream", "manifest"} => job[Daemon].id = runs /\ Reached = runs - 1
    BY Bounds, Zenon DEF Control, ControlOf, InBackup, Reached
  <2> QED BY <1>0, <2>1
<1>5. ASSUME NEW w \in Writers,
             \/ w = Daemon /\ (StartBackup \/ Stream \/ PutManifest \/ Appended)
             \/ StartPrune(w) \/ PlanPrune(w) \/ Sweep(w) \/ ApplyPrune(w)
             \/ StartVerify(w) \/ Check(w) \/ Record(w)
             \/ StartReindex(w) \/ Fetch(w)
             \/ UseIndex(w) \/ Finish(w) \/ Crash(w)
      PROVE  /\ scene' = scene /\ pruned \subseteq pruned' /\ data' \subseteq data \cup {Reached + 1}
             /\ Alone => Manifests' \subseteq Manifests \cup {Reached + 1}
  <2>0. scene' = scene
    BY <1>5, Turn, Zenon
  <2>1. CASE Stream
    BY <1>1, <1>4, <2>0, <2>1, Zenon DEF Stream, history
  <2>2. CASE PutManifest
    <3>1. /\ job[Daemon].pc = "manifest" /\ pruned' = pruned /\ data' = data
          /\ man' \in {man, [man EXCEPT ![job[Daemon].id] = 0]}
      BY <2>2, Zenon DEF PutManifest, history
    <3>2. Manifests' \subseteq Manifests \cup {job[Daemon].id}
      BY <3>1, Zenon DEF Manifests, Types
    <3> QED BY <1>4, <2>0, <3>1, <3>2, Zenon
  <2>3. CASE ApplyPrune(w)
    <3>1. PICK d \in SUBSET job[w].data, m \in SUBSET job[w].man :
             data' = data \ d /\ man' = [b \in Ids |-> IF b \in m THEN NoManifest ELSE man[b]]
      BY <2>3, Zenon DEF ApplyPrune
    <3>2. pruned' = pruned /\ Manifests' \subseteq Manifests
      BY <2>3, <3>1, Zenon DEF ApplyPrune, history, Manifests
    <3> QED BY <2>0, <3>1, <3>2, Zenon
  <2>4. CASE Record(w)
    <3>1. UNCHANGED <<data, pruned>>
      BY <2>4, Zenon DEF Record, history
    <3> QED BY <2>0, <2>4, <3>1, RecordKeeps, Zenon
  <2>5. CASE PlanPrune(w)
    BY <1>1, <2>0, <2>5 DEF PlanPrune
  <2>6. CASE StartBackup \/ Appended
    BY <1>1, <2>0, <2>6, Zenon DEF StartBackup, Appended, history
  <2>7. CASE StartPrune(w) \/ Sweep(w) \/ StartVerify(w)
    BY <1>1, <2>0, <2>7, Zenon DEF StartPrune, Sweep, StartVerify, history
  <2>8. CASE Check(w) \/ StartReindex(w) \/ Fetch(w)
    BY <1>1, <2>0, <2>8, Zenon DEF Check, StartReindex, Fetch, history
  <2>9. CASE UseIndex(w) \/ Finish(w) \/ Crash(w)
    BY <1>1, <2>0, <2>9, Zenon DEF UseIndex, Finish, Crash, history
  <2> QED BY <1>5, <2>1, <2>2, <2>3, <2>4, <2>5, <2>6, <2>7, <2>8, <2>9, Zenon
<1>6. CASE LoseIndex \/ UNCHANGED vars
  <2>1. UNCHANGED <<scene, data, man, pruned>>
    BY <1>6, Zenon DEF LoseIndex, vars, history
  <2>2. /\ scene' = scene /\ pruned \subseteq pruned' /\ data' \subseteq data \cup {Reached + 1}
        /\ Alone => Manifests' \subseteq Manifests \cup {Reached + 1}
    BY <1>1, <2>1, Zenon
  <2> QED BY <1>3, <2>2, Zenon
<1>7. CASE ~(LoseIndex \/ UNCHANGED vars)
  <2>1. PICK w \in Writers :
             \/ w = Daemon /\ (StartBackup \/ Stream \/ PutManifest \/ Appended)
             \/ StartPrune(w) \/ PlanPrune(w) \/ Sweep(w) \/ ApplyPrune(w)
             \/ StartVerify(w) \/ Check(w) \/ Record(w)
             \/ StartReindex(w) \/ Fetch(w)
             \/ UseIndex(w) \/ Finish(w) \/ Crash(w)
    BY <1>7, CatalogAssumption, Zenon DEF Next
  <2> QED BY <1>3, <1>5, <2>1, Zenon
<1> QED BY <1>6, <1>7, Zenon

(* What an operation takes off the index is not held.                      *)
LEMMA RemovalsStep ==
    ASSUME Types, Control, Single, Removals, [Next]_vars
    PROVE  Removals'
<1>0. \A b \in Held' : b <= Reached => b \in Held
  BY HeldStep, Zenon
<1>1. Reached \in Int /\ DOMAIN io = Writers /\ \A v \in Writers : io[v].op \in Op(Reached)
  BY Bounds, Zenon DEF Types, Request
<1>2. ASSUME NEW v \in Writers, io'[v].op = io[v].op
      PROVE  io'[v].op.kind = "remove" => io'[v].op.gone \cap Held' = {}
  <2>1. SUFFICES ASSUME io[v].op.kind = "remove", NEW b \in io[v].op.gone, b \in Held'
                 PROVE  FALSE
    BY <1>2, Zenon
  <2>2. io[v].op \in Removal(Reached)
    BY <1>1, <2>1, OpTypes, Zenon
  <2>3. b \in 0..Reached
    BY <2>1, <2>2, Zenon DEF Removal
  <2>4. b <= Reached
    BY <1>1, <2>3
  <2> QED BY <1>0, <2>1, <2>4, Zenon DEF Removals
<1>3. ASSUME io' = io PROVE Removals'
  BY <1>2, <1>3, Zenon DEF Removals
<1>4. ASSUME NEW w \in Writers,
             \/ w = Daemon /\ (StartBackup \/ Stream \/ PutManifest \/ Appended)
             \/ StartPrune(w) \/ PlanPrune(w) \/ Sweep(w) \/ ApplyPrune(w)
             \/ StartVerify(w) \/ Check(w) \/ Record(w)
             \/ StartReindex(w) \/ Fetch(w)
             \/ UseIndex(w) \/ Finish(w) \/ Crash(w)
      PROVE  Removals'
  <2>0. \A v \in Writers \ {w} : io'[v] = io[v]
    BY <1>4, Turn, Zenon
  <2>1. ASSUME io'[w].op = io[w].op \/ io'[w].op.kind # "remove" \/ io'[w].op.gone \cap Held' = {}
        PROVE  Removals'
    BY <1>2, <2>0, <2>1, Zenon DEF Removals
  <2>2. \A op : Called(op).op = op
    BY DEF Called, Idle
  <2>3. CASE ApplyPrune(w)
    <3>1. PICK d \in SUBSET job[w].data, m \in SUBSET job[w].man :
            /\ data' = data \ d
            /\ man' = [b \in Ids |-> IF b \in m THEN NoManifest ELSE man[b]]
            /\ \/ d = job[w].data /\ m = job[w].man /\ CallIndex(w, job[w].plan, "remove")
               \/ UNCHANGED io
      BY <2>3, Zenon DEF ApplyPrune
    <3>2. CASE UNCHANGED io
      BY <1>3, <3>2, Zenon
    <3>3. CASE d = job[w].data /\ m = job[w].man /\ CallIndex(w, job[w].plan, "remove")
      <4>1. job[w].plan.gone \subseteq job[w].data \cap job[w].man \cap pruned /\ pruned' = pruned
        BY <2>3, Zenon DEF ApplyPrune, history, Control, ControlOf
      <4>2. io'[w].op = job[w].plan
        BY <1>1, <2>2, <3>3, CallShape
      <4>3. \A b \in job[w].plan.gone : b \in pruned' /\ b \notin data' /\ b \notin Manifests'
        BY <3>1, <3>3, <4>1, Zenon DEF Manifests
      <4>4. io'[w].op.gone \cap Held' = {}
        BY <4>2, <4>3, Zenon DEF Held
      <4> QED BY <2>1, <4>4, Zenon
    <3> QED BY <3>1, <3>2, <3>3, Zenon
  <2>4. ASSUME NEW op, NEW pc, CallIndex(w, op, pc), op.kind # "remove"
        PROVE  Removals'
    <3>1. io'[w].op = op
      BY <1>1, <2>2, <2>4, CallShape
    <3> QED BY <2>1, <2>4, <3>1, Zenon
  <2>5. CASE w = Daemon /\ (Stream \/ PutManifest)
    <3>1. \A e : AppendOp(e).kind # "remove"
      BY Zenon DEF AppendOp
    <3>2. io' = io \/ \E e, pc : CallIndex(w, AppendOp(e), pc)
      BY <2>5, Zenon DEF Stream, PutManifest, RecordFailure
    <3> QED BY <1>3, <2>4, <3>1, <3>2, Zenon
  <2>6. CASE Record(w)
    <3>1. job[w].plan.kind = "verify"
      BY <2>6, Zenon DEF Record, Control, ControlOf
    <3>2. io' = io \/ CallIndex(w, job[w].plan, "noted")
      BY <2>6, Zenon DEF Record
    <3> QED BY <1>3, <2>4, <3>1, <3>2, Zenon
  <2>7. CASE Fetch(w)
    <3>1. ReplaceOp(Rebuild(job[w].man)).kind = "replace"
      BY Zenon DEF ReplaceOp
    <3>2. io' = io \/ CallIndex(w, ReplaceOp(Rebuild(job[w].man)), "replace")
      BY <2>7, Zenon DEF Fetch
    <3> QED BY <1>3, <2>4, <3>1, <3>2, Zenon
  <2>8. CASE UseIndex(w)
    <3>1. \E X : io' = [io EXCEPT ![w] = X] /\ X.op = io[w].op
      BY <2>8, AccessShape, Zenon DEF UseIndex
    <3>2. io'[w].op = io[w].op
      BY <1>1, <3>1, Zenon
    <3> QED BY <2>1, <3>2, Zenon
  <2>9. CASE Finish(w) \/ Crash(w) \/ (w = Daemon /\ Appended)
    <3>1. io' = [io EXCEPT ![w] = Idle]
      BY <2>9, Zenon DEF Finish, Crash, Appended, Hangup
    <3>2. io'[w].op.kind = "none"
      BY <1>1, <3>1, Zenon DEF Idle, NoOp
    <3> QED BY <2>1, <3>2, Zenon
  <2>10. CASE StartBackup \/ StartPrune(w) \/ PlanPrune(w) \/ Sweep(w)
    BY <1>3, <2>10, Zenon DEF StartBackup, StartPrune, PlanPrune, Sweep, indexVars
  <2>11. CASE StartVerify(w) \/ Check(w) \/ StartReindex(w)
    BY <1>3, <2>11, Zenon DEF StartVerify, Check, StartReindex, indexVars
  <2> QED BY <1>4, <2>3, <2>5, <2>6, <2>7, <2>8, <2>9, <2>10, <2>11, Zenon
<1>5. CASE LoseIndex \/ UNCHANGED vars
  BY <1>3, <1>5, Zenon DEF LoseIndex, vars, indexVars
<1> QED BY <1>4, <1>5, CatalogAssumption, Zenon DEF Next

(* A step inside a conditional read-modify-write, by what it does to the   *)
(* index (Index.update).                                                   *)
LEMMA IndexStep ==
    ASSUME Types, NEW w \in Writers, Access(w), io[w].pc # "replace"
    PROVE  \/ idx' = idx /\ io'[w].pc \in {"head", "failed"}
           \/ /\ idx' = idx /\ idx = NoIndex /\ io[w].pc \in {"head", "get"}
              /\ io'[w].pc = "put" /\ io'[w].tag = NoIndex /\ io'[w].body = <<>>
           \/ idx' = idx /\ idx # NoIndex /\ io'[w].pc = "get" /\ io'[w].tag = idx
           \/ /\ idx' = idx /\ idx # NoIndex /\ io[w].pc = "get"
              /\ io'[w].pc = "put" /\ io'[w].tag = io[w].tag /\ io'[w].body = idx
           \/ /\ io[w].pc = "put" /\ idx = io[w].tag /\ idx' = Updated(io[w].op, io[w].body)
              /\ io'[w].pc \in {"ok", "head", "failed"}
<1>1. io[w] \in Request(Reached) /\ DOMAIN io = Writers
  BY Zenon DEF Types
<1>2. ASSUME NEW r, Return(w, r) PROVE io'[w].pc = r
  BY <1>1, <1>2 DEF Return, Request
<1>3. ASSUME Again(w) PROVE io'[w].pc \in {"head", "failed"}
  BY <1>1, <1>3 DEF Again, Request
<1>4. CASE LoadHead(w)
  <2>1. idx' = idx /\ io[w].pc = "head"
    BY <1>4 DEF LoadHead
  <2>2. CASE Return(w, "failed")
    BY <1>2, <2>1, <2>2, Zenon
  <2>3. CASE ~Return(w, "failed")
    <3>1. io'[w] = [io[w] EXCEPT !.pc = IF idx = NoIndex THEN "put" ELSE "get", !.tag = idx, !.body = <<>>]
      BY <1>1, <1>4, <2>3 DEF LoadHead
    <3>2. io'[w].pc = (IF idx = NoIndex THEN "put" ELSE "get") /\ io'[w].tag = idx /\ io'[w].body = <<>>
      BY <1>1, <3>1 DEF Request
    <3> QED BY <2>1, <3>2, Zenon
  <2> QED BY <2>2, <2>3, Zenon
<1>5. CASE LoadGet(w)
  <2>1. idx' = idx /\ io[w].pc = "get"
    BY <1>5 DEF LoadGet
  <2>2. CASE Return(w, "failed")
    BY <1>2, <2>1, <2>2, Zenon
  <2>3. CASE ~Return(w, "failed")
    <3>1. io'[w] = IF idx = NoIndex THEN [io[w] EXCEPT !.pc = "put", !.tag = NoIndex, !.body = <<>>]
                                    ELSE [io[w] EXCEPT !.pc = "put", !.body = idx]
      BY <1>1, <1>5, <2>3 DEF LoadGet
    <3>2. CASE idx = NoIndex
      <4>1. io'[w].pc = "put" /\ io'[w].tag = NoIndex /\ io'[w].body = <<>>
        BY <1>1, <3>1, <3>2 DEF Request
      <4> QED BY <2>1, <3>2, <4>1, Zenon
    <3>3. CASE idx # NoIndex
      <4>1. io'[w].pc = "put" /\ io'[w].tag = io[w].tag /\ io'[w].body = idx
        BY <1>1, <3>1, <3>3 DEF Request
      <4> QED BY <2>1, <3>3, <4>1, Zenon
    <3> QED BY <3>2, <3>3, Zenon
  <2> QED BY <2>2, <2>3, Zenon
<1>6. CASE PutIfMatch(w)
  <2>1. io[w].pc = "put"
    BY <1>6, Zenon DEF PutIfMatch
  <2>2. \/ idx' = idx /\ (Return(w, "failed") \/ Again(w))
        \/ /\ idx = io[w].tag /\ idx' = Updated(io[w].op, io[w].body)
           /\ Return(w, "ok") \/ Return(w, "failed") \/ Again(w)
    BY <1>6, Zenon DEF PutIfMatch
  <2>3. CASE idx' = idx /\ (Return(w, "failed") \/ Again(w))
    BY <1>2, <1>3, <2>3, Zenon
  <2>4. CASE /\ idx = io[w].tag /\ idx' = Updated(io[w].op, io[w].body)
             /\ Return(w, "ok") \/ Return(w, "failed") \/ Again(w)
    <3>1. io'[w].pc \in {"ok", "head", "failed"}
      BY <1>2, <1>3, <2>4, Zenon
    <3> QED BY <2>1, <2>4, <3>1, Zenon
  <2> QED BY <2>2, <2>3, <2>4, Zenon
<1> QED BY <1>4, <1>5, <1>6, Zenon DEF Access, Replace

\* The backups whose Append has succeeded.
Acked == confirmed \cup (IF job[Daemon].pc = "append" /\ io[Daemon].pc = "ok" THEN {runs} ELSE {})

Shows(b) == idx # NoIndex /\ Listed(idx, b)

\* What a writer read of the index before it writes: nothing held that the
\* index lists is missing from it, and it lists nothing held that the index
\* does not.
Fresh(w) ==
    /\ job[w].pc \notin {"fetch", "replace"} /\ io[w].op.kind # "replace" /\ io[w].pc # "replace"
    /\ io[w].pc = "get" => /\ idx # NoIndex /\ io[w].tag # NoIndex
                           /\ \A b \in Held : Listed(io[w].tag, b) => Listed(idx, b)
    /\ io[w].pc = "put" => \A b \in Held :
          /\ Listed(io[w].body, b) => Shows(b)
          /\ io[w].tag # NoIndex /\ Listed(io[w].tag, b) => Listed(io[w].body, b)

Guarded ==
    ~Overwrites => /\ losses = 0
                   /\ \A w \in Writers : Fresh(w)
                   /\ \A b \in Held \cap Acked : Shows(b)

(* An index that nobody overwrites keeps every held backup it lists.       *)
LEMMA IndexGrows ==
    ASSUME WellOrdered, Types, Control, Removals, Guarded, ~Overwrites, [Next]_vars
    PROVE  /\ idx # NoIndex => idx' # NoIndex
           /\ \A b \in Held : Shows(b) => Shows(b)'
<1>0. losses = 0 /\ \A w \in Writers : Fresh(w)
  BY Zenon DEF Guarded
<1>1. ASSUME idx' = idx
      PROVE  (idx # NoIndex => idx' # NoIndex) /\ \A b \in Held : Shows(b) => Shows(b)'
  BY <1>1, Zenon DEF Shows
<1>2. ASSUME NEW w \in Writers, UseIndex(w)
      PROVE  (idx # NoIndex => idx' # NoIndex) /\ \A b \in Held : Shows(b) => Shows(b)'
  <2>1. Access(w) /\ Fresh(w) /\ io[w].pc # "replace"
    BY <1>0, <1>2, Zenon DEF UseIndex, Fresh
  <2>2. \/ idx' = idx
        \/ io[w].pc = "put" /\ idx = io[w].tag /\ idx' = Updated(io[w].op, io[w].body)
    BY <2>1, IndexStep, Zenon
  <2>3. CASE io[w].pc = "put" /\ idx = io[w].tag /\ idx' = Updated(io[w].op, io[w].body)
    <3>1. /\ Reached \in Int /\ io[w].op \in Op(Reached) /\ io[w].body \in Listing(Reached)
          /\ io[w].op.kind \in {"append", "remove", "verify"}
      BY <2>3, Bounds, Zenon DEF Types, Request, Control, ControlOf
    <3>2. idx' \in Listing(Reached)
      BY <2>3, <3>1, UpdatedType, Zenon
    <3>3. idx' # NoIndex
      <4> DEFINE R == [id : Nat, at : Nat, ok : BOOLEAN, ver : Int]
      <4>1. Entry(Reached) \subseteq R /\ NoIndex \notin Seq(R)
        BY <3>1, CatalogAssumption DEF Entry
      <4> HIDE DEF R
      <4>2. Seq(Entry(Reached)) \subseteq Seq(R)
        BY <4>1
      <4> QED BY <3>2, <4>1, <4>2, Zenon DEF Listing
    <3>4. ASSUME NEW b \in Held, Shows(b) PROVE Listed(idx', b)
      <4>1. Listed(io[w].body, b)
        BY <2>1, <2>3, <3>4, Zenon DEF Fresh, Shows
      <4>2. b # 0
        BY DEF Held, Ids
      <4>3. io[w].op.kind = "remove" => b \notin io[w].op.gone
        BY Zenon DEF Removals
      <4> QED BY <2>3, <3>1, <4>1, <4>2, <4>3, UpdatedLists
    <3> QED BY <3>3, <3>4, Zenon DEF Shows
  <2> QED BY <1>1, <2>2, <2>3, Zenon
<1>3. CASE ~(\E w \in Writers : UseIndex(w))
  <2>1. idx' = idx
    <3>1. CASE StartBackup \/ Stream \/ PutManifest \/ Appended \/ UNCHANGED vars \/ LoseIndex
      BY <1>0, <3>1 DEF StartBackup, Stream, PutManifest, Appended, LoseIndex, vars, indexVars
    <3>2. CASE \E w \in Writers : StartPrune(w) \/ PlanPrune(w) \/ Sweep(w) \/ ApplyPrune(w)
      BY <3>2, Zenon DEF StartPrune, PlanPrune, Sweep, ApplyPrune, indexVars
    <3>3. CASE \E w \in Writers : StartVerify(w) \/ Check(w) \/ Record(w) \/ StartReindex(w)
      BY <3>3, Zenon DEF StartVerify, Check, Record, StartReindex, indexVars
    <3>4. CASE \E w \in Writers : Fetch(w) \/ Finish(w) \/ Crash(w)
      BY <3>4, Zenon DEF Fetch, Finish, Crash
    <3> QED BY <1>3, <3>1, <3>2, <3>3, <3>4, Zenon DEF Next
  <2> QED BY <1>1, <2>1, Zenon
<1> QED BY <1>2, <1>3, Zenon

(* Nothing hides a held backup from the index.                             *)
LEMMA GuardedStep ==
    ASSUME WellOrdered, Types, Control, Single, Removals, Guarded, [Next]_vars
    PROVE  Guarded'
<1>0. /\ \A b \in Held' : b <= Reached => b \in Held
      /\ scene' = scene
  BY HeldStep, Zenon
<1>1. Overwrites' <=> Overwrites
  BY <1>0, Zenon DEF Overwrites
<1>2. SUFFICES ASSUME ~Overwrites
      PROVE  losses' = 0 /\ (\A w \in Writers : Fresh(w)') /\ \A b \in Held' \cap Acked' : Shows(b)'
  BY <1>1, Zenon DEF Guarded
<1>3. losses = 0 /\ (\A w \in Writers : Fresh(w)) /\ \A b \in Held \cap Acked : Shows(b)
  BY <1>2, Zenon DEF Guarded
<1>4. /\ idx # NoIndex => idx' # NoIndex
      /\ \A b \in Held : Shows(b) => Shows(b)'
  BY <1>2, IndexGrows, Zenon
<1>5. /\ Daemon \in Writers /\ Reached \in Int /\ runs \in Nat /\ DOMAIN io = Writers
      /\ \A v \in Writers : io[v] \in Request(Reached) /\ ControlOf(v)
  BY Bounds, Zenon DEF Types, Control
<1>6. ASSUME NEW es \in Listing(Reached), NEW b, Listed(es, b), b \in Held' PROVE b \in Held
  <2>1. PICK i \in DOMAIN es : es[i].id = b
    BY <1>6, Zenon DEF Listed
  <2>2. es[i] \in Entry(Reached)
    BY DEF Listing
  <2>3. b <= Reached
    BY <1>5, <2>1, <2>2, EntryFacts
  <2> QED BY <1>0, <1>6, <2>3, Zenon
\* A writer that takes no step.
<1>7. ASSUME NEW v \in Writers, io'[v] = io[v], job'[v].pc \notin {"fetch", "replace"}
      PROVE  Fresh(v)'
  <2>1. Fresh(v) /\ io[v].body \in Listing(Reached) /\ io[v].tag \in Listing(Reached) \cup {NoIndex}
    BY <1>3, <1>5, Zenon DEF Request
  <2>2. io'[v].op.kind # "replace" /\ io'[v].pc # "replace"
    BY <1>7, <2>1, Zenon DEF Fresh
  <2>3. ASSUME io[v].pc = "get"
        PROVE  /\ idx' # NoIndex /\ io[v].tag # NoIndex
               /\ \A b \in Held' : Listed(io[v].tag, b) => Listed(idx', b)
    <3>1. /\ idx # NoIndex /\ io[v].tag # NoIndex
          /\ \A b \in Held : Listed(io[v].tag, b) => Listed(idx, b)
      BY <2>1, <2>3, Zenon DEF Fresh
    <3> QED BY <1>4, <1>6, <2>1, <3>1, Zenon DEF Shows
  <2>4. ASSUME io[v].pc = "put", NEW b \in Held'
        PROVE  /\ Listed(io[v].body, b) => Shows(b)'
               /\ io[v].tag # NoIndex /\ Listed(io[v].tag, b) => Listed(io[v].body, b)
    <3>1. Listed(io[v].body, b) => b \in Held
      BY <1>6, <2>1, <2>4, Zenon
    <3>2. io[v].tag # NoIndex /\ Listed(io[v].tag, b) => b \in Held
      BY <1>6, <2>1, <2>4, Zenon
    <3> QED BY <1>4, <2>1, <2>4, <3>1, <3>2, Zenon DEF Fresh
  <2> QED BY <1>7, <2>2, <2>3, <2>4, Zenon DEF Fresh

\* A writer that begins or ends a call.
<1>8. ASSUME NEW v \in Writers, io'[v].pc \in {"idle", "head"}, io'[v].op.kind # "replace",
             job'[v].pc \notin {"fetch", "replace"}
      PROVE  Fresh(v)'
  BY <1>8, Zenon DEF Fresh
<1>9. ASSUME NEW b \in Acked, b \in Held' PROVE Shows(b)'
  <2>1. b <= Reached
    <3>1. confirmed \subseteq 1..Reached
      BY Zenon DEF Types
    <3>2. job[Daemon].pc = "append" => Reached = runs
      BY Zenon DEF Reached
    <3> QED BY <1>5, <1>9, <3>1, <3>2 DEF Acked
  <2>2. b \in Held
    BY <1>0, <1>9, <2>1, Zenon
  <2> QED BY <1>3, <1>4, <1>9, <2>2, Zenon
<1>10. "reindex" \notin scene.use
  BY <1>2, Zenon DEF Overwrites
<1>11. ASSUME UNCHANGED <<io, job, confirmed, runs>>, losses' = 0
       PROVE  losses' = 0 /\ (\A w \in Writers : Fresh(w)') /\ \A b \in Held' \cap Acked' : Shows(b)'
  <2>1. \A w \in Writers : Fresh(w)'
    BY <1>3, <1>7, <1>11, Zenon DEF Fresh
  <2>2. Acked' = Acked
    BY <1>11, Zenon DEF Acked
  <2> QED BY <1>9, <1>11, <2>1, <2>2, Zenon
<1>12. CASE LoseIndex \/ UNCHANGED vars
  <2>1. UNCHANGED <<io, job, confirmed, runs>> /\ losses' = 0
    BY <1>3, <1>12 DEF LoseIndex, vars, indexVars, history
  <2> QED BY <1>11, <2>1, Zenon
\* One process takes a step.
<1>13. ASSUME NEW w \in Writers, \A v \in Writers \ {w} : job'[v] = job[v] /\ io'[v] = io[v],
              Fresh(w)', losses' = losses, confirmed' \subseteq Acked,
              w # Daemon => runs' = runs,
              w = Daemon => job'[w].pc # "append" \/ io'[w].pc # "ok"
       PROVE  losses' = 0 /\ (\A v \in Writers : Fresh(v)') /\ \A b \in Held' \cap Acked' : Shows(b)'
  <2>1. \A v \in Writers : Fresh(v)'
    BY <1>3, <1>7, <1>13, Zenon DEF Fresh
  <2>2. Acked' \subseteq Acked
    BY <1>5, <1>13, Zenon DEF Acked
  <2> QED BY <1>3, <1>9, <1>13, <2>1, <2>2, Zenon
<1>14. \A op : Called(op).op = op /\ (op.kind # "replace" => Called(op).pc = "head")
  BY Zenon DEF Called, Idle
<1>15. Idle.pc = "idle" /\ Idle.op.kind = "none" /\ Rest.pc = "idle"
  BY Zenon DEF Idle, NoOp, Rest
<1>16. confirmed \subseteq Acked
  BY Zenon DEF Acked
\* It calls the index, or is done with it.
<1>17. ASSUME NEW w \in Writers, NEW op, NEW pc \in {"append", "note", "remove", "noted"},
              CallIndex(w, op, pc), op.kind # "replace"
       PROVE  Fresh(w)' /\ io'[w].pc # "ok"
  <2>1. io'[w].op = op /\ io'[w].pc = "head"
    BY <1>5, <1>14, <1>17, CallShape
  <2>2. job'[w].pc = pc
    <3>1. DOMAIN job = Writers
      BY Zenon DEF Types
    <3>2. job' = [job EXCEPT ![w] = [job[w] EXCEPT !.pc = pc]] /\ [job[w] EXCEPT !.pc = pc].pc = pc
      BY <1>17, CallShape
    <3> QED BY <3>1, <3>2
  <2> QED BY <1>8, <1>17, <2>1, <2>2, Zenon
<1>18. ASSUME NEW w \in Writers, io' = io, job'[w].pc \notin {"fetch", "replace"}, job[w].pc \notin Calling
       PROVE  Fresh(w)' /\ io'[w].pc # "ok"
  <2>1. io[w].pc = "idle"
    BY <1>18, NotCalling, Zenon
  <2> QED BY <1>7, <1>18, <2>1, Zenon
<1>19. ASSUME NEW w \in Writers,
              \/ w = Daemon /\ (StartBackup \/ Stream \/ PutManifest \/ Appended)
              \/ StartPrune(w) \/ PlanPrune(w) \/ Sweep(w) \/ ApplyPrune(w)
              \/ StartVerify(w) \/ Check(w) \/ Record(w)
              \/ StartReindex(w) \/ Fetch(w)
              \/ UseIndex(w) \/ Finish(w) \/ Crash(w)
       PROVE  losses' = 0 /\ (\A v \in Writers : Fresh(v)') /\ \A b \in Held' \cap Acked' : Shows(b)'
  <2>0. \A v \in Writers \ {w} : job'[v] = job[v] /\ io'[v] = io[v]
    BY <1>19, Turn, Zenon
  <2>1. DOMAIN job = Writers /\ job[w] \in Job(Reached) /\ Fresh(w) /\ ControlOf(w)
    BY <1>3, <1>5, Zenon DEF Types
  \* The steps that leave the call and the history alone.
  <2>2. ASSUME io' = io, job'[w].pc \notin {"fetch", "replace"}, job[w].pc \notin Calling,
               losses' = losses, confirmed' = confirmed, w # Daemon => runs' = runs
        PROVE  losses' = 0 /\ (\A v \in Writers : Fresh(v)') /\ \A b \in Held' \cap Acked' : Shows(b)'
    BY <1>13, <1>16, <1>18, <2>0, <2>2, Zenon
  <2>3. ASSUME NEW op, NEW pc \in {"append", "note", "remove", "noted"}, CallIndex(w, op, pc),
               op.kind # "replace", losses' = losses, confirmed' = confirmed, runs' = runs
        PROVE  losses' = 0 /\ (\A v \in Writers : Fresh(v)') /\ \A b \in Held' \cap Acked' : Shows(b)'
    BY <1>13, <1>16, <1>17, <2>0, <2>3, Zenon
  <2>4. CASE w = Daemon /\ StartBackup
    <3>1. io' = io /\ job[w].pc = "idle" /\ losses' = losses /\ confirmed' = confirmed
      BY <2>4, Zenon DEF StartBackup, Free, indexVars, history
    <3>2. job'[w].pc = "stream"
      BY <2>1, <2>4, Zenon DEF StartBackup, Rest
    <3> QED BY <2>2, <2>4, <3>1, <3>2, Zenon DEF Calling
  <2>5. CASE w = Daemon /\ (Stream \/ PutManifest)
    <3>1. job[w].pc \in {"stream", "manifest"} /\ losses' = losses /\ confirmed' = confirmed /\ runs' = runs
      BY <2>5, Zenon DEF Stream, PutManifest, bounds, history
    <3>2. \/ io' = io /\ Do(w, "manifest")
          \/ \E e : CallIndex(w, AppendOp(e), "note") \/ CallIndex(w, AppendOp(e), "append")
      BY <2>5, Zenon DEF Stream, PutManifest, RecordFailure
    <3>3. \A e : AppendOp(e).kind # "replace"
      BY Zenon DEF AppendOp
    <3>4. CASE io' = io /\ Do(w, "manifest")
      <4>1. job'[w].pc = "manifest"
        BY <2>1, <3>4 DEF Do, Job
      <4> QED BY <2>2, <3>1, <3>4, <4>1, Zenon DEF Calling
    <3>5. CASE \E e : CallIndex(w, AppendOp(e), "note") \/ CallIndex(w, AppendOp(e), "append")
      BY <2>3, <3>1, <3>3, <3>5, Zenon
    <3> QED BY <3>2, <3>4, <3>5, Zenon
  <2>6. CASE w = Daemon /\ Appended
    <3>1. /\ job[w].pc = "append" /\ io' = [io EXCEPT ![w] = Idle] /\ losses' = losses
          /\ confirmed' = (IF io[w].pc = "ok" THEN confirmed \cup {job[w].id} ELSE confirmed)
          /\ Do(w, "plan") \/ Done(w)
      BY <2>6, Zenon DEF Appended, Hangup, bounds
    <3>2. job'[w].pc \in {"plan", "idle"} /\ io'[w] = Idle
      BY <1>5, <1>15, <2>1, <3>1, Zenon DEF Do, Done, Job
    <3>3. job[w].id = runs
      BY <2>1, <3>1, Zenon DEF ControlOf, InBackup
    <3>4. confirmed' \subseteq Acked
      BY <2>6, <3>1, <3>3, Zenon DEF Acked
    <3>5. Fresh(w)'
      BY <1>8, <1>15, <3>2, Zenon
    <3> QED BY <1>13, <2>0, <2>6, <3>1, <3>2, <3>4, <3>5, Zenon
  <2>7. CASE StartPrune(w) \/ StartVerify(w)
    <3>1. io' = io /\ job[w].pc = "idle" /\ losses' = losses /\ confirmed' = confirmed /\ runs' = runs
      BY <2>7, Zenon DEF StartPrune, StartVerify, Command, Free, indexVars, history
    <3>2. job'[w].pc \in {"plan", "check"}
      BY <2>1, <2>7, ZenonT(30) DEF StartPrune, StartVerify, Rest
    <3> QED BY <2>2, <3>1, <3>2, Zenon DEF Calling
  <2>8. CASE PlanPrune(w)
    <3> DEFINE Z(r) == [Rest EXCEPT !.pc = "delete", !.plan = r, !.data = Doomed(Rules, Entries),
                                    !.man = Doomed(Rules, Entries)]
               r0 == RemovalOf(Entries, Doomed(Rules, Entries))
    <3>1. io' = io /\ job[w].pc = "plan" /\ losses' = losses /\ confirmed' = confirmed /\ runs' = runs
      BY <2>8, Zenon DEF PlanPrune, indexVars, bounds
    <3>2. job'[w] \in {[Z(r0) EXCEPT !.pc = "sweep"], Rest, Z(r0)}
      BY <2>1, <2>8, Zenon DEF PlanPrune
    <3>3. Z(r0).pc = "delete" /\ [Z(r0) EXCEPT !.pc = "sweep"].pc = "sweep"
      BY Zenon DEF Rest
    <3>4. job'[w].pc \notin {"fetch", "replace"}
      BY <1>15, <3>2, <3>3, Zenon
    <3> QED BY <2>2, <3>1, <3>4, Zenon DEF Calling
  <2>9. CASE Sweep(w)
    <3>1. io' = io /\ job[w].pc = "sweep" /\ losses' = losses /\ confirmed' = confirmed /\ runs' = runs
      BY <2>9, Zenon DEF Sweep, indexVars, bounds, history
    <3>2. PICK last \in 0..Grace :
          LET strays == {b \in 1..last : ~Listed(Entries, b)}
              d == job[w].data \cup (strays \cap data)
              m == job[w].man \cup (strays \cap Manifests)
          IN job' = [job EXCEPT ![w] = IF d \cup m = {} THEN Rest
                                       ELSE [job[w] EXCEPT !.pc = "delete", !.data = d, !.man = m]]
      BY <2>9, Zenon DEF Sweep
    <3>3. job'[w].pc \in {"idle", "delete"}
      BY <1>15, <2>1, <3>2, Zenon DEF Job
    <3> QED BY <2>2, <3>1, <3>3, Zenon DEF Calling
  <2>10. CASE ApplyPrune(w)
    <3>1. job[w].pc = "delete" /\ losses' = losses /\ confirmed' = confirmed /\ runs' = runs
      BY <2>10, Zenon DEF ApplyPrune, bounds, history
    <3>2. (io' = io /\ Done(w)) \/ CallIndex(w, job[w].plan, "remove")
      BY <2>10, Zenon DEF ApplyPrune
    <3>3. CASE io' = io /\ Done(w)
      <4>1. job'[w].pc = "idle"
        BY <1>15, <2>1, <3>3, Zenon DEF Done
      <4> QED BY <2>2, <3>1, <3>3, <4>1, Zenon DEF Calling
    <3>4. CASE CallIndex(w, job[w].plan, "remove")
      <4>1. job[w].plan.kind = "remove"
        BY <2>1, <3>1, Zenon DEF ControlOf, Removal
      <4> QED BY <2>3, <3>1, <3>4, <4>1, Zenon
    <3> QED BY <3>2, <3>3, <3>4, Zenon
  <2>11. CASE Check(w)
    <3>1. io' = io /\ job[w].pc = "check" /\ losses' = losses /\ confirmed' = confirmed /\ runs' = runs
      BY <2>11, Zenon DEF Check, indexVars, history
    <3>2. job'[w].pc \in {"idle", "record"}
      BY <1>15, <2>1, <2>11, ZenonT(30) DEF Check, Done, Job
    <3> QED BY <2>2, <3>1, <3>2, Zenon DEF Calling
  <2>12. CASE Record(w)
    <3>1. job[w].pc = "record" /\ losses' = losses /\ confirmed' = confirmed /\ runs' = runs
      BY <2>12, Zenon DEF Record, bounds, history
    <3>2. (io' = io /\ Done(w)) \/ CallIndex(w, job[w].plan, "noted")
      BY <2>12, Zenon DEF Record
    <3>3. CASE io' = io /\ Done(w)
      <4>1. job'[w].pc = "idle"
        BY <1>15, <2>1, <3>3 DEF Done
      <4> QED BY <2>2, <3>1, <3>3, <4>1, Zenon DEF Calling
    <3>4. CASE CallIndex(w, job[w].plan, "noted")
      <4>1. job[w].plan.kind = "verify"
        BY <2>1, <3>1, Zenon DEF ControlOf
      <4> QED BY <2>3, <3>1, <3>4, <4>1, Zenon
    <3> QED BY <3>2, <3>3, <3>4, Zenon
  <2>13. CASE StartReindex(w) \/ Fetch(w)
    BY <1>10, <2>1, <2>13, Zenon DEF StartReindex, Command, Fetch, Fresh
  <2>14. CASE Finish(w) \/ Crash(w)
    <3>1. io' = [io EXCEPT ![w] = Idle] /\ losses' = losses /\ confirmed' = confirmed /\ runs' = runs
      BY <2>14, Zenon DEF Finish, Crash, Hangup, bounds, history
    <3>2. io'[w] = Idle /\ job'[w].pc = "idle"
      BY <1>5, <1>15, <2>1, <2>14, <3>1, Zenon DEF Finish, Crash, Done
    <3>3. Fresh(w)'
      BY <1>8, <1>15, <3>2, Zenon
    <3> QED BY <1>13, <1>16, <2>0, <3>1, <3>2, <3>3, Zenon
  <2>15. CASE UseIndex(w)
    <3>1. Access(w) /\ UNCHANGED <<job, losses, confirmed, runs>> /\ io[w].pc # "replace"
      BY <2>1, <2>15, Zenon DEF UseIndex, bounds, history, Fresh
    <3>2. io'[w].op = io[w].op
      BY <1>5, <3>1, AccessShape, Zenon
    <3>3. io'[w].op.kind # "replace" /\ job'[w].pc \notin {"fetch", "replace"}
      BY <2>1, <3>1, <3>2, Zenon DEF Fresh
    <3>4. \/ idx' = idx /\ io'[w].pc \in {"head", "failed"}
          \/ /\ idx' = idx /\ idx = NoIndex /\ io[w].pc \in {"head", "get"}
             /\ io'[w].pc = "put" /\ io'[w].tag = NoIndex /\ io'[w].body = <<>>
          \/ idx' = idx /\ idx # NoIndex /\ io'[w].pc = "get" /\ io'[w].tag = idx
          \/ /\ idx' = idx /\ idx # NoIndex /\ io[w].pc = "get"
             /\ io'[w].pc = "put" /\ io'[w].tag = io[w].tag /\ io'[w].body = idx
          \/ /\ io[w].pc = "put" /\ idx = io[w].tag /\ idx' = Updated(io[w].op, io[w].body)
             /\ io'[w].pc \in {"ok", "head", "failed"}
      BY <3>1, IndexStep, Zenon
    <3>5. Fresh(w)'
      <4>1. CASE io'[w].pc \in {"ok", "head", "failed"}
        BY <3>3, <4>1, Zenon DEF Fresh
      <4>2. CASE io'[w].pc = "put" /\ io'[w].tag = NoIndex /\ io'[w].body = <<>>
        <5>1. \A b : ~Listed(<<>>, b)
          BY DEF Listed
        <5> QED BY <3>3, <4>2, <5>1, Zenon DEF Fresh
      <4>3. CASE idx' = idx /\ idx # NoIndex /\ io'[w].pc = "get" /\ io'[w].tag = idx
        BY <3>3, <4>3, Zenon DEF Fresh
      <4>4. CASE /\ idx' = idx /\ idx # NoIndex /\ io[w].pc = "get"
                 /\ io'[w].pc = "put" /\ io'[w].tag = io[w].tag /\ io'[w].body = idx
        <5>1. io[w].tag \in Listing(Reached)
          BY <1>5, <2>1, <4>4, Zenon DEF Fresh, Request
        <5>2. \A b \in Held' : Listed(io[w].tag, b) => b \in Held
          BY <1>6, <5>1, Zenon
        <5>3. \A b \in Held' : Listed(io[w].tag, b) => Listed(idx, b)
          BY <2>1, <4>4, <5>2, Zenon DEF Fresh
        <5>4. \A b : Listed(idx, b) => Shows(b)'
          BY <4>4, Zenon DEF Shows
        <5> QED BY <3>3, <4>4, <5>3, <5>4, Zenon DEF Fresh
      <4> QED BY <3>4, <4>1, <4>2, <4>3, <4>4, Zenon
    <3>6. CASE w # Daemon \/ job'[w].pc # "append" \/ io'[w].pc # "ok"
      <4>1. losses' = losses /\ confirmed' \subseteq Acked /\ runs' = runs
        BY <1>16, <3>1, Zenon
      <4> QED BY <1>13, <2>0, <3>5, <3>6, <4>1, Zenon
    <3>7. CASE w = Daemon /\ job'[w].pc = "append" /\ io'[w].pc = "ok"
      <4>1. \A v \in Writers : Fresh(v)'
        BY <1>3, <1>7, <2>0, <3>5, Zenon DEF Fresh
      <4>2. Acked' \subseteq Acked \cup {runs}
        BY <3>1, Zenon DEF Acked
      <4>3. io[w].op.kind = "append" /\ io[w].op.entry.id = runs
        BY <2>1, <3>1, <3>7, Zenon DEF ControlOf
      <4>4. io[w].pc = "put" /\ idx' = Updated(io[w].op, io[w].body)
        BY <3>4, <3>7, Zenon
      <4>5. Listed(idx', runs)
        <5>1. idx' = Append(io[w].body, io[w].op.entry)
          BY <4>3, <4>4, Zenon DEF Updated
        <5>2. io[w].body \in Seq(Entry(Reached)) /\ io[w].op \in Op(Reached)
          BY <1>5, Zenon DEF Request, Listing
        <5>3. io[w].op.entry \in Entry(Reached)
          BY <4>3, <5>2, Zenon DEF Op, Removal
        <5>4. Len(io[w].body) + 1 \in DOMAIN idx' /\ idx'[Len(io[w].body) + 1] = io[w].op.entry
          BY <5>1, <5>2, <5>3
        <5> QED BY <4>3, <5>4, Zenon DEF Listed
      <4>6. idx' # NoIndex
        <5>1. Types'
          BY ControlStep, Zenon
        <5>2. idx' \in Listing(Reached) /\ Listing(Reached) \subseteq Seq(Entry(Reached))
          <6>1. io[w].op \in Op(Reached) /\ io[w].body \in Listing(Reached) /\ io[w].op.kind # "none"
            BY <1>5, <4>3, Zenon DEF Request
          <6> QED BY <1>5, <4>4, <6>1, UpdatedType, Zenon DEF Listing
        <5> DEFINE R == [id : Nat, at : Nat, ok : BOOLEAN, ver : Int]
        <5>3. Entry(Reached) \subseteq R /\ NoIndex \notin Seq(R)
          BY <1>5, CatalogAssumption DEF Entry
        <5> HIDE DEF R
        <5>4. Seq(Entry(Reached)) \subseteq Seq(R)
          BY <5>3
        <5> QED BY <5>2, <5>3, <5>4, Zenon
      <4>7. Shows(runs)'
        BY <3>1, <4>5, <4>6, Zenon DEF Shows
      <4> QED BY <1>3, <1>9, <3>1, <4>1, <4>2, <4>7, Zenon
    <3> QED BY <3>6, <3>7, Zenon
  <2> QED BY <1>19, <2>4, <2>5, <2>6, <2>7, <2>8, <2>9, <2>10, <2>11, <2>12, <2>13, <2>14, <2>15, Zenon
<1> QED BY <1>12, <1>19, CatalogAssumption, Zenon DEF Next

-----------------------------------------------------------------------------
(* What a process found stays true until it acts, where nothing overlaps.  *)

Found(w) ==
    /\ job[w].pc = "delete" /\ "orphans" \notin scene.use => idx = NoIndex \/ ~LastRunFailed(idx)
    /\ job[w].pc = "delete" /\ scene.losses = 0 /\ scene.use \subseteq {"prune", "verify"} =>
         job[w].data = Doomed(Rules, Entries) /\ job[w].man = Doomed(Rules, Entries)
    /\ job[w].pc = "fetch" => job[w].man = Manifests
    /\ job[w].pc = "replace" =>
         /\ io[w].op = ReplaceOp(Rebuild(Manifests))
         /\ io[w].pc = "ok" => idx \in {NoIndex, Rebuild(Manifests)}

Steady == Alone => \A w \in Writers : Found(w)

(* Where nothing overlaps, what a process found stays true until it acts   *)
(* on it (Runner.Plan and Apply, the fetch and the Replace of a reindex).  *)
LEMMA SteadyStep ==
    ASSUME Types, Control, Single, Guarded, Steady, [Next]_vars
    PROVE  Steady'
<1>0. scene' = scene
  BY HeldStep, Zenon
<1>1. (Alone' <=> Alone)
  BY <1>0, Zenon DEF Alone, DaemonAlone, Serial
<1>2. SUFFICES ASSUME Alone PROVE \A w \in Writers : Found(w)'
  BY <1>1, Zenon DEF Steady
<1>3. \A w \in Writers : Found(w)
  BY <1>2, Zenon DEF Steady
<1>4. DOMAIN io = Writers /\ DOMAIN job = Writers /\ man \in [Ids -> Int \cup {NoManifest}]
      /\ \A w \in Writers : job[w] \in Job(Reached) /\ io[w] \in Request(Reached) /\ ControlOf(w)
  BY Zenon DEF Types, Control
<1>5. ASSUME man' = man
      PROVE  /\ Manifests' = Manifests /\ Rebuild(Manifests)' = Rebuild(Manifests)
             /\ (idx' = idx => Entries' = Entries)
  BY <1>5, Zenon DEF Manifests, Rebuild, Entries
<1>6. CASE LoseIndex
  <2>1. UNCHANGED <<job, io, man>> /\ idx' = NoIndex /\ losses > 0
    BY <1>6, Zenon DEF LoseIndex
  <2>2. scene.losses = 0 /\ scene.use \subseteq {"prune", "verify"} => FALSE
    BY <2>1 DEF Guarded, Overwrites, Types
  <2>3. ASSUME NEW w \in Writers PROVE Found(w)'
    BY <1>0, <1>3, <1>5, <2>1, <2>2, Zenon DEF Found
  <2> QED BY <2>3, Zenon
<1>7. CASE UNCHANGED vars
  <2>1. UNCHANGED <<idx, job, io, man>>
    BY <1>7, Zenon DEF vars, indexVars
  <2>2. ASSUME NEW w \in Writers PROVE Found(w)'
    BY <1>0, <1>3, <1>5, <2>1, Zenon DEF Found
  <2> QED BY <2>2
<1>8. ASSUME NEW w \in Writers,
             \/ w = Daemon /\ (StartBackup \/ Stream \/ PutManifest \/ Appended)
             \/ StartPrune(w) \/ PlanPrune(w) \/ Sweep(w) \/ ApplyPrune(w)
             \/ StartVerify(w) \/ Check(w) \/ Record(w)
             \/ StartReindex(w) \/ Fetch(w)
             \/ UseIndex(w) \/ Finish(w) \/ Crash(w)
      PROVE  \A v \in Writers : Found(v)'
  <2>1. /\ \A v \in Writers \ {w} : job'[v] = job[v]
        /\ job[w].pc # "idle" \/ (Free(w) /\ (w = Daemon \/ scene.use # {}))
    BY <1>8, Turn, Zenon
  <2>2. \A v \in Writers \ {w} : job'[v].pc = "idle"
    <3>1. CASE job[w].pc # "idle"
      BY <1>2, <2>1, <3>1, Zenon DEF Single
    <3>2. CASE job[w].pc = "idle" /\ DaemonAlone
      BY <1>2, <2>1, <3>2, Zenon DEF Single, DaemonAlone
    <3>3. CASE job[w].pc = "idle" /\ ~DaemonAlone
      BY <1>2, <2>1, <3>3, Zenon DEF Free, Alone, Serial
    <3> QED BY <3>1, <3>2, <3>3, Zenon
  <2>3. SUFFICES Found(w)'
    <3>1. \A v \in Writers \ {w} : Found(v)'
      BY <2>2, Zenon DEF Found
    <3> QED BY <3>1, Zenon
  <2>4. ASSUME job'[w].pc \notin {"delete", "fetch", "replace"} PROVE Found(w)'
    BY <2>4, Zenon DEF Found
  <2>5. Rest.pc = "idle" /\ job[w] \in Job(Reached) /\ ControlOf(w)
    BY <1>4, Zenon DEF Rest
  <2>6. CASE PlanPrune(w)
    <3> DEFINE doomed == Doomed(Rules, Entries)
               r0 == RemovalOf(Entries, doomed)
               Z == [Rest EXCEPT !.pc = "delete", !.plan = r0, !.data = doomed, !.man = doomed]
    <3>1. /\ job'[w] = IF job[w].orphans THEN [Z EXCEPT !.pc = "sweep"] ELSE IF doomed = {} THEN Rest ELSE Z
          /\ idx' = idx /\ man' = man
      BY <1>4, <2>6, Zenon DEF PlanPrune, indexVars
    <3>2. [Z EXCEPT !.pc = "sweep"].pc = "sweep" /\ Z.pc = "delete" /\ Z.data = doomed /\ Z.man = doomed
      BY Zenon DEF Rest
    <3>3. doomed # {} => ~LastRunFailed(Entries)
      BY Zenon DEF Doomed, Plan
    <3> HIDE DEF doomed, Z
    <3>4. CASE job'[w] = Z /\ doomed # {}
      <4>1. idx' = NoIndex \/ ~LastRunFailed(idx')
        BY <3>1, <3>3, <3>4, Zenon DEF Entries
      <4>2. job'[w].data = doomed /\ job'[w].man = doomed /\ job'[w].pc = "delete"
        BY <3>2, <3>4, Zenon
      <4>3. Doomed(Rules, Entries)' = doomed
        <5>1. Entries' = Entries
          BY <1>5, <3>1, Zenon
        <5> QED BY <5>1, Zenon DEF doomed
      <4> QED BY <4>1, <4>2, <4>3, Zenon DEF Found
    <3>5. CASE job'[w].pc \in {"sweep", "idle"}
      BY <2>4, <3>5, Zenon
    <3> QED BY <2>5, <3>1, <3>2, <3>4, <3>5, Zenon
  <2>7. CASE Sweep(w)
    <3>1. PICK last \in 0..Grace :
          LET strays == {b \in 1..last : ~Listed(Entries, b)}
              d == job[w].data \cup (strays \cap data)
              m == job[w].man \cup (strays \cap Manifests)
          IN job' = [job EXCEPT ![w] = IF d \cup m = {} THEN Rest
                                       ELSE [job[w] EXCEPT !.pc = "delete", !.data = d, !.man = m]]
      BY <2>7, Zenon DEF Sweep
    <3>2. job'[w].pc \in {"idle", "delete"}
      BY <1>4, <2>5, <3>1, Zenon DEF Job
    <3>3. "orphans" \in scene.use
      BY <2>5, <2>7, Zenon DEF Sweep, ControlOf
    <3> QED BY <1>0, <3>2, <3>3, Zenon DEF Found
  <2>8. CASE StartReindex(w)
    <3>1. job'[w].pc = "fetch" /\ job'[w].man = Manifests /\ man' = man
      BY <1>4, <2>8, Zenon DEF StartReindex, Rest
    <3> QED BY <1>5, <3>1, Zenon DEF Found
  <2>9. CASE Fetch(w)
    <3>1. man' = man /\ job[w].pc = "fetch" /\ job[w].man = Manifests
      BY <1>3, <2>9, Zenon DEF Fetch, Found
    <3>2. CallIndex(w, ReplaceOp(Rebuild(Manifests)), "replace")
      BY <2>9, <3>1, Zenon DEF Fetch
    <3> DEFINE op == ReplaceOp(Rebuild(Manifests))
    <3>3. op.kind = "replace"
      BY Zenon DEF ReplaceOp
    <3>4. io'[w] = Called(op) /\ job'[w].pc = "replace"
      <4>1. /\ io' = [io EXCEPT ![w] = Called(op)]
            /\ job' = [job EXCEPT ![w] = [job[w] EXCEPT !.pc = "replace"]]
            /\ [job[w] EXCEPT !.pc = "replace"].pc = "replace"
        BY <3>2, CallShape
      <4> HIDE DEF op
      <4> QED BY <1>4, <4>1, Zenon
    <3> HIDE DEF op
    <3>5. io'[w].op = op /\ io'[w].pc = "replace"
      BY <3>3, <3>4, Zenon DEF Called, Idle
    <3>6. io'[w].op = ReplaceOp(Rebuild(Manifests))'
      BY <1>5, <3>1, <3>5, Zenon DEF op
    <3> QED BY <3>4, <3>5, <3>6, Zenon DEF Found
  <2>10. CASE UseIndex(w)
    <3>1. UNCHANGED <<job, man>> /\ Access(w)
      BY <2>10, Zenon DEF UseIndex
    <3>2. PICK X : /\ io' = [io EXCEPT ![w] = X] /\ X.op = io[w].op
                   /\ io[w].pc \in {"head", "get", "put", "replace"}
      BY <3>1, AccessShape, Zenon
    <3>3. job[w].pc \in Calling /\ io'[w].op = io[w].op
      BY <1>4, <3>2, Zenon DEF ControlOf
    <3>4. CASE job[w].pc # "replace"
      BY <2>4, <3>1, <3>3, <3>4, Zenon DEF Calling
    <3>5. CASE job[w].pc = "replace"
      <4>1. io[w].op = ReplaceOp(Rebuild(Manifests))
        BY <1>3, <3>5, Zenon DEF Found
      <4>2. io[w].op.kind = "replace" /\ io[w].op.entries = Rebuild(Manifests)
        BY <4>1 DEF ReplaceOp
      <4>3. io[w].pc = "replace"
        BY <2>5, <3>2, <4>2, Zenon DEF ControlOf
      <4>4. Replace(w)
        BY <3>1, <4>3, Zenon DEF Access, LoadHead, LoadGet, PutIfMatch
      <4>5. io'[w].pc = "ok" => idx' = Rebuild(Manifests)
        BY <1>4, <4>2, <4>4, Zenon DEF Replace, Return, Request
      <4>6. Rebuild(Manifests)' = Rebuild(Manifests)
        BY <1>5, <3>1, Zenon
      <4>7. io'[w].op = ReplaceOp(Rebuild(Manifests))'
        BY <3>3, <4>1, <4>6, Zenon
      <4>8. io'[w].pc = "ok" => idx' \in {NoIndex, Rebuild(Manifests)'}
        BY <4>5, <4>6, Zenon
      <4> QED BY <3>1, <3>5, <4>7, <4>8, Zenon DEF Found
    <3> QED BY <3>4, <3>5, Zenon
  <2>11. CASE w = Daemon /\ (StartBackup \/ Stream)
    <3>1. CASE StartBackup
      <4>1. job'[w].pc = "stream"
        BY <1>4, <2>11, <3>1, Zenon DEF StartBackup, Rest
      <4> QED BY <2>4, <4>1, Zenon
    <3>2. CASE Stream
      <4>1. Do(w, "manifest") \/ Do(w, "note")
        BY <2>11, <3>2, Zenon DEF Stream, RecordFailure, CallIndex
      <4>2. job'[w].pc \in {"manifest", "note"}
        BY <1>4, <2>5, <4>1, Zenon DEF Do, Job
      <4> QED BY <2>4, <4>2, Zenon
    <3> QED BY <2>11, <3>1, <3>2, Zenon
  <2>12. CASE w = Daemon /\ (PutManifest \/ Appended)
    <3>1. Do(w, "append") \/ Do(w, "note") \/ Do(w, "plan") \/ Done(w)
      BY <2>12, Zenon DEF PutManifest, Appended, RecordFailure, CallIndex
    <3>2. ASSUME NEW pc, Do(w, pc) PROVE job'[w].pc = pc
      BY <1>4, <2>5, <3>2, Zenon DEF Do, Job
    <3>3. Done(w) => job'[w].pc = "idle"
      BY <1>4, <2>5, Zenon DEF Done
    <3>4. job'[w].pc \in {"append", "note", "plan", "idle"}
      BY <3>1, <3>2, <3>3, Zenon
    <3> QED BY <2>4, <3>4, Zenon
  <2>13. CASE StartPrune(w) \/ StartVerify(w)
    <3>1. job'[w].pc \in {"plan", "check"}
      BY <1>4, <2>13, Zenon DEF StartPrune, StartVerify, Rest
    <3> QED BY <2>4, <3>1, Zenon
  <2>14. CASE ApplyPrune(w) \/ Record(w)
    <3>1. job'[w].pc \in {"remove", "noted", "idle"}
      BY <1>4, <2>5, <2>14 DEF ApplyPrune, Record, CallIndex, Do, Done, Job
    <3> QED BY <2>4, <3>1, Zenon
  <2>15. CASE Check(w)
    <3>1. job'[w].pc \in {"idle", "record"}
      BY <1>4, <2>5, <2>15 DEF Check, Done, Job
    <3> QED BY <2>4, <3>1, Zenon
  <2>16. CASE Finish(w) \/ Crash(w)
    <3>1. job'[w].pc = "idle"
      BY <1>4, <2>5, <2>16, Zenon DEF Finish, Crash, Done
    <3> QED BY <2>4, <3>1, Zenon
  <2> QED BY <1>8, <2>6, <2>7, <2>8, <2>9, <2>10, <2>11, <2>12, <2>13, <2>14, <2>15, <2>16, Zenon
<1> QED BY <1>6, <1>7, <1>8, CatalogAssumption, Zenon DEF Next

-----------------------------------------------------------------------------
(* The invariant and the theorems.                                         *)

Inv == Types /\ Control /\ Single /\ Removals /\ Guarded /\ Steady

(* The six parts hold at the start.                                        *)
LEMMA InvStart ==
    ASSUME Init
    PROVE  Inv
<1>1. Types /\ Control
  BY TypesInit, Zenon
<1>2. \A w \in Writers : job[w] = Rest /\ io[w] = Idle
  BY Zenon DEF Init, IndexInit
<1>3. Rest.pc = "idle" /\ Idle.pc = "idle" /\ Idle.op.kind = "none"
  BY Zenon DEF Rest, Idle, NoOp
<1>4. Single
  BY <1>2, <1>3, Zenon DEF Single
<1>5. Removals
  BY <1>2, <1>3, Zenon DEF Removals
<1>6. Guarded
  <2>1. \A w \in Writers : Fresh(w)
    BY <1>2, <1>3, Zenon DEF Fresh
  <2>2. Acked = {}
    BY <1>2, <1>3, CatalogAssumption, Zenon DEF Acked, Init
  <2>3. ~Overwrites => losses = 0
    <3>1. losses = scene.losses /\ losses \in Nat
      BY <1>1, Zenon DEF Init, Types
    <3> QED BY <3>1 DEF Overwrites
  <2> QED BY <2>1, <2>2, <2>3, Zenon DEF Guarded
<1>7. Steady
  BY <1>2, <1>3, Zenon DEF Steady, Found
<1> QED BY <1>1, <1>4, <1>5, <1>6, <1>7, Zenon DEF Inv

(* Every step keeps the six parts.                                         *)
LEMMA InvStep ==
    ASSUME WellOrdered, Inv, [Next]_vars
    PROVE  Inv'
BY ControlStep, SingleStep, RemovalsStep, GuardedStep, SteadyStep, Zenon DEF Inv

(* What is indexed and still held is listed.                               *)
LEMMA InvLists ==
    ASSUME Inv
    PROVE  NoHiddenBackup
<1> SUFFICES ASSUME ~Overwrites, NEW b \in confirmed \cap Restorable PROVE Listed(Entries, b)
  BY Zenon DEF NoHiddenBackup
<1>1. b \in Held \cap Acked
  BY Zenon DEF Held, Acked, Restorable, Manifests
<1>2. Shows(b)
  BY <1>1, Zenon DEF Inv, Guarded
<1> QED BY <1>2, Zenon DEF Shows, Entries

(* What is half deleted is listed.                                         *)
LEMMA InvListsHalf ==
    ASSUME Inv
    PROVE  HalfDeletedIsListed
<1> SUFFICES ASSUME Alone, ~Overwrites, NEW b \in confirmed \cap (Manifests \ data)
             PROVE  Listed(Entries, b)
  BY Zenon DEF HalfDeletedIsListed
<1>1. b \in Held \cap Acked
  BY Zenon DEF Held, Acked, Manifests
<1>2. Shows(b)
  BY <1>1, Zenon DEF Inv, Guarded
<1> QED BY <1>2, Zenon DEF Shows, Entries

(* Only the index requests of a process change the index.                  *)
LEMMA OnlyAccess ==
    ASSUME losses = 0, [Next]_vars, idx' # idx
    PROVE  \E w \in Writers : UseIndex(w)
<1>1. CASE StartBackup \/ Stream \/ PutManifest \/ Appended \/ UNCHANGED vars \/ LoseIndex
  BY <1>1 DEF StartBackup, Stream, PutManifest, Appended, LoseIndex, vars, indexVars
<1>2. CASE \E w \in Writers : StartPrune(w) \/ PlanPrune(w) \/ Sweep(w) \/ ApplyPrune(w)
  BY <1>2, Zenon DEF StartPrune, PlanPrune, Sweep, ApplyPrune, indexVars
<1>3. CASE \E w \in Writers : StartVerify(w) \/ Check(w) \/ Record(w) \/ StartReindex(w)
  BY <1>3, Zenon DEF StartVerify, Check, Record, StartReindex, indexVars
<1>4. CASE \E w \in Writers : Fetch(w) \/ Finish(w) \/ Crash(w)
  BY <1>4, Zenon DEF Fetch, Finish, Crash
<1> QED BY <1>1, <1>2, <1>3, <1>4, Zenon DEF Next

(* A step that lists a backup finds it there, or decided on.               *)
LEMMA AddsWhatIsThere ==
    ASSUME WellOrdered, Inv, [Next]_vars, ~Overwrites, idx # NoIndex, idx' # NoIndex,
           NEW b \in Ids, Listed(idx', b), ~Listed(idx, b)
    PROVE  b \in Restorable' \cup pruned
<1>1. losses = 0 /\ (\A w \in Writers : Fresh(w)) /\ Types /\ Control /\ Single
  BY Zenon DEF Inv, Guarded
<1>2. PICK w \in Writers : UseIndex(w)
  BY <1>1, OnlyAccess, Zenon
<1>3. Fresh(w) /\ ControlOf(w) /\ Access(w) /\ UNCHANGED <<data, man, job>>
  BY <1>1, <1>2, Zenon DEF UseIndex, Control
<1>4. io[w].pc = "put" /\ idx = io[w].tag /\ idx' = Updated(io[w].op, io[w].body)
  BY <1>1, <1>3, IndexStep, Zenon DEF Fresh
<1>5. /\ Reached \in Int /\ io[w].op \in Op(Reached) /\ io[w].body \in Listing(Reached)
      /\ io[w].op.kind \in {"append", "remove", "verify"} /\ b # 0
  <2>1. Reached \in Int /\ io[w] \in Request(Reached)
    BY <1>1, Bounds, Zenon DEF Types
  <2>2. io[w].op.kind \in {"append", "remove", "verify"}
    BY <1>3, <1>4, Zenon DEF ControlOf
  <2>3. b # 0
    BY DEF Ids
  <2> QED BY <2>1, <2>2, <2>3, Zenon DEF Request
<1>6. Listed(io[w].body, b) \/ (io[w].op.kind = "append" /\ io[w].op.entry.id = b)
  <2>1. Listed(Updated(io[w].op, io[w].body), b)
    BY <1>4, Zenon
  <2> QED BY <1>5, <2>1, UpdatedLists
<1>7. CASE Listed(io[w].body, b)
  BY <1>3, <1>4, <1>7, Zenon DEF Fresh, Shows, Held
<1>8. CASE io[w].op.kind = "append" /\ io[w].op.entry.id = b
  <2>1. job[w].pc = "append"
    BY <1>3, <1>5, <1>8, Zenon DEF ControlOf
  <2>2. b = runs /\ runs \in data \cup pruned /\ runs \in Manifests \cup pruned
    BY <1>3, <1>8, <2>1, Zenon DEF ControlOf
  <2>3. Restorable' = Restorable
    BY <1>3, Zenon DEF Restorable, Manifests
  <2> QED BY <2>2, <2>3, Zenon DEF Restorable
<1> QED BY <1>6, <1>7, <1>8, Zenon

(* Only a prune takes a backup away.                                       *)
LEMMA OnlyApply ==
    ASSUME Types, Control, [Next]_vars, ~(Restorable \subseteq Restorable')
    PROVE  \E w \in Writers : ApplyPrune(w)
<1>0. man \in [Ids -> Int \cup {NoManifest}] /\ NoManifest \notin Int
  BY CatalogAssumption, Zenon DEF Types
<1>1. ASSUME data \subseteq data', Manifests \subseteq Manifests' PROVE FALSE
  BY <1>1, Zenon DEF Restorable
<1>2. man' = man => Manifests' = Manifests
  BY Zenon DEF Manifests
<1>3. CASE StartBackup \/ Stream \/ Appended \/ UNCHANGED vars \/ LoseIndex
  BY <1>1, <1>2, <1>3, Zenon DEF StartBackup, Stream, Appended, LoseIndex, vars
<1>4. CASE PutManifest
  <2>1. data' = data /\ man' \in {man, [man EXCEPT ![job[Daemon].id] = 0]}
    BY <1>4, Zenon DEF PutManifest
  <2>2. Manifests \subseteq Manifests'
    BY <1>0, <2>1 DEF Manifests
  <2> QED BY <1>1, <2>1, <2>2, Zenon
<1>5. ASSUME NEW w \in Writers, Record(w) PROVE FALSE
  <2>1. data' = data /\ job[w].pc = "record" /\ man' \in {man, [man EXCEPT ![job[w].id] = job[w].plan.ver]}
    BY <1>5, Zenon DEF Record
  <2>2. job[w].plan.kind = "verify" /\ job[w].plan \in Op(Reached)
    BY <2>1, Zenon DEF Control, ControlOf, Types, Job
  <2>3. job[w].plan.ver \in Int
    BY <2>2, Zenon DEF Op, Removal
  <2>4. Manifests \subseteq Manifests'
    BY <1>0, <2>1, <2>3, Zenon DEF Manifests
  <2> QED BY <1>1, <2>1, <2>4, Zenon
<1>6. CASE \E w \in Writers : StartPrune(w) \/ PlanPrune(w) \/ Sweep(w) \/ StartVerify(w)
  BY <1>1, <1>2, <1>6, Zenon DEF StartPrune, PlanPrune, Sweep, StartVerify
<1>7. CASE \E w \in Writers : Check(w) \/ StartReindex(w) \/ Fetch(w)
  BY <1>1, <1>2, <1>7, Zenon DEF Check, StartReindex, Fetch
<1>8. CASE \E w \in Writers : UseIndex(w) \/ Finish(w) \/ Crash(w)
  BY <1>1, <1>2, <1>8, Zenon DEF UseIndex, Finish, Crash
<1> QED BY <1>3, <1>4, <1>5, <1>6, <1>7, <1>8, Zenon DEF Next

(* A step that deletes finds the most recent run on record a success.      *)
LEMMA DeletesOnSuccess ==
    ASSUME WellOrdered, Inv, [Next]_vars, Alone, "orphans" \notin scene.use, Deletes
    PROVE  ~LastRunFailed(Entries)
<1>1. Types /\ Control /\ \A w \in Writers : Found(w)
  BY Zenon DEF Inv, Steady
<1>2. PICK w \in Writers : ApplyPrune(w)
  BY <1>1, OnlyApply, Zenon DEF Deletes
<1>3. idx = NoIndex \/ ~LastRunFailed(idx)
  BY <1>1, <1>2, Zenon DEF ApplyPrune, Found
<1>4. ~LastRunFailed(Rebuild(Manifests))
  <2>1. Reached \in Int /\ Manifests \subseteq 0..Reached /\ man \in [Ids -> Int \cup {NoManifest}]
    BY <1>1, Bounds, Zenon DEF Types
  <2> QED BY <2>1, RebuildType, Zenon
<1> QED BY <1>3, <1>4, Zenon DEF Entries

(* The backups the index knows as verified, and those a step deletes.      *)
VerifiedIds == {e.id : e \in {f \in Backups(Entries) : f.verified}}
DeletedIds == Restorable \ Restorable'

(* A step that deletes a verified backup spares a newer one.               *)
LEMMA SparesVerified ==
    ASSUME WellOrdered, Inv, [Next]_vars, Alone, scene.losses = 0, scene.use \subseteq {"prune", "verify"},
           NEW b \in DeletedIds \cap VerifiedIds
    PROVE  \E c \in VerifiedIds \ DeletedIds : c > b
<1>1. Types /\ Control /\ \A w \in Writers : Found(w)
  BY Zenon DEF Inv, Steady
<1>2. PICK w \in Writers : ApplyPrune(w)
  BY <1>1, OnlyApply, Zenon DEF DeletedIds
<1>3. job[w].data = Doomed(Rules, Entries) /\ job[w].man = Doomed(Rules, Entries)
  BY <1>1, <1>2, Zenon DEF ApplyPrune, Found
<1>4. DeletedIds \subseteq Doomed(Rules, Entries)
  <2>1. PICK d \in SUBSET job[w].data, m \in SUBSET job[w].man :
           data' = data \ d /\ man' = [x \in Ids |-> IF x \in m THEN NoManifest ELSE man[x]]
    BY <1>2, Zenon DEF ApplyPrune
  <2> QED BY <1>3, <2>1, ZenonT(30) DEF Restorable, Manifests, DeletedIds
<1> DEFINE B == Backups(Entries)
           V == {f \in B : f.verified}
<1>5. /\ Reached \in Int /\ MaxRuns \in Nat /\ 0..Reached \subseteq 0..MaxRuns
      /\ Entries \in Listing(Reached)
  BY <1>1, Bounds, EntriesType, Zenon DEF Types
<1>6. \A f \in B : f.at \in Nat /\ f.at <= MaxRuns /\ f.id = f.at
  <2> SUFFICES ASSUME NEW f \in B PROVE f.at \in Nat /\ f.at <= MaxRuns /\ f.id = f.at
    BY Zenon
  <2>1. f.id \in 0..Reached /\ f.at \in Nat /\ f.id = f.at
    BY <1>5, BackupFacts, Zenon
  <2>2. f.at \in 0..MaxRuns
    BY <1>5, <2>1, Zenon
  <2> QED BY <2>1, <2>2
<1>7. PICK f \in V : f.id = b
  BY Zenon DEF VerifiedIds
<1>8. Newest(V) \in V /\ \A c \in V : c.at <= Newest(V).at
  BY <1>5, <1>6, <1>7, NewestIs, Zenon
<1>9. Newest(V).id \notin Doomed(Rules, Entries)
  BY <1>7, PlanSparesVerified, Zenon DEF Doomed
<1>10. Newest(V).id \in VerifiedIds \ DeletedIds
  BY <1>4, <1>8, <1>9, Zenon DEF VerifiedIds
<1>11. Newest(V).id > b
  <2>1. Newest(V).id # b /\ f.at <= Newest(V).at /\ b = f.at /\ Newest(V).id = Newest(V).at
    BY <1>4, <1>6, <1>7, <1>8, <1>9, Zenon
  <2>2. f.at \in Nat /\ Newest(V).at \in Nat
    BY <1>6, <1>7, <1>8, Zenon
  <2> HIDE DEF V
  <2> QED BY <2>1, <2>2
<1> QED BY <1>10, <1>11, Zenon

(* What FloorKept says of a step.                                          *)
LeavesEnough ==
    /\ Alone /\ scene.losses = 0 /\ scene.use \subseteq {"prune", "verify"}
    /\ Distinct /\ Deletes
    => Cardinality(Restorable' \cup Ghosts) >= Rules.minKeep

(* A step that deletes leaves what the plan kept, or what stands for it.   *)
LEMMA LeavesFloor ==
    ASSUME WellOrdered, Counting, Inv, [Next]_vars
    PROVE  LeavesEnough
<1> SUFFICES ASSUME Alone, scene.losses = 0, scene.use \subseteq {"prune", "verify"}, Distinct, Deletes
             PROVE  Cardinality(Restorable' \cup Ghosts) >= Rules.minKeep
  BY Zenon DEF LeavesEnough
<1> DEFINE B == Backups(Entries)
           D == Doomed(Rules, Entries)
           K == {f \in B : f.id \notin D}
           R == Restorable' \cup Ghosts
<1>1. Types /\ Control /\ \A w \in Writers : Found(w)
  BY Zenon DEF Inv, Steady
<1>2. PICK w \in Writers : ApplyPrune(w)
  BY <1>1, OnlyApply, Zenon DEF Deletes
<1>3. job[w].data = D /\ job[w].man = D
  BY <1>1, <1>2, Zenon DEF ApplyPrune, Found
<1>4. Restorable \ Restorable' \subseteq D
  <2>1. PICK d \in SUBSET job[w].data, m \in SUBSET job[w].man :
           data' = data \ d /\ man' = [x \in Ids |-> IF x \in m THEN NoManifest ELSE man[x]]
    BY <1>2, Zenon DEF ApplyPrune
  <2> HIDE DEF D
  <2> QED BY <1>3, <2>1, ZenonT(30) DEF Restorable, Manifests
<1>5. /\ Reached \in Int /\ MaxRuns \in Nat /\ 0..Reached \subseteq 0..MaxRuns
      /\ Entries \in Listing(Reached)
  BY <1>1, Bounds, EntriesType, Zenon DEF Types
<1>6. \A f \in B : f.at \in Nat /\ f.at <= MaxRuns
  <2> SUFFICES ASSUME NEW f \in B PROVE f.at \in Nat /\ f.at <= MaxRuns
    BY Zenon
  <2>1. f.id \in 0..Reached /\ f.at \in Nat /\ f.id = f.at
    BY <1>5, BackupFacts, Zenon
  <2>2. f.at \in 0..MaxRuns
    BY <1>5, <2>1, Zenon
  <2> QED BY <2>1, <2>2
<1>7. IsFiniteSet(B)
  <2> DEFINE I == {j \in DOMAIN Entries : Entries[j].ok}
             g == [i \in I |-> [id |-> Entries[i].id, at |-> Entries[i].at,
                                verified |-> Verified(Entries[i]), line |-> i]]
  <2>1. Len(Entries) \in Nat /\ DOMAIN Entries = 1..Len(Entries)
    BY <1>5 DEF Listing
  <2>2. IsFiniteSet(I)
    <3>1. I \in SUBSET (1..Len(Entries)) /\ 1 \in Nat
      BY <2>1
    <3>2. IsFiniteSet(1..Len(Entries))
      BY <2>1, <3>1, Zenon DEF Counting, CountingOf
    <3> QED BY <3>1, <3>2, Zenon DEF Counting, CountingOf
  <2>3. g \in [I -> B] /\ \A t \in B : \E s \in I : g[s] = t
    BY Zenon DEF Backups
  <2> HIDE DEF I, g, B
  <2> QED BY <2>2, <2>3, Zenon DEF Counting, CountingOf
<1>8. K # B
  <2>1. PICK x \in Restorable : x \notin Restorable'
    BY Zenon DEF Deletes
  <2>2. x \in D
    BY <1>4, <2>1, Zenon
  <2>3. x \in {b.id : b \in B}
    BY <2>2, PlanDooms, Zenon DEF Doomed
  <2> QED BY <2>2, <2>3, Zenon
<1>9. Cardinality(K) >= Rules.minKeep
  <2>1. Rules \in Policy /\ MaxRuns \in Nat
    BY CatalogAssumption, Zenon
  <2>2. D = Plan(Rules, B, LastRunFailed(Entries))
    BY Zenon DEF Doomed
  <2> HIDE DEF B, D
  <2> QED BY <1>6, <1>7, <1>8, <2>1, <2>2, PlanFloor, Zenon
<1> DEFINE h == [f \in K |-> f.id]
<1>10. h \in [K -> R]
  <2>1. \A f \in K : f.id \in R
    <3> SUFFICES ASSUME NEW f \in K PROVE f.id \in R
      BY Zenon
    <3>1. f.id \in {e.id : e \in B} /\ f.id \notin D
      BY Zenon
    <3> HIDE DEF B, D
    <3>2. CASE f.id \in Restorable
      BY <1>4, <3>1, <3>2, Zenon
    <3>3. CASE f.id \notin Restorable
      BY <3>1, <3>3, Zenon DEF Ghosts, B, D
    <3> QED BY <3>2, <3>3, Zenon
  <2> HIDE DEF K, R
  <2> QED BY <2>1, Zenon
<1>11. ASSUME NEW f \in K, NEW e \in K, h[f] = h[e] PROVE f = e
  <2>1. f.id = e.id
    BY <1>11, Zenon
  <2>2. PICK i \in DOMAIN Entries : Entries[i].ok /\ f =
          [id |-> Entries[i].id, at |-> Entries[i].at, verified |-> Verified(Entries[i]), line |-> i]
    BY Zenon DEF Backups
  <2>3. PICK j \in DOMAIN Entries : Entries[j].ok /\ e =
          [id |-> Entries[j].id, at |-> Entries[j].at, verified |-> Verified(Entries[j]), line |-> j]
    BY Zenon DEF Backups
  <2>4. f.id = Entries[i].id /\ e.id = Entries[j].id
    BY <2>2, <2>3, Zenon
  <2>5. i = j
    BY <2>1, <2>2, <2>3, <2>4, Zenon DEF Distinct
  <2> QED BY <2>2, <2>3, <2>5, Zenon
<1>12. IsFiniteSet(R)
  <2>1. R \in SUBSET (0..MaxRuns)
    <3>1. Restorable' \subseteq 0..MaxRuns
      <4>1. Restorable' \subseteq Ids
        BY Zenon DEF Restorable, Manifests, Ids
      <4> QED BY <1>5, <4>1 DEF Ids
    <3>2. Ghosts \subseteq 0..MaxRuns
      <4> SUFFICES ASSUME NEW f \in B PROVE f.id \in 0..MaxRuns
        BY Zenon DEF Ghosts
      <4> QED BY <1>5, BackupFacts, Zenon
    <3> QED BY <3>1, <3>2, Zenon
  <2>2. IsFiniteSet(0..MaxRuns)
    <3>1. 0 \in Nat
      OBVIOUS
    <3> QED BY <1>5, <3>1, Zenon DEF Counting, CountingOf
  <2> QED BY <2>1, <2>2, Zenon DEF Counting, CountingOf
<1> HIDE DEF K, R, h
<1>13. Cardinality(K) <= Cardinality(R)
  BY <1>10, <1>11, <1>12, Zenon DEF Counting, CountingOf
<1>14. Cardinality(K) \in Nat /\ Cardinality(R) \in Nat
  <2>1. K \in SUBSET B
    BY Zenon DEF K
  <2> HIDE DEF B
  <2> QED BY <1>7, <1>12, <2>1, Zenon DEF Counting, CountingOf
<1>15. Rules.minKeep \in Nat
  BY CatalogAssumption DEF Policy
<1>16. Cardinality(R) >= Rules.minKeep
  BY <1>9, <1>13, <1>14, <1>15
<1> QED BY <1>16, Zenon DEF R

(* What a reindex of its own leaves behind.                                *)
LEMMA ReindexExact ==
    ASSUME WellOrdered, Inv, NEW w \in Writers, Serial, job[w].pc = "replace", io[w].pc = "ok"
    PROVE  {<<Entries[i].id, Entries[i].ver>> : i \in DOMAIN Entries} = {<<b, man[b]>> : b \in Manifests}
<1>1. idx \in {NoIndex, Rebuild(Manifests)}
  BY Zenon DEF Inv, Steady, Alone, Found
<1>2. Entries = Rebuild(Manifests)
  BY <1>1, Zenon DEF Entries
<1>3. Ids \cap Manifests = Manifests
  BY Zenon DEF Manifests
<1>4. /\ \A i \in DOMAIN Entries : \E b \in Manifests : Entries[i] = NewEntry(b, man[b])
      /\ \A b \in Manifests : \E i \in DOMAIN Entries : Entries[i] = NewEntry(b, man[b])
  <2>1. /\ \A i \in DOMAIN Rebuild(Manifests) :
              \E b \in Ids \cap Manifests : Rebuild(Manifests)[i] = NewEntry(b, man[b])
        /\ \A b \in Ids \cap Manifests :
              \E i \in DOMAIN Rebuild(Manifests) : Rebuild(Manifests)[i] = NewEntry(b, man[b])
    BY RebuildElements, ZenonT(30)
  <2> QED BY <1>2, <1>3, <2>1, Zenon
<1>5. \A b : NewEntry(b, man[b]).id = b /\ NewEntry(b, man[b]).ver = man[b]
  BY Zenon DEF NewEntry
<1>6. \A i \in DOMAIN Entries : <<Entries[i].id, Entries[i].ver>> \in {<<b, man[b]>> : b \in Manifests}
  BY <1>4, <1>5
<1>7. \A b \in Manifests : <<b, man[b]>> \in {<<Entries[i].id, Entries[i].ver>> : i \in DOMAIN Entries}
  BY <1>4, <1>5
<1> QED BY <1>6, <1>7, Zenon

\* Being finite and having a size, spelled out: what the library's definitions
\* say, so that its theorems about them carry over.
Enumerated(S) == \E seq \in Seq(S) : \A s \in S : \E n \in 1..Len(seq) : seq[n] = s

Counted(S) ==
    LET CS[T \in SUBSET S] == IF T = {} THEN 0 ELSE 1 + CS[T \ {CHOOSE x : x \in T}]
    IN  CS[S]

(* Facts about the definitions spelled out are facts about the library.    *)
LEMMA SpelledOut ==
    ASSUME CountingOf(Enumerated, Counted)
    PROVE  Counting
<1>1. \A S : Enumerated(S) = IsFiniteSet(S) /\ Counted(S) = Cardinality(S)
  BY Zenon DEF Enumerated, Counted, IsFiniteSet, Cardinality
<1> QED BY <1>1, Zenon DEF Counting, CountingOf

LOCAL INSTANCE FiniteSetTheorems

(* Finite sets have the sizes they should.                                 *)
LEMMA CountingHolds == Counting
<1>0. \A S : Enumerated(S) = IsFiniteSet(S) /\ Counted(S) = Cardinality(S)
  BY Zenon DEF Enumerated, Counted, IsFiniteSet, Cardinality
<1>1. \A S : IsFiniteSet(S) => Cardinality(S) \in Nat
  BY FS_CardinalityType, Zenon
<1>2. \A m, n \in Nat : IsFiniteSet(m..n)
  BY FS_Interval
<1>3. ASSUME NEW S, IsFiniteSet(S), NEW T \in SUBSET S
      PROVE  IsFiniteSet(T) /\ Cardinality(T) <= Cardinality(S)
  BY <1>3, FS_Subset, Zenon
<1>4. ASSUME NEW S, NEW T, IsFiniteSet(S), IsFiniteSet(T), S \cap T = {}
      PROVE  Cardinality(S \cup T) = Cardinality(S) + Cardinality(T)
  <2>1. Cardinality(S \cup T) = Cardinality(S) + Cardinality(T) - Cardinality(S \cap T)
    BY <1>4, FS_Union, Zenon
  <2>2. Cardinality(S \cap T) = 0
    BY <1>4, FS_EmptySet, Zenon
  <2>3. Cardinality(S) \in Nat /\ Cardinality(T) \in Nat
    BY <1>1, <1>4, Zenon
  <2> QED BY <2>1, <2>2, <2>3
<1>5. ASSUME NEW S, NEW T, NEW f \in [S -> T], IsFiniteSet(S), \A t \in T : \E s \in S : f[s] = t
      PROVE  IsFiniteSet(T) /\ Cardinality(T) <= Cardinality(S)
  <2>1. f \in Surjection(S, T)
    BY <1>5, Zenon DEF Surjection
  <2> QED BY <1>5, <2>1, FS_Surjection, Zenon
<1>6. ASSUME NEW S, NEW T, NEW f \in [S -> T], IsFiniteSet(T), \A x, y \in S : f[x] = f[y] => x = y
      PROVE  Cardinality(S) <= Cardinality(T)
  <2>1. f \in Injection(S, T)
    BY <1>6, Zenon DEF Injection, IsInjective
  <2> QED BY <1>6, <2>1, FS_Injection, Zenon
<1>7. CountingOf(IsFiniteSet, Cardinality)
  BY <1>1, <1>2, <1>3, <1>4, <1>5, <1>6, Zenon DEF CountingOf
<1>8. CountingOf(Enumerated, Counted)
  BY <1>0, <1>7, Zenon DEF CountingOf
<1> QED BY <1>8, SpelledOut, Zenon

(* A set of naturals that is not empty has a least element: less-than on   *)
(* the naturals is well founded.                                           *)
LEMMA LeastNatural == WellOrdered
<1> SUFFICES ASSUME NEW A \in SUBSET Nat, A # {}
             PROVE  \E m \in A : \A n \in A : m <= n
  BY Zenon DEF WellOrdered
<1> DEFINE R == OpToRel(<, Nat)
<1>1. \A x, y \in Nat : x < y => <<x, y>> \in R
  <2>1. R = {ss \in Nat \X Nat : ss[1] < ss[2]}
    BY Zenon DEF OpToRel
  <2> HIDE DEF R
  <2> QED BY <2>1, Zenon
<1>2. IsWellFoundedOn(R, Nat)
  BY NatLessThanWellFounded, Zenon
<1> HIDE DEF R
<1>3. PICK x \in A : \A y \in A : ~(<<y, x>> \in R)
  BY <1>2, WFMin, Zenon
<1>4. ASSUME NEW y \in A PROVE x <= y
  <2>1. ~(y < x)
    BY <1>1, <1>3, Zenon
  <2> QED BY <2>1
<1> QED BY <1>4, Zenon

(* The invariant of every behaviour.                                       *)
LEMMA InvHolds == Spec => []Inv
<1>1. Init => Inv
  BY InvStart, Zenon
<1>2. Inv /\ [Next]_vars => Inv'
  BY InvStep, LeastNatural, Zenon
<1> QED BY <1>1, <1>2, PTL DEF Spec

(* For any number of overlapping writers, and however their requests fail, *)
(* are lost or are sent twice: a backup that was indexed and is still in   *)
(* the bucket is listed (internal/index, the conditional writes;           *)
(* internal/prune, objects before index).                                  *)
THEOREM NothingHidden == Spec => []NoHiddenBackup
<1>1. Inv => NoHiddenBackup
  BY InvLists, Zenon
<1> QED BY <1>1, InvHolds, PTL

(* A Delete that failed half way leaves a backup that is still listed, so  *)
(* that the next prune finishes it (Apply).                                *)
THEOREM HalfDeletedListed == Spec => []HalfDeletedIsListed
<1>1. Inv => HalfDeletedIsListed
  BY InvListsHalf, Zenon
<1> QED BY <1>1, InvHolds, PTL

(* An entry is only added for a backup whose data and manifest are there,  *)
(* or that retention has decided on (Runner.Run, findOrphans, Index.Load). *)
THEOREM ListedWasThere == Spec => ListedIsRestorable
<1>1. Inv /\ [Next]_vars =>
        [~Overwrites /\ idx # NoIndex /\ idx' # NoIndex =>
            \A b \in Ids : Listed(idx', b) /\ ~Listed(idx, b) => b \in Restorable' \cup pruned]_vars
  BY AddsWhatIsThere, LeastNatural, Zenon
<1> QED BY <1>1, InvHolds, PTL DEF Spec, ListedIsRestorable

(* A deletion that nothing overlaps leaves min_keep backups, short only by *)
(* the dead entries its plan took for backups, under every retention       *)
(* policy (Policy.Plan, invariant 1, carried through Apply).               *)
THEOREM FloorCarried == Spec => FloorKept
<1>1. Inv /\ [Next]_vars => [LeavesEnough]_vars
  BY LeavesFloor, LeastNatural, CountingHolds, Zenon
<1> QED BY <1>1, InvHolds, PTL DEF Spec, FloorKept, LeavesEnough

(* Nothing is deleted while the most recent run on record failed, as long  *)
(* as no run overlaps with the deletion: what Plan read still holds when   *)
(* Apply deletes (Policy.Plan, invariant 3).                               *)
THEOREM DeletesWhenWell == Spec => FrozenWhileFailing
<1>1. Inv /\ [Next]_vars =>
        [Alone /\ "orphans" \notin scene.use /\ Deletes => ~LastRunFailed(Entries)]_vars
  BY DeletesOnSuccess, LeastNatural, Zenon
<1> QED BY <1>1, InvHolds, PTL DEF Spec, FrozenWhileFailing

(* A deletion that no verification overlaps with spares the newest backup  *)
(* the index knows as verified, under every retention policy (Policy.Plan, *)
(* invariant 2, carried through Apply).                                    *)
THEOREM VerifiedSpared == Spec => VerifiedKept
<1> DEFINE verified == {e.id : e \in {f \in Backups(Entries) : f.verified}}
           deleted == Restorable \ Restorable'
<1>1. Inv /\ [Next]_vars =>
        [Alone /\ scene.losses = 0 /\ scene.use \subseteq {"prune", "verify"} =>
            \A b \in deleted \cap verified : \E c \in verified \ deleted : c > b]_vars
  BY SparesVerified, LeastNatural, Zenon DEF VerifiedIds, DeletedIds
<1> QED BY <1>1, InvHolds, PTL DEF Spec, VerifiedKept

(* A reindex that nothing overlaps leaves an index of exactly what the     *)
(* manifests say, whatever came before (internal/cli/reindex.go).          *)
THEOREM ReindexIsExact == Spec => ReindexRepairs
<1>1. Inv /\ [Next]_vars =>
        [\A w \in Writers :
            Serial /\ job[w].pc = "replace" /\ io[w].pc = "ok" /\ job'[w].pc = "idle" =>
                {<<Entries[i].id, Entries[i].ver>> : i \in DOMAIN Entries}
                    = {<<b, man[b]>> : b \in Manifests}]_vars
  BY ReindexExact, LeastNatural, Zenon
<1> QED BY <1>1, InvHolds, PTL DEF Spec, ReindexRepairs
=============================================================================
