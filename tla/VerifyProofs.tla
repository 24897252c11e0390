---------------------------- MODULE VerifyProofs ----------------------------
(***************************************************************************)
(* Proofs about Verify, for any number of verifications and any scenes: a  *)
(* backup that a level should reject is never recorded as passed, a good   *)
(* one is not called broken for reasons of its surroundings, and the       *)
(* sandboxes go away.                                                      *)
(***************************************************************************)
EXTENDS Verify, TLAPS

-----------------------------------------------------------------------------
(* The verdicts.                                                           *)

InUse == {"check", "open", "load", "assert", "drop"}
Stops == {"idle", "head", "read", "probe", "create", "report", "manifest", "index", "done", "gone"} \cup InUse
Outs == {None, "ok", "broken", "skipped", "error"}

Check == [pc : Stops, b : scene.backups \cup {None}, level : Levels \cup {None},
          key : scene.keys \cup {"none"}, out : Outs, ended : BOOLEAN, cut : BOOLEAN]

\* Where a verification is says what it has seen of its backup so far.
Sound(r) ==
    /\ r \in Check
    /\ r.pc # "idle" => r.b \in scene.backups /\ r.level \in Levels
    /\ r.pc \in {"probe", "create"} \cup InUse => r.level = "restore"
    /\ r.pc = "head" => r.level # "restore"
    /\ r.pc = "read" => r.level = "structural" /\ integrityFinds = "ok"
    /\ r.pc \in {"report", "manifest", "index"} => r.out \in {"ok", "broken"}
    /\ r.pc \in {"load", "assert"} => scene.object # "missing"
    /\ r.pc = "assert" => scene.object \notin {"flipped", "short", "unsound"}
    /\ r.out = "ok" => scene.object \notin Flaws(r.level)

\* A recorded or announced verdict.
Deserved(x) == x.out = "ok" => scene.object \notin Flaws(x.level)

VerdictInv ==
    /\ scene \in Scenes
    /\ v \in [Verifiers -> Check] /\ \A p \in Verifiers : Sound(v[p])
    /\ man \in [scene.backups -> Verdicts \cup {None}]
    /\ idx \in [scene.backups -> Verdicts \cup {None}]
    /\ announced \subseteq [b : scene.backups, level : Levels, out : {"ok", "broken"}]
    /\ \A b \in scene.backups : /\ man[b] # None => Deserved(man[b])
                                /\ idx[b] # None => Deserved(idx[b])
    /\ \A x \in announced : Deserved(x)

(* A table whose rows are all gone is not within a tolerance of less than  *)
(* all of them (assert.go, withinTolerance).                               *)
LEMMA LossShows ==
  ASSUME NEW want \in Nat, want > 0, NEW tolerance \in Int, tolerance < 100
  PROVE  ~withinTolerance(want, 0, tolerance)
<1> SUFFICES ASSUME tolerance > 0, 100 * want <= tolerance * want PROVE FALSE
  BY DEF withinTolerance
<1>1. PICK z \in Nat : z > 0 /\ 100 = tolerance + z
  BY 100 - tolerance \in Nat /\ 100 - tolerance > 0
<1>2. z * want >= 1
  BY <1>1
<1>3. (tolerance + z) * want = tolerance * want + z * want
  OBVIOUS
<1>4. tolerance * want \in Int /\ z * want \in Int
  OBVIOUS
<1> QED BY <1>1, <1>2, <1>3, <1>4

(* A sandbox that lost the rows of a table that is counted fails the       *)
(* assertions, however much of the rest came back.                         *)
LEMMA LossFails ==
  ASSUME scene \in Scenes, NEW b \in scene.backups, scene.object \in {"lossy", "emptied"},
         NEW a \in scene.assertions, Counts(a)
  PROVE  ~runAssertions(sql, Restored(b), scene.tables, scene.age, scene.assertions)
<1> DEFINE lost == scene.tables[1]
           got == Restored(b)
           Table == [name : Seq(STRING), rows : Nat, exact : BOOLEAN]
<1>0. /\ lost \in Table /\ a.tolerance \in Int /\ a.type = "row_count"
      /\ lost \in selectTables(scene.tables, a.names) /\ lost.rows > 0 /\ toleranceFor(a, lost) < 100
  <2>1. Plausible(scene) /\ a.type = "row_count"
    BY SceneAssumption DEF Counts
  <2>2. scene.tables \in Seq(Table) /\ scene.tables # <<>> /\ a.tolerance \in Int
    BY <2>1 DEF Plausible
  <2> HIDE DEF Table
  <2> QED BY <2>1, <2>2 DEF Counts
<1>1. lost.name \in DOMAIN got => got[lost.name] = 0
  <2>1. DOMAIN <<>> = {}
    OBVIOUS
  <2>2. lost.name \in DOMAIN Contents => Contents[lost.name] = 0
    BY DEF Contents
  <2> QED BY <2>1, <2>2 DEF Restored
<1>2. lost.rows \in Nat /\ toleranceFor(a, lost) \in Int
  BY <1>0 DEF toleranceFor, estimateTolerance
<1> HIDE DEF lost, got
<1>3. ~withinTolerance(lost.rows, 0, toleranceFor(a, lost))
  BY <1>0, <1>2, LossShows
<1>4. ~rowCountChecks(sql, got, scene.tables, a)
  BY <1>0, <1>1, <1>3 DEF rowCountChecks
<1> QED BY <1>0, <1>4, Zenon DEF runAssertions, got

(* Verdicts stay deserved when a verification moves to a sound place and   *)
(* what it records or announces is its own verdict.                        *)
LEMMA VerdictFrame ==
  ASSUME VerdictInv, NEW p \in Verifiers, NEW r, Sound(r), v' = [v EXCEPT ![p] = r], scene' = scene,
         \/ man' = man
         \/ v[p].pc = "manifest" /\ man' = [man EXCEPT ![v[p].b] = Verdict(p)],
         \/ idx' = idx
         \/ v[p].pc = "index" /\ idx' = [idx EXCEPT ![v[p].b] = Verdict(p)],
         \/ announced' = announced
         \/ /\ v[p].pc = "report"
            /\ announced' = announced \cup {[b |-> v[p].b, level |-> v[p].level, out |-> v[p].out]}
  PROVE  VerdictInv'
<1>1. v' \in [Verifiers -> Check] /\ \A q \in Verifiers : Sound(v'[q])
  BY DEF VerdictInv, Sound
<1>2. Check' = Check /\ integrityFinds' = integrityFinds
  BY DEF Check, integrityFinds
<1>3. \A level : Flaws(level)' = Flaws(level)
  BY DEF Flaws, Counts
<1>4. \A q \in Verifiers : Sound(v[q])'
  BY <1>1, <1>2, <1>3, Zenon DEF Sound
<1>5. \A x : Deserved(x)' <=> Deserved(x)
  BY <1>3 DEF Deserved
<1>6. ASSUME v[p].pc \in {"report", "manifest", "index"}
      PROVE  /\ v[p].b \in scene.backups /\ v[p].level \in Levels /\ v[p].out \in {"ok", "broken"}
             /\ v[p].out = "ok" => scene.object \notin Flaws(v[p].level)
  BY <1>6 DEF VerdictInv, Sound
<1>7. ASSUME v[p].pc \in {"report", "manifest", "index"}
      PROVE  Verdict(p) \in Verdicts /\ Deserved(Verdict(p))
  BY <1>6, <1>7 DEF Verdict, Verdicts, Deserved
<1>8. /\ man' \in [scene.backups -> Verdicts \cup {None}]
      /\ \A b \in scene.backups : man'[b] # None => Deserved(man'[b])
  BY <1>6, <1>7 DEF VerdictInv
<1>9. /\ idx' \in [scene.backups -> Verdicts \cup {None}]
      /\ \A b \in scene.backups : idx'[b] # None => Deserved(idx'[b])
  BY <1>6, <1>7 DEF VerdictInv
<1>10. /\ announced' \subseteq [b : scene.backups, level : Levels, out : {"ok", "broken"}]
       /\ \A x \in announced' : Deserved(x)
  <2>1. CASE announced' = announced
    BY <2>1 DEF VerdictInv
  <2>2. CASE announced' # announced
    <3> DEFINE x == [b |-> v[p].b, level |-> v[p].level, out |-> v[p].out]
    <3>1. x \in [b : scene.backups, level : Levels, out : {"ok", "broken"}] /\ Deserved(x)
      BY <1>6, <2>2 DEF Deserved
    <3> QED BY <2>2, <3>1 DEF VerdictInv
  <2> QED BY <2>1, <2>2
<1> QED BY <1>1, <1>2, <1>4, <1>5, <1>8, <1>9, <1>10 DEF VerdictInv

(* What changes of a verification that goes elsewhere, with or without an  *)
(* outcome, and of one whose context ends or whose sandbox goes.           *)
LEMMA Fields ==
  ASSUME NEW x \in Check, NEW pc \in Stops, NEW out \in Outs
  PROVE  /\ LET r == [x EXCEPT !.pc = pc] IN
              /\ r \in Check /\ r.pc = pc /\ r.out = x.out
              /\ r.b = x.b /\ r.level = x.level /\ r.key = x.key /\ r.ended = x.ended /\ r.cut = x.cut
         /\ LET r == [x EXCEPT !.out = out, !.pc = pc] IN
              /\ r \in Check /\ r.pc = pc /\ r.out = out
              /\ r.b = x.b /\ r.level = x.level /\ r.key = x.key /\ r.ended = x.ended /\ r.cut = x.cut
         /\ LET r == [x EXCEPT !.ended = TRUE] IN
              /\ r \in Check /\ r.ended = TRUE /\ r.pc = x.pc /\ r.out = x.out
              /\ r.b = x.b /\ r.level = x.level /\ r.key = x.key /\ r.cut = x.cut
         /\ LET r == [x EXCEPT !.cut = TRUE] IN
              /\ r \in Check /\ r.cut = TRUE /\ r.pc = x.pc /\ r.out = x.out
              /\ r.b = x.b /\ r.level = x.level /\ r.key = x.key /\ r.ended = x.ended
  BY Zenon DEF Check

(* What Goto, Return and Leave make of a verification. *)
LEMMA Moves ==
  ASSUME VerdictInv, NEW p \in Verifiers, NEW pc \in Stops, NEW out \in Outs
  PROVE  /\ Goto(p, pc) => \E r \in Check : /\ v' = [v EXCEPT ![p] = r] /\ r.pc = pc /\ r.out = v[p].out
                                            /\ r.b = v[p].b /\ r.level = v[p].level
                                            /\ r.ended = v[p].ended /\ r.cut = v[p].cut
         /\ Return(p, out) => \E r \in Check : /\ v' = [v EXCEPT ![p] = r] /\ r.out = out
                                               /\ r.pc = (IF out \in {"ok", "broken"} THEN "report" ELSE "done")
                                               /\ r.b = v[p].b /\ r.level = v[p].level
                                               /\ r.ended = v[p].ended /\ r.cut = v[p].cut
         /\ Leave(p, out) => \E r \in Check : /\ v' = [v EXCEPT ![p] = r] /\ r.out = out /\ r.pc = "drop"
                                              /\ r.b = v[p].b /\ r.level = v[p].level
                                              /\ r.ended = v[p].ended /\ r.cut = v[p].cut
<1>1. v[p] \in Check
  BY DEF VerdictInv
<1>2. "drop" \in Stops /\ "report" \in Stops /\ "done" \in Stops
  BY DEF Stops, InUse
<1>3. ASSUME Goto(p, pc)
      PROVE  \E r \in Check : /\ v' = [v EXCEPT ![p] = r] /\ r.pc = pc /\ r.out = v[p].out
                              /\ r.b = v[p].b /\ r.level = v[p].level
                              /\ r.ended = v[p].ended /\ r.cut = v[p].cut
  <2> DEFINE r == [v[p] EXCEPT !.pc = pc]
  <2>1. /\ r \in Check /\ r.pc = pc /\ r.out = v[p].out
        /\ r.b = v[p].b /\ r.level = v[p].level /\ r.ended = v[p].ended /\ r.cut = v[p].cut
    BY <1>1, Fields, ZenonT(20)
  <2>2. v' = [v EXCEPT ![p] = r]
    BY <1>3 DEF Goto, Set
  <2> HIDE DEF r
  <2> QED BY <2>1, <2>2, Zenon
<1>4. ASSUME NEW o \in Outs, NEW stop \in Stops, v' = [v EXCEPT ![p] = [v[p] EXCEPT !.out = o, !.pc = stop]]
      PROVE  \E r \in Check : /\ v' = [v EXCEPT ![p] = r] /\ r.out = o /\ r.pc = stop
                              /\ r.b = v[p].b /\ r.level = v[p].level
                              /\ r.ended = v[p].ended /\ r.cut = v[p].cut
  <2> DEFINE r == [v[p] EXCEPT !.out = o, !.pc = stop]
  <2>1. /\ r \in Check /\ r.pc = stop /\ r.out = o
        /\ r.b = v[p].b /\ r.level = v[p].level /\ r.ended = v[p].ended /\ r.cut = v[p].cut
    BY <1>1, <1>4, Zenon DEF Check
  <2>2. v' = [v EXCEPT ![p] = r]
    BY <1>4
  <2> HIDE DEF r
  <2> QED BY <2>1, <2>2, Zenon
<1>5. ASSUME Return(p, out)
      PROVE  v' = [v EXCEPT ![p] = [v[p] EXCEPT !.out = out, !.pc = IF out \in {"ok", "broken"} THEN "report" ELSE "done"]]
  BY <1>5 DEF Return, Set
<1>6. ASSUME Leave(p, out)
      PROVE  v' = [v EXCEPT ![p] = [v[p] EXCEPT !.out = out, !.pc = "drop"]]
  BY <1>6 DEF Leave, Set
<1>7. (IF out \in {"ok", "broken"} THEN "report" ELSE "done") \in Stops
  BY <1>2
<1>8. ASSUME Return(p, out)
      PROVE  \E r \in Check : /\ v' = [v EXCEPT ![p] = r] /\ r.out = out
                              /\ r.pc = (IF out \in {"ok", "broken"} THEN "report" ELSE "done")
                              /\ r.b = v[p].b /\ r.level = v[p].level
                              /\ r.ended = v[p].ended /\ r.cut = v[p].cut
  <2> DEFINE stop == IF out \in {"ok", "broken"} THEN "report" ELSE "done"
  <2>1. stop \in Stops
    BY <1>7
  <2>2. v' = [v EXCEPT ![p] = [v[p] EXCEPT !.out = out, !.pc = stop]]
    BY <1>5, <1>8
  <2> HIDE DEF stop
  <2>3. \E r \in Check : /\ v' = [v EXCEPT ![p] = r] /\ r.out = out /\ r.pc = stop
                         /\ r.b = v[p].b /\ r.level = v[p].level
                         /\ r.ended = v[p].ended /\ r.cut = v[p].cut
    BY <1>4, <2>1, <2>2, ZenonT(20)
  <2> QED BY <2>3, ZenonT(30) DEF stop
<1>9. ASSUME Leave(p, out)
      PROVE  \E r \in Check : /\ v' = [v EXCEPT ![p] = r] /\ r.out = out /\ r.pc = "drop"
                              /\ r.b = v[p].b /\ r.level = v[p].level
                              /\ r.ended = v[p].ended /\ r.cut = v[p].cut
  BY <1>2, <1>4, <1>6, <1>9, ZenonT(20)
<1> QED BY <1>3, <1>8, <1>9
(* A verification that returns with an outcome it may have. *)
LEMMA ReturnKeeps ==
  ASSUME VerdictInv, NEW p \in Verifiers, NEW out \in Outs, Return(p, out), v[p].pc # "idle",
         out = "ok" => scene.object \notin Flaws(v[p].level), UNCHANGED <<scene, man, idx, announced>>
  PROVE  VerdictInv'
<1>1. Sound(v[p]) /\ "drop" \in Stops
  BY DEF VerdictInv, Stops, InUse
<1>2. PICK r \in Check : /\ v' = [v EXCEPT ![p] = r] /\ r.out = out
                         /\ r.pc = (IF out \in {"ok", "broken"} THEN "report" ELSE "done")
                         /\ r.b = v[p].b /\ r.level = v[p].level
  BY <1>1, Moves
<1>3. r.pc \in {"report", "done"} /\ (r.pc = "report" => r.out \in {"ok", "broken"})
  BY <1>2
<1>4. Sound(r)
  BY <1>1, <1>2, <1>3 DEF Sound, InUse
<1> QED BY <1>2, <1>4, VerdictFrame, Zenon

(* One that leaves its sandbox to be dropped. *)
LEMMA LeaveKeeps ==
  ASSUME VerdictInv, NEW p \in Verifiers, NEW out \in Outs, Leave(p, out), v[p].pc \in InUse,
         out = "ok" => scene.object \notin Flaws(v[p].level), UNCHANGED <<scene, man, idx, announced>>
  PROVE  VerdictInv'
<1>1. Sound(v[p]) /\ "drop" \in Stops /\ "idle" \notin InUse
  BY DEF VerdictInv, Stops, InUse
<1>2. PICK r \in Check : /\ v' = [v EXCEPT ![p] = r] /\ r.out = out /\ r.pc = "drop"
                         /\ r.b = v[p].b /\ r.level = v[p].level
  BY <1>1, Moves
<1>3. Sound(r)
  BY <1>1, <1>2 DEF Sound
<1> QED BY <1>2, <1>3, VerdictFrame, Zenon

(* One that goes on to a step it may take. *)
LEMMA GotoKeeps ==
  ASSUME VerdictInv, NEW p \in Verifiers, NEW pc \in Stops, Goto(p, pc), v[p].pc # "idle",
         pc \in {"probe", "create"} \cup InUse => v[p].level = "restore",
         pc # "head",
         pc = "read" => v[p].level = "structural" /\ integrityFinds = "ok",
         pc \in {"report", "manifest", "index"} => v[p].out \in {"ok", "broken"},
         pc \in {"load", "assert"} => scene.object # "missing",
         pc = "assert" => scene.object \notin {"flipped", "short", "unsound"},
         scene' = scene,
         \/ man' = man
         \/ v[p].pc = "manifest" /\ man' = [man EXCEPT ![v[p].b] = Verdict(p)],
         \/ idx' = idx
         \/ v[p].pc = "index" /\ idx' = [idx EXCEPT ![v[p].b] = Verdict(p)],
         \/ announced' = announced
         \/ /\ v[p].pc = "report"
            /\ announced' = announced \cup {[b |-> v[p].b, level |-> v[p].level, out |-> v[p].out]}
  PROVE  VerdictInv'
<1>1. Sound(v[p]) /\ "error" \in Outs
  BY Zenon DEF VerdictInv, Outs
<1>2. PICK r \in Check : /\ v' = [v EXCEPT ![p] = r] /\ r.out = v[p].out /\ r.pc = pc
                         /\ r.b = v[p].b /\ r.level = v[p].level
  BY <1>1, Moves
<1>3. Sound(r)
  BY <1>1, <1>2, Zenon DEF Sound
<1> QED BY <1>2, <1>3, VerdictFrame, Zenon

(* Backup and the levels below restore. *)
LEMMA LookingStep ==
  ASSUME VerdictInv, NEW p \in Verifiers,
         \/ \E b \in scene.backups, level \in scene.levels, key \in scene.keys : Start(p, b, level, key)
         \/ integrity(p) \/ structural(p)
  PROVE  VerdictInv'
<1>0. Sound(v[p]) /\ scene \in Scenes /\ {"ok", "broken", "error", "skipped"} \subseteq Outs
  BY DEF VerdictInv, Outs
<1>1. ASSUME NEW b \in scene.backups, NEW level \in scene.levels, NEW key \in scene.keys, Start(p, b, level, key)
      PROVE  VerdictInv'
  <2> DEFINE r == [Idle EXCEPT !.b = b, !.level = level, !.key = key]
  <2>1. level \in Levels
    BY SceneAssumption, <1>0 DEF Plausible
  <2>2. /\ r \in Check /\ r.b = b /\ r.level = level /\ r.out = None /\ r.pc = "idle"
    <3>1. Idle \in Check /\ Idle.out = None /\ Idle.pc = "idle"
      BY DEF Idle, Check, Stops, Outs
    <3> QED BY <2>1, <3>1, ZenonT(40) DEF Check
  <2>3. \/ Set(p, [r EXCEPT !.pc = "done", !.out = "error"])
        \/ Set(p, [r EXCEPT !.pc = "head"]) /\ level # "restore"
        \/ Set(p, [r EXCEPT !.pc = "probe"]) /\ level = "restore"
    BY <1>1, Zenon DEF Start
  <2>4. UNCHANGED <<scene, man, idx, announced>>
    BY <1>1, Zenon DEF Start, Keep
  <2> HIDE DEF r
  <2>5. CASE Set(p, [r EXCEPT !.pc = "done", !.out = "error"])
    <3> DEFINE s == [r EXCEPT !.pc = "done", !.out = "error"]
    <3>1. s \in Check /\ s.pc = "done" /\ s.out = "error" /\ s.b = b /\ s.level = level
      BY <2>2, Zenon DEF Check, Stops, Outs
    <3>2. Sound(s)
      BY <2>1, <3>1 DEF Sound, InUse
    <3> QED BY <2>4, <2>5, <3>2, VerdictFrame, Zenon DEF Set
  <2>6. ASSUME NEW pc \in {"head", "probe"}, Set(p, [r EXCEPT !.pc = pc]), pc = "head" <=> level # "restore"
        PROVE  VerdictInv'
    <3> DEFINE s == [r EXCEPT !.pc = pc]
    <3>1. s \in Check /\ s.pc = pc /\ s.out = None /\ s.b = b /\ s.level = level
      BY <2>2 DEF Check, Stops
    <3>2. Sound(s)
      BY <2>1, <2>6, <3>1, NoneAssumption DEF Sound, InUse
    <3> QED BY <2>4, <2>6, <3>2, VerdictFrame, Zenon DEF Set
  <2> QED BY <2>3, <2>5, <2>6
<1>2. CASE integrity(p)
  <2>1. UNCHANGED <<scene, man, idx, announced>> /\ v[p].pc = "head"
    BY <1>2 DEF integrity, Keep, At
  <2>2. \/ Return(p, "error")
        \/ Goto(p, "read") /\ integrityFinds = "ok" /\ v[p].level = "structural"
        \/ Return(p, integrityFinds) /\ ~(integrityFinds = "ok" /\ v[p].level = "structural")
    BY <1>2 DEF integrity
  <2>3. v[p].level \in {"integrity", "structural"} /\ integrityFinds \in {"ok", "broken"}
    BY <1>0, <2>1 DEF Sound, Levels, integrityFinds
  <2>4. ASSUME integrityFinds = "ok", v[p].level = "integrity"
        PROVE  scene.object \notin Flaws(v[p].level)
    BY <2>4, Zenon DEF integrityFinds, Flaws
  <2>5. "read" \in Stops
    BY DEF Stops
  <2>6. CASE Return(p, "error")
    BY <1>0, <2>1, <2>6, ReturnKeeps
  <2>7. CASE Goto(p, "read") /\ integrityFinds = "ok" /\ v[p].level = "structural"
    BY <2>1, <2>5, <2>7, GotoKeeps DEF InUse
  <2>8. CASE Return(p, integrityFinds) /\ ~(integrityFinds = "ok" /\ v[p].level = "structural")
    BY <1>0, <2>1, <2>3, <2>4, <2>8, ReturnKeeps
  <2> QED BY <2>2, <2>6, <2>7, <2>8
<1>3. CASE structural(p)
  <2>1. UNCHANGED <<scene, man, idx, announced>> /\ v[p].pc = "read"
    BY <1>3 DEF structural, Keep, At
  <2>2. PICK out \in {"ok", "broken", "error"} : Return(p, out) /\ (out = "ok" => out \in Readings(p))
    BY <1>3 DEF structural, Readings
  <2>3. integrityFinds = "ok" /\ v[p].level = "structural"
    BY <1>0, <2>1 DEF Sound
  <2>4. out = "ok" => scene.object \notin Flaws(v[p].level)
    BY <2>2, <2>3, Zenon DEF Readings, integrityFinds, Flaws
  <2> QED BY <1>0, <2>1, <2>2, <2>4, ReturnKeeps
<1> QED BY <1>1, <1>2, <1>3

(* Several verifications may change at once when a sandbox goes. *)
LEMMA VerdictCut ==
  ASSUME VerdictInv, v' \in [Verifiers -> Check], \A q \in Verifiers : Sound(v'[q]),
         UNCHANGED <<scene, man, idx, announced>>
  PROVE  VerdictInv'
<1>1. Check' = Check /\ integrityFinds' = integrityFinds
  BY DEF Check, integrityFinds
<1>2. \A level : Flaws(level)' = Flaws(level)
  BY DEF Flaws, Counts
<1>3. \A q \in Verifiers : Sound(v[q])'
  BY <1>1, <1>2, Zenon DEF Sound
<1>4. \A x : Deserved(x)' <=> Deserved(x)
  BY <1>2 DEF Deserved
<1> QED BY <1>1, <1>3, <1>4, Zenon DEF VerdictInv

(* A verification whose sandbox goes is where it was. *)
LEMMA CutSound ==
  ASSUME NEW x, Sound(x) PROVE LET r == [x EXCEPT !.cut = TRUE] IN r \in Check /\ Sound(r)
<1> DEFINE r == [x EXCEPT !.cut = TRUE]
<1>1. x \in Check /\ "drop" \in Stops /\ "error" \in Outs
  BY DEF Sound, Stops, InUse, Outs
<1>2. r \in Check /\ r.pc = x.pc /\ r.b = x.b /\ r.level = x.level /\ r.out = x.out
  BY <1>1, Fields, Zenon
<1> HIDE DEF r
<1>3. Sound(r)
  BY <1>2 DEF Sound
<1> QED BY <1>2, <1>3 DEF r

(* The steps of restore verification. *)
LEMMA SandboxVerdicts ==
  ASSUME VerdictInv, NEW p \in Verifiers,
         Probe(p) \/ Create(p) \/ IsEmpty(p) \/ Open(p) \/ Load(p) \/ Inspect(p) \/ Drop(p)
  PROVE  VerdictInv'
<1>0. /\ Sound(v[p]) /\ scene \in Scenes /\ {"ok", "broken", "error", "skipped"} \subseteq Outs
      /\ {"create", "check", "open", "load", "assert", "report", "done"} \subseteq Stops
      /\ UNCHANGED <<scene, man, idx, announced>>
  BY Zenon DEF VerdictInv, Outs, Stops, InUse, Probe, Create, IsEmpty, Open, Load, Inspect, Drop, Keep
<1>1. CASE Probe(p)
  <2>1. v[p].pc = "probe" /\ v[p].level = "restore"
    BY <1>0, <1>1, Zenon DEF Probe, At, Sound
  <2>2. Return(p, "error") \/ Return(p, "skipped") \/ Goto(p, "create")
    BY <1>1 DEF Probe
  <2>3. CASE Goto(p, "create")
    BY <1>0, <2>1, <2>3, GotoKeeps, Zenon
  <2> QED BY <1>0, <2>1, <2>2, <2>3, ReturnKeeps
<1>2. CASE Create(p)
  <2>1. v[p].pc = "create" /\ v[p].level = "restore"
    BY <1>0, <1>2 DEF Create, At, Sound
  <2>2. Return(p, "error") \/ Return(p, "skipped") \/ Goto(p, "check")
    BY <1>2 DEF Create, CreateSQL, CreateMongo
  <2>3. CASE Goto(p, "check")
    BY <1>0, <2>1, <2>3, GotoKeeps, Zenon
  <2> QED BY <1>0, <2>1, <2>2, <2>3, ReturnKeeps, Zenon
<1>3. CASE IsEmpty(p)
  <2>1. v[p].pc = "check" /\ v[p].pc \in InUse /\ v[p].level = "restore"
    BY <1>0, <1>3 DEF IsEmpty, At, Sound, InUse
  <2>2. Leave(p, "error") \/ Leave(p, "broken") \/ Goto(p, "open")
    BY <1>3 DEF IsEmpty, Blame
  <2>3. CASE Goto(p, "open")
    BY <1>0, <2>1, <2>3, GotoKeeps, Zenon
  <2> QED BY <1>0, <2>1, <2>2, <2>3, LeaveKeeps
<1>4. CASE Open(p)
  <2>1. v[p].pc = "open" /\ v[p].pc \in InUse /\ v[p].level = "restore"
    BY <1>0, <1>4, Zenon DEF Open, At, Sound, InUse
  <2>2. Leave(p, "error") \/ Leave(p, "broken") \/ (Goto(p, "load") /\ scene.object # "missing")
    BY <1>4, Zenon DEF Open, Blame
  <2>3. CASE Goto(p, "load") /\ scene.object # "missing"
    BY <1>0, <2>1, <2>3, GotoKeeps, Zenon
  <2> QED BY <1>0, <2>1, <2>2, <2>3, LeaveKeeps, Zenon
<1>5. CASE Load(p)
  <2>1. v[p].pc = "load" /\ v[p].pc \in InUse /\ v[p].level = "restore" /\ scene.object # "missing"
    BY <1>0, <1>5, Zenon DEF Load, At, Sound, InUse
  <2>2. \/ \E out \in {"error", "broken"} : Leave(p, out)
        \/ Goto(p, "assert") /\ scene.object \notin {"flipped", "short", "unsound"}
    BY <1>5, SMTT(30) DEF Load, Blame, Readings
  <2>3. CASE Goto(p, "assert") /\ scene.object \notin {"flipped", "short", "unsound"}
    BY <1>0, <2>1, <2>3, GotoKeeps, Zenon
  <2> QED BY <1>0, <2>1, <2>2, <2>3, LeaveKeeps, Zenon
<1>6. CASE Inspect(p)
  <2>1. /\ v[p].pc = "assert" /\ v[p].pc \in InUse /\ v[p].level = "restore" /\ v[p].b \in scene.backups
        /\ scene.object \notin {"missing", "flipped", "short", "unsound"}
    BY <1>0, <1>6, Zenon DEF Inspect, At, Sound, InUse
  <2>2. \/ Leave(p, "error") \/ Leave(p, "broken")
        \/ /\ Leave(p, "ok")
           /\ runAssertions(sql, Restored(v[p].b), scene.tables, scene.age, scene.assertions)
    BY <1>6, Zenon DEF Inspect
  <2>3. CASE /\ Leave(p, "ok")
             /\ runAssertions(sql, Restored(v[p].b), scene.tables, scene.age, scene.assertions)
    <3>1. scene.object \in {"lossy", "emptied"} => ~\E a \in scene.assertions : Counts(a)
      BY <1>0, <2>1, <2>3, LossFails, Zenon
    <3>2. scene.object \notin Flaws(v[p].level)
      BY <2>1, <3>1 DEF Flaws
    <3> QED BY <1>0, <2>1, <2>3, <3>2, LeaveKeeps, Zenon
  <2>4. CASE Leave(p, "error") \/ Leave(p, "broken")
    BY <1>0, <2>1, <2>4, LeaveKeeps
  <2> QED BY <2>2, <2>3, <2>4
<1>7. CASE Drop(p)
  <2> DEFINE next == [v[p] EXCEPT !.pc = IF v[p].out \in {"ok", "broken"} THEN "report" ELSE "done"]
  <2>1. v[p].pc = "drop" /\ v[p].b \in scene.backups /\ v[p].level \in Levels /\ v[p] \in Check
    BY <1>0, <1>7 DEF Drop, At, Sound
  <2>2. Sound(next) /\ next \in Check
    <3> DEFINE stop == IF v[p].out \in {"ok", "broken"} THEN "report" ELSE "done"
    <3>1. stop \in Stops /\ stop \in {"report", "done"} /\ (stop = "report" => v[p].out \in {"ok", "broken"})
      BY <1>0
    <3>2. next = [v[p] EXCEPT !.pc = stop]
      OBVIOUS
    <3> HIDE DEF stop, next
    <3>3. /\ next \in Check /\ next.pc = stop /\ next.out = v[p].out
          /\ next.b = v[p].b /\ next.level = v[p].level
      BY <2>1, <3>1, <3>2 DEF Check
    <3> QED BY <1>0, <2>1, <3>1, <3>3, Zenon DEF Sound, InUse
  <2>3. v' = [v EXCEPT ![p] = next] \/ \E qs : v' = Cut(qs, p, next)
    BY <1>7 DEF Drop, Set
  <2> HIDE DEF next
  <2>4. v \in [Verifiers -> Check] /\ \A q \in Verifiers : Sound(v[q])
    BY Zenon DEF VerdictInv
  <2>5. CASE v' = [v EXCEPT ![p] = next]
    BY <1>0, <2>2, <2>5, VerdictFrame, Zenon
  <2>6. ASSUME NEW qs, v' = Cut(qs, p, next) PROVE VerdictInv'
    <3>1. \A q \in Verifiers : v'[q] = IF q = p THEN next ELSE IF q \in qs THEN [v[q] EXCEPT !.cut = TRUE] ELSE v[q]
      BY <2>6 DEF Cut
    <3>2. \A q \in Verifiers : v'[q] \in Check /\ Sound(v'[q])
      BY <2>2, <2>4, <3>1, CutSound, Zenon
    <3>3. v' = [q \in Verifiers |-> v'[q]]
      BY <2>6 DEF Cut
    <3>4. v' \in [Verifiers -> Check]
      BY <3>2, <3>3
    <3> QED BY <1>0, <3>2, <3>4, VerdictCut
  <2> QED BY <2>3, <2>5, <2>6
<1> QED BY <1>1, <1>2, <1>3, <1>4, <1>5, <1>6, <1>7

(* Every step keeps the verdicts deserved. *)
LEMMA VerdictStep ==
  ASSUME VerdictInv, [Next]_vars
  PROVE  VerdictInv'
<1>0. /\ v \in [Verifiers -> Check] /\ \A q \in Verifiers : Sound(v[q])
      /\ {"done", "gone", "manifest", "index"} \subseteq Stops
  BY DEF VerdictInv, Stops
<1>1. ASSUME NEW p \in Verifiers, Report(p) \/ RecordManifest(p) \/ RecordIndex(p) \/ Crash(p)
      PROVE  VerdictInv'
  <2>1. CASE Report(p)
    <3>1. v[p].pc = "report" /\ v[p].out \in {"ok", "broken"}
      BY <1>0, <2>1, Zenon DEF Report, At, Sound
    <3> QED BY <1>0, <2>1, <3>1, GotoKeeps, Zenon DEF Report, InUse
  <2>2. CASE RecordManifest(p)
    <3>1. v[p].pc = "manifest" /\ v[p].out \in {"ok", "broken"}
      BY <1>0, <2>2, Zenon DEF RecordManifest, At, Sound
    <3>2. Goto(p, "index") \/ Goto(p, "done")
      BY <2>2 DEF RecordManifest
    <3>3. man' = man \/ man' = [man EXCEPT ![v[p].b] = Verdict(p)]
      BY <2>2 DEF RecordManifest
    <3> QED BY <1>0, <2>2, <3>1, <3>2, <3>3, GotoKeeps, Zenon DEF RecordManifest, InUse
  <2>3. CASE RecordIndex(p)
    <3>1. v[p].pc = "index" /\ Goto(p, "done")
      BY <2>3 DEF RecordIndex, At
    <3>2. idx' = idx \/ idx' = [idx EXCEPT ![v[p].b] = Verdict(p)]
      BY <2>3 DEF RecordIndex
    <3> QED BY <1>0, <2>3, <3>1, <3>2, GotoKeeps, Zenon DEF RecordIndex, InUse
  <2>4. CASE Crash(p)
    BY <1>0, <2>4, GotoKeeps DEF Crash, Running, Keep, InUse
  <2> QED BY <1>1, <2>1, <2>2, <2>3, <2>4
<1>2. ASSUME NEW p \in Verifiers, Cancel(p)
      PROVE  VerdictInv'
  <2> DEFINE r == [v[p] EXCEPT !.ended = TRUE]
  <2>1. v[p] \in Check /\ Sound(v[p])
    BY <1>0
  <2>2. r \in Check /\ r.pc = v[p].pc /\ r.b = v[p].b /\ r.level = v[p].level /\ r.out = v[p].out
    BY <2>1, Zenon DEF Check
  <2>3. Sound(r)
    BY <2>1, <2>2 DEF Sound
  <2> QED BY <1>2, <2>3, VerdictFrame, Zenon DEF Cancel, Set, Keep
<1>3. CASE Collect
  <2>1. \A q \in Verifiers : v'[q] = v[q] \/ v'[q] = [v[q] EXCEPT !.cut = TRUE]
    BY <1>0, <1>3, Zenon DEF Collect
  <2>2. v' = [q \in Verifiers |-> v'[q]]
    BY <1>0, <1>3 DEF Collect
  <2>3. \A q \in Verifiers : v'[q] \in Check /\ Sound(v'[q])
    BY <1>0, <2>1, CutSound, ZenonT(20)
  <2>4. v' \in [Verifiers -> Check]
    BY <2>2, <2>3
  <2> QED BY <1>3, <2>3, <2>4, VerdictCut DEF Collect
<1>4. CASE List \/ UNCHANGED vars
  BY <1>0, <1>4, VerdictCut DEF List, vars
<1> QED BY <1>1, <1>2, <1>3, <1>4, LookingStep, SandboxVerdicts, Zenon DEF Next

(* Nothing has been recorded. *)
LEMMA VerdictStart ==
  ASSUME Init PROVE VerdictInv
<1>1. Idle \in Check /\ Idle.pc = "idle" /\ Idle.out = None
  BY Zenon DEF Idle, Check, Stops, Outs
<1>2. Sound(Idle)
  BY <1>1, NoneAssumption, Zenon DEF Sound, InUse
<1> HIDE DEF Idle
<1> QED BY <1>1, <1>2, Zenon DEF Init, VerdictInv

(* A backup is recorded or announced as passed only if it has none of the  *)
(* flaws the level looks for, for any number of verifications, crashes,    *)
(* failures and collections.                                               *)
THEOREM VerdictsDeserved == Spec => []BrokenNeverPasses
<1>1. VerdictInv => BrokenNeverPasses
  <2> SUFFICES ASSUME VerdictInv, NEW b \in scene.backups, NEW level \in Levels, scene.object \in Flaws(level)
               PROVE  /\ [level |-> level, out |-> "ok"] \notin {man[b], idx[b]}
                      /\ [b |-> b, level |-> level, out |-> "ok"] \notin announced
    BY DEF BrokenNeverPasses
  <2> DEFINE x == [level |-> level, out |-> "ok"]
             y == [b |-> b, level |-> level, out |-> "ok"]
  <2>1. x \in Verdicts /\ ~Deserved(x) /\ ~Deserved(y)
    BY DEF Verdicts, Deserved
  <2> HIDE DEF x, y
  <2>2. x # None
    BY <2>1, NoneAssumption
  <2>3. x \notin {man[b], idx[b]} /\ y \notin announced
    BY <2>1, <2>2 DEF VerdictInv
  <2> QED BY <2>3, Zenon DEF x, y
<1>2. Init => VerdictInv
  BY VerdictStart
<1>3. VerdictInv /\ [Next]_vars => VerdictInv'
  BY VerdictStep
<1> QED BY <1>1, <1>2, <1>3, PTL DEF Spec

-----------------------------------------------------------------------------
(* The sandboxes.                                                          *)

\* As long as nothing fails, a sandbox is some verification's; and a
\* collection that met none knows of every sandbox.
SandboxInv ==
    /\ db \in [scene.backups -> {"absent", "empty", "part", "full"}]
    /\ gc \in [pc : {"idle", "drop", "done", "failed"}, names : SUBSET scene.backups, quiet : BOOLEAN]
    /\ {"crash", "fault"} \cap happened = {} =>
        \A b \in scene.backups : db[b] # "absent" => \E p \in Verifiers : v[p].pc \in InUse /\ v[p].b = b
    /\ gc.quiet /\ gc.pc \in {"drop", "done"} =>
        /\ \A p \in Verifiers : v[p].pc \notin InUse
        /\ \A b \in scene.backups : db[b] # "absent" => b \in gc.names
    /\ gc.pc = "done" => gc.names = {}

(* A step that touches no sandbox, and leaves one only when something      *)
(* failed.                                                                 *)
LEMMA SandboxFrame ==
  ASSUME VerdictInv, SandboxInv, NEW p \in Verifiers, NEW r, v' = [v EXCEPT ![p] = r],
         UNCHANGED <<scene, db, gc>>, happened \subseteq happened',
         r.pc \in InUse => v[p].pc \in InUse,
         v[p].pc \in InUse => (r.pc \in InUse /\ r.b = v[p].b) \/ {"crash", "fault"} \cap happened' # {}
  PROVE  SandboxInv'
<1>1. /\ v \in [Verifiers -> Check] /\ v'[p] = r /\ \A q \in Verifiers \ {p} : v'[q] = v[q]
  BY Zenon DEF VerdictInv
<1>2. ASSUME {"crash", "fault"} \cap happened' = {}, NEW b \in scene.backups, db[b] # "absent"
      PROVE  \E q \in Verifiers : v'[q].pc \in InUse /\ v'[q].b = b
  <2>1. {"crash", "fault"} \cap happened = {}
    BY <1>2
  <2>2. PICK q \in Verifiers : v[q].pc \in InUse /\ v[q].b = b
    BY <1>2, <2>1, Zenon DEF SandboxInv
  <2> QED BY <1>1, <1>2, <2>2
<1>3. ASSUME gc.quiet, gc.pc \in {"drop", "done"} PROVE \A q \in Verifiers : v'[q].pc \notin InUse
  BY <1>1, <1>3, Zenon DEF SandboxInv
<1> QED BY <1>2, <1>3, Zenon DEF SandboxInv

\* More may have gone wrong.
Worse == happened \subseteq happened' /\ happened' \subseteq happened \cup {"fault", "cancel", "crash"}

\* A verification becomes r, beside the sandboxes: it neither takes one into
\* use nor leaves one, unless it crashes.
Beside(p, r) ==
    /\ v' = [v EXCEPT ![p] = r] /\ UNCHANGED <<scene, db, gc>> /\ Worse
    /\ r.pc \in InUse => v[p].pc \in InUse /\ r.b = v[p].b
    /\ v[p].pc \in InUse => r.pc \in InUse \/ "crash" \in happened'
    /\ r.pc = "assert" => v[p].pc = "assert"
    /\ r.cut => v[p].cut
    /\ r.ended => v[p].ended \/ "cancel" \in happened'

(* Most steps of a verification leave the sandboxes alone. *)
LEMMA Aside ==
  ASSUME VerdictInv, NEW p \in Verifiers,
         \/ \E b \in scene.backups, level \in scene.levels, key \in scene.keys : Start(p, b, level, key)
         \/ integrity(p) \/ structural(p) \/ Probe(p) \/ IsEmpty(p) \/ Inspect(p)
         \/ Report(p) \/ RecordManifest(p) \/ RecordIndex(p) \/ Cancel(p) \/ Crash(p)
  PROVE  \E r \in Check : Beside(p, r)
<1>0. /\ v[p] \in Check /\ Sound(v[p]) /\ scene \in Scenes
      /\ {"ok", "broken", "error", "skipped"} \subseteq Outs
      /\ {"create", "open", "read", "manifest", "index", "gone", "done"} \subseteq Stops
      /\ "open" \in InUse /\ "drop" \in InUse /\ "assert" \in InUse /\ "check" \in InUse
      /\ {"idle", "head", "read", "probe", "create", "report", "manifest", "index", "done", "gone"} \cap InUse = {}
  BY Zenon DEF VerdictInv, Outs, Stops, InUse
<1>1. /\ Calm => happened' = happened
      /\ Fault => Worse
      /\ CallFails(p) => Worse
      /\ CallWorks(p) => happened' = happened
  BY Zenon DEF Calm, Fault, Spend, CallFails, CallWorks, Worse
<1>2. ASSUME NEW b \in scene.backups, NEW level \in scene.levels, NEW key \in scene.keys, Start(p, b, level, key)
      PROVE  \E r \in Check : Beside(p, r)
  <2> DEFINE r == [Idle EXCEPT !.b = b, !.level = level, !.key = key]
  <2>1. level \in Levels /\ v[p].pc = "idle"
    BY <1>0, <1>2, SceneAssumption, Zenon DEF Plausible, Start, At
  <2>2. r \in Check /\ r.cut = FALSE /\ r.ended = FALSE
    <3>1. Idle \in Check /\ Idle.cut = FALSE /\ Idle.ended = FALSE
      BY Zenon DEF Idle, Check, Stops, Outs
    <3> QED BY <2>1, <3>1, ZenonT(40) DEF Check
  <2>3. \/ Set(p, [r EXCEPT !.pc = "done", !.out = "error"])
        \/ Set(p, [r EXCEPT !.pc = "head"]) \/ Set(p, [r EXCEPT !.pc = "probe"])
    BY <1>2, Zenon DEF Start
  <2>4. UNCHANGED <<scene, db, gc>> /\ Worse
    BY <1>1, <1>2, Zenon DEF Start, Keep, Calm, Worse
  <2> HIDE DEF r
  <2>5. ASSUME NEW s, s \in {[r EXCEPT !.pc = "done", !.out = "error"], [r EXCEPT !.pc = "head"], [r EXCEPT !.pc = "probe"]}
        PROVE  s \in Check /\ s.pc \in {"done", "head", "probe"} /\ s.cut = FALSE /\ s.ended = FALSE
    BY <2>2, <2>5, ZenonT(20) DEF Check, Stops, Outs
  <2>6. PICK s \in Check : v' = [v EXCEPT ![p] = s] /\ s.pc \in {"done", "head", "probe"} /\ s.cut = FALSE /\ s.ended = FALSE
    BY <2>3, <2>5, Zenon DEF Set
  <2> QED BY <1>0, <2>1, <2>4, <2>6, Zenon DEF Beside
<1>3. ASSUME NEW out \in Outs, Return(p, out), Worse, UNCHANGED <<scene, db, gc>>, v[p].pc \notin InUse
      PROVE  \E r \in Check : Beside(p, r)
  <2>1. PICK r \in Check : /\ v' = [v EXCEPT ![p] = r] /\ r.pc = (IF out \in {"ok", "broken"} THEN "report" ELSE "done")
                           /\ r.ended = v[p].ended /\ r.cut = v[p].cut
    BY <1>0, <1>3, Moves
  <2>2. r.pc \in {"report", "done"}
    BY <2>1, Zenon
  <2> QED BY <1>0, <1>3, <2>1, <2>2, ZenonT(20) DEF Beside
<1>4. ASSUME NEW out \in Outs, Leave(p, out), Worse, UNCHANGED <<scene, db, gc>>, v[p].pc \in InUse
      PROVE  \E r \in Check : Beside(p, r)
  <2>1. PICK r \in Check : /\ v' = [v EXCEPT ![p] = r] /\ r.pc = "drop" /\ r.b = v[p].b
                           /\ r.ended = v[p].ended /\ r.cut = v[p].cut
    BY <1>0, <1>4, Moves
  <2> QED BY <1>0, <1>4, <2>1, Zenon DEF Beside
<1>5. ASSUME NEW pc \in Stops, Goto(p, pc), Worse, UNCHANGED <<scene, db, gc>>, pc # "assert",
             (pc \in InUse <=> v[p].pc \in InUse) \/ ("crash" \in happened' /\ pc \notin InUse)
      PROVE  \E r \in Check : Beside(p, r)
  <2>1. PICK r \in Check : /\ v' = [v EXCEPT ![p] = r] /\ r.pc = pc /\ r.b = v[p].b
                           /\ r.ended = v[p].ended /\ r.cut = v[p].cut
    BY <1>0, <1>5, Moves
  <2> QED BY <1>0, <1>5, <2>1, ZenonT(40) DEF Beside
<1>6. CASE integrity(p)
  <2>1. Worse /\ UNCHANGED <<scene, db, gc>> /\ v[p].pc = "head"
    BY <1>1, <1>6, Zenon DEF integrity, Keep, At, Worse
  <2>2. Return(p, "error") \/ Goto(p, "read") \/ Return(p, "ok") \/ Return(p, "broken")
    BY <1>6, ZenonT(40) DEF integrity, integrityFinds
  <2> QED BY <1>0, <1>3, <1>5, <2>1, <2>2, Zenon
<1>7. CASE structural(p)
  <2>1. Worse /\ UNCHANGED <<scene, db, gc>> /\ v[p].pc = "read"
    BY <1>1, <1>7, Zenon DEF structural, Keep, At, Worse
  <2>2. \E out \in {"ok", "error", "broken"} : Return(p, out)
    BY <1>7, SMTT(30) DEF structural, Readings
  <2> QED BY <1>0, <1>3, <2>1, <2>2, ZenonT(20)
<1>8. CASE Probe(p)
  <2>1. Worse /\ UNCHANGED <<scene, db, gc>> /\ v[p].pc = "probe"
    BY <1>1, <1>8, Zenon DEF Probe, Keep, At, Worse
  <2>2. Return(p, "error") \/ Goto(p, "create") \/ Return(p, "skipped")
    BY <1>8, Zenon DEF Probe
  <2> QED BY <1>0, <1>3, <1>5, <2>1, <2>2, Zenon
<1>9. CASE IsEmpty(p)
  <2>1. Worse /\ UNCHANGED <<scene, db, gc>> /\ v[p].pc = "check"
    BY <1>1, <1>9 DEF IsEmpty, Keep, At, Worse
  <2>2. Leave(p, "error") \/ Goto(p, "open") \/ Leave(p, "broken")
    BY <1>9, SMTT(30) DEF IsEmpty, Blame
  <2> QED BY <1>0, <1>4, <1>5, <2>1, <2>2, Zenon
<1>10. CASE Inspect(p)
  <2>1. Worse /\ UNCHANGED <<scene, db, gc>> /\ v[p].pc = "assert"
    BY <1>1, <1>10, Zenon DEF Inspect, Keep, At, Worse
  <2>2. Leave(p, "error") \/ Leave(p, "ok") \/ Leave(p, "broken")
    BY <1>10, Zenon DEF Inspect
  <2> QED BY <1>0, <1>4, <2>1, <2>2, Zenon
<1>11. CASE Report(p) \/ RecordManifest(p) \/ RecordIndex(p)
  <2>1. Worse /\ UNCHANGED <<scene, db, gc>> /\ v[p].pc \in {"report", "manifest", "index"}
    <3>1. CASE Report(p)
      BY <3>1, Zenon DEF Report, At, Worse
    <3>2. CASE RecordManifest(p)
      BY <1>1, <3>2, Zenon DEF RecordManifest, At, Worse
    <3>3. CASE RecordIndex(p)
      BY <1>1, <3>3, Zenon DEF RecordIndex, At, Worse
    <3> QED BY <1>11, <3>1, <3>2, <3>3, Zenon
  <2>2. Goto(p, "manifest") \/ Goto(p, "index") \/ Goto(p, "done")
    <3>1. Report(p) => Goto(p, "manifest")
      BY Zenon DEF Report
    <3>2. RecordManifest(p) => Goto(p, "index") \/ Goto(p, "done")
      BY Zenon DEF RecordManifest
    <3>3. RecordIndex(p) => Goto(p, "done")
      BY Zenon DEF RecordIndex
    <3> QED BY <1>11, <3>1, <3>2, <3>3, Zenon
  <2> QED BY <1>0, <1>5, <2>1, <2>2, Zenon
<1>12. CASE Crash(p)
  <2>1. Worse /\ UNCHANGED <<scene, db, gc>> /\ Goto(p, "gone") /\ "crash" \in happened'
    BY <1>12, ZenonT(20) DEF Crash, Spend, Keep, Worse
  <2> QED BY <1>0, <1>5, <2>1, ZenonT(40)
<1>13. CASE Cancel(p)
  <2> DEFINE r == [v[p] EXCEPT !.ended = TRUE]
  <2>1. Worse /\ UNCHANGED <<scene, db, gc>> /\ "cancel" \in happened' /\ v' = [v EXCEPT ![p] = r]
    BY <1>13 DEF Cancel, Spend, Keep, Set, Worse
  <2>2. r \in Check /\ r.pc = v[p].pc /\ r.b = v[p].b /\ r.cut = v[p].cut
    BY <1>0, ZenonT(20) DEF Check
  <2> HIDE DEF r
  <2> QED BY <2>1, <2>2, Zenon DEF Beside, Worse
<1> QED BY <1>2, <1>6, <1>7, <1>8, <1>9, <1>10, <1>11, <1>12, <1>13, Zenon

\* A verification becomes r, which has the sandbox of its backup as x.
Within(p, r, x) ==
    /\ v' = [v EXCEPT ![p] = r] /\ r.b = v[p].b /\ r.ended = v[p].ended /\ r.cut = v[p].cut
    /\ db' = [db EXCEPT ![v[p].b] = x]
    /\ scene' = scene /\ gc' = gc /\ Worse

(* Opening and loading write to the sandbox, or leave it to be dropped. *)
LEMMA Writes ==
  ASSUME VerdictInv, SandboxInv, NEW p \in Verifiers, Open(p) \/ Load(p)
  PROVE  \E r \in Check, x \in {"absent", "empty", "part", "full"} :
           /\ Within(p, r, x) /\ v[p].pc \in InUse /\ r.pc \in InUse
           /\ x = db[v[p].b] \/ x \in {"part", "full"}
           /\ x = "absent" => r.pc = "drop"
           /\ db[v[p].b] = "full" => x = "full" \/ v[p].cut
           /\ r.pc = "assert" => x = "full" \/ v[p].cut
<1>0. /\ v[p] \in Check /\ Sound(v[p]) /\ (v[p].b \in scene.backups \/ v[p].pc = "idle")
      /\ {"ok", "broken", "error"} \subseteq Outs /\ "load" \in Stops /\ "assert" \in Stops
      /\ {"open", "load", "assert", "drop"} \subseteq InUse
      /\ db \in [scene.backups -> {"absent", "empty", "part", "full"}]
  BY Zenon DEF VerdictInv, SandboxInv, Sound, Outs, Stops, InUse
<1>1. /\ CallFails(p) => Worse
      /\ CallWorks(p) => Worse
  BY DEF Calm, Fault, Spend, CallFails, CallWorks, Worse
<1>2. scene' = scene /\ gc' = gc /\ Worse
  BY <1>1, Zenon DEF Open, Load
<1>3. v[p].pc \in {"open", "load"} /\ v[p].b \in scene.backups
  BY <1>0, Zenon DEF Open, Load, At
<1>4. ASSUME NEW out \in Outs, Leave(p, out), db' = db
      PROVE  \E r \in Check, x \in {"absent", "empty", "part", "full"} :
               /\ Within(p, r, x) /\ v[p].pc \in InUse /\ r.pc \in InUse
               /\ x = db[v[p].b] \/ x \in {"part", "full"}
               /\ x = "absent" => r.pc = "drop"
               /\ db[v[p].b] = "full" => x = "full" \/ v[p].cut
               /\ r.pc = "assert" => x = "full" \/ v[p].cut
  <2>1. PICK r \in Check : /\ v' = [v EXCEPT ![p] = r] /\ r.pc = "drop" /\ r.b = v[p].b
                           /\ r.ended = v[p].ended /\ r.cut = v[p].cut
    BY <1>0, <1>4, Moves
  <2>2. db' = [db EXCEPT ![v[p].b] = db[v[p].b]] /\ db[v[p].b] \in {"absent", "empty", "part", "full"}
    BY <1>0, <1>3, <1>4, Zenon
  <2>3. Within(p, r, db[v[p].b])
    BY <1>2, <2>1, <2>2, SMTT(30) DEF Within
  <2> QED BY <1>0, <1>3, <2>1, <2>2, <2>3, Zenon
<1>5. ASSUME NEW pc \in {"load", "assert"}, Goto(p, pc), NEW x \in {"part", "full"},
             db' = [db EXCEPT ![v[p].b] = x],
             db[v[p].b] = "full" => x = "full" \/ v[p].cut,
             pc = "assert" => x = "full" \/ v[p].cut
      PROVE  \E r \in Check, y \in {"absent", "empty", "part", "full"} :
               /\ Within(p, r, y) /\ v[p].pc \in InUse /\ r.pc \in InUse
               /\ y = db[v[p].b] \/ y \in {"part", "full"}
               /\ y = "absent" => r.pc = "drop"
               /\ db[v[p].b] = "full" => y = "full" \/ v[p].cut
               /\ r.pc = "assert" => y = "full" \/ v[p].cut
  <2>1. PICK r \in Check : /\ v' = [v EXCEPT ![p] = r] /\ r.pc = pc /\ r.b = v[p].b
                           /\ r.ended = v[p].ended /\ r.cut = v[p].cut
    BY <1>0, <1>5, Moves
  <2>2. Within(p, r, x)
    BY <1>2, <1>5, <2>1, Zenon DEF Within
  <2> QED BY <1>0, <1>3, <1>5, <2>1, <2>2, Zenon
<1>6. CASE Open(p)
  <2>1. \/ (Leave(p, "error") \/ Leave(p, "broken")) /\ db' = db
        \/ /\ Goto(p, "load")
           /\ db' = [db EXCEPT ![v[p].b] = IF db[v[p].b] = "full" THEN db[v[p].b] ELSE "part"]
    BY <1>6, Zenon DEF Open, Blame
  <2>2. CASE /\ Goto(p, "load")
             /\ db' = [db EXCEPT ![v[p].b] = IF db[v[p].b] = "full" THEN db[v[p].b] ELSE "part"]
    <3> DEFINE x == IF db[v[p].b] = "full" THEN db[v[p].b] ELSE "part"
    <3>1. x \in {"part", "full"} /\ (db[v[p].b] = "full" => x = "full") /\ db' = [db EXCEPT ![v[p].b] = x]
      BY <2>2
    <3> HIDE DEF x
    <3> QED BY <1>5, <2>2, <3>1, Zenon
  <2> QED BY <1>0, <1>4, <2>1, <2>2, Zenon
<1>7. CASE Load(p)
  <2>1. \/ (\E out \in {"error", "broken"} : Leave(p, out)) /\ db' = db
        \/ /\ Goto(p, "assert")
           /\ db' = [db EXCEPT ![v[p].b] = IF v[p].cut THEN "part" ELSE "full"]
    BY <1>7 DEF Load, Blame, Readings
  <2>2. CASE /\ Goto(p, "assert")
             /\ db' = [db EXCEPT ![v[p].b] = IF v[p].cut THEN "part" ELSE "full"]
    <3> DEFINE x == IF v[p].cut THEN "part" ELSE "full"
    <3>1. x \in {"part", "full"} /\ (x = "full" \/ v[p].cut) /\ db' = [db EXCEPT ![v[p].b] = x]
      BY <2>2
    <3> HIDE DEF x
    <3> QED BY <1>5, <2>2, <3>1, ZenonT(20)
  <2> QED BY <1>0, <1>4, <2>1, <2>2, Zenon
<1> QED BY <1>6, <1>7, Zenon

(* A sandbox is made for a verification that goes on, or one that a        *)
(* failed call left; no collection is undisturbed after that.              *)
LEMMA Creates ==
  ASSUME VerdictInv, SandboxInv, NEW p \in Verifiers, Create(p)
  PROVE  \E r \in Check :
           /\ v' = [v EXCEPT ![p] = r] /\ r.b = v[p].b /\ r.ended = v[p].ended /\ r.cut = v[p].cut
           /\ v[p].pc = "create" /\ v[p].b \in scene.backups
           /\ gc' = [gc EXCEPT !.quiet = FALSE] /\ scene' = scene /\ Worse
           /\ \/ /\ r.pc \in {"report", "done"} /\ r.out \in {"error", "skipped"}
                 /\ \/ db' = db
                    \/ "fault" \in happened' /\ db[v[p].b] = "absent" /\ db' = [db EXCEPT ![v[p].b] = "empty"]
              \/ /\ r.pc = "check" /\ r.out = v[p].out /\ db[v[p].b] = "absent"
                 /\ db' = IF sql THEN [db EXCEPT ![v[p].b] = "empty"] ELSE db
<1>0. /\ v[p] \in Check /\ Sound(v[p]) /\ v[p].pc = "create"
      /\ {"error", "skipped"} \subseteq Outs /\ "check" \in Stops
  BY DEF VerdictInv, Outs, Stops, InUse, Create, At
<1>1. v[p].b \in scene.backups
  BY <1>0, Zenon DEF Sound
<1>2. gc' = [gc EXCEPT !.quiet = FALSE] /\ scene' = scene
  BY DEF Create
<1>3. Worse
  BY DEF Create, CreateSQL, CreateMongo, Calm, Fault, Spend, CallFails, CallWorks, Worse
<1>4. \/ /\ Return(p, "error") \/ Return(p, "skipped")
         /\ \/ db' = db
            \/ "fault" \in happened' /\ db[v[p].b] = "absent" /\ db' = [db EXCEPT ![v[p].b] = "empty"]
      \/ /\ Goto(p, "check") /\ db[v[p].b] = "absent"
         /\ db' = IF sql THEN [db EXCEPT ![v[p].b] = "empty"] ELSE db
  <2>1. CASE sql
    BY <2>1 DEF Create, CreateSQL, CallFails, Fault, Spend
  <2>2. CASE ~sql
    BY <2>2 DEF Create, CreateMongo
  <2> QED BY <2>1, <2>2, Zenon
<1>5. ASSUME NEW out \in {"error", "skipped"}, Return(p, out)
      PROVE  \E r \in Check : /\ v' = [v EXCEPT ![p] = r] /\ r.out = out /\ r.pc = "done"
                              /\ r.b = v[p].b /\ r.ended = v[p].ended /\ r.cut = v[p].cut
  BY <1>0, <1>5, Moves
<1>6. ASSUME Goto(p, "check")
      PROVE  \E r \in Check : /\ v' = [v EXCEPT ![p] = r] /\ r.out = v[p].out /\ r.pc = "check"
                              /\ r.b = v[p].b /\ r.ended = v[p].ended /\ r.cut = v[p].cut
  BY <1>0, <1>6, Moves, SMTT(30)
<1> QED BY <1>0, <1>1, <1>2, <1>3, <1>4, <1>5, <1>6

(* A drop that works takes the sandbox away, from others that use it too;  *)
(* one that fails leaves it.                                               *)
LEMMA Drops ==
  ASSUME VerdictInv, SandboxInv, NEW p \in Verifiers, Drop(p)
  PROVE  /\ v[p].pc = "drop" /\ v[p].b \in scene.backups /\ UNCHANGED <<scene, gc>>
         /\ \E r \in Check :
              /\ r.pc \notin InUse /\ r.b = v[p].b /\ r.out = v[p].out /\ r.ended = v[p].ended /\ r.cut = v[p].cut
              /\ r.pc = "report" => r.out \in {"ok", "broken"}
              /\ \/ /\ v' = [v EXCEPT ![p] = r] /\ db' = db
                    /\ "fault" \in happened' /\ Worse
                 \/ /\ v' = Cut(Others(p, v[p].b), p, r) /\ db' = [db EXCEPT ![v[p].b] = "absent"]
                    /\ happened' = IF Others(p, v[p].b) # {} THEN happened \cup {"shared"} ELSE happened
<1>0. /\ v[p] \in Check /\ Sound(v[p]) /\ v[p].pc = "drop" /\ {"report", "done"} \subseteq Stops
      /\ UNCHANGED <<scene, gc>>
  BY SMTT(30) DEF VerdictInv, Stops, Drop, At
<1>1. v[p].b \in scene.backups
  BY <1>0, Zenon DEF Sound
<1> DEFINE stop == IF v[p].out \in {"ok", "broken"} THEN "report" ELSE "done"
           r == [v[p] EXCEPT !.pc = stop]
<1>2. stop \in Stops /\ stop \notin InUse /\ (stop = "report" => v[p].out \in {"ok", "broken"})
  BY <1>0, Zenon DEF InUse
<1>3. \/ Fault /\ v' = [v EXCEPT ![p] = r] /\ db' = db
      \/ /\ v' = Cut(Others(p, v[p].b), p, r) /\ db' = [db EXCEPT ![v[p].b] = "absent"]
         /\ happened' = IF Others(p, v[p].b) # {} THEN happened \cup {"shared"} ELSE happened
  BY DEF Drop, Set
<1> HIDE DEF stop
<1>4. r \in Check /\ r.pc = stop /\ r.b = v[p].b /\ r.out = v[p].out /\ r.ended = v[p].ended /\ r.cut = v[p].cut
  BY <1>0, <1>2 DEF Check
<1> HIDE DEF r
<1>5. Fault => "fault" \in happened' /\ Worse
  BY DEF Fault, Spend, Worse
<1> QED BY <1>0, <1>1, <1>2, <1>3, <1>4, <1>5, Zenon

(* What a drop or a collection does to the others: they stay where they are. *)
LEMMA CutFields ==
  ASSUME VerdictInv, NEW q \in Verifiers, NEW x \in {v[q], [v[q] EXCEPT !.cut = TRUE]}
  PROVE  x \in Check /\ x.pc = v[q].pc /\ x.b = v[q].b /\ x.out = v[q].out /\ x.ended = v[q].ended
<1>1. v[q] \in Check
  BY DEF VerdictInv
<1> QED BY <1>1, ZenonT(20) DEF Check

(* A collection drops a database it listed, under whoever uses it. *)
LEMMA Collects ==
  ASSUME VerdictInv, SandboxInv, Collect
  PROVE  /\ scene' = scene /\ gc.pc = "drop" /\ v' \in [Verifiers -> Check]
         /\ \A q \in Verifiers : v'[q].pc = v[q].pc /\ v'[q].b = v[q].b /\ v'[q].out = v[q].out /\ v'[q].ended = v[q].ended
         /\ \/ /\ gc.names = {} /\ gc' = [gc EXCEPT !.pc = "done"] /\ UNCHANGED <<db, v, happened>>
            \/ /\ gc' = [gc EXCEPT !.pc = "failed"] /\ UNCHANGED <<db, v>> /\ Worse
            \/ \E b \in gc.names :
                 /\ gc' = [gc EXCEPT !.names = gc.names \ {b}] /\ db' = [db EXCEPT ![b] = "absent"]
                 /\ \/ happened' = happened \cup {"collected"}
                    \/ v' = v /\ happened' = happened /\ \A q \in Verifiers : ~(v[q].b = b /\ v[q].pc \in InUse)
<1>0. scene' = scene /\ gc.pc = "drop" /\ v \in [Verifiers -> Check]
  BY DEF Collect, VerdictInv
<1>1. \/ gc.names = {} /\ gc' = [gc EXCEPT !.pc = "done"] /\ UNCHANGED <<left, happened, db, v>>
      \/ Fault /\ gc' = [gc EXCEPT !.pc = "failed"] /\ UNCHANGED <<db, v>>
      \/ \E b \in gc.names :
           /\ gc' = [gc EXCEPT !.names = gc.names \ {b}] /\ db' = [db EXCEPT ![b] = "absent"]
           /\ LET users == {q \in Verifiers : v[q].b = b /\ Using(q)} IN
               /\ v' = [q \in Verifiers |-> IF q \in users THEN [v[q] EXCEPT !.cut = TRUE] ELSE v[q]]
               /\ happened' = IF users # {} THEN happened \cup {"collected"} ELSE happened
  <2>1. CASE gc.names = {} /\ gc' = [gc EXCEPT !.pc = "done"] /\ UNCHANGED <<left, happened, db, v>>
    BY <2>1
  <2>2. CASE ~(gc.names = {} /\ gc' = [gc EXCEPT !.pc = "done"] /\ UNCHANGED <<left, happened, db, v>>)
    <3>1. PICK b \in gc.names :
            \/ /\ gc' = [gc EXCEPT !.names = gc.names \ {b}] /\ db' = [db EXCEPT ![b] = "absent"]
               /\ v' = [q \in Verifiers |-> IF q \in {x \in Verifiers : v[x].b = b /\ Using(x)}
                                            THEN [v[q] EXCEPT !.cut = TRUE] ELSE v[q]]
               /\ happened' = IF {x \in Verifiers : v[x].b = b /\ Using(x)} # {}
                              THEN happened \cup {"collected"} ELSE happened
            \/ Fault /\ gc' = [gc EXCEPT !.pc = "failed"] /\ UNCHANGED <<db, v>>
      BY <2>2 DEF Collect
    <3> QED BY <3>1
  <2> QED BY <2>1, <2>2
<1>2. Fault => Worse
  BY DEF Fault, Spend, Worse
<1>3. CASE \/ gc.names = {} /\ gc' = [gc EXCEPT !.pc = "done"] /\ UNCHANGED <<left, happened, db, v>>
           \/ Fault /\ gc' = [gc EXCEPT !.pc = "failed"] /\ UNCHANGED <<db, v>>
  BY <1>0, <1>2, <1>3
<1>4. ASSUME NEW b \in gc.names, gc' = [gc EXCEPT !.names = gc.names \ {b}], db' = [db EXCEPT ![b] = "absent"],
             NEW users, users = {q \in Verifiers : v[q].b = b /\ Using(q)},
             v' = [q \in Verifiers |-> IF q \in users THEN [v[q] EXCEPT !.cut = TRUE] ELSE v[q]],
             happened' = IF users # {} THEN happened \cup {"collected"} ELSE happened
      PROVE  /\ v' \in [Verifiers -> Check]
             /\ \A q \in Verifiers : v'[q].pc = v[q].pc /\ v'[q].b = v[q].b /\ v'[q].out = v[q].out /\ v'[q].ended = v[q].ended
             /\ \/ happened' = happened \cup {"collected"}
                \/ v' = v /\ happened' = happened /\ \A q \in Verifiers : ~(v[q].b = b /\ v[q].pc \in InUse)
  <2>1. \A q \in Verifiers : v'[q] \in {v[q], [v[q] EXCEPT !.cut = TRUE]}
    BY <1>4
  <2>2. \A q \in Verifiers : v'[q] \in Check /\ v'[q].pc = v[q].pc /\ v'[q].b = v[q].b /\ v'[q].out = v[q].out /\ v'[q].ended = v[q].ended
    BY <2>1, CutFields, ZenonT(20)
  <2>3. v' = [q \in Verifiers |-> v'[q]]
    BY <1>4
  <2>4. v' \in [Verifiers -> Check]
    BY <2>2, <2>3
  <2>5. CASE users = {}
    <3>1. v' = v
      BY <1>0, <1>4, <2>5
    <3>2. \A q \in Verifiers : ~(v[q].b = b /\ v[q].pc \in InUse)
      BY <1>4, <2>5 DEF Using, InUse
    <3> QED BY <1>4, <2>2, <2>4, <2>5, <3>1, <3>2, Zenon
  <2>6. CASE users # {}
    BY <1>4, <2>2, <2>4, <2>6
  <2> QED BY <2>5, <2>6, Zenon
<1>5. CASE \E b \in gc.names :
           /\ gc' = [gc EXCEPT !.names = gc.names \ {b}] /\ db' = [db EXCEPT ![b] = "absent"]
           /\ LET users == {q \in Verifiers : v[q].b = b /\ Using(q)} IN
               /\ v' = [q \in Verifiers |-> IF q \in users THEN [v[q] EXCEPT !.cut = TRUE] ELSE v[q]]
               /\ happened' = IF users # {} THEN happened \cup {"collected"} ELSE happened
  <2>1. PICK b \in gc.names :
           /\ gc' = [gc EXCEPT !.names = gc.names \ {b}] /\ db' = [db EXCEPT ![b] = "absent"]
           /\ LET users == {q \in Verifiers : v[q].b = b /\ Using(q)} IN
               /\ v' = [q \in Verifiers |-> IF q \in users THEN [v[q] EXCEPT !.cut = TRUE] ELSE v[q]]
               /\ happened' = IF users # {} THEN happened \cup {"collected"} ELSE happened
    BY <1>5, Zenon
  <2> DEFINE users == {q \in Verifiers : v[q].b = b /\ Using(q)}
  <2>2. /\ v' = [q \in Verifiers |-> IF q \in users THEN [v[q] EXCEPT !.cut = TRUE] ELSE v[q]]
        /\ happened' = IF users # {} THEN happened \cup {"collected"} ELSE happened
        /\ users = {q \in Verifiers : v[q].b = b /\ Using(q)}
    BY <2>1
  <2> HIDE DEF users
  <2>3. gc' = [gc EXCEPT !.names = gc.names \ {b}] /\ db' = [db EXCEPT ![b] = "absent"]
    BY <2>1
  <2>4. /\ v' \in [Verifiers -> Check]
        /\ \A q \in Verifiers : v'[q].pc = v[q].pc /\ v'[q].b = v[q].b /\ v'[q].out = v[q].out /\ v'[q].ended = v[q].ended
        /\ \/ happened' = happened \cup {"collected"}
           \/ v' = v /\ happened' = happened /\ \A q \in Verifiers : ~(v[q].b = b /\ v[q].pc \in InUse)
    BY <1>4, <2>2, <2>3, ZenonT(40)
  <2> QED BY <1>0, <2>3, <2>4, Zenon
<1> QED BY <1>0, <1>1, <1>2, <1>3, <1>5, Zenon

(* Every step keeps what is known of the sandboxes. *)
LEMMA SandboxStep ==
  ASSUME VerdictInv, SandboxInv, [Next]_vars
  PROVE  SandboxInv'
<1>0. /\ v \in [Verifiers -> Check] /\ db \in [scene.backups -> {"absent", "empty", "part", "full"}]
      /\ gc \in [pc : {"idle", "drop", "done", "failed"}, names : SUBSET scene.backups, quiet : BOOLEAN]
  BY Zenon DEF VerdictInv, SandboxInv
<1>1. ASSUME NEW p \in Verifiers, NEW r \in Check, Beside(p, r)
      PROVE  SandboxInv'
  BY <1>1, SandboxFrame, Zenon DEF Beside, Worse
<1>2. ASSUME NEW p \in Verifiers, Create(p)
      PROVE  SandboxInv'
  <2>1. PICK r \in Check :
           /\ v' = [v EXCEPT ![p] = r] /\ r.b = v[p].b
           /\ v[p].pc = "create" /\ v[p].b \in scene.backups
           /\ gc' = [gc EXCEPT !.quiet = FALSE] /\ scene' = scene /\ Worse
           /\ \/ /\ r.pc \in {"report", "done"}
                 /\ \/ db' = db
                    \/ "fault" \in happened' /\ db[v[p].b] = "absent" /\ db' = [db EXCEPT ![v[p].b] = "empty"]
              \/ /\ r.pc = "check" /\ db[v[p].b] = "absent"
                 /\ db' = IF sql THEN [db EXCEPT ![v[p].b] = "empty"] ELSE db
    BY <1>2, Creates
  <2>2. /\ db' \in [scene.backups -> {"absent", "empty", "part", "full"}]
        /\ gc' \in [pc : {"idle", "drop", "done", "failed"}, names : SUBSET scene.backups, quiet : BOOLEAN]
        /\ gc'.quiet = FALSE /\ gc'.pc = gc.pc /\ gc'.names = gc.names
    BY <1>0, <2>1, Zenon
  <2>3. v'[p] = r /\ \A q \in Verifiers \ {p} : v'[q] = v[q]
    BY <1>0, <2>1
  <2>4. ASSUME {"crash", "fault"} \cap happened' = {}, NEW b \in scene.backups, db'[b] # "absent"
        PROVE  \E q \in Verifiers : v'[q].pc \in InUse /\ v'[q].b = b
    <3>0. {"crash", "fault"} \cap happened = {} /\ "fault" \notin happened'
      BY <2>1, <2>4 DEF Worse
    <3>1. CASE db[b] # "absent"
      <4>1. PICK q \in Verifiers : v[q].pc \in InUse /\ v[q].b = b
        BY <3>0, <3>1, Zenon DEF SandboxInv
      <4>2. q # p
        BY <2>1, <4>1 DEF InUse
      <4> QED BY <2>3, <4>1, <4>2
    <3>2. CASE db[b] = "absent"
      BY <1>0, <2>1, <2>3, <2>4, <3>0, <3>2, SMTT(30) DEF InUse
    <3> QED BY <3>1, <3>2
  <2>5. gc'.pc = "done" => gc'.names = {}
    BY <2>2, Zenon DEF SandboxInv
  <2> QED BY <2>1, <2>2, <2>4, <2>5, Zenon DEF SandboxInv
<1>3. ASSUME NEW p \in Verifiers, Open(p) \/ Load(p)
      PROVE  SandboxInv'
  <2>1. PICK r \in Check, x \in {"absent", "empty", "part", "full"} :
           Within(p, r, x) /\ v[p].pc \in InUse /\ r.pc \in InUse
    BY <1>3, Writes, Zenon
  <2>2. /\ v' = [v EXCEPT ![p] = r] /\ r.b = v[p].b /\ db' = [db EXCEPT ![v[p].b] = x]
        /\ scene' = scene /\ gc' = gc /\ Worse
    BY <2>1 DEF Within
  <2>3. v'[p] = r /\ \A q \in Verifiers \ {p} : v'[q] = v[q]
    BY <1>0, <2>2
  <2>4. db' \in [scene.backups -> {"absent", "empty", "part", "full"}]
    BY <1>0, <2>2, Zenon
  <2>5. ASSUME {"crash", "fault"} \cap happened' = {}, NEW b \in scene.backups, db'[b] # "absent"
        PROVE  \E q \in Verifiers : v'[q].pc \in InUse /\ v'[q].b = b
    <3>1. CASE b = v[p].b
      BY <2>1, <2>2, <2>3, <3>1, Zenon
    <3>2. CASE b # v[p].b
      <4>1. db[b] # "absent" /\ {"crash", "fault"} \cap happened = {}
        BY <1>0, <2>2, <2>5, <3>2, Zenon DEF Worse
      <4>2. PICK q \in Verifiers : v[q].pc \in InUse /\ v[q].b = b
        BY <4>1, Zenon DEF SandboxInv
      <4> QED BY <2>3, <3>2, <4>2, Zenon
    <3> QED BY <3>1, <3>2
  <2>6. ~(gc.quiet /\ gc.pc \in {"drop", "done"})
    BY <2>1, Zenon DEF SandboxInv
  <2>7. gc.pc = "done" => gc.names = {}
    BY SMTT(30) DEF SandboxInv
  <2> QED BY <1>0, <2>2, <2>4, <2>5, <2>6, <2>7, Zenon DEF SandboxInv
<1>4. ASSUME NEW p \in Verifiers, Drop(p)
      PROVE  SandboxInv'
  <2>1. /\ v[p].pc = "drop" /\ v[p].b \in scene.backups /\ UNCHANGED <<scene, gc>>
        /\ \E r \in Check :
              /\ r.pc \notin InUse
              /\ \/ v' = [v EXCEPT ![p] = r] /\ db' = db /\ "fault" \in happened' /\ Worse
                 \/ /\ v' = Cut(Others(p, v[p].b), p, r) /\ db' = [db EXCEPT ![v[p].b] = "absent"]
                    /\ happened' = IF Others(p, v[p].b) # {} THEN happened \cup {"shared"} ELSE happened
    BY <1>4, Drops, Zenon
  <2>2. ASSUME NEW r \in Check, v' = [v EXCEPT ![p] = r], r.pc \notin InUse, db' = db, "fault" \in happened', Worse
        PROVE  SandboxInv'
    BY <2>1, <2>2, SandboxFrame, ZenonT(20) DEF Worse
  <2>3. ASSUME NEW r \in Check, r.pc \notin InUse, v' = Cut(Others(p, v[p].b), p, r),
               db' = [db EXCEPT ![v[p].b] = "absent"], happened \subseteq happened'
        PROVE  SandboxInv'
    <3>1. v'[p] = r /\ \A q \in Verifiers \ {p} : v'[q] \in {v[q], [v[q] EXCEPT !.cut = TRUE]}
      BY <2>3 DEF Cut
    <3>2. \A q \in Verifiers \ {p} : v'[q].pc = v[q].pc /\ v'[q].b = v[q].b
      BY <3>1, CutFields, Zenon
    <3>3. db' \in [scene.backups -> {"absent", "empty", "part", "full"}]
      BY <1>0, <2>3, ZenonT(20)
    <3>4. ASSUME {"crash", "fault"} \cap happened' = {}, NEW b \in scene.backups, db'[b] # "absent"
          PROVE  \E q \in Verifiers : v'[q].pc \in InUse /\ v'[q].b = b
      <4>1. b # v[p].b /\ db[b] # "absent" /\ {"crash", "fault"} \cap happened = {}
        BY <1>0, <2>1, <2>3, <3>4, Zenon
      <4>2. PICK q \in Verifiers : v[q].pc \in InUse /\ v[q].b = b
        BY <4>1, SMTT(30) DEF SandboxInv
      <4> QED BY <3>2, <4>1, <4>2, Zenon
    <3>5. ~(gc.quiet /\ gc.pc \in {"drop", "done"})
      BY <2>1, Zenon DEF SandboxInv, InUse
    <3>6. gc.pc = "done" => gc.names = {}
      BY Zenon DEF SandboxInv
    <3> QED BY <1>0, <2>1, <3>3, <3>4, <3>5, <3>6, Zenon DEF SandboxInv
  <2> QED BY <2>1, <2>2, <2>3, Zenon
<1>5. CASE Collect
  <2>1. /\ scene' = scene /\ gc.pc = "drop" /\ v' \in [Verifiers -> Check]
        /\ \A q \in Verifiers : v'[q].pc = v[q].pc /\ v'[q].b = v[q].b
        /\ happened \subseteq happened'
        /\ \/ gc.names = {} /\ gc' = [gc EXCEPT !.pc = "done"] /\ db' = db
           \/ gc' = [gc EXCEPT !.pc = "failed"] /\ db' = db
           \/ \E b \in gc.names : gc' = [gc EXCEPT !.names = gc.names \ {b}] /\ db' = [db EXCEPT ![b] = "absent"]
    BY <1>5, Collects DEF Worse
  <2>2. /\ db' \in [scene.backups -> {"absent", "empty", "part", "full"}]
        /\ gc' \in [pc : {"idle", "drop", "done", "failed"}, names : SUBSET scene.backups, quiet : BOOLEAN]
    BY <1>0, <2>1
  <2>3. \A b \in scene.backups : db'[b] # "absent" => db[b] # "absent"
    BY <1>0, <2>1
  <2>4. ASSUME {"crash", "fault"} \cap happened' = {}, NEW b \in scene.backups, db'[b] # "absent"
        PROVE  \E q \in Verifiers : v'[q].pc \in InUse /\ v'[q].b = b
    <3>1. {"crash", "fault"} \cap happened = {} /\ db[b] # "absent"
      BY <2>1, <2>3, <2>4
    <3> QED BY <2>1, <3>1 DEF SandboxInv
  <2>5. ASSUME gc'.quiet, gc'.pc \in {"drop", "done"}
        PROVE  /\ \A q \in Verifiers : v'[q].pc \notin InUse
               /\ \A b \in scene.backups : db'[b] # "absent" => b \in gc'.names
    <3>1. gc.quiet
      BY <1>0, <2>1, <2>5
    <3>2. /\ \A q \in Verifiers : v[q].pc \notin InUse
          /\ \A b \in scene.backups : db[b] # "absent" => b \in gc.names
      BY <2>1, <3>1 DEF SandboxInv
    <3> QED BY <1>0, <2>1, <2>5, <3>2
  <2>6. gc'.pc = "done" => gc'.names = {}
    BY <1>0, <2>1, SMTT(30)
  <2> QED BY <2>1, <2>2, <2>4, <2>5, <2>6 DEF SandboxInv
<1>6. CASE List
  <2>1. /\ UNCHANGED <<scene, happened, db, v>>
        /\ gc' = [pc |-> "drop", names |-> {b \in scene.backups : db[b] # "absent"},
                  quiet |-> \A p \in Verifiers : ~Using(p)]
    BY <1>6, SMTT(30) DEF List
  <2>2. /\ gc' \in [pc : {"idle", "drop", "done", "failed"}, names : SUBSET scene.backups, quiet : BOOLEAN]
        /\ gc'.pc = "drop" /\ gc'.names = {b \in scene.backups : db[b] # "absent"}
        /\ gc'.quiet = (\A p \in Verifiers : ~Using(p))
    BY <2>1, Zenon
  <2>3. gc'.quiet => \A p \in Verifiers : v[p].pc \notin InUse
    BY <2>2, Zenon DEF Using, InUse
  <2> QED BY <1>0, <2>1, <2>2, <2>3, ZenonT(30) DEF SandboxInv
<1>7. CASE UNCHANGED vars
  BY <1>7, Zenon DEF vars, SandboxInv
<1>8. ASSUME NEW p \in Verifiers,
         \/ \E b \in scene.backups, level \in scene.levels, key \in scene.keys : Start(p, b, level, key)
         \/ integrity(p) \/ structural(p) \/ Probe(p) \/ IsEmpty(p) \/ Inspect(p)
         \/ Report(p) \/ RecordManifest(p) \/ RecordIndex(p) \/ Cancel(p) \/ Crash(p)
      PROVE SandboxInv'
  BY <1>1, <1>8, Aside, Zenon
<1> QED BY <1>2, <1>3, <1>4, <1>5, <1>6, <1>7, <1>8, Zenon DEF Next

(* Verifications that have ended leave no sandbox, unless the process died *)
(* or a call failed, and a collection that meets no verification clears    *)
(* what such a run left (restore.go, the deferred drop; CollectGarbage).   *)
THEOREM SandboxesGo == Spec => []SandboxDropped
<1>1. VerdictInv /\ SandboxInv => SandboxDropped
  BY Zenon DEF SandboxInv, SandboxDropped, Using, InUse
<1>2. Init => VerdictInv /\ SandboxInv
  BY VerdictStart DEF Init, SandboxInv
<1>3. VerdictInv /\ SandboxInv /\ [Next]_vars => (VerdictInv /\ SandboxInv)'
  BY VerdictStep, SandboxStep, SMTT(30)
<1> QED BY <1>1, <1>2, <1>3, PTL DEF Spec

-----------------------------------------------------------------------------
(* Good backups.                                                           *)

\* Who has a sandbox, and what became of it.  An SQL server gives a database
\* to one verification at a time, so only a collection takes it away.
UseInv ==
    /\ \A p \in Verifiers : v[p].ended => "cancel" \in happened
    /\ \A p \in Verifiers : v[p].cut => {"shared", "collected"} \cap happened # {}
    /\ sql /\ "collected" \notin happened =>
        /\ "shared" \notin happened
        /\ \A p \in Verifiers : v[p].pc \in InUse => db[v[p].b] # "absent"
        /\ \A p, q \in Verifiers : v[p].pc \in InUse /\ v[q].pc \in InUse /\ v[p].b = v[q].b => p = q
    /\ {"shared", "collected"} \cap happened = {} =>
        \A p \in Verifiers : v[p].pc = "assert" => db[v[p].b] = "full"

(* Using a sandbox, and ceasing to. *)
LEMMA UseAside ==
  ASSUME VerdictInv, SandboxInv, UseInv, NEW p \in Verifiers, NEW r \in Check, v' = [v EXCEPT ![p] = r],
         UNCHANGED <<scene, db>>, Worse,
         r.pc \in InUse => v[p].pc \in InUse /\ r.b = v[p].b,
         r.pc = "assert" => v[p].pc = "assert",
         r.cut => v[p].cut,
         r.ended => v[p].ended \/ "cancel" \in happened'
  PROVE  UseInv'
<1>1. v \in [Verifiers -> Check] /\ v'[p] = r /\ \A q \in Verifiers \ {p} : v'[q] = v[q]
  BY Zenon DEF VerdictInv
<1>2. /\ "shared" \in happened' <=> "shared" \in happened
      /\ "collected" \in happened' <=> "collected" \in happened
      /\ "cancel" \in happened => "cancel" \in happened'
  BY DEF Worse
<1>3. sql' = sql /\ "assert" \in InUse
  BY SMTT(30) DEF sql, InUse
<1>4. \A q \in Verifiers : v'[q].ended => "cancel" \in happened'
  BY <1>1, <1>2, Zenon DEF UseInv
<1>5. \A q \in Verifiers : v'[q].cut => {"shared", "collected"} \cap happened' # {}
  BY <1>1, <1>2, SMTT(30) DEF UseInv
<1>6. \A q \in Verifiers : v'[q].pc \in InUse => v[q].pc \in InUse /\ v'[q].b = v[q].b
  BY <1>1
<1>7. \A q \in Verifiers : v'[q].pc = "assert" => v[q].pc = "assert" /\ v'[q].b = v[q].b
  BY <1>1, <1>3, SMTT(30)
<1> QED BY <1>2, <1>3, <1>4, <1>5, <1>6, <1>7, SMTT(30) DEF UseInv

(* Every step keeps to it. *)
LEMMA UseStep ==
  ASSUME VerdictInv, SandboxInv, UseInv, [Next]_vars
  PROVE  UseInv'
<1>0. /\ v \in [Verifiers -> Check] /\ db \in [scene.backups -> {"absent", "empty", "part", "full"}]
      /\ "assert" \in InUse /\ "check" \in InUse /\ "done" \notin InUse /\ "report" \notin InUse /\ "create" \notin InUse
      /\ \A q \in Verifiers : v[q].pc \in InUse => v[q].b \in scene.backups
  BY Zenon DEF VerdictInv, SandboxInv, InUse, Sound
<1>s. scene' = scene => sql' = sql
  BY DEF sql
<1>w. Worse => /\ "shared" \in happened' <=> "shared" \in happened
               /\ "collected" \in happened' <=> "collected" \in happened
               /\ "cancel" \in happened => "cancel" \in happened'
  BY DEF Worse
<1>1. ASSUME NEW p \in Verifiers, NEW r \in Check, Beside(p, r)
      PROVE  UseInv'
  <2>1. /\ v' = [v EXCEPT ![p] = r] /\ UNCHANGED <<scene, db>> /\ Worse
        /\ r.pc = "assert" => v[p].pc = "assert"
        /\ r.cut => v[p].cut
        /\ r.ended => v[p].ended \/ "cancel" \in happened'
    BY <1>1, Zenon DEF Beside
  <2>2. r.pc \in InUse => v[p].pc \in InUse /\ r.b = v[p].b
    BY <1>1 DEF Beside
  <2> QED BY <2>1, <2>2, UseAside, Zenon
<1>2. ASSUME NEW p \in Verifiers, Create(p)
      PROVE  UseInv'
  <2>1. PICK r \in Check :
           /\ v' = [v EXCEPT ![p] = r] /\ r.b = v[p].b /\ r.ended = v[p].ended /\ r.cut = v[p].cut
           /\ v[p].pc = "create" /\ v[p].b \in scene.backups /\ scene' = scene /\ Worse
           /\ \/ /\ r.pc \in {"report", "done"}
                 /\ \/ db' = db
                    \/ "fault" \in happened' /\ db[v[p].b] = "absent" /\ db' = [db EXCEPT ![v[p].b] = "empty"]
              \/ /\ r.pc = "check" /\ db[v[p].b] = "absent"
                 /\ db' = IF sql THEN [db EXCEPT ![v[p].b] = "empty"] ELSE db
    BY <1>2, Creates
  <2>2. v'[p] = r /\ \A q \in Verifiers \ {p} : v'[q] = v[q]
    BY <1>0, <2>1, Zenon
  <2>3. /\ \A q \in Verifiers : v'[q].ended => "cancel" \in happened'
        /\ \A q \in Verifiers : v'[q].cut => {"shared", "collected"} \cap happened' # {}
    BY <1>w, <2>1, <2>2, Zenon DEF UseInv
  <2>4. ASSUME sql, "collected" \notin happened'
        PROVE  /\ "shared" \notin happened'
               /\ \A q \in Verifiers : v'[q].pc \in InUse => db'[v'[q].b] # "absent"
               /\ \A q, u \in Verifiers : v'[q].pc \in InUse /\ v'[u].pc \in InUse /\ v'[q].b = v'[u].b => q = u
    <3>1. /\ "shared" \notin happened /\ "shared" \notin happened'
          /\ \A q \in Verifiers : v[q].pc \in InUse => db[v[q].b] # "absent"
          /\ \A q, u \in Verifiers : v[q].pc \in InUse /\ v[u].pc \in InUse /\ v[q].b = v[u].b => q = u
      BY <1>w, <2>1, <2>4, Zenon DEF UseInv
    <3>2. \A q \in Verifiers \ {p} : v[q].pc \in InUse => db'[v[q].b] # "absent"
      BY <1>0, <2>1, <3>1, Zenon
    <3>3. r.pc \in InUse => r.pc = "check" /\ db'[r.b] = "empty" /\ db[r.b] = "absent"
      BY <1>0, <2>1, <2>4, ZenonT(30)
    <3>4. \A q \in Verifiers : v'[q].pc \in InUse => db'[v'[q].b] # "absent"
      BY <2>2, <3>2, <3>3, Zenon
    <3> QED BY <2>2, <3>1, <3>3, <3>4, SMTT(30)
  <2>5. ASSUME {"shared", "collected"} \cap happened' = {}, NEW q \in Verifiers, v'[q].pc = "assert"
        PROVE  db'[v'[q].b] = "full"
    <3>1. q # p /\ v'[q] = v[q] /\ {"shared", "collected"} \cap happened = {}
      BY <1>0, <1>w, <2>1, <2>2, <2>5, Zenon
    <3>2. db[v[q].b] = "full" /\ v[q].b \in scene.backups
      BY <1>0, <2>5, <3>1, Zenon DEF UseInv
    <3> QED BY <1>0, <2>1, <3>1, <3>2, Zenon
  <2> QED BY <1>s, <2>1, <2>3, <2>4, <2>5 DEF UseInv
<1>3. ASSUME NEW p \in Verifiers, Open(p) \/ Load(p)
      PROVE  UseInv'
  <2>1. PICK r \in Check, x \in {"absent", "empty", "part", "full"} :
           /\ Within(p, r, x) /\ v[p].pc \in InUse /\ r.pc \in InUse
           /\ x = db[v[p].b] \/ x \in {"part", "full"}
           /\ db[v[p].b] = "full" => x = "full" \/ v[p].cut
           /\ r.pc = "assert" => x = "full" \/ v[p].cut
    BY <1>3, Writes, ZenonT(20)
  <2>2. /\ v' = [v EXCEPT ![p] = r] /\ r.b = v[p].b /\ r.ended = v[p].ended /\ r.cut = v[p].cut
        /\ db' = [db EXCEPT ![v[p].b] = x] /\ scene' = scene /\ Worse
    BY <2>1, Zenon DEF Within
  <2>3. v'[p] = r /\ \A q \in Verifiers \ {p} : v'[q] = v[q]
    BY <1>0, <2>2, Zenon
  <2>4. /\ \A q \in Verifiers : v'[q].ended => "cancel" \in happened'
        /\ \A q \in Verifiers : v'[q].cut => {"shared", "collected"} \cap happened' # {}
    BY <1>w, <2>2, <2>3, Zenon DEF UseInv
  <2>5. ASSUME sql, "collected" \notin happened'
        PROVE  /\ "shared" \notin happened'
               /\ \A q \in Verifiers : v'[q].pc \in InUse => db'[v'[q].b] # "absent"
               /\ \A q, u \in Verifiers : v'[q].pc \in InUse /\ v'[u].pc \in InUse /\ v'[q].b = v'[u].b => q = u
    <3>1. /\ "shared" \notin happened'
          /\ \A q \in Verifiers : v[q].pc \in InUse => db[v[q].b] # "absent"
          /\ \A q, u \in Verifiers : v[q].pc \in InUse /\ v[u].pc \in InUse /\ v[q].b = v[u].b => q = u
      BY <1>w, <2>2, <2>5, Zenon DEF UseInv
    <3>2. \A q \in Verifiers : v'[q].pc \in InUse => v[q].pc \in InUse /\ v'[q].b = v[q].b
      BY <2>1, <2>2, <2>3, Zenon
    <3>3. x # "absent"
      BY <2>1, <3>1, Zenon
    <3>4. \A q \in Verifiers : v[q].pc \in InUse => db'[v[q].b] # "absent"
      BY <1>0, <2>2, <3>1, <3>3, Zenon
    <3> QED BY <3>1, <3>2, <3>4, Zenon
  <2>6. ASSUME {"shared", "collected"} \cap happened' = {}, NEW q \in Verifiers, v'[q].pc = "assert"
        PROVE  db'[v'[q].b] = "full"
    <3>1. {"shared", "collected"} \cap happened = {} /\ ~v[p].cut
      BY <1>w, <2>2, <2>6, Zenon DEF UseInv
    <3>2. CASE q = p
      BY <1>0, <2>1, <2>2, <2>3, <2>6, <3>1, <3>2, Zenon
    <3>3. CASE q # p
      <4>1. v'[q] = v[q] /\ db[v[q].b] = "full" /\ v[q].b \in scene.backups
        BY <1>0, <2>3, <2>6, <3>1, <3>3, ZenonT(30) DEF UseInv
      <4> QED BY <1>0, <2>1, <2>2, <3>1, <4>1, Zenon
    <3> QED BY <3>2, <3>3, Zenon
  <2> QED BY <1>s, <2>2, <2>4, <2>5, <2>6, SMTT(30) DEF UseInv
<1>4. ASSUME NEW p \in Verifiers, Drop(p)
      PROVE  UseInv'
  <2>1. /\ v[p].pc = "drop" /\ v[p].b \in scene.backups /\ UNCHANGED <<scene, gc>>
        /\ \E r \in Check :
              /\ r.pc \notin InUse /\ r.ended = v[p].ended /\ r.cut = v[p].cut
              /\ \/ v' = [v EXCEPT ![p] = r] /\ db' = db /\ "fault" \in happened' /\ Worse
                 \/ /\ v' = Cut(Others(p, v[p].b), p, r) /\ db' = [db EXCEPT ![v[p].b] = "absent"]
                    /\ happened' = IF Others(p, v[p].b) # {} THEN happened \cup {"shared"} ELSE happened
    BY <1>4, Drops, Zenon
  <2>2. ASSUME NEW r \in Check, v' = [v EXCEPT ![p] = r], r.pc \notin InUse, db' = db, Worse,
               r.ended = v[p].ended, r.cut = v[p].cut
        PROVE  UseInv'
    BY <1>0, <2>1, <2>2, UseAside, ZenonT(20)
  <2>3. ASSUME NEW r \in Check, r.pc \notin InUse, r.ended = v[p].ended, r.cut = v[p].cut,
               NEW qs, qs = Others(p, v[p].b), v' = Cut(qs, p, r), db' = [db EXCEPT ![v[p].b] = "absent"],
               happened' = IF qs # {} THEN happened \cup {"shared"} ELSE happened
        PROVE  UseInv'
    <3>1. /\ v'[p] = r /\ \A q \in Verifiers \ {p} : v'[q] = IF q \in qs THEN [v[q] EXCEPT !.cut = TRUE] ELSE v[q]
      BY <2>3 DEF Cut
    <3>2. \A q \in Verifiers \ {p} : v'[q].pc = v[q].pc /\ v'[q].b = v[q].b /\ v'[q].ended = v[q].ended
      BY <3>1, CutFields, ZenonT(20)
    <3>3. /\ \A q \in Verifiers : v'[q].ended => "cancel" \in happened'
          /\ \A q \in Verifiers : v'[q].cut => {"shared", "collected"} \cap happened' # {}
      BY <2>3, <3>1, <3>2, ZenonT(40) DEF UseInv
    <3>4. \A q \in Verifiers : q \in qs <=> q # p /\ v[q].b = v[p].b /\ v[q].pc \in InUse /\ v[q].pc # "drop"
      BY <2>3, Zenon DEF Others, Using, At, InUse
    <3>5. ASSUME sql, "collected" \notin happened'
          PROVE  /\ "shared" \notin happened'
                 /\ \A q \in Verifiers : v'[q].pc \in InUse => db'[v'[q].b] # "absent"
                 /\ \A q, u \in Verifiers : v'[q].pc \in InUse /\ v'[u].pc \in InUse /\ v'[q].b = v'[u].b => q = u
      <4>0. v[p].pc \in InUse /\ "collected" \notin happened
        BY <2>1, <2>3, <3>5, Zenon DEF InUse
      <4>1. /\ "shared" \notin happened
            /\ \A q \in Verifiers : v[q].pc \in InUse => db[v[q].b] # "absent"
            /\ \A q, u \in Verifiers : v[q].pc \in InUse /\ v[u].pc \in InUse /\ v[q].b = v[u].b => q = u
        BY <3>5, <4>0, Zenon DEF UseInv
      <4>2. qs = {}
        <5>1. qs \subseteq Verifiers
          BY <2>3, Zenon DEF Others
        <5> QED BY <3>4, <4>0, <4>1, <5>1, Zenon
      <4>3. \A q \in Verifiers : v'[q].pc \in InUse => q # p /\ v[q].pc \in InUse /\ v'[q].b = v[q].b /\ v[q].b # v[p].b
        BY <2>3, <3>1, <3>2, <4>0, <4>1, ZenonT(30)
      <4>4. \A q \in Verifiers : v'[q].pc \in InUse => db'[v'[q].b] # "absent"
        BY <1>0, <2>3, <4>1, <4>3, ZenonT(30)
      <4> QED BY <2>3, <4>1, <4>2, <4>3, <4>4, ZenonT(40)
    <3>6. ASSUME {"shared", "collected"} \cap happened' = {}, NEW q \in Verifiers, v'[q].pc = "assert"
          PROVE  db'[v'[q].b] = "full"
      <4>1. {"shared", "collected"} \cap happened = {} /\ qs = {}
        BY <2>3, <3>6, Zenon
      <4>2. q # p /\ v[q].pc = "assert" /\ v'[q].b = v[q].b /\ v[q].b \in scene.backups
        BY <1>0, <2>3, <3>1, <3>2, <3>6, SMTT(30)
      <4>3. v[q].b # v[p].b
        BY <1>0, <3>4, <4>1, <4>2, Zenon
      <4>4. db[v[q].b] = "full"
        BY <4>1, <4>2, ZenonT(20) DEF UseInv
      <4> QED BY <1>0, <2>3, <4>2, <4>3, <4>4, Zenon
    <3> QED BY <1>s, <2>1, <3>3, <3>5, <3>6 DEF UseInv
  <2> QED BY <2>1, <2>2, <2>3, Zenon
<1>5. CASE Collect
  <2>1. /\ scene' = scene /\ v' \in [Verifiers -> Check]
        /\ \A q \in Verifiers : v'[q].pc = v[q].pc /\ v'[q].b = v[q].b /\ v'[q].ended = v[q].ended
        /\ \/ UNCHANGED <<db, v>> /\ Worse
           \/ \E b \in gc.names :
                /\ db' = [db EXCEPT ![b] = "absent"]
                /\ \/ happened' = happened \cup {"collected"}
                   \/ v' = v /\ happened' = happened /\ \A q \in Verifiers : ~(v[q].b = b /\ v[q].pc \in InUse)
    BY <1>5, Collects, SMTT(30) DEF Worse
  <2>2. CASE UNCHANGED <<db, v>> /\ Worse
    BY <1>s, <1>w, <2>1, <2>2, SMTT(30) DEF UseInv
  <2>3. CASE happened' = happened \cup {"collected"}
    BY <1>s, <2>1, <2>3, Zenon DEF UseInv
  <2>4. ASSUME NEW b \in gc.names, db' = [db EXCEPT ![b] = "absent"], v' = v, happened' = happened,
               \A q \in Verifiers : ~(v[q].b = b /\ v[q].pc \in InUse)
        PROVE  UseInv'
    <3>1. \A q \in Verifiers : v[q].pc \in InUse => db'[v[q].b] = db[v[q].b]
      BY <1>0, <2>4, Zenon
    <3>2. \A q \in Verifiers : v[q].pc = "assert" => db'[v[q].b] = db[v[q].b]
      BY <1>0, <3>1, Zenon
    <3> QED BY <1>s, <2>1, <2>4, <3>1, <3>2, SMTT(30) DEF UseInv
  <2> QED BY <2>1, <2>2, <2>3, <2>4, Zenon
<1>6. CASE List \/ UNCHANGED vars
  <2>1. UNCHANGED <<scene, happened, db, v>>
    BY <1>6, SMTT(30) DEF List, vars
  <2> QED BY <1>s, <2>1 DEF UseInv
<1>7. ASSUME NEW p \in Verifiers,
         \/ \E b \in scene.backups, level \in scene.levels, key \in scene.keys : Start(p, b, level, key)
         \/ integrity(p) \/ structural(p) \/ Probe(p) \/ IsEmpty(p) \/ Inspect(p)
         \/ Report(p) \/ RecordManifest(p) \/ RecordIndex(p) \/ Cancel(p) \/ Crash(p)
      PROVE  UseInv'
  BY <1>1, <1>7, Aside, Zenon
<1> QED BY <1>2, <1>3, <1>4, <1>5, <1>6, <1>7, ZenonT(40) DEF Next

Undisturbed == {"fault", "cancel", "shared", "collected"} \cap happened = {}

\* Nothing is held against a good backup.
GoodInv ==
    Good /\ Undisturbed =>
        /\ \A p \in Verifiers : v[p].out # "broken"
        /\ \A x \in announced : x.out = "ok"

(* What happened has happened. *)
LEMMA Remembers ==
  ASSUME VerdictInv, SandboxInv, [Next]_vars
  PROVE  happened \subseteq happened' /\ scene' = scene
<1>1. ASSUME NEW p \in Verifiers, Create(p) PROVE Worse /\ scene' = scene
  BY <1>1, Creates, SMTT(30)
<1>2. ASSUME NEW p \in Verifiers, Open(p) \/ Load(p) PROVE Worse /\ scene' = scene
  BY <1>2, Writes, Zenon DEF Within
<1>3. ASSUME NEW p \in Verifiers, Drop(p) PROVE happened \subseteq happened' /\ scene' = scene
  BY <1>3, Drops, Zenon DEF Worse
<1>4. CASE Collect
  BY <1>4, Collects DEF Worse
<1>5. CASE List \/ UNCHANGED vars
  BY <1>5, SMTT(30) DEF List, vars
<1>6. ASSUME NEW p \in Verifiers,
         \/ \E b \in scene.backups, level \in scene.levels, key \in scene.keys : Start(p, b, level, key)
         \/ integrity(p) \/ structural(p) \/ Probe(p) \/ IsEmpty(p) \/ Inspect(p)
         \/ Report(p) \/ RecordManifest(p) \/ RecordIndex(p) \/ Cancel(p) \/ Crash(p)
      PROVE  Worse /\ scene' = scene
  BY <1>6, Aside, ZenonT(20) DEF Beside
<1> QED BY <1>1, <1>2, <1>3, <1>4, <1>5, <1>6, ZenonT(20) DEF Next, Worse

(* Undisturbed steps hold nothing against a good backup. *)
LEMMA GoodStep ==
  ASSUME VerdictInv, SandboxInv, UseInv, GoodInv, [Next]_vars
  PROVE  GoodInv'
<1> SUFFICES ASSUME Good', Undisturbed'
             PROVE  /\ \A q \in Verifiers : v'[q].out # "broken"
                    /\ \A x \in announced' : x.out = "ok"
  BY Zenon DEF GoodInv
<1>0. happened \subseteq happened' /\ scene' = scene
  BY Remembers, SMTT(30)
<1>1. Good /\ Undisturbed
  BY <1>0, Zenon DEF Good, Undisturbed, sql
<1>2. /\ \A q \in Verifiers : v[q].out # "broken" /\ ~v[q].ended /\ ~v[q].cut
      /\ \A x \in announced : x.out = "ok"
  BY <1>1, Zenon DEF GoodInv, UseInv, Undisturbed
<1>3. /\ \A q \in Verifiers : v[q].pc = "assert" => db[v[q].b] = "full"
      /\ sql => \A q \in Verifiers : v[q].pc \in InUse => db[v[q].b] # "absent"
  BY <1>1, Zenon DEF UseInv, Undisturbed
<1>4. ~Fault /\ \A q \in Verifiers : ~CallFails(q)
  BY <1>2, Zenon DEF Fault, Spend, CallFails, Undisturbed
<1>5. /\ scene.object = "intact" /\ scene.globals \in {"none", "intact"}
      /\ runAssertions(sql, scene.rows, scene.tables, scene.age, scene.assertions)
  BY <1>1, Zenon DEF Good
<1>6. /\ v \in [Verifiers -> Check] /\ {"ok", "broken", "error", "skipped", None} \subseteq Outs
      /\ {"read", "create", "check", "open", "load", "assert", "manifest", "index", "done", "gone", "drop"} \subseteq Stops
  BY Zenon DEF VerdictInv, Outs, Stops, InUse
<1>7. ASSUME NEW p \in Verifiers, NEW r \in Check, v' = [v EXCEPT ![p] = r], r.out # "broken"
      PROVE  \A q \in Verifiers : v'[q].out # "broken"
  BY <1>2, <1>6, <1>7, Zenon
<1>8. ASSUME NEW p \in Verifiers, NEW out \in Outs, Return(p, out) \/ Leave(p, out), out # "broken"
      PROVE  \A q \in Verifiers : v'[q].out # "broken"
  <2>1. \E r \in Check : v' = [v EXCEPT ![p] = r] /\ r.out = out
    BY <1>6, <1>8, Moves
  <2> QED BY <1>7, <1>8, <2>1, ZenonT(20)
<1>9. ASSUME NEW p \in Verifiers, NEW pc \in Stops, Goto(p, pc)
      PROVE  \A q \in Verifiers : v'[q].out # "broken"
  <2>1. \E r \in Check : v' = [v EXCEPT ![p] = r] /\ r.out = v[p].out
    BY <1>6, <1>9, Moves
  <2> QED BY <1>2, <1>7, <2>1, SMTT(30)
<1>10. ASSUME NEW p \in Verifiers, NEW b \in scene.backups, NEW level \in scene.levels, NEW key \in scene.keys,
              Start(p, b, level, key)
       PROVE  \A q \in Verifiers : v'[q].out # "broken"
  <2> DEFINE r == [Idle EXCEPT !.b = b, !.level = level, !.key = key]
  <2>1. level \in Levels
    BY SceneAssumption, Zenon DEF Plausible, VerdictInv
  <2>2. r \in Check /\ r.out = None
    <3>1. Idle \in Check /\ Idle.out = None
      BY Zenon DEF Idle, Check, Stops, Outs
    <3> QED BY <2>1, <3>1, Zenon DEF Check
  <2>3. \/ v' = [v EXCEPT ![p] = [r EXCEPT !.pc = "done", !.out = "error"]]
        \/ v' = [v EXCEPT ![p] = [r EXCEPT !.pc = "head"]] \/ v' = [v EXCEPT ![p] = [r EXCEPT !.pc = "probe"]]
    BY <1>10 DEF Start, Set
  <2> HIDE DEF r
  <2>4. ASSUME NEW s, s \in {[r EXCEPT !.pc = "done", !.out = "error"], [r EXCEPT !.pc = "head"], [r EXCEPT !.pc = "probe"]}
        PROVE  s \in Check /\ s.out # "broken"
    BY <2>2, <2>4, NoneAssumption, ZenonT(40) DEF Check, Stops, Outs
  <2> QED BY <1>7, <2>3, <2>4, SMTT(30)
<1>11. ASSUME NEW p \in Verifiers, integrity(p)
       PROVE  \A q \in Verifiers : v'[q].out # "broken"
  <2>1. integrityFinds = "ok"
    BY <1>5 DEF integrityFinds
  <2>2. Goto(p, "read") \/ Return(p, "error") \/ Return(p, "ok")
    BY <1>4, <1>11, <2>1, Zenon DEF integrity
  <2> QED BY <1>6, <1>8, <1>9, <2>2, Zenon
<1>12. ASSUME NEW p \in Verifiers, structural(p)
       PROVE  \A q \in Verifiers : v'[q].out # "broken"
  <2>1. Readings(p) \subseteq {"error", "ok"}
    BY <1>5 DEF Readings
  <2>2. Return(p, "error") \/ Return(p, "ok")
    BY <1>4, <1>12, <2>1, Zenon DEF structural
  <2> QED BY <1>6, <1>8, <2>2, Zenon
<1>13. ASSUME NEW p \in Verifiers, Probe(p)
       PROVE  \A q \in Verifiers : v'[q].out # "broken"
  <2>1. Return(p, "error") \/ Return(p, "skipped") \/ Goto(p, "create")
    BY <1>13 DEF Probe
  <2> QED BY <1>6, <1>8, <1>9, <2>1, Zenon
<1>14. ASSUME NEW p \in Verifiers, Create(p)
       PROVE  \A q \in Verifiers : v'[q].out # "broken"
  <2>1. PICK r \in Check : v' = [v EXCEPT ![p] = r] /\ (r.out \in {"error", "skipped"} \/ r.out = v[p].out)
    BY <1>14, Creates, SMTT(30)
  <2> QED BY <1>2, <1>7, <2>1, Zenon
<1>15. ASSUME NEW p \in Verifiers, IsEmpty(p)
       PROVE  \A q \in Verifiers : v'[q].out # "broken"
  <2>1. ~(sql /\ db[v[p].b] = "absent")
    BY <1>3, <1>15 DEF IsEmpty, At, InUse
  <2>2. Leave(p, "error") \/ Goto(p, "open")
    BY <1>4, <1>15, <2>1, SMTT(30) DEF IsEmpty
  <2> QED BY <1>6, <1>8, <1>9, <2>2, Zenon
<1>16. ASSUME NEW p \in Verifiers, Open(p)
       PROVE  \A q \in Verifiers : v'[q].out # "broken"
  <2>1. ~(sql /\ db[v[p].b] = "absent")
    BY <1>3, <1>16, Zenon DEF Open, At, InUse
  <2>2. Leave(p, "error") \/ Goto(p, "load")
    BY <1>4, <1>5, <1>16, <2>1, Zenon DEF Open
  <2> QED BY <1>6, <1>8, <1>9, <2>2, Zenon
<1>17. ASSUME NEW p \in Verifiers, Load(p)
       PROVE  \A q \in Verifiers : v'[q].out # "broken"
  <2>1. Goto(p, "assert")
    BY <1>2, <1>4, <1>5, <1>17, Zenon DEF Load
  <2> QED BY <1>6, <1>9, <2>1, Zenon
<1>18. ASSUME NEW p \in Verifiers, Inspect(p)
       PROVE  \A q \in Verifiers : v'[q].out # "broken"
  <2>1. Restored(v[p].b) = scene.rows
    BY <1>3, <1>5, <1>18, Zenon DEF Inspect, At, Restored, Contents
  <2>2. Leave(p, "ok")
    BY <1>4, <1>5, <1>18, <2>1, Zenon DEF Inspect
  <2> QED BY <1>6, <1>8, <2>2, Zenon
<1>19. ASSUME NEW p \in Verifiers, Drop(p)
       PROVE  \A q \in Verifiers : v'[q].out # "broken"
  <2>1. PICK r \in Check : /\ r.out = v[p].out
                           /\ v' = [v EXCEPT ![p] = r] \/ v' = Cut(Others(p, v[p].b), p, r)
    BY <1>19, Drops, Zenon
  <2>2. CASE v' = Cut(Others(p, v[p].b), p, r)
    <3>1. v'[p] = r /\ \A q \in Verifiers \ {p} : v'[q] \in {v[q], [v[q] EXCEPT !.cut = TRUE]}
      BY <2>2 DEF Cut
    <3>2. \A q \in Verifiers \ {p} : v'[q].out = v[q].out
      BY <3>1, CutFields, Zenon
    <3> QED BY <1>2, <2>1, <3>1, <3>2
  <2> QED BY <1>2, <1>7, <2>1, <2>2, Zenon
<1>20. ASSUME NEW p \in Verifiers, Report(p) \/ RecordManifest(p) \/ RecordIndex(p) \/ Crash(p)
       PROVE  \A q \in Verifiers : v'[q].out # "broken"
  <2>1. Goto(p, "manifest") \/ Goto(p, "index") \/ Goto(p, "done") \/ Goto(p, "gone")
    BY <1>20, Zenon DEF Report, RecordManifest, RecordIndex, Crash
  <2> QED BY <1>6, <1>9, <2>1, Zenon
<1>21. \A p \in Verifiers : ~Cancel(p)
  BY DEF Cancel, Spend, Undisturbed
<1>22. CASE Collect
  BY <1>2, <1>22, Collects, Zenon DEF Collect
<1>23. CASE List \/ UNCHANGED vars
  BY <1>2, <1>23, SMTT(30) DEF List, vars
<1>24. \A q \in Verifiers : v'[q].out # "broken"
  BY <1>10, <1>11, <1>12, <1>13, <1>14, <1>15, <1>16, <1>17, <1>18, <1>19, <1>20, <1>21, <1>22, <1>23, ZenonT(40) DEF Next
<1>25. ASSUME NEW p \in Verifiers, Report(p)
       PROVE  \A x \in announced' : x.out = "ok"
  <2>1. v[p].out = "ok"
    BY <1>2, <1>25, ZenonT(20) DEF Report, At, VerdictInv, Sound
  <2> QED BY <1>2, <1>25, <2>1, SMTT(30) DEF Report
<1>26. CASE announced' = announced
  BY <1>2, <1>24, <1>26, Zenon
<1>27. announced' = announced \/ \E p \in Verifiers : Report(p)
  <2>1. ASSUME NEW p \in Verifiers, NEW b, NEW level, NEW key, Start(p, b, level, key)
        PROVE  announced' = announced
    BY <2>1, SMTT(30) DEF Start, Keep
  <2>2. ASSUME NEW p \in Verifiers,
               \/ integrity(p) \/ structural(p) \/ Probe(p) \/ Create(p) \/ IsEmpty(p) \/ Open(p) \/ Load(p)
               \/ Inspect(p) \/ Drop(p) \/ RecordManifest(p) \/ RecordIndex(p) \/ Cancel(p) \/ Crash(p)
        PROVE  announced' = announced
    BY <2>2, Zenon DEF integrity, structural, Probe, Create, IsEmpty, Open, Load, Inspect, Drop,
                RecordManifest, RecordIndex, Cancel, Crash, Keep
  <2>3. ASSUME List \/ Collect \/ UNCHANGED vars PROVE announced' = announced
    BY <2>3, SMTT(30) DEF List, Collect, vars
  <2> QED BY <2>1, <2>2, <2>3, Zenon DEF Next
<1> QED BY <1>24, <1>25, <1>26, <1>27, Zenon

(* A good backup is called broken only if something disturbed its          *)
(* verification, and on an SQL server only a collection can take its       *)
(* sandbox away (restore.go, cannotRun; provision.go, Create and Drop).    *)
THEOREM GoodOnesPass == Spec => []GoodPasses
<1> DEFINE Inv == VerdictInv /\ SandboxInv /\ UseInv /\ GoodInv
<1>1. Inv => GoodPasses
  BY Zenon DEF GoodInv, UseInv, GoodPasses, Undisturbed
<1>2. Init => Inv
  <2> SUFFICES ASSUME Init PROVE Inv
    BY SMTT(30)
  <2>1. \A p \in Verifiers : v[p].pc = "idle" /\ v[p].out = None /\ v[p].ended = FALSE /\ v[p].cut = FALSE
    BY ZenonT(40) DEF Init, Idle
  <2>2. VerdictInv /\ SandboxInv
    BY VerdictStart, Zenon DEF Init, SandboxInv
  <2> QED BY <2>1, <2>2, NoneAssumption, Zenon DEF Init, UseInv, GoodInv, InUse
<1>3. Inv /\ [Next]_vars => Inv'
  BY VerdictStep, SandboxStep, UseStep, GoodStep
<1> HIDE DEF Inv
<1> QED BY <1>1, <1>2, <1>3, PTL DEF Spec
=============================================================================
