--------------------------- MODULE CatalogControl --------------------------
(***************************************************************************)
(* Proofs about module Catalog, part one: what has which type, and what    *)
(* the place a process has reached says about the rest.  Module            *)
(* CatalogProofs has the theorems.                                         *)
(***************************************************************************)
EXTENDS Catalog, PruneProofs

-----------------------------------------------------------------------------
(* Types.  What is stored anywhere speaks of runs up to Reached only.      *)

\* The newest run something may already refer to: a run that is still making
\* its objects is known to nobody but itself.
Reached == IF job[Daemon].pc \in {"stream", "manifest"} THEN runs - 1 ELSE runs

Entry(n) ==
    {e \in [id : 0..n, at : Nat, ok : BOOLEAN, ver : Int] : e.id = IF e.ok THEN e.at ELSE 0}

Listing(n) == Seq(Entry(n))

Removal(n) == [kind : {"remove"}, gone : SUBSET (0..n), oldestKept : Nat]

Op(n) ==
    [kind : {"append"}, entry : Entry(n)] \cup Removal(n)
        \cup [kind : {"verify"}, id : 0..n, ver : Int]
        \cup [kind : {"replace"}, entries : Listing(n)] \cup [kind : {"none"}]

Request(n) ==
    [pc : {"idle", "head", "get", "put", "replace"} \cup Returned, op : Op(n),
     tag : Listing(n) \cup {NoIndex}, body : Listing(n), tries : Nat]

Calling == {"append", "note", "remove", "noted", "replace"}
Job(n) ==
    [pc : {"idle", "plan", "sweep", "delete", "check", "record", "fetch"} \cup InBackup \cup Calling,
     id : 0..MaxRuns, orphans : BOOLEAN, plan : Op(n), data : SUBSET (0..n), man : SUBSET (0..n)]

Types ==
    /\ scene \in Scenario /\ losses \in Nat /\ faults \in [failed : Nat, resent : Nat]
    /\ runs \in 0..scene.runs /\ checks \in Nat
    /\ idx \in Listing(Reached) \cup {NoIndex}
    /\ io \in [Writers -> Request(Reached)]
    /\ job \in [Writers -> Job(Reached)]
    /\ man \in [Ids -> Int \cup {NoManifest}]
    /\ data \subseteq 1..runs /\ Manifests \subseteq 1..Reached
    /\ confirmed \subseteq 1..Reached /\ pruned \subseteq 0..Reached

(* What may speak of the first n runs may speak of the first m, n <= m.    *)
LEMMA TypesGrow ==
    ASSUME NEW n \in Int, NEW m \in Int, n <= m
    PROVE  /\ Entry(n) \subseteq Entry(m) /\ Listing(n) \subseteq Listing(m)
           /\ Removal(n) \subseteq Removal(m) /\ Op(n) \subseteq Op(m)
           /\ Request(n) \subseteq Request(m) /\ Job(n) \subseteq Job(m)
<1>1. 0..n \subseteq 0..m
  OBVIOUS
<1>2. Entry(n) \subseteq Entry(m)
  BY <1>1 DEF Entry
<1>3. Listing(n) \subseteq Listing(m)
  BY <1>2 DEF Listing
<1>4. Removal(n) \subseteq Removal(m)
  BY <1>1 DEF Removal
<1>5. Op(n) \subseteq Op(m)
  BY <1>1, <1>2, <1>3, <1>4 DEF Op
<1>6. Request(n) \subseteq Request(m)
  BY <1>3, <1>5 DEF Request
<1>7. Job(n) \subseteq Job(m)
  BY <1>1, <1>5 DEF Job
<1> QED BY <1>2, <1>3, <1>4, <1>5, <1>6, <1>7, Zenon

(* The operations a process builds are operations on the runs it knows.    *)
LEMMA OpTypes ==
    ASSUME NEW n \in Int
    PROVE  /\ NoOp \in Op(n)
           /\ \A id \in 0..n, ver \in Int : NewEntry(id, ver) \in Entry(n)
           /\ \A at \in Nat : 0 <= n => NewFailureEntry(at) \in Entry(n)
           /\ \A e \in Entry(n) : AppendOp(e) \in Op(n)
           /\ \A es \in Listing(n) : ReplaceOp(es) \in Op(n)
           /\ \A gone \in SUBSET (0..n), t \in Nat : RemoveOp(gone, t) \in Removal(n)
           /\ \A id \in 0..n, ver \in Int : VerifyOp(id, ver) \in Op(n)
           /\ Removal(n) \subseteq Op(n)
           /\ \A op \in Op(n) : op.kind = "remove" => op \in Removal(n)
<1>1. NoOp \in Op(n)
  BY DEF NoOp, Op
<1>2. \A id \in 0..n, ver \in Int : NewEntry(id, ver) \in Entry(n)
  BY DEF NewEntry, Entry
<1>3. \A at \in Nat : 0 <= n => NewFailureEntry(at) \in Entry(n)
  BY DEF NewFailureEntry, Entry
<1>4. \A e \in Entry(n) : AppendOp(e) \in Op(n)
  BY DEF AppendOp, Op
<1>5. \A es \in Listing(n) : ReplaceOp(es) \in Op(n)
  BY DEF ReplaceOp, Op
<1>6. \A gone \in SUBSET (0..n), t \in Nat : RemoveOp(gone, t) \in Removal(n)
  BY DEF RemoveOp, Removal
<1>7. \A id \in 0..n, ver \in Int : VerifyOp(id, ver) \in Op(n)
  BY DEF VerifyOp, Op
<1>8. Removal(n) \subseteq Op(n)
  BY DEF Op
<1>9. \A op \in Op(n) : op.kind = "remove" => op \in Removal(n)
  BY DEF Op
<1> QED BY <1>1, <1>2, <1>3, <1>4, <1>5, <1>6, <1>7, <1>8, <1>9

(* An entry with an id is one of a stored backup.                          *)
LEMMA EntryFacts ==
    ASSUME NEW n \in Int, NEW e \in Entry(n)
    PROVE  /\ e.id \in 0..n /\ e.at \in Nat /\ e.ok \in BOOLEAN /\ e.ver \in Int
           /\ e.ok => e.id = e.at
           /\ e.id # 0 => e.ok
BY DEF Entry

(* An operation makes a listing of a listing.                              *)
LEMMA UpdatedType ==
    ASSUME WellOrdered, NEW n \in Int, NEW op \in Op(n), op.kind # "none", NEW es \in Listing(n)
    PROVE  Updated(op, es) \in Listing(n)
<1>1. CASE op.kind = "append"
  <2>1. op.entry \in Entry(n)
    BY <1>1 DEF Op, Removal
  <2>2. Append(es, op.entry) \in Listing(n)
    BY <2>1 DEF Listing
  <2> QED BY <1>1, <2>2 DEF Updated
<1>2. CASE op.kind = "remove"
  <2>1. prune(es, op.gone, op.oldestKept) \in Listing(n)
    BY PruneLists DEF Listing
  <2> QED BY <1>2, <2>1 DEF Updated
<1>3. CASE op.kind = "verify"
  <2> DEFINE f == [i \in DOMAIN es |-> IF es[i].id = op.id THEN [es[i] EXCEPT !.ver = op.ver] ELSE es[i]]
  <2>1. op.ver \in Int
    BY <1>3 DEF Op, Removal
  <2>2. ASSUME NEW i \in DOMAIN es PROVE f[i] \in Entry(n)
    <3>1. es[i] \in Entry(n)
      BY DEF Listing
    <3>2. [es[i] EXCEPT !.ver = op.ver] \in Entry(n)
      BY <2>1, <3>1 DEF Entry
    <3> QED BY <3>1, <3>2
  <2>3. Len(es) \in Nat /\ DOMAIN es = 1..Len(es)
    BY DEF Listing
  <2>4. f \in [1..Len(es) -> Entry(n)]
    BY <2>2, <2>3
  <2>5. f \in Listing(n)
    BY <2>3, <2>4 DEF Listing
  <2> QED BY <1>3, <2>5 DEF Updated
<1>4. CASE op.kind = "replace"
  <2>1. op.entries \in Listing(n)
    BY <1>4 DEF Op, Removal
  <2> QED BY <1>4, <2>1 DEF Updated
<1> QED BY <1>1, <1>2, <1>3, <1>4 DEF Op, Removal

(* An operation takes off the list no backup but those a removal names,    *)
(* and puts on the list none but the one it appends (Index.Append, Remove, *)
(* SetVerification).                                                       *)
LEMMA UpdatedLists ==
    ASSUME WellOrdered, NEW n \in Int, NEW op \in Op(n), op.kind \in {"append", "remove", "verify"},
           NEW es \in Listing(n), NEW b, b # 0
    PROVE  /\ Listed(es, b) /\ (op.kind = "remove" => b \notin op.gone) => Listed(Updated(op, es), b)
           /\ Listed(Updated(op, es), b) => Listed(es, b) \/ (op.kind = "append" /\ op.entry.id = b)
<1>0. Len(es) \in Nat /\ DOMAIN es = 1..Len(es) /\ es \in Seq(Entry(n))
  BY DEF Listing
<1>1. CASE op.kind = "append"
  <2>1. Updated(op, es) = Append(es, op.entry)
    BY <1>1 DEF Updated
  <2>2. /\ DOMAIN Append(es, op.entry) = 1..(Len(es) + 1)
        /\ \A i \in 1..Len(es) : Append(es, op.entry)[i] = es[i]
        /\ Append(es, op.entry)[Len(es) + 1] = op.entry
    BY <1>0
  <2> QED BY <1>0, <1>1, <2>1, <2>2 DEF Listed
<1>2. CASE op.kind = "remove"
  <2>1. Updated(op, es) = prune(es, op.gone, op.oldestKept)
    BY <1>2 DEF Updated
  <2>2. \A e \in Entry(n) : e.id = b => e.ok
    BY EntryFacts
  <2> QED BY <1>0, <1>2, <2>1, <2>2, PruneLists
<1>3. CASE op.kind = "verify"
  <2>1. Updated(op, es) = [i \in DOMAIN es |->
          IF es[i].id = op.id THEN [es[i] EXCEPT !.ver = op.ver] ELSE es[i]]
    BY <1>3 DEF Updated
  <2>2. \A i \in DOMAIN es : Updated(op, es)[i].id = es[i].id
    <3>1. \A i \in DOMAIN es : es[i] \in Entry(n)
      BY <1>0
    <3> QED BY <2>1, <3>1 DEF Entry
  <2>3. DOMAIN Updated(op, es) = DOMAIN es
    BY <2>1
  <2> QED BY <1>3, <2>2, <2>3 DEF Listed
<1> QED BY <1>1, <1>2, <1>3

(* What Rebuild makes of the manifests it is given: an entry for each, and *)
(* no other (internal/index, Rebuild).                                     *)
LEMMA RebuildElements ==
    ASSUME WellOrdered, NEW ids
    PROVE  /\ Rebuild(ids) \in Seq({NewEntry(b, man[b]) : b \in Ids})
           /\ \A i \in DOMAIN Rebuild(ids) :
                \E b \in Ids \cap ids : Rebuild(ids)[i] = NewEntry(b, man[b])
           /\ \A b \in Ids \cap ids :
                \E i \in DOMAIN Rebuild(ids) : Rebuild(ids)[i] = NewEntry(b, man[b])
<1> DEFINE E == {NewEntry(b, man[b]) : b \in Ids}
           es == [b \in Ids |-> NewEntry(b, man[b])]
<1>1. MaxRuns \in Nat /\ Ids = 1..MaxRuns
  BY CatalogAssumption DEF Ids
<1>2. es \in [1..MaxRuns -> E]
  BY <1>1
<1>3. es \in Seq(E) /\ DOMAIN es = Ids
  <2> HIDE DEF E
  <2> QED BY <1>1, <1>2
<1>4. \A b \in Ids : es[b] = NewEntry(b, man[b])
  OBVIOUS
<1>5. Rebuild(ids) = Kept(es, ids)
  BY DEF Rebuild
<1> HIDE DEF es, E
<1>6. /\ Kept(es, ids) \in Seq(E)
      /\ \A i \in DOMAIN Kept(es, ids) : \E j \in DOMAIN es : j \in ids /\ Kept(es, ids)[i] = es[j]
      /\ \A j \in DOMAIN es : j \in ids => \E i \in DOMAIN Kept(es, ids) : Kept(es, ids)[i] = es[j]
  BY <1>3, KeptElements DEF Picked
<1>7. Rebuild(ids) \in Seq(E)
  BY <1>5, <1>6
<1>8. \A i \in DOMAIN Rebuild(ids) : \E b \in Ids \cap ids : Rebuild(ids)[i] = NewEntry(b, man[b])
  BY <1>3, <1>4, <1>5, <1>6
<1>9. \A b \in Ids \cap ids : \E i \in DOMAIN Rebuild(ids) : Rebuild(ids)[i] = NewEntry(b, man[b])
  BY <1>3, <1>4, <1>5, <1>6
<1> QED BY <1>7, <1>8, <1>9 DEF E

(* The rebuilt index is a listing, of stored backups only.                 *)
LEMMA RebuildType ==
    ASSUME WellOrdered, NEW n \in Int, man \in [Ids -> Int \cup {NoManifest}],
           NEW ids \in SUBSET Manifests, ids \subseteq 0..n
    PROVE  Rebuild(ids) \in Listing(n) /\ ~LastRunFailed(Rebuild(ids))
<1> DEFINE R == Rebuild(ids)
<1>1. /\ R \in Seq({NewEntry(b, man[b]) : b \in Ids})
      /\ \A i \in DOMAIN R : \E b \in Ids \cap ids : R[i] = NewEntry(b, man[b])
  BY RebuildElements, ZenonT(20)
<1> HIDE DEF R
<1>2. \A b \in Ids \cap ids : man[b] \in Int
  BY DEF Manifests
<1>3. ASSUME NEW i \in DOMAIN R PROVE R[i] \in Entry(n)
  <2>1. PICK b \in Ids \cap ids : R[i] = NewEntry(b, man[b])
    BY <1>1
  <2>2. b \in 0..n /\ man[b] \in Int
    BY <1>2, Zenon
  <2> QED BY <2>1, <2>2, OpTypes
<1>4. R \in Seq(Entry(n))
  <2>1. Len(R) \in Nat /\ R \in [1..Len(R) -> {NewEntry(b, man[b]) : b \in Ids}]
    BY <1>1
  <2>2. R \in [1..Len(R) -> Entry(n)]
    BY <2>1, <1>3
  <2> QED BY <2>1, <2>2
<1>5. \A i \in DOMAIN R : R[i].ok
  BY <1>1 DEF NewEntry
<1>6. ~LastRunFailed(R)
  BY <1>5 DEF LastRunFailed
<1> QED BY <1>4, <1>6 DEF R, Listing

(* The entries a command reads, from the index or from the manifests.      *)
LEMMA EntriesType ==
    ASSUME WellOrdered, NEW n \in Int, man \in [Ids -> Int \cup {NoManifest}], Manifests \subseteq 0..n,
           idx \in Listing(n) \cup {NoIndex}
    PROVE  Entries \in Listing(n)
BY RebuildType DEF Entries

(* The backups among the entries of a listing.                             *)
LEMMA BackupFacts ==
    ASSUME NEW n \in Int, NEW es \in Listing(n), NEW b \in Backups(es)
    PROVE  /\ b.id \in 0..n /\ b.at \in Nat /\ b.id = b.at /\ Listed(es, b.id)
<1>1. PICK i \in DOMAIN es : /\ es[i].ok
                             /\ b = [id |-> es[i].id, at |-> es[i].at, verified |-> Verified(es[i]), line |-> i]
  BY Zenon DEF Backups
<1>2. es[i] \in Entry(n)
  BY DEF Listing
<1> QED BY <1>1, <1>2, EntryFacts, Zenon DEF Listed

(* What a plan removes from the index speaks of listed runs only.          *)
LEMMA RemovalType ==
    ASSUME WellOrdered, NEW n \in Int, NEW es \in Listing(n)
    PROVE  /\ Doomed(Rules, es) \subseteq 0..n
           /\ \A b \in Doomed(Rules, es) : Listed(es, b)
           /\ RemovalOf(es, Doomed(Rules, es)) \in Removal(n)
           /\ RemovalOf(es, Doomed(Rules, es)).gone = Doomed(Rules, es)
<1> DEFINE doomed == Doomed(Rules, es)
<1>1. doomed \subseteq {b.id : b \in Backups(es)}
  BY PlanDooms DEF Doomed
<1>2. doomed \subseteq 0..n /\ \A b \in doomed : Listed(es, b)
  BY <1>1, BackupFacts, Zenon
<1> HIDE DEF doomed
<1> DEFINE kept == {b.at : b \in {c \in Backups(es) : c.id \notin doomed}}
<1>3. OldestKept(es, doomed) = IF kept = {} THEN 0 ELSE CHOOSE t \in kept : \A u \in kept : t <= u
  BY DEF OldestKept
<1>4. kept \in SUBSET Nat
  BY BackupFacts
<1> HIDE DEF kept
<1>5. OldestKept(es, doomed) \in Nat
  <2>1. CASE kept = {}
    BY <1>3, <2>1
  <2>2. CASE kept # {}
    <3>1. \E t \in kept : \A u \in kept : t <= u
      BY <1>4, <2>2 DEF WellOrdered
    <3> QED BY <1>3, <1>4, <2>2, <3>1, Zenon
  <2> QED BY <2>1, <2>2
<1>6. RemovalOf(es, doomed) = RemoveOp(doomed, OldestKept(es, doomed))
  BY DEF RemovalOf
<1>7. RemovalOf(es, doomed) \in Removal(n)
  BY <1>2, <1>5, <1>6, OpTypes
<1>8. RemovalOf(es, doomed).gone = doomed
  BY <1>6 DEF RemoveOp
<1> QED BY <1>2, <1>7, <1>8, Zenon DEF doomed

-----------------------------------------------------------------------------
(* Control: where each process is, and what that says about the rest.      *)

ControlOf(w) ==
    /\ io[w].pc # "idle" => job[w].pc \in Calling
    /\ io[w].pc \in {"head", "get", "put"} => io[w].op.kind \in {"append", "remove", "verify"}
    /\ io[w].pc = "replace" => io[w].op.kind = "replace"
    /\ job[w].pc \in InBackup => w = Daemon /\ job[w].id = runs /\ runs > 0
    /\ job[w].pc \in {"sweep", "delete"} =>
        /\ job[w].plan \in Removal(Reached)
        /\ job[w].plan.gone \subseteq job[w].data \cap job[w].man \cap pruned
        /\ job[w].data \cup job[w].man \subseteq pruned \cup 0..Grace
    /\ job[w].pc \in {"check", "record"} => job[w].id \in 0..Reached
    /\ job[w].pc = "record" => job[w].plan.kind = "verify"
    /\ job[w].pc = "append" => io[w].op.kind = "append" /\ io[w].op.entry.id = runs
    /\ io[w].op.kind = "append" /\ io[w].op.entry.id # 0 => job[w].pc = "append"
    /\ job[w].pc \in {"manifest", "append"} => runs \in data \cup pruned
    /\ job[w].pc = "append" => runs \in Manifests \cup pruned
    /\ job[w].orphans \/ job[w].pc = "sweep" => "orphans" \in scene.use

Control == \A w \in Writers : ControlOf(w)

(* The bounds of the model, as the types give them.                        *)
LEMMA Bounds ==
    ASSUME Types
    PROVE  /\ Daemon \in Writers /\ MaxRuns \in Nat
           /\ runs \in Nat /\ runs <= MaxRuns /\ Reached \in Int /\ Reached <= runs
           /\ runs - 1 <= Reached /\ 1..Reached \subseteq Ids /\ 0..Reached \subseteq 0..MaxRuns
           /\ scene.runs \in Nat /\ scene.runs <= MaxRuns
           /\ Manifests \subseteq 0..Reached
<1>1. Daemon \in Writers /\ MaxRuns \in Nat
  BY CatalogAssumption
<1>2. scene.runs \in 0..MaxRuns /\ runs \in 0..scene.runs
  BY DEF Types, Scenario
<1>3. runs \in Nat /\ runs <= MaxRuns /\ scene.runs \in Nat /\ scene.runs <= MaxRuns
  BY <1>1, <1>2
<1>4. Reached \in Int /\ Reached <= runs /\ runs - 1 <= Reached
  BY <1>3 DEF Reached
<1>5. 1..Reached \subseteq Ids /\ 0..Reached \subseteq 0..MaxRuns
  BY <1>1, <1>3, <1>4 DEF Ids
<1>6. Manifests \subseteq 1..Reached
  BY DEF Types
<1>7. Manifests \subseteq 0..Reached
  BY <1>4, <1>6
<1> QED BY <1>1, <1>3, <1>4, <1>5, <1>7

(* A process that stands still or does anything but start a backup leaves  *)
(* what was reached, or raises it by its own run.                          *)
LEMMA ReachedStep ==
    ASSUME Types, NEW w \in Writers, NEW Y, job' = [job EXCEPT ![w] = Y],
           Y.pc \notin {"stream", "manifest"}, runs' = runs
    PROVE  /\ Reached' \in Int /\ Reached <= Reached' /\ Reached' <= runs
           /\ job[w].pc \notin {"stream", "manifest"} => Reached' = Reached
           /\ w = Daemon => Reached' = runs
<1>1. Daemon \in Writers /\ runs \in Nat
  BY Bounds
<1>2. DOMAIN job = Writers
  BY DEF Types
<1>3. job'[Daemon] = IF w = Daemon THEN Y ELSE job[Daemon]
  BY <1>1, <1>2
<1> QED BY <1>1, <1>3 DEF Reached

(* The types survive a step that only adds what is typed.                  *)
LEMMA TypesFrame ==
    ASSUME Types, Reached' \in Int, Reached <= Reached', scene' = scene, losses' \in Nat,
           faults' \in [failed : Nat, resent : Nat],
           runs' \in 0..scene.runs, runs <= runs', checks' \in Nat,
           idx' \in Listing(Reached') \cup {NoIndex},
           NEW w \in Writers, NEW X \in Request(Reached'), NEW Y \in Job(Reached'),
           io' = [io EXCEPT ![w] = X], job' = [job EXCEPT ![w] = Y],
           man' \in [Ids -> Int \cup {NoManifest}],
           data' \subseteq 1..runs', Manifests' \subseteq 1..Reached',
           confirmed' \subseteq 1..Reached', pruned' \subseteq 0..Reached'
    PROVE  Types'
<1>1. Reached \in Int
  BY Bounds
<1>2. Request(Reached) \subseteq Request(Reached') /\ Job(Reached) \subseteq Job(Reached')
  BY <1>1, TypesGrow
<1>3. io \in [Writers -> Request(Reached)] /\ job \in [Writers -> Job(Reached)] /\ scene \in Scenario
  BY DEF Types
<1>4. io' \in [Writers -> Request(Reached')]
  BY <1>2, <1>3
<1>5. job' \in [Writers -> Job(Reached')]
  BY <1>2, <1>3
<1> QED BY <1>3, <1>4, <1>5, Zenon DEF Types

(* Initially there is nothing.                                             *)
LEMMA TypesInit ==
    ASSUME Init
    PROVE  Types /\ Control
<1>1. Daemon \in Writers /\ MaxRuns \in Nat
  BY CatalogAssumption
<1>2. job[Daemon].pc = "idle" /\ runs = 0
  BY <1>1 DEF Init, Rest
<1>3. Reached = 0
  BY <1>2 DEF Reached
<1>4. scene \in Scenario
  BY ScenarioAssumption DEF Init
<1>5. NoOp \in Op(0) /\ <<>> \in Listing(0)
  <2>1. NoOp \in Op(0)
    BY OpTypes
  <2> QED BY <2>1 DEF Listing
<1>6. Idle \in Request(0)
  BY <1>5, Zenon DEF Idle, Request
<1>7. Rest \in Job(0)
  BY <1>1, <1>5 DEF Rest, Job
<1>8. Manifests = {}
  BY DEF Init, Manifests
<1>9. losses \in Nat /\ faults \in [failed : Nat, resent : Nat] /\ runs \in 0..scene.runs
  BY <1>1, <1>2, <1>4 DEF Init, Scenario
<1>10. io = [v \in Writers |-> Idle] /\ job = [v \in Writers |-> Rest] /\ idx = NoIndex
       /\ data = {} /\ confirmed = {} /\ pruned = {} /\ man = [b \in Ids |-> NoManifest] /\ checks = 0
  BY DEF Init, IndexInit
<1>11. Types
  BY <1>2, <1>3, <1>4, <1>6, <1>7, <1>8, <1>9, <1>10, SMTT(30) DEF Types
<1>12. Control
  BY <1>10, Zenon DEF Control, ControlOf, Idle, Rest, NoOp, InBackup
<1> QED BY <1>11, <1>12

\* The request a process makes when it calls the index.
Called(op) == [Idle EXCEPT !.op = op, !.pc = IF op.kind = "replace" THEN "replace" ELSE "head"]

(* The requests a process begins and ends with.                            *)
LEMMA RequestTypes ==
    ASSUME NEW n \in Int
    PROVE  /\ Idle \in Request(n)
           /\ \A op \in Op(n) : Called(op) \in Request(n)
           /\ 0 <= MaxRuns => Rest \in Job(n)
<1>1. NoOp \in Op(n) /\ <<>> \in Listing(n)
  <2>1. NoOp \in Op(n)
    BY OpTypes
  <2> QED BY <2>1 DEF Listing
<1>2. Idle \in Request(n)
  BY <1>1, Zenon DEF Idle, Request
<1>3. \A op \in Op(n) : Called(op) \in Request(n)
  BY <1>2, Zenon DEF Called, Request
<1>4. 0 <= MaxRuns => Rest \in Job(n)
  BY <1>1, CatalogAssumption DEF Rest, Job
<1> QED BY <1>2, <1>3, <1>4

(* A store request of the index leaves typed contents.                     *)
LEMMA AccessTypes ==
    ASSUME WellOrdered, Types, Control, NEW w \in Writers, Access(w)
    PROVE  /\ \E X \in Request(Reached) : io' = [io EXCEPT ![w] = X]
           /\ idx' \in Listing(Reached) \cup {NoIndex}
           /\ faults' \in [failed : Nat, resent : Nat]
<1> DEFINE n == Reached
<1>1. n \in Int
  BY Bounds
<1>2. io[w] \in Request(n) /\ idx \in Listing(n) \cup {NoIndex} /\ faults \in [failed : Nat, resent : Nat]
  BY DEF Types
<1>3. Fault \/ Resend \/ NoFault => faults' \in [failed : Nat, resent : Nat]
  BY <1>2 DEF Fault, Resend, NoFault
<1>4. ASSUME NEW r \in Returned PROVE [io[w] EXCEPT !.pc = r] \in Request(n)
  BY <1>2 DEF Request, Returned
<1>5. ASSUME NEW r \in Returned, Return(w, r) PROVE \E X \in Request(n) : io' = [io EXCEPT ![w] = X]
  BY <1>4, <1>5, Zenon DEF Return
<1>6. "ok" \in Returned /\ "failed" \in Returned
  BY DEF Returned
<1>7. ASSUME Again(w) PROVE \E X \in Request(n) : io' = [io EXCEPT ![w] = X]
  <2>1. io[w].tries + 1 \in Nat
    BY <1>2 DEF Request
  <2>2. [io[w] EXCEPT !.pc = "head", !.tries = io[w].tries + 1] \in Request(n)
    BY <1>2, <2>1, ZenonT(20) DEF Request
  <2>3. [io[w] EXCEPT !.pc = "failed"] \in Request(n)
    BY <1>4, <1>6
  <2> QED BY <1>7, <2>2, <2>3, Zenon DEF Again
<1>8. CASE LoadHead(w)
  <2>1. [io[w] EXCEPT !.pc = IF idx = NoIndex THEN "put" ELSE "get", !.tag = idx, !.body = <<>>] \in Request(n)
    <3>1. <<>> \in Listing(n)
      BY DEF Listing
    <3> QED BY <1>2, <3>1, ZenonT(20) DEF Request
  <2>2. UNCHANGED idx /\ (Fault \/ NoFault)
    BY <1>8 DEF LoadHead
  <2>3. CASE Return(w, "failed")
    BY <1>2, <1>3, <1>5, <1>6, <2>2, <2>3, Zenon
  <2>4. CASE ~Return(w, "failed")
    <3>1. io' = [io EXCEPT ![w] =
             [io[w] EXCEPT !.pc = IF idx = NoIndex THEN "put" ELSE "get", !.tag = idx, !.body = <<>>]]
      BY <1>8, <2>4 DEF LoadHead
    <3> QED BY <1>2, <1>3, <2>1, <2>2, <3>1, Zenon
  <2> QED BY <2>3, <2>4, Zenon
<1>9. CASE LoadGet(w)
  <2>1. <<>> \in Listing(n)
    BY DEF Listing
  <2>2. [io[w] EXCEPT !.pc = "put", !.tag = NoIndex, !.body = <<>>] \in Request(n)
    BY <1>2, <2>1, Zenon DEF Request
  <2>3. idx # NoIndex => [io[w] EXCEPT !.pc = "put", !.body = idx] \in Request(n)
    BY <1>2, ZenonT(20) DEF Request
  <2>4. UNCHANGED idx /\ (Fault \/ NoFault)
    BY <1>9 DEF LoadGet
  <2>5. CASE Return(w, "failed")
    BY <1>2, <1>3, <1>5, <1>6, <2>4, <2>5
  <2>6. CASE ~Return(w, "failed")
    <3>1. io' = [io EXCEPT ![w] = IF idx = NoIndex
                                  THEN [io[w] EXCEPT !.pc = "put", !.tag = NoIndex, !.body = <<>>]
                                  ELSE [io[w] EXCEPT !.pc = "put", !.body = idx]]
      BY <1>9, <2>6 DEF LoadGet
    <3> QED BY <1>2, <1>3, <2>2, <2>3, <2>4, <3>1, ZenonT(20)
  <2> QED BY <2>5, <2>6
<1>10. CASE PutIfMatch(w)
  <2>1. io[w].op \in Op(n) /\ io[w].body \in Listing(n)
    BY <1>2, Zenon DEF Request
  <2>2. io[w].op.kind # "none"
    BY <1>10, ZenonT(20) DEF PutIfMatch, Control, ControlOf
  <2>3. Updated(io[w].op, io[w].body) \in Listing(n)
    BY <1>1, <2>1, <2>2, UpdatedType, Zenon
  <2>4. idx' = idx \/ idx' = Updated(io[w].op, io[w].body)
    BY <1>10, ZenonT(40) DEF PutIfMatch
  <2>5. Fault \/ Resend \/ NoFault
    BY <1>10, ZenonT(40) DEF PutIfMatch
  <2>6. Return(w, "ok") \/ Return(w, "failed") \/ Again(w)
    BY <1>10, ZenonT(40) DEF PutIfMatch
  <2>7. \E X \in Request(n) : io' = [io EXCEPT ![w] = X]
    BY <1>5, <1>6, <1>7, <2>6, SMTT(30)
  <2> QED BY <1>2, <1>3, <2>3, <2>4, <2>5, <2>7, ZenonT(20)
<1>11. CASE Replace(w)
  <2>1. io[w].op \in Op(n) /\ io[w].op.kind = "replace"
    BY <1>2, <1>11, ZenonT(40) DEF Request, Replace, Control, ControlOf
  <2>2. io[w].op.entries \in Listing(n)
    BY <2>1, Zenon DEF Op, Removal
  <2>3. idx' = idx \/ idx' = io[w].op.entries
    BY <1>11, Zenon DEF Replace
  <2>4. (Fault \/ NoFault) /\ (Return(w, "ok") \/ Return(w, "failed"))
    BY <1>11, Zenon DEF Replace
  <2>5. \E X \in Request(n) : io' = [io EXCEPT ![w] = X]
    BY <1>5, <1>6, <2>4
  <2> QED BY <1>2, <1>3, <2>2, <2>3, <2>4, <2>5, ZenonT(20)
<1> QED BY <1>8, <1>9, <1>10, <1>11, Zenon DEF Access

(* The steps of a backup keep the types.                                   *)
LEMMA TypesBackup ==
    ASSUME Types, Control, StartBackup \/ Stream \/ PutManifest \/ Appended
    PROVE  Types'
<1>0. /\ Daemon \in Writers /\ MaxRuns \in Nat /\ runs \in Nat /\ runs <= MaxRuns
      /\ Reached \in Int /\ Reached <= runs /\ scene.runs \in Nat /\ scene.runs <= MaxRuns
  BY Bounds, SMTT(30)
<1>1. /\ scene \in Scenario /\ losses \in Nat /\ faults \in [failed : Nat, resent : Nat]
      /\ runs \in 0..scene.runs /\ checks \in Nat
      /\ idx \in Listing(Reached) \cup {NoIndex}
      /\ io \in [Writers -> Request(Reached)]
      /\ job \in [Writers -> Job(Reached)]
      /\ man \in [Ids -> Int \cup {NoManifest}]
      /\ data \subseteq 1..runs /\ Manifests \subseteq 1..Reached
      /\ confirmed \subseteq 1..Reached /\ pruned \subseteq 0..Reached
  BY Zenon DEF Types
<1>2. ASSUME NEW m \in Int, Reached <= m
      PROVE  /\ Request(Reached) \subseteq Request(m) /\ Job(Reached) \subseteq Job(m)
             /\ Listing(Reached) \subseteq Listing(m)
             /\ 1..Reached \subseteq 1..m /\ 0..Reached \subseteq 0..m
  BY <1>0, <1>2, TypesGrow
<1>3. io[Daemon] \in Request(Reached) /\ job[Daemon] \in Job(Reached)
  BY <1>0, <1>1, Zenon
<1>4. io = [io EXCEPT ![Daemon] = io[Daemon]]
  BY <1>1, Zenon
<1>5. Rest \in Job(Reached)
  BY <1>0, RequestTypes
<1>6. Fault \/ NoFault => faults' \in [failed : Nat, resent : Nat]
  BY <1>1 DEF Fault, NoFault
<1>7. CASE StartBackup
  <2> DEFINE Y == [Rest EXCEPT !.pc = "stream", !.id = runs + 1]
  <2>1. job[Daemon].pc = "idle" /\ runs < scene.runs /\ runs' = runs + 1 /\ job' = [job EXCEPT ![Daemon] = Y]
        /\ UNCHANGED <<indexVars, scene, data, man, checks, commands, crashes, losses, history>>
    BY <1>7 DEF StartBackup, Free
  <2>2. Reached = runs /\ Reached' = runs
    <3>1. Reached = runs
      BY <2>1 DEF Reached
    <3>2. job'[Daemon].pc = "stream"
      BY <1>0, <1>1, <2>1 DEF Rest
    <3> QED BY <1>0, <2>1, <3>1, <3>2 DEF Reached
  <2>3. Y \in Job(Reached)
    <3>1. runs + 1 \in 0..MaxRuns
      BY <1>0, <2>1
    <3> QED BY <1>5, <3>1, Zenon DEF Job, InBackup
  <2>4. Manifests' = Manifests
    BY <2>1 DEF Manifests
  <2>5. runs' \in 0..scene.runs /\ 1..runs \subseteq 1..runs' /\ runs <= runs'
    BY <1>0, <2>1
  <2>6. UNCHANGED <<idx, io, faults, scene, losses, checks, man, data, confirmed, pruned>>
    BY <2>1 DEF indexVars, history
  <2> HIDE DEF Y
  <2> QED BY <1>0, <1>1, <1>3, <1>4, <2>1, <2>2, <2>3, <2>4, <2>5, <2>6, TypesFrame, ZenonT(30)
<1>8. ASSUME \E X \in Request(runs), Y \in Job(runs) :
               /\ Y.pc \in {"append", "note"}
               /\ io' = [io EXCEPT ![Daemon] = X] /\ job' = [job EXCEPT ![Daemon] = Y],
             data' \in SUBSET (data \cup {job[Daemon].id}),
             job[Daemon].pc \in {"stream", "manifest"}, man' \in [Ids -> Int \cup {NoManifest}],
             Manifests' \subseteq Manifests \cup {job[Daemon].id},
             UNCHANGED <<idx, bounds, history>>, Fault \/ NoFault
      PROVE  Types'
  <2>1. job[Daemon].id = runs /\ runs > 0
    BY <1>0, <1>8, Zenon DEF Control, ControlOf, InBackup
  <2>0. PICK X \in Request(runs), Y \in Job(runs) :
          /\ Y.pc \in {"append", "note"}
          /\ io' = [io EXCEPT ![Daemon] = X] /\ job' = [job EXCEPT ![Daemon] = Y]
    BY <1>8, ZenonT(40)
  <2>2. Reached' = runs
    <3>1. job'[Daemon].pc \notin {"stream", "manifest"} /\ runs' = runs
      BY <1>0, <1>1, <1>8, <2>0, Zenon DEF bounds
    <3> QED BY <3>1, Zenon DEF Reached
  <2>3. UNCHANGED <<idx, scene, runs, losses, checks, confirmed, pruned>>
    BY <1>8, Zenon DEF bounds, history
  <2>4. data' \subseteq 1..runs' /\ Manifests' \subseteq 1..Reached'
    BY <1>0, <1>1, <1>2, <1>8, <2>1, <2>2, <2>3
  <2>5. idx' \in Listing(Reached') \cup {NoIndex} /\ confirmed' \subseteq 1..Reached' /\ pruned' \subseteq 0..Reached'
    BY <1>0, <1>1, <1>2, <2>2, <2>3, SMTT(30)
  <2>6. X \in Request(Reached') /\ Y \in Job(Reached') /\ runs' \in 0..scene.runs /\ runs <= runs' /\ losses' \in Nat /\ checks' \in Nat
    BY <1>0, <1>1, <2>0, <2>2, <2>3, SMTT(30)
  <2>7. Reached' \in Int /\ Reached <= Reached' /\ scene' = scene /\ faults' \in [failed : Nat, resent : Nat]
    BY <1>0, <1>6, <1>8, <2>2, <2>3, SMTT(30)
  <2>8. io' = [io EXCEPT ![Daemon] = X] /\ job' = [job EXCEPT ![Daemon] = Y] /\ man' \in [Ids -> Int \cup {NoManifest}]
    BY <1>8, <2>0, Zenon
  <2> QED BY <1>0, <2>4, <2>5, <2>6, <2>7, <2>8, TypesFrame, ZenonT(20)
<1>9. ASSUME NEW op \in Op(runs), NEW pc \in {"append", "note"}, CallIndex(Daemon, op, pc)
      PROVE  \E X \in Request(runs), Y \in Job(runs) :
               /\ Y.pc \in {"append", "note"}
               /\ io' = [io EXCEPT ![Daemon] = X] /\ job' = [job EXCEPT ![Daemon] = Y]
  <2>1. io' = [io EXCEPT ![Daemon] = Called(op)]
    BY <1>9 DEF CallIndex, Call, Called
  <2>2. job' = [job EXCEPT ![Daemon] = [job[Daemon] EXCEPT !.pc = pc]]
    BY <1>9 DEF CallIndex, Do
  <2>3. Called(op) \in Request(runs)
    BY <1>0, RequestTypes
  <2>4. job[Daemon] \in Job(runs)
    BY <1>0, <1>2, <1>3
  <2>5. [job[Daemon] EXCEPT !.pc = pc] \in Job(runs) /\ [job[Daemon] EXCEPT !.pc = pc].pc = pc
    BY <2>4 DEF Job, Calling
  <2> QED BY <2>1, <2>2, <2>3, <2>5, Zenon
<1>10. ASSUME job[Daemon].pc \in {"stream", "manifest"}
       PROVE  /\ AppendOp(NewFailureEntry(job[Daemon].id)) \in Op(runs)
              /\ AppendOp(NewEntry(job[Daemon].id, 0)) \in Op(runs)
              /\ job[Daemon].id = runs /\ runs > 0
  <2>1. job[Daemon].id = runs /\ runs > 0
    BY <1>0, <1>10, Zenon DEF Control, ControlOf, InBackup
  <2>2. runs \in 0..runs /\ runs \in Int /\ 0 <= runs
    BY <1>0, SMTT(30)
  <2> QED BY <1>0, <2>1, <2>2, OpTypes, SMTT(30)
<1>11. CASE Stream
  <2>1. job[Daemon].pc = "stream" /\ UNCHANGED <<idx, faults, man, bounds, history>>
    BY <1>11, ZenonT(20) DEF Stream
  <2>2. CASE RecordFailure(job[Daemon].id) /\ data' \in {data, data \cup {job[Daemon].id}}
    <3>1. \E X \in Request(runs), Y \in Job(runs) :
               /\ Y.pc \in {"append", "note"}
               /\ io' = [io EXCEPT ![Daemon] = X] /\ job' = [job EXCEPT ![Daemon] = Y]
      BY <1>9, <1>10, <2>1, <2>2, Zenon DEF RecordFailure
    <3>2. Manifests' = Manifests /\ NoFault
      BY <2>1, Zenon DEF Manifests, NoFault
    <3>3. data' \in SUBSET (data \cup {job[Daemon].id}) /\ man' \in [Ids -> Int \cup {NoManifest}]
      BY <1>1, <2>1, <2>2, Zenon
    <3>4. UNCHANGED <<idx, bounds, history>> /\ job[Daemon].pc \in {"stream", "manifest"}
          /\ Manifests' \subseteq Manifests \cup {job[Daemon].id} /\ (Fault \/ NoFault)
      BY <2>1, <3>2, Zenon
    <3> QED BY <1>8, <3>1, <3>3, <3>4, ZenonT(20)
  <2>3. CASE data' = data \cup {job[Daemon].id} /\ Do(Daemon, "manifest") /\ UNCHANGED io
    <3> DEFINE Y == [job[Daemon] EXCEPT !.pc = "manifest"]
    <3>1. job' = [job EXCEPT ![Daemon] = Y]
      BY <2>3 DEF Do
    <3>2. Y \in Job(Reached) /\ Y.pc = "manifest"
      BY <1>3 DEF Job, InBackup
    <3>3. UNCHANGED <<scene, runs, losses, checks, confirmed, pruned, man>>
      BY <2>1, Zenon DEF bounds, history
    <3> HIDE DEF Y
    <3>4. Reached' = Reached
      <4>1. job'[Daemon].pc = "manifest"
        BY <1>0, <1>1, <3>1, <3>2, Zenon
      <4> QED BY <2>1, <3>3, <4>1, Zenon DEF Reached
    <3>5. Manifests' = Manifests
      BY <3>3 DEF Manifests
    <3>6. job[Daemon].id = runs /\ runs > 0
      BY <1>10, <2>1, Zenon
    <3>7. data' \subseteq 1..runs'
      BY <1>0, <1>1, <2>3, <3>3, <3>6
    <3>8. /\ Reached' \in Int /\ Reached <= Reached' /\ scene' = scene /\ losses' \in Nat
          /\ faults' \in [failed : Nat, resent : Nat] /\ runs' \in 0..scene.runs /\ runs <= runs' /\ checks' \in Nat
          /\ idx' \in Listing(Reached') \cup {NoIndex} /\ io[Daemon] \in Request(Reached') /\ Y \in Job(Reached')
          /\ io' = [io EXCEPT ![Daemon] = io[Daemon]] /\ man' \in [Ids -> Int \cup {NoManifest}]
          /\ Manifests' \subseteq 1..Reached' /\ confirmed' \subseteq 1..Reached' /\ pruned' \subseteq 0..Reached'
      BY <1>0, <1>1, <1>3, <1>4, <2>1, <2>3, <3>2, <3>3, <3>4, <3>5, SMTT(30)
    <3> QED BY <1>0, <3>1, <3>7, <3>8, TypesFrame, ZenonT(20)
  <2> QED BY <1>11, <2>2, <2>3, Zenon DEF Stream
<1>12. CASE PutManifest
  <2> DEFINE id == job[Daemon].id
  <2>1. job[Daemon].pc = "manifest" /\ UNCHANGED <<idx, data, bounds, history>>
    BY <1>12, Zenon DEF PutManifest
  <2>2. /\ Fault \/ NoFault
        /\ man' \in {man, [man EXCEPT ![id] = 0]}
        /\ CallIndex(Daemon, AppendOp(NewEntry(id, 0)), "append") \/ RecordFailure(id)
    BY <1>12, Zenon DEF PutManifest
  <2>3. \E X \in Request(runs), Y \in Job(runs) :
               /\ Y.pc \in {"append", "note"}
               /\ io' = [io EXCEPT ![Daemon] = X] /\ job' = [job EXCEPT ![Daemon] = Y]
    BY <1>9, <1>10, <2>1, <2>2, Zenon DEF RecordFailure
  <2>4. man' \in [Ids -> Int \cup {NoManifest}] /\ Manifests' \subseteq Manifests \cup {id}
    BY <1>1, <2>2 DEF Manifests
  <2>5. data' \in SUBSET (data \cup {id})
    BY <2>1, Zenon
  <2>6. UNCHANGED <<idx, bounds, history>> /\ job[Daemon].pc \in {"stream", "manifest"}
    BY <2>1, Zenon
  <2> QED BY <1>8, <2>2, <2>3, <2>4, <2>5, <2>6, ZenonT(20)
<1>13. CASE Appended
  <2>1. /\ job[Daemon].pc = "append" /\ io' = [io EXCEPT ![Daemon] = Idle]
        /\ confirmed' \subseteq confirmed \cup {job[Daemon].id}
        /\ job' = [job EXCEPT ![Daemon] = Rest] \/ job' = [job EXCEPT ![Daemon] = [job[Daemon] EXCEPT !.pc = "plan"]]
        /\ UNCHANGED <<idx, faults, data, man, scene, runs, checks, losses, pruned>>
    BY <1>13, Zenon DEF Appended, Hangup, Do, Done, bounds
  <2>2. job[Daemon].id = runs /\ runs > 0
    BY <1>0, <2>1, Zenon DEF Control, ControlOf, InBackup
  <2>3. Idle \in Request(Reached)
    BY <1>0, RequestTypes, Zenon
  <2>4. PICK Y \in Job(Reached) : job' = [job EXCEPT ![Daemon] = Y] /\ Y.pc \notin {"stream", "manifest"}
    <3>1. [job[Daemon] EXCEPT !.pc = "plan"] \in Job(Reached)
      BY <1>3 DEF Job
    <3>2. [job[Daemon] EXCEPT !.pc = "plan"].pc = "plan" /\ Rest.pc = "idle"
      BY <1>3 DEF Job, Rest
    <3> QED BY <1>5, <2>1, <3>1, <3>2, Zenon
  <2>5. Reached' = Reached /\ Reached = runs
    <3>1. Reached = runs
      BY <2>1 DEF Reached
    <3> QED BY <1>0, <2>1, <2>4, <3>1, ReachedStep, ZenonT(20)
  <2>6. Manifests' = Manifests /\ confirmed' \subseteq 1..Reached'
    BY <1>0, <1>1, <2>1, <2>2, <2>5 DEF Manifests
  <2> QED BY <1>0, <1>1, <2>1, <2>3, <2>4, <2>5, <2>6, TypesFrame, Zenon
<1> QED BY <1>7, <1>11, <1>12, <1>13

(* The grace period of the sweep ends before a run in progress.            *)
LEMMA GraceIs ==
    ASSUME Types, Control
    PROVE  /\ Grace \in Int /\ Grace <= runs /\ runs - 1 <= Grace /\ Grace <= Reached
           /\ job[Daemon].pc \in InBackup => Grace = runs - 1
           /\ job[Daemon].pc \notin InBackup => Grace = runs
<1>1. Daemon \in Writers /\ runs \in Nat
  BY Bounds, SMTT(30)
<1>2. job[Daemon].pc \in InBackup => job[Daemon].id = runs
  BY <1>1, Zenon DEF Control, ControlOf
<1> QED BY <1>1, <1>2 DEF Grace, Reached, InBackup

(* The same for a step of any process that starts no backup.               *)
LEMMA TypesOther ==
    ASSUME Types, NEW w \in Writers,
           \E X \in Request(Reached), Y \in Job(Reached) :
               /\ Y.pc \notin {"stream", "manifest"}
               /\ io' = [io EXCEPT ![w] = X] /\ job' = [job EXCEPT ![w] = Y],
           UNCHANGED <<scene, runs, confirmed>>, losses' \in Nat, checks' \in Nat,
           faults' \in [failed : Nat, resent : Nat], idx' \in Listing(Reached) \cup {NoIndex},
           man' \in [Ids -> Int \cup {NoManifest}], data' \subseteq 1..runs,
           Manifests' \subseteq 1..Reached, pruned' \subseteq 0..Reached
    PROVE  Types'
<1>1. PICK X \in Request(Reached), Y \in Job(Reached) :
               /\ Y.pc \notin {"stream", "manifest"}
               /\ io' = [io EXCEPT ![w] = X] /\ job' = [job EXCEPT ![w] = Y]
  BY Zenon
<1>2. Reached \in Int /\ runs \in Nat
  BY Bounds, Zenon
<1>3. Reached' \in Int /\ Reached <= Reached'
  BY <1>1, ReachedStep, ZenonT(20)
<1>4. /\ Request(Reached) \subseteq Request(Reached') /\ Job(Reached) \subseteq Job(Reached')
      /\ Listing(Reached) \subseteq Listing(Reached')
  BY <1>2, <1>3, TypesGrow, Zenon
<1>5. 1..Reached \subseteq 1..Reached' /\ 0..Reached \subseteq 0..Reached'
  BY <1>2, <1>3
<1>6. /\ X \in Request(Reached') /\ Y \in Job(Reached')
      /\ idx' \in Listing(Reached') \cup {NoIndex} /\ Manifests' \subseteq 1..Reached'
      /\ pruned' \subseteq 0..Reached'
  BY <1>4, <1>5, Zenon
<1>7. confirmed' \subseteq 1..Reached' /\ runs' \in 0..scene.runs /\ runs <= runs' /\ data' \subseteq 1..runs'
      /\ scene' = scene
  BY <1>2, <1>5 DEF Types
<1> QED BY <1>1, <1>3, <1>6, <1>7, TypesFrame, Zenon

(* Every other step keeps the types.                                       *)
LEMMA TypesWriter ==
    ASSUME WellOrdered, Types, Control, NEW w \in Writers,
           \/ StartPrune(w) \/ PlanPrune(w) \/ Sweep(w) \/ ApplyPrune(w)
           \/ StartVerify(w) \/ Check(w) \/ Record(w)
           \/ StartReindex(w) \/ Fetch(w)
           \/ UseIndex(w) \/ Finish(w) \/ Crash(w)
    PROVE  Types'
<1>0. /\ Daemon \in Writers /\ MaxRuns \in Nat /\ runs \in Nat /\ runs <= MaxRuns
      /\ Reached \in Int /\ Reached <= runs /\ runs - 1 <= Reached
      /\ 0..Reached \subseteq 0..MaxRuns /\ Manifests \subseteq 0..Reached /\ 1..Reached \subseteq Ids
  BY Bounds, Zenon
<1>1. /\ scene \in Scenario /\ losses \in Nat /\ faults \in [failed : Nat, resent : Nat]
      /\ runs \in 0..scene.runs /\ checks \in Nat
      /\ idx \in Listing(Reached) \cup {NoIndex}
      /\ io \in [Writers -> Request(Reached)]
      /\ job \in [Writers -> Job(Reached)]
      /\ man \in [Ids -> Int \cup {NoManifest}]
      /\ data \subseteq 1..runs /\ Manifests \subseteq 1..Reached
      /\ confirmed \subseteq 1..Reached /\ pruned \subseteq 0..Reached
  BY Zenon DEF Types
<1>2. io[w] \in Request(Reached) /\ job[w] \in Job(Reached)
  BY <1>1, Zenon
<1>3. io = [io EXCEPT ![w] = io[w]] /\ job = [job EXCEPT ![w] = job[w]]
  BY <1>1, Zenon
<1>4. Rest \in Job(Reached) /\ Idle \in Request(Reached) /\ Rest.pc = "idle"
  <2>1. Rest \in Job(Reached) /\ Idle \in Request(Reached)
    BY <1>0, RequestTypes
  <2> QED BY <2>1, Zenon DEF Rest
<1>5. Fault \/ NoFault => faults' \in [failed : Nat, resent : Nat]
  BY <1>1 DEF Fault, NoFault
<1>6. man' = man => Manifests' = Manifests
  BY Zenon DEF Manifests
<1>7. Entries \in Listing(Reached)
  BY <1>0, <1>1, EntriesType, Zenon
\* A step of a process's own, which leaves the index and the bucket alone.
<1>8. ASSUME NEW Y \in Job(Reached), Y.pc \notin {"stream", "manifest"}, job' = [job EXCEPT ![w] = Y],
             UNCHANGED <<idx, io, faults, scene, runs, losses, data, man, confirmed>>,
             checks' \in Nat, pruned' \subseteq 0..Reached
      PROVE  Types'
  <2>1. /\ UNCHANGED <<scene, runs, confirmed>> /\ losses' \in Nat
        /\ faults' \in [failed : Nat, resent : Nat] /\ idx' \in Listing(Reached) \cup {NoIndex}
        /\ man' \in [Ids -> Int \cup {NoManifest}] /\ data' \subseteq 1..runs
        /\ Manifests' \subseteq 1..Reached
    BY <1>1, <1>6, <1>8, ZenonT(20)
  <2>2. io' = [io EXCEPT ![w] = io[w]]
    BY <1>3, <1>8, Zenon
  <2>3. \E X \in Request(Reached), Z \in Job(Reached) :
               /\ Z.pc \notin {"stream", "manifest"}
               /\ io' = [io EXCEPT ![w] = X] /\ job' = [job EXCEPT ![w] = Z]
    BY <1>2, <1>8, <2>2, Zenon
  <2> QED BY <1>8, <2>1, <2>3, TypesOther, Zenon
\* A step of a process that calls the index, or hangs up and is done.
<1>9. ASSUME NEW X \in Request(Reached), NEW Y \in Job(Reached), Y.pc \notin {"stream", "manifest"},
             io' = [io EXCEPT ![w] = X], job' = [job EXCEPT ![w] = Y],
             UNCHANGED <<idx, scene, runs, losses, checks, confirmed, pruned>>,
             Fault \/ NoFault, man' \in [Ids -> Int \cup {NoManifest}],
             Manifests' \subseteq 1..Reached, data' \subseteq data
      PROVE  Types'
  <2>1. /\ UNCHANGED <<scene, runs, confirmed>> /\ losses' \in Nat /\ checks' \in Nat
        /\ faults' \in [failed : Nat, resent : Nat] /\ idx' \in Listing(Reached) \cup {NoIndex}
        /\ data' \subseteq 1..runs /\ pruned' \subseteq 0..Reached
    BY <1>1, <1>5, <1>9, Zenon
  <2>2. \E U \in Request(Reached), Z \in Job(Reached) :
               /\ Z.pc \notin {"stream", "manifest"}
               /\ io' = [io EXCEPT ![w] = U] /\ job' = [job EXCEPT ![w] = Z]
    BY <1>9, ZenonT(20)
  <2> QED BY <1>9, <2>1, <2>2, TypesOther, ZenonT(20)
<1>10. ASSUME NEW op \in Op(Reached), NEW pc \in Calling, CallIndex(w, op, pc)
       PROVE  /\ Called(op) \in Request(Reached) /\ [job[w] EXCEPT !.pc = pc] \in Job(Reached)
              /\ [job[w] EXCEPT !.pc = pc].pc = pc /\ pc \notin {"stream", "manifest"}
              /\ io' = [io EXCEPT ![w] = Called(op)] /\ job' = [job EXCEPT ![w] = [job[w] EXCEPT !.pc = pc]]
  <2>1. io' = [io EXCEPT ![w] = Called(op)]
    BY <1>10 DEF CallIndex, Call, Called
  <2>2. job' = [job EXCEPT ![w] = [job[w] EXCEPT !.pc = pc]]
    BY <1>10 DEF CallIndex, Do
  <2>3. Called(op) \in Request(Reached)
    BY <1>0, RequestTypes, Zenon
  <2>4. [job[w] EXCEPT !.pc = pc] \in Job(Reached) /\ [job[w] EXCEPT !.pc = pc].pc = pc
    BY <1>2, Zenon DEF Job, Calling
  <2> QED BY <2>1, <2>2, <2>3, <2>4 DEF Calling
<1>11. CASE StartPrune(w)
  <2>1. PICK o \in BOOLEAN : job' = [job EXCEPT ![w] = [Rest EXCEPT !.pc = "plan", !.orphans = o]]
    BY <1>11, Zenon DEF StartPrune
  <2>2. [Rest EXCEPT !.pc = "plan", !.orphans = o] \in Job(Reached)
        /\ [Rest EXCEPT !.pc = "plan", !.orphans = o].pc = "plan"
    BY <1>4, ZenonT(40) DEF Job
  <2>3. UNCHANGED <<idx, io, faults, scene, runs, losses, data, man, confirmed, checks, pruned>>
    BY <1>11, Zenon DEF StartPrune, indexVars, history
  <2> QED BY <1>1, <1>8, <2>1, <2>2, <2>3, ZenonT(20)
<1>12. CASE PlanPrune(w)
  <2> DEFINE doomed == Doomed(Rules, Entries)
             removal == RemovalOf(Entries, doomed)
             planned == [Rest EXCEPT !.pc = "delete", !.plan = removal, !.data = doomed, !.man = doomed]
  <2>1. doomed \subseteq 0..Reached /\ removal \in Removal(Reached)
    BY <1>0, <1>7, RemovalType, ZenonT(40)
  <2>2. removal \in Op(Reached)
    BY <1>0, <2>1, OpTypes, Zenon
  <2>3. /\ job' = [job EXCEPT ![w] = IF job[w].orphans THEN [planned EXCEPT !.pc = "sweep"]
                                     ELSE IF doomed = {} THEN Rest ELSE planned]
        /\ pruned' = pruned \cup doomed
        /\ UNCHANGED <<idx, io, faults, scene, runs, losses, data, man, confirmed, checks>>
    BY <1>12, Zenon DEF PlanPrune, indexVars, bounds
  <2> HIDE DEF doomed, removal
  <2>4. planned \in Job(Reached) /\ planned.pc = "delete"
    BY <1>4, <2>1, <2>2, Zenon DEF Job
  <2>5. [planned EXCEPT !.pc = "sweep"] \in Job(Reached) /\ [planned EXCEPT !.pc = "sweep"].pc = "sweep"
    BY <2>4, Zenon DEF Job
  <2> HIDE DEF planned
  <2> DEFINE Y == IF job[w].orphans THEN [planned EXCEPT !.pc = "sweep"]
                                     ELSE IF doomed = {} THEN Rest ELSE planned
  <2>6. Y \in Job(Reached) /\ Y.pc \notin {"stream", "manifest"}
    BY <1>4, <2>4, <2>5
  <2> HIDE DEF Y
  <2>7. job' = [job EXCEPT ![w] = Y]
    BY <2>3 DEF Y
  <2>8. checks' \in Nat /\ pruned' \subseteq 0..Reached
    BY <1>1, <2>1, <2>3, Zenon
  <2> QED BY <1>8, <2>3, <2>6, <2>7, <2>8, Zenon
<1>13. CASE Sweep(w)
  <2>1. PICK last \in 0..Grace :
          LET strays == {b \in 1..last : ~Listed(Entries, b)}
              d == job[w].data \cup (strays \cap data)
              m == job[w].man \cup (strays \cap Manifests)
          IN job' = [job EXCEPT ![w] = IF d \cup m = {} THEN Rest
                                       ELSE [job[w] EXCEPT !.pc = "delete", !.data = d, !.man = m]]
    BY <1>13, Zenon DEF Sweep
  <2> DEFINE strays == {b \in 1..last : ~Listed(Entries, b)}
             d == job[w].data \cup (strays \cap data)
             m == job[w].man \cup (strays \cap Manifests)
  <2>2. strays \subseteq 0..Reached
    <3>1. Grace \in Int /\ Grace <= Reached
      BY GraceIs, Zenon
    <3> QED BY <1>0, <3>1, SMTT(30)
  <2>3. d \subseteq 0..Reached /\ m \subseteq 0..Reached
    BY <1>2, <2>2, Zenon DEF Job
  <2>4. job' = [job EXCEPT ![w] = IF d \cup m = {} THEN Rest
                                  ELSE [job[w] EXCEPT !.pc = "delete", !.data = d, !.man = m]]
    BY <2>1
  <2>5. UNCHANGED <<idx, io, faults, scene, runs, losses, data, man, confirmed, checks, pruned>>
    BY <1>13, Zenon DEF Sweep, indexVars, bounds, history
  <2> HIDE DEF d, m
  <2>6. [job[w] EXCEPT !.pc = "delete", !.data = d, !.man = m] \in Job(Reached)
        /\ [job[w] EXCEPT !.pc = "delete", !.data = d, !.man = m].pc = "delete"
    BY <1>2, <2>3, ZenonT(40) DEF Job
  <2> DEFINE Y == IF d \cup m = {} THEN Rest ELSE [job[w] EXCEPT !.pc = "delete", !.data = d, !.man = m]
  <2>7. Y \in Job(Reached) /\ Y.pc \notin {"stream", "manifest"}
    BY <1>4, <2>6, Zenon
  <2>8. job' = [job EXCEPT ![w] = Y] /\ checks' \in Nat /\ pruned' \subseteq 0..Reached
    BY <1>1, <2>4, <2>5, Zenon
  <2> HIDE DEF Y
  <2> QED BY <1>8, <2>5, <2>7, <2>8, ZenonT(20)
<1>14. CASE ApplyPrune(w)
  <2>1. PICK d \in SUBSET job[w].data, m \in SUBSET job[w].man :
          /\ data' = data \ d
          /\ man' = [b \in Ids |-> IF b \in m THEN NoManifest ELSE man[b]]
          /\ \/ NoFault /\ CallIndex(w, job[w].plan, "remove")
             \/ Fault /\ Done(w) /\ UNCHANGED io
    BY <1>14, ZenonT(20) DEF ApplyPrune
  <2>2. UNCHANGED <<idx, scene, runs, losses, checks, confirmed, pruned>>
    BY <1>14, Zenon DEF ApplyPrune, bounds, history
  <2>3. man' \in [Ids -> Int \cup {NoManifest}] /\ data' \subseteq data /\ Manifests' \subseteq 1..Reached
    BY <1>1, <2>1, ZenonT(20) DEF Manifests
  <2>4. CASE Fault /\ Done(w) /\ UNCHANGED io
    <3>1. io' = [io EXCEPT ![w] = io[w]] /\ job' = [job EXCEPT ![w] = Rest]
      BY <1>3, <2>4, Zenon DEF Done
    <3> QED BY <1>2, <1>4, <1>9, <2>2, <2>3, <2>4, <3>1, Zenon
  <2>5. CASE NoFault /\ CallIndex(w, job[w].plan, "remove")
    <3>1. job[w].plan \in Op(Reached) /\ "remove" \in Calling
      BY <1>2, Zenon DEF Job, Calling
    <3> QED BY <1>9, <1>10, <2>2, <2>3, <2>5, <3>1, ZenonT(20)
  <2> QED BY <2>1, <2>4, <2>5, Zenon
<1>15. CASE StartVerify(w)
  <2>1. PICK e \in Backups(Entries) : job' = [job EXCEPT ![w] = [Rest EXCEPT !.pc = "check", !.id = e.id]]
    BY <1>15, Zenon DEF StartVerify
  <2>2. e.id \in 0..MaxRuns
    BY <1>0, <1>7, BackupFacts, Zenon
  <2>3. [Rest EXCEPT !.pc = "check", !.id = e.id] \in Job(Reached)
        /\ [Rest EXCEPT !.pc = "check", !.id = e.id].pc = "check"
    BY <1>4, <2>2, ZenonT(20) DEF Job
  <2>4. UNCHANGED <<idx, io, faults, scene, runs, losses, data, man, confirmed, checks, pruned>>
    BY <1>15, Zenon DEF StartVerify, indexVars, history
  <2> QED BY <1>1, <1>8, <2>1, <2>3, <2>4, ZenonT(20)
<1>16. CASE Check(w)
  <2>1. UNCHANGED <<idx, io, faults, scene, runs, losses, data, man, confirmed, pruned>>
    BY <1>16, Zenon DEF Check, indexVars, history
  <2>2. CASE Done(w) /\ UNCHANGED checks
    BY <1>1, <1>4, <1>8, <2>1, <2>2, Zenon DEF Done
  <2>3. CASE ~(Done(w) /\ UNCHANGED checks)
    <3>1. PICK outcome \in {-1, 1} :
            /\ checks' = checks + 1
            /\ job' = [job EXCEPT ![w].pc = "record", ![w].plan = VerifyOp(job[w].id, outcome * (checks + 1))]
      BY <1>16, <2>3, Zenon DEF Check
    <3> DEFINE op == VerifyOp(job[w].id, outcome * (checks + 1))
               Y == [job[w] EXCEPT !.pc = "record", !.plan = op]
    <3>2. outcome * (checks + 1) \in Int
      BY <1>1
    <3>3. job[w].id \in 0..Reached
      BY <1>16, Zenon DEF Check, Control, ControlOf
    <3>4. op \in Op(Reached)
      BY <1>0, <3>2, <3>3, OpTypes, ZenonT(20)
    <3>5. job' = [job EXCEPT ![w] = Y]
      BY <1>1, <3>1, Zenon
    <3> HIDE DEF op
    <3>6. Y \in Job(Reached) /\ Y.pc = "record"
      BY <1>2, <3>4, ZenonT(20) DEF Job
    <3>7. checks' \in Nat /\ pruned' \subseteq 0..Reached
      BY <1>1, <2>1, <3>1, SMTT(30)
    <3> HIDE DEF Y
    <3> QED BY <1>8, <2>1, <3>5, <3>6, <3>7, ZenonT(20)
  <2> QED BY <2>2, <2>3, Zenon
<1>17. CASE Record(w)
  <2>1. /\ job[w].pc = "record"
        /\ man' \in {man, [man EXCEPT ![job[w].id] = job[w].plan.ver]}
        /\ \/ NoFault /\ CallIndex(w, job[w].plan, "noted")
           \/ Fault /\ Done(w) /\ UNCHANGED io
        /\ UNCHANGED <<idx, data, scene, runs, losses, checks, confirmed, pruned>>
    BY <1>17, ZenonT(40) DEF Record, bounds, history
  <2>2. job[w].id \in 0..Reached /\ job[w].plan.kind = "verify" /\ job[w].plan \in Op(Reached)
    BY <1>2, <2>1, ZenonT(40) DEF Control, ControlOf, Job
  <2>3. job[w].plan.ver \in Int
    BY <2>2, ZenonT(40) DEF Op, Removal
  <2>4. man' \in [Ids -> Int \cup {NoManifest}] /\ data' \subseteq data
    BY <1>1, <2>1, <2>3, ZenonT(40)
  <2>5. Manifests' \subseteq Manifests \cup (Ids \cap {job[w].id})
    BY <1>1, <2>1, ZenonT(40) DEF Manifests
  <2>6. Manifests' \subseteq 1..Reached
    BY <1>0, <1>1, <2>2, <2>5 DEF Ids
  <2>7. CASE Fault /\ Done(w) /\ UNCHANGED io
    <3>1. io' = [io EXCEPT ![w] = io[w]] /\ job' = [job EXCEPT ![w] = Rest]
      BY <1>3, <2>7, Zenon DEF Done
    <3> QED BY <1>2, <1>4, <1>9, <2>1, <2>4, <2>6, <2>7, <3>1, Zenon
  <2>8. CASE NoFault /\ CallIndex(w, job[w].plan, "noted")
    <3>1. "noted" \in Calling
      BY Zenon DEF Calling
    <3> QED BY <1>9, <1>10, <2>1, <2>2, <2>4, <2>6, <2>8, <3>1, ZenonT(40)
  <2> QED BY <2>1, <2>7, <2>8, ZenonT(40)
<1>18. CASE StartReindex(w)
  <2>1. job' = [job EXCEPT ![w] = [Rest EXCEPT !.pc = "fetch", !.man = Manifests]]
    BY <1>18 DEF StartReindex
  <2>2. [Rest EXCEPT !.pc = "fetch", !.man = Manifests] \in Job(Reached)
        /\ [Rest EXCEPT !.pc = "fetch", !.man = Manifests].pc = "fetch"
    BY <1>0, <1>4, ZenonT(40) DEF Job
  <2>3. UNCHANGED <<idx, io, faults, scene, runs, losses, data, man, confirmed, checks, pruned>>
    BY <1>18 DEF StartReindex, indexVars, history
  <2> QED BY <1>1, <1>8, <2>1, <2>2, <2>3, Zenon
<1>19. CASE Fetch(w)
  <2>1. UNCHANGED <<idx, faults, data, man, scene, runs, losses, checks, confirmed, pruned>>
    BY <1>19, ZenonT(20) DEF Fetch, bounds, history
  <2>2. man' \in [Ids -> Int \cup {NoManifest}] /\ data' \subseteq data /\ Manifests' \subseteq 1..Reached
        /\ (Fault \/ NoFault)
    BY <1>1, <1>6, <2>1, Zenon DEF NoFault
  <2>3. CASE job[w].man \subseteq Manifests
    <3>1. Rebuild(job[w].man) \in Listing(Reached)
      <4>1. job[w].man \subseteq 0..Reached
        BY <1>2, Zenon DEF Job
      <4> QED BY <1>0, <1>1, <2>3, <4>1, RebuildType, Zenon
    <3>2. ReplaceOp(Rebuild(job[w].man)) \in Op(Reached) /\ "replace" \in Calling
      BY <1>0, <3>1, OpTypes, Zenon DEF Calling
    <3>3. CallIndex(w, ReplaceOp(Rebuild(job[w].man)), "replace")
      BY <1>19, <2>3, Zenon DEF Fetch
    <3> QED BY <1>9, <1>10, <2>1, <2>2, <3>2, <3>3, ZenonT(40)
  <2>4. CASE ~(job[w].man \subseteq Manifests)
    <3>1. io' = [io EXCEPT ![w] = io[w]] /\ job' = [job EXCEPT ![w] = Rest]
      BY <1>3, <1>19, <2>4, Zenon DEF Fetch, Done
    <3> QED BY <1>2, <1>4, <1>9, <2>1, <2>2, <3>1, ZenonT(20)
  <2> QED BY <2>3, <2>4, Zenon
<1>20. CASE Finish(w) \/ Crash(w)
  <2>1. io' = [io EXCEPT ![w] = Idle] /\ job' = [job EXCEPT ![w] = Rest]
    BY <1>20, Zenon DEF Finish, Crash, Hangup, Done
  <2>2. UNCHANGED <<idx, faults, scene, data, man, runs, losses, checks, confirmed, pruned>>
    BY <1>20, Zenon DEF Finish, Crash, bounds, history
  <2>3. man' \in [Ids -> Int \cup {NoManifest}] /\ data' \subseteq data /\ Manifests' \subseteq 1..Reached
        /\ (Fault \/ NoFault)
    BY <1>1, <1>6, <2>2, ZenonT(40) DEF NoFault
  <2> QED BY <1>4, <1>9, <2>1, <2>2, <2>3, ZenonT(40)
<1>21. CASE UseIndex(w)
  <2>1. UNCHANGED <<data, man, job, scene, runs, checks, losses, confirmed, pruned>>
    BY <1>21, Zenon DEF UseIndex, bounds, history
  <2>2. /\ \E X \in Request(Reached) : io' = [io EXCEPT ![w] = X]
        /\ idx' \in Listing(Reached) \cup {NoIndex}
        /\ faults' \in [failed : Nat, resent : Nat]
    BY <1>21, AccessTypes, Zenon DEF UseIndex
  <2>3. Reached' = Reached /\ Manifests' = Manifests
    BY <2>1, ZenonT(20) DEF Reached, Manifests
  <2>4. io' \in [Writers -> Request(Reached)]
    BY <1>1, <2>2, Zenon
  <2> QED BY <1>1, <2>1, <2>2, <2>3, <2>4, Zenon DEF Types
<1> QED BY <1>11, <1>12, <1>13, <1>14, <1>15, <1>16, <1>17, <1>18, <1>19, <1>20, <1>21, Zenon

(* Types are kept by every step.                                           *)
LEMMA TypesStep ==
    ASSUME WellOrdered, Types, Control, [Next]_vars
    PROVE  Types'
<1>1. CASE LoseIndex
  <2>1. /\ idx' = NoIndex /\ losses > 0 /\ losses' = losses - 1
        /\ UNCHANGED <<io, faults, scene, data, man, job, runs, checks, confirmed, pruned>>
    BY <1>1, Zenon DEF LoseIndex, history
  <2>2. Reached' = Reached /\ Manifests' = Manifests
    BY <2>1, Zenon DEF Reached, Manifests
  <2> QED BY <2>1, <2>2 DEF Types
<1>2. CASE UNCHANGED vars
  <2>1. UNCHANGED <<idx, io, faults, scene, data, man, job, runs, checks, losses, confirmed, pruned>>
    BY <1>2, Zenon DEF vars, indexVars, history
  <2>2. Reached' = Reached /\ Manifests' = Manifests
    BY <2>1, Zenon DEF Reached, Manifests
  <2> QED BY <2>1, <2>2, Zenon DEF Types
<1> QED BY <1>1, <1>2, TypesBackup, TypesWriter, Zenon DEF Next

(* What a process is doing stays true when another one takes a step.       *)
LEMMA ControlOther ==
    ASSUME Types, NEW v \in Writers, ControlOf(v),
           io'[v] = io[v], job'[v] = job[v], scene' = scene,
           Reached' \in Int, Reached <= Reached', pruned \subseteq pruned', 0..Grace \subseteq 0..Grace',
           job[v].pc \in InBackup => runs' = runs,
           job[v].pc \in {"manifest", "append"} /\ runs \in data => runs \in data' \cup pruned',
           job[v].pc = "append" /\ runs \in Manifests => runs \in Manifests' \cup pruned'
    PROVE  ControlOf(v)'
<1>1. Reached \in Int
  BY Bounds, Zenon
<1>2. Removal(Reached) \subseteq Removal(Reached') /\ 0..Reached \subseteq 0..Reached'
  BY <1>1, TypesGrow
<1>3. "manifest" \in InBackup /\ "append" \in InBackup
  BY Zenon DEF InBackup
<1>4. /\ io'[v].pc # "idle" => job'[v].pc \in Calling
      /\ io'[v].pc \in {"head", "get", "put"} => io'[v].op.kind \in {"append", "remove", "verify"}
      /\ io'[v].pc = "replace" => io'[v].op.kind = "replace"
      /\ job'[v].pc \in InBackup => v = Daemon /\ job'[v].id = runs' /\ runs' > 0
  BY ZenonT(40) DEF ControlOf
<1>5. job'[v].pc \in {"sweep", "delete"} =>
        /\ job'[v].plan \in Removal(Reached')
        /\ job'[v].plan.gone \subseteq job'[v].data \cap job'[v].man \cap pruned'
        /\ job'[v].data \cup job'[v].man \subseteq pruned' \cup 0..Grace'
  BY <1>2, ZenonT(40) DEF ControlOf
<1>6. /\ job'[v].pc \in {"check", "record"} => job'[v].id \in 0..Reached'
      /\ job'[v].pc = "record" => job'[v].plan.kind = "verify"
      /\ job'[v].pc = "append" => io'[v].op.kind = "append" /\ io'[v].op.entry.id = runs'
      /\ io'[v].op.kind = "append" /\ io'[v].op.entry.id # 0 => job'[v].pc = "append"
      /\ job'[v].orphans \/ job'[v].pc = "sweep" => "orphans" \in scene'.use
  BY <1>2, <1>3, ZenonT(40) DEF ControlOf
<1>7. /\ job'[v].pc \in {"manifest", "append"} => runs' \in data' \cup pruned'
      /\ job'[v].pc = "append" => runs' \in Manifests' \cup pruned'
  BY <1>3, Zenon DEF ControlOf
<1> QED BY <1>4, <1>5, <1>6, <1>7, ZenonT(40) DEF ControlOf

(* A step of one process that starts no backup leaves what the others are  *)
(* doing true.                                                             *)
LEMMA OthersKeep ==
    ASSUME Types, Control, NEW w \in Writers, NEW X, NEW Y,
           io' = [io EXCEPT ![w] = X], job' = [job EXCEPT ![w] = Y],
           Y.pc \notin InBackup \/ Y = job[w], scene' = scene, runs' = runs, pruned \subseteq pruned',
           \A b \in data : b \in data' \cup pruned' \cup 0..Grace,
           \A b \in Manifests : b \in Manifests' \cup pruned' \cup 0..Grace
    PROVE  /\ \A v \in Writers \ {w} : ControlOf(v)'
           /\ Reached' \in Int /\ Reached <= Reached' /\ 0..Grace \subseteq 0..Grace'
           /\ io'[w] = X /\ job'[w] = Y
<1>1. Daemon \in Writers /\ runs \in Nat /\ Reached \in Int
  BY Bounds, Zenon
<1>2. DOMAIN job = Writers /\ DOMAIN io = Writers
  BY Zenon DEF Types
<1>3. io'[w] = X /\ job'[w] = Y /\ \A v \in Writers \ {w} : io'[v] = io[v] /\ job'[v] = job[v]
  BY <1>2, Zenon
<1>4. Reached' \in Int /\ Reached <= Reached'
  <2>1. job'[Daemon].pc \in {"stream", "manifest"} => job'[Daemon] = job[Daemon]
    BY <1>1, <1>3, Zenon DEF InBackup
  <2> QED BY <1>1, <2>1 DEF Reached
<1>5. Grace \in Int /\ (job[Daemon].pc \in InBackup => Grace = runs - 1) /\ Grace <= runs
  BY GraceIs, Zenon
<1>6. 0..Grace \subseteq 0..Grace'
  <2>1. job'[Daemon].pc \in InBackup => job'[Daemon] = job[Daemon]
    BY <1>1, <1>3, Zenon
  <2>2. CASE job'[Daemon].pc \in InBackup
    <3>1. Grace' = Grace
      BY <2>1, <2>2 DEF Grace
    <3> QED BY <3>1, Zenon
  <2>3. CASE job'[Daemon].pc \notin InBackup
    <3>1. Grace' = runs
      BY <2>3, Zenon DEF Grace
    <3> QED BY <1>1, <1>5, <3>1
  <2> QED BY <2>2, <2>3, Zenon
<1>7. ASSUME NEW v \in Writers \ {w} PROVE ControlOf(v)'
  <2>1. ControlOf(v)
    BY Zenon DEF Control
  <2>2. job[v].pc \in InBackup => v = Daemon /\ Grace = runs - 1
    BY <1>5, <2>1, ZenonT(20) DEF ControlOf
  <2>3. job[v].pc \in {"manifest", "append"} => runs \notin 0..Grace
    BY <1>1, <2>2 DEF InBackup
  <2>4. job[v].pc \in {"manifest", "append"} /\ runs \in data => runs \in data' \cup pruned'
    BY <2>3, Zenon
  <2>5. job[v].pc = "append" /\ runs \in Manifests => runs \in Manifests' \cup pruned'
    BY <2>3, Zenon
  <2> QED BY <1>3, <1>4, <1>6, <2>1, <2>4, <2>5, ControlOther, Zenon
<1> QED BY <1>3, <1>4, <1>6, <1>7, Zenon

(* A process that is not inside a call has appended nothing.               *)
LEMMA NotCalling ==
    ASSUME Types, Control, NEW w \in Writers, job[w].pc \notin Calling
    PROVE  io[w].pc = "idle" /\ ~(io[w].op.kind = "append" /\ io[w].op.entry.id # 0)
BY Zenon DEF Control, ControlOf, Calling

(* The steps of a backup keep the control invariant.                       *)
LEMMA ControlBackup ==
    ASSUME Types, Control, StartBackup \/ Stream \/ PutManifest \/ Appended
    PROVE  Control'
<1>0. Daemon \in Writers /\ runs \in Nat /\ Reached \in Int /\ Reached <= runs /\ runs - 1 <= Reached
  BY Bounds, Zenon
<1>1. DOMAIN job = Writers /\ DOMAIN io = Writers /\ man \in [Ids -> Int \cup {NoManifest}]
      /\ job[Daemon] \in Job(Reached) /\ io[Daemon] \in Request(Reached)
  BY <1>0, Zenon DEF Types
<1>2. ControlOf(Daemon) /\ \A v \in Writers \ {Daemon} : ControlOf(v) /\ job[v].pc \notin InBackup
  BY <1>0, ZenonT(40) DEF Control, ControlOf
<1>3. "note" \in Calling /\ "append" \in Calling /\ "note" \in InBackup /\ "append" \in InBackup
      /\ "stream" \in InBackup /\ "manifest" \in InBackup
  BY ZenonT(30) DEF Calling, InBackup
\* The other processes, under a step of the daemon that is in a backup after it.
<1>4. ASSUME NEW X, NEW Y, io' = [io EXCEPT ![Daemon] = X], job' = [job EXCEPT ![Daemon] = Y],
             Y.pc \in InBackup, Y.id = runs', scene' = scene, pruned' = pruned,
             runs' \in {runs, runs + 1}, runs' = runs => job[Daemon].pc \in InBackup,
             runs' = runs + 1 => job[Daemon].pc \notin InBackup /\ Y.pc = "stream",
             Y.pc \in {"stream", "manifest"} /\ runs' = runs => job[Daemon].pc \in {"stream", "manifest"}
      PROVE  /\ \A v \in Writers \ {Daemon} : ControlOf(v)'
             /\ io'[Daemon] = X /\ job'[Daemon] = Y
  <2>1. io'[Daemon] = X /\ job'[Daemon] = Y
        /\ \A v \in Writers \ {Daemon} : io'[v] = io[v] /\ job'[v] = job[v]
    BY <1>0, <1>1, <1>4, Zenon
  <2>2. Reached' \in Int /\ Reached <= Reached'
    <3>1. CASE runs' = runs + 1
      <4>1. Reached = runs /\ Reached' = runs
        BY <1>0, <1>3, <1>4, <2>1, <3>1, SMTT(30) DEF Reached
      <4> QED BY <1>0, <4>1, Zenon
    <3>2. CASE runs' = runs
      BY <1>0, <1>4, <2>1, <3>2 DEF Reached
    <3> QED BY <1>4, <3>1, <3>2, Zenon
  <2>3. 0..Grace \subseteq 0..Grace'
    <3>1. Grace' = runs' - 1
      BY <1>4, <2>1, Zenon DEF Grace
    <3>2. Grace = IF job[Daemon].pc \in InBackup THEN runs - 1 ELSE runs
      BY GraceIs, Zenon
    <3>3. CASE runs' = runs
      BY <1>4, <3>1, <3>2, <3>3, Zenon
    <3>4. CASE runs' = runs + 1
      <4>1. Grace = runs /\ Grace' = runs + 1 - 1
        BY <1>4, <3>1, <3>2, <3>4
      <4> QED BY <1>0, <4>1
    <3> QED BY <1>4, <3>3, <3>4, Zenon
  <2>4. ASSUME NEW v \in Writers \ {Daemon} PROVE ControlOf(v)'
    <3>1. ControlOf(v) /\ job[v].pc \notin InBackup
      BY <1>2, Zenon
    <3>2. job[v].pc \notin {"manifest", "append"}
      BY <1>3, <3>1, Zenon
    <3> QED BY <1>4, <2>1, <2>2, <2>3, <3>1, <3>2, ControlOther, Zenon
  <2> QED BY <2>1, <2>4, Zenon
<1>5. ASSUME NEW e, NEW pc \in {"append", "note"}, CallIndex(Daemon, AppendOp(e), pc)
      PROVE  /\ io' = [io EXCEPT ![Daemon] = Called(AppendOp(e))]
             /\ job' = [job EXCEPT ![Daemon] = [job[Daemon] EXCEPT !.pc = pc]]
             /\ Called(AppendOp(e)).pc = "head" /\ Called(AppendOp(e)).op = AppendOp(e)
             /\ AppendOp(e).kind = "append" /\ AppendOp(e).entry = e
             /\ [job[Daemon] EXCEPT !.pc = pc].pc = pc
             /\ [job[Daemon] EXCEPT !.pc = pc].id = job[Daemon].id
             /\ [job[Daemon] EXCEPT !.pc = pc].orphans = job[Daemon].orphans
  <2>1. io' = [io EXCEPT ![Daemon] = Called(AppendOp(e))]
    BY <1>5 DEF CallIndex, Call, Called
  <2>2. job' = [job EXCEPT ![Daemon] = [job[Daemon] EXCEPT !.pc = pc]]
    BY <1>5 DEF CallIndex, Do
  <2>3. AppendOp(e).kind = "append" /\ AppendOp(e).entry = e
    BY Zenon DEF AppendOp
  <2>4. Called(AppendOp(e)).pc = "head" /\ Called(AppendOp(e)).op = AppendOp(e)
    BY <2>3 DEF Called, Idle
  <2>5. /\ [job[Daemon] EXCEPT !.pc = pc].pc = pc
        /\ [job[Daemon] EXCEPT !.pc = pc].id = job[Daemon].id
        /\ [job[Daemon] EXCEPT !.pc = pc].orphans = job[Daemon].orphans
    BY <1>1, Zenon DEF Job
  <2> QED BY <2>1, <2>2, <2>3, <2>4, <2>5
\* A run that goes on to the index.
<1>6. ASSUME NEW e, NEW pc \in {"append", "note"}, CallIndex(Daemon, AppendOp(e), pc),
             job[Daemon].pc \in {"stream", "manifest"}, UNCHANGED <<scene, pruned, runs>>,
             e.id = IF pc = "append" THEN runs ELSE 0,
             pc = "append" => job[Daemon].pc = "manifest" /\ data' = data /\ runs \in Manifests'
      PROVE  Control'
  <2> DEFINE X == Called(AppendOp(e))
             Y == [job[Daemon] EXCEPT !.pc = pc]
  <2>1. /\ io' = [io EXCEPT ![Daemon] = X] /\ job' = [job EXCEPT ![Daemon] = Y]
        /\ X.pc = "head" /\ X.op.kind = "append" /\ X.op.entry = e
        /\ Y.pc = pc /\ Y.id = job[Daemon].id /\ Y.orphans = job[Daemon].orphans
    BY <1>5, <1>6, SMTT(30)
  <2> HIDE DEF X, Y
  <2>2. Y.id = runs /\ runs > 0 /\ job[Daemon].pc \in InBackup /\ Y.pc \in InBackup
        /\ (job[Daemon].orphans => "orphans" \in scene.use)
        /\ (pc = "append" => runs \in data \cup pruned)
    BY <1>2, <1>3, <1>6, <2>1, ZenonT(40) DEF ControlOf
  <2>3. /\ Y.id = runs' /\ scene' = scene /\ pruned' = pruned /\ runs' \in {runs, runs + 1}
        /\ (runs' = runs => job[Daemon].pc \in InBackup) /\ runs' # runs + 1
        /\ (Y.pc \in {"stream", "manifest"} /\ runs' = runs => job[Daemon].pc \in {"stream", "manifest"})
    BY <1>0, <1>6, <2>1, <2>2
  <2>4. (\A v \in Writers \ {Daemon} : ControlOf(v)') /\ io'[Daemon] = X /\ job'[Daemon] = Y
    BY <1>4, <2>1, <2>2, <2>3, ZenonT(40)
  <2>5. ControlOf(Daemon)'
    BY <1>0, <1>3, <1>6, <2>1, <2>2, <2>4, ZenonT(40) DEF ControlOf, Calling, InBackup
  <2> QED BY <2>4, <2>5, Zenon DEF Control
<1>7. CASE StartBackup
  <2> DEFINE Y == [Rest EXCEPT !.pc = "stream", !.id = runs + 1]
  <2>1. /\ job[Daemon].pc = "idle" /\ runs' = runs + 1 /\ job' = [job EXCEPT ![Daemon] = Y]
        /\ UNCHANGED <<io, scene, pruned>>
    BY <1>7, Zenon DEF StartBackup, Free, indexVars, history
  <2>2. io' = [io EXCEPT ![Daemon] = io[Daemon]]
    BY <1>1, <2>1, Zenon DEF Types
  <2>3. Y.pc = "stream" /\ Y.id = runs' /\ Y.orphans = FALSE /\ Y.pc \in InBackup
    BY <1>3, <2>1, Zenon DEF Rest
  <2> HIDE DEF Y
  <2>4. job[Daemon].pc \notin InBackup /\ job[Daemon].pc \notin Calling
    BY <2>1, Zenon DEF InBackup, Calling
  <2>5. (\A v \in Writers \ {Daemon} : ControlOf(v)') /\ io'[Daemon] = io[Daemon] /\ job'[Daemon] = Y
    <3>1. runs' # runs
      BY <1>0, <2>1
    <3> QED BY <1>4, <2>1, <2>2, <2>3, <2>4, <3>1, ZenonT(40)
  <2>6. io[Daemon].pc = "idle" /\ ~(io[Daemon].op.kind = "append" /\ io[Daemon].op.entry.id # 0)
    BY <1>0, <2>4, NotCalling, Zenon
  <2>7. ControlOf(Daemon)'
    <3>1. runs' > 0
      BY <1>0, <2>1
    <3>2. job'[Daemon].pc = "stream" /\ job'[Daemon].id = runs' /\ ~job'[Daemon].orphans
      BY <2>3, <2>5, Zenon
    <3>3. io'[Daemon].pc = "idle" /\ ~(io'[Daemon].op.kind = "append" /\ io'[Daemon].op.entry.id # 0)
      BY <2>5, <2>6, Zenon
    <3> QED BY <3>1, <3>2, <3>3, ZenonT(40) DEF ControlOf
  <2> QED BY <2>5, <2>7, ZenonT(20) DEF Control
<1>8. NewFailureEntry(job[Daemon].id).id = 0 /\ NewEntry(job[Daemon].id, 0).id = job[Daemon].id
  BY Zenon DEF NewFailureEntry, NewEntry
<1>9. CASE Stream
  <2>1. job[Daemon].pc = "stream" /\ UNCHANGED <<scene, pruned, runs>>
    BY <1>9, ZenonT(40) DEF Stream, bounds, history
  <2>2. CASE RecordFailure(job[Daemon].id)
    BY <1>6, <1>8, <2>1, <2>2, Zenon DEF RecordFailure
  <2>3. CASE data' = data \cup {job[Daemon].id} /\ Do(Daemon, "manifest") /\ UNCHANGED io
    <3> DEFINE Y == [job[Daemon] EXCEPT !.pc = "manifest"]
    <3>1. job' = [job EXCEPT ![Daemon] = Y] /\ io' = [io EXCEPT ![Daemon] = io[Daemon]]
      BY <1>1, <2>3 DEF Do, Types
    <3>2. Y.pc = "manifest" /\ Y.id = job[Daemon].id /\ Y.orphans = job[Daemon].orphans
      BY <1>1, SMTT(30) DEF Job
    <3> HIDE DEF Y
    <3>3. Y.id = runs /\ runs > 0 /\ (job[Daemon].orphans => "orphans" \in scene.use)
      BY <1>2, <1>3, <2>1, <3>2, ZenonT(40) DEF ControlOf
    <3>4. (\A v \in Writers \ {Daemon} : ControlOf(v)') /\ io'[Daemon] = io[Daemon] /\ job'[Daemon] = Y
      <4>1. runs' # runs + 1 /\ runs' = runs /\ Y.pc \in InBackup /\ job[Daemon].pc \in InBackup
        BY <1>0, <1>3, <2>1, <3>2
      <4> QED BY <1>4, <2>1, <3>1, <3>2, <3>3, <4>1, ZenonT(20)
    <3>5. io[Daemon].pc = "idle" /\ ~(io[Daemon].op.kind = "append" /\ io[Daemon].op.entry.id # 0)
      <4>1. job[Daemon].pc \notin Calling
        BY <2>1, Zenon DEF Calling
      <4> QED BY <1>0, <4>1, NotCalling, Zenon
    <3>6. ControlOf(Daemon)'
      BY <1>0, <2>1, <2>3, <3>2, <3>3, <3>4, <3>5, ZenonT(40) DEF ControlOf, InBackup
    <3> QED BY <3>4, <3>6, Zenon DEF Control
  <2> QED BY <1>9, <2>2, <2>3, Zenon DEF Stream
<1>10. CASE PutManifest
  <2>1. job[Daemon].pc = "manifest" /\ UNCHANGED <<scene, pruned, runs, data>>
    BY <1>10, Zenon DEF PutManifest, bounds, history
  <2>2. job[Daemon].id = runs /\ runs > 0
    BY <1>2, <1>3, <2>1, ZenonT(40) DEF ControlOf
  <2>3. CASE RecordFailure(job[Daemon].id)
    BY <1>6, <1>8, <2>1, <2>3, ZenonT(40) DEF RecordFailure
  <2>4. CASE man' = [man EXCEPT ![job[Daemon].id] = 0] /\ CallIndex(Daemon, AppendOp(NewEntry(job[Daemon].id, 0)), "append")
    <3>1. runs \in Ids
      BY <1>0, <2>2, Bounds, SMTT(30) DEF Ids
    <3>2. runs \in Manifests'
      <4>1. man'[runs] = 0
        BY <1>1, <2>2, <2>4, <3>1, Zenon
      <4>2. 0 # NoManifest
        BY CatalogAssumption
      <4> QED BY <3>1, <4>1, <4>2, Zenon DEF Manifests, Ids
    <3> QED BY <1>6, <1>8, <2>1, <2>2, <2>4, <3>2, Zenon
  <2> QED BY <1>10, <2>3, <2>4, ZenonT(40) DEF PutManifest
<1>11. CASE Appended
  <2>1. /\ job[Daemon].pc = "append" /\ io' = [io EXCEPT ![Daemon] = Idle]
        /\ job' = [job EXCEPT ![Daemon] = Rest] \/ job' = [job EXCEPT ![Daemon] = [job[Daemon] EXCEPT !.pc = "plan"]]
        /\ UNCHANGED <<data, man, scene, runs, pruned>>
    BY <1>11, Zenon DEF Appended, Hangup, Do, Done, bounds
  <2>2. PICK Y : /\ job' = [job EXCEPT ![Daemon] = Y] /\ Y.pc \in {"plan", "idle"}
                 /\ Y.orphans => job[Daemon].orphans
    <3>1. [job[Daemon] EXCEPT !.pc = "plan"].pc = "plan" /\ Rest.pc = "idle"
          /\ [job[Daemon] EXCEPT !.pc = "plan"].orphans = job[Daemon].orphans /\ Rest.orphans = FALSE
      BY <1>1 DEF Job, Rest
    <3> QED BY <2>1, <3>1, Zenon
  <2>3. Y.pc \notin InBackup /\ Manifests' = Manifests
    BY <2>1, <2>2, Zenon DEF InBackup, Manifests
  <2>4. (\A v \in Writers \ {Daemon} : ControlOf(v)') /\ io'[Daemon] = Idle /\ job'[Daemon] = Y
    BY <1>0, <2>1, <2>2, <2>3, OthersKeep, ZenonT(40)
  <2>5. job[Daemon].orphans => "orphans" \in scene.use
    BY <1>2, Zenon DEF ControlOf
  <2>6. ControlOf(Daemon)'
    BY <1>0, <2>1, <2>2, <2>3, <2>4, <2>5 DEF ControlOf, Idle, NoOp
  <2> QED BY <2>4, <2>6, Zenon DEF Control
<1> QED BY <1>7, <1>9, <1>10, <1>11, Zenon

(* What is left to show of a process that is between calls, of one that    *)
(* enters a call, and of one that is inside a call.                        *)
LEMMA ControlBetween ==
    ASSUME NEW w \in Writers, io'[w].pc = "idle",
           ~(io'[w].op.kind = "append" /\ io'[w].op.entry.id # 0),
           job'[w].pc \in {"idle", "plan", "fetch"}, job'[w].orphans => "orphans" \in scene'.use
    PROVE  ControlOf(w)'
BY ZenonT(40) DEF ControlOf, InBackup

(* A process that has just called the index.                               *)
LEMMA ControlCall ==
    ASSUME NEW w \in Writers, NEW op, io'[w] = Called(op), op.kind \in {"remove", "verify", "replace"},
           job'[w].pc \in {"remove", "noted", "replace"}, job'[w].orphans => "orphans" \in scene'.use
    PROVE  ControlOf(w)'
<1>1. io'[w].op = op /\ io'[w].pc = IF op.kind = "replace" THEN "replace" ELSE "head"
  BY SMTT(30) DEF Called, Idle
<1> QED BY <1>1, Zenon DEF ControlOf, InBackup, Calling

(* A step inside a call: what it does to the call.                         *)
LEMMA AccessShape ==
    ASSUME Types, NEW w \in Writers, Access(w)
    PROVE  \E X : /\ io' = [io EXCEPT ![w] = X] /\ X.op = io[w].op
                  /\ io[w].pc \in {"head", "get", "put", "replace"}
                  /\ X.pc \in {"head", "get", "put"} \cup Returned
                  /\ X.pc \in {"head", "get", "put"} => io[w].pc \in {"head", "get", "put"}
<1>1. io[w] \in Request(Reached)
  BY Zenon DEF Types
<1>2. ASSUME NEW r \in Returned, Return(w, r), io[w].pc \in {"head", "get", "put", "replace"}
      PROVE  \E X : /\ io' = [io EXCEPT ![w] = X] /\ X.op = io[w].op
                    /\ X.pc \in Returned
  <2>1. [io[w] EXCEPT !.pc = r].op = io[w].op /\ [io[w] EXCEPT !.pc = r].pc = r
    BY <1>1 DEF Request
  <2> QED BY <1>2, <2>1, Zenon DEF Return
<1>3. "ok" \in Returned /\ "failed" \in Returned /\ \A r \in Returned : r \notin {"head", "get", "put"}
  BY Zenon DEF Returned
<1>4. ASSUME Again(w)
      PROVE  \E X : /\ io' = [io EXCEPT ![w] = X] /\ X.op = io[w].op
                    /\ X.pc \in {"head"} \cup Returned
  <2>1. /\ [io[w] EXCEPT !.pc = "head", !.tries = io[w].tries + 1].op = io[w].op
        /\ [io[w] EXCEPT !.pc = "head", !.tries = io[w].tries + 1].pc = "head"
        /\ [io[w] EXCEPT !.pc = "failed"].op = io[w].op
        /\ [io[w] EXCEPT !.pc = "failed"].pc = "failed"
    BY <1>1 DEF Request
  <2> QED BY <1>3, <1>4, <2>1, ZenonT(20) DEF Again
<1>5. CASE LoadHead(w)
  <2>1. io[w].pc = "head"
    BY <1>5 DEF LoadHead
  <2>2. CASE Return(w, "failed")
    BY <1>2, <1>3, <2>1, <2>2, Zenon
  <2>3. CASE ~Return(w, "failed")
    <3> DEFINE X == [io[w] EXCEPT !.pc = IF idx = NoIndex THEN "put" ELSE "get", !.tag = idx, !.body = <<>>]
    <3>1. io' = [io EXCEPT ![w] = X]
      BY <1>5, <2>3 DEF LoadHead
    <3>2. X.op = io[w].op /\ X.pc \in {"get", "put"}
      BY <1>1 DEF Request
    <3> QED BY <2>1, <3>1, <3>2, ZenonT(20)
  <2> QED BY <2>2, <2>3, Zenon
<1>6. CASE LoadGet(w)
  <2>1. io[w].pc = "get"
    BY <1>6 DEF LoadGet
  <2>2. CASE Return(w, "failed")
    BY <1>2, <1>3, <2>1, <2>2, Zenon
  <2>3. CASE ~Return(w, "failed")
    <3> DEFINE X == IF idx = NoIndex THEN [io[w] EXCEPT !.pc = "put", !.tag = NoIndex, !.body = <<>>]
                                     ELSE [io[w] EXCEPT !.pc = "put", !.body = idx]
    <3>1. io' = [io EXCEPT ![w] = X]
      BY <1>6, <2>3 DEF LoadGet
    <3>2. X.op = io[w].op /\ X.pc = "put"
      BY <1>1, SMTT(30) DEF Request
    <3> QED BY <2>1, <3>1, <3>2, ZenonT(20)
  <2> QED BY <2>2, <2>3
<1>7. CASE PutIfMatch(w)
  <2>1. io[w].pc = "put" /\ (Return(w, "ok") \/ Return(w, "failed") \/ Again(w))
    BY <1>7, ZenonT(20) DEF PutIfMatch
  <2> QED BY <1>2, <1>3, <1>4, <2>1, Zenon
<1>8. CASE Replace(w)
  <2>1. io[w].pc = "replace" /\ (Return(w, "ok") \/ Return(w, "failed"))
    BY <1>8, Zenon DEF Replace
  <2> QED BY <1>2, <1>3, <2>1, Zenon
<1> QED BY <1>5, <1>6, <1>7, <1>8, Zenon DEF Access

(* A process that calls the index.                                         *)
LEMMA CallShape ==
    ASSUME Types, NEW w \in Writers, NEW op, NEW pc, CallIndex(w, op, pc)
    PROVE  /\ io' = [io EXCEPT ![w] = Called(op)]
           /\ job' = [job EXCEPT ![w] = [job[w] EXCEPT !.pc = pc]]
           /\ [job[w] EXCEPT !.pc = pc].pc = pc /\ [job[w] EXCEPT !.pc = pc].orphans = job[w].orphans
<1>1. io' = [io EXCEPT ![w] = Called(op)]
  BY DEF CallIndex, Call, Called
<1>2. job' = [job EXCEPT ![w] = [job[w] EXCEPT !.pc = pc]]
  BY DEF CallIndex, Do
<1>3. job[w] \in Job(Reached)
  BY Zenon DEF Types
<1>4. [job[w] EXCEPT !.pc = pc].pc = pc /\ [job[w] EXCEPT !.pc = pc].orphans = job[w].orphans
  BY <1>3 DEF Job
<1> QED BY <1>1, <1>2, <1>4

(* Every other step keeps the control invariant.                           *)
LEMMA ControlWriter ==
    ASSUME WellOrdered, Types, Control, NEW w \in Writers,
           \/ StartPrune(w) \/ PlanPrune(w) \/ Sweep(w) \/ ApplyPrune(w)
           \/ StartVerify(w) \/ Check(w) \/ Record(w)
           \/ StartReindex(w) \/ Fetch(w)
           \/ UseIndex(w) \/ Finish(w) \/ Crash(w)
    PROVE  Control'
<1>0. /\ Daemon \in Writers /\ MaxRuns \in Nat /\ runs \in Nat /\ Reached \in Int
      /\ 0..Reached \subseteq 0..MaxRuns /\ Manifests \subseteq 0..Reached
  BY Bounds, Zenon
<1>1. ControlOf(w) /\ io[w] \in Request(Reached) /\ job[w] \in Job(Reached)
      /\ DOMAIN io = Writers /\ DOMAIN job = Writers
  BY Zenon DEF Types, Control
<1>2. io = [io EXCEPT ![w] = io[w]] /\ job = [job EXCEPT ![w] = job[w]]
  BY Zenon DEF Types
<1>3. man' = man => Manifests' = Manifests
  BY DEF Manifests
<1>4. Rest.pc = "idle" /\ Rest.orphans = FALSE /\ Idle.pc = "idle" /\ Idle.op.kind = "none"
  BY Zenon DEF Rest, Idle, NoOp
<1>5. Entries \in Listing(Reached)
  BY <1>0, EntriesType, Zenon DEF Types
\* A step of w keeps the others' part when this holds.
<1>6. ASSUME NEW X, NEW Y, io' = [io EXCEPT ![w] = X], job' = [job EXCEPT ![w] = Y],
             Y.pc \notin InBackup, scene' = scene, runs' = runs, pruned \subseteq pruned',
             \A b \in data : b \in data' \cup pruned' \cup 0..Grace,
             \A b \in Manifests : b \in Manifests' \cup pruned' \cup 0..Grace,
             io'[w] = X /\ job'[w] = Y /\ Reached' \in Int /\ Reached <= Reached'
                 /\ 0..Grace \subseteq 0..Grace' => ControlOf(w)'
      PROVE  Control'
  <2>1. /\ \A v \in Writers \ {w} : ControlOf(v)'
        /\ Reached' \in Int /\ Reached <= Reached' /\ 0..Grace \subseteq 0..Grace'
        /\ io'[w] = X /\ job'[w] = Y
    BY <1>6, OthersKeep, ZenonT(40)
  <2>2. ControlOf(w)'
    BY <1>6, <2>1, Zenon
  <2> QED BY <2>1, <2>2, ZenonT(40) DEF Control
\* The process is done, or has nothing planned yet.
<1>7. ASSUME NEW X, NEW Y, io' = [io EXCEPT ![w] = X], job' = [job EXCEPT ![w] = Y],
             Y.pc \in {"idle", "plan", "fetch"}, Y.orphans => "orphans" \in scene.use,
             X = Idle \/ (X = io[w] /\ job[w].pc \notin Calling),
             scene' = scene, runs' = runs, pruned \subseteq pruned',
             \A b \in data : b \in data' \cup pruned' \cup 0..Grace,
             \A b \in Manifests : b \in Manifests' \cup pruned' \cup 0..Grace
      PROVE  Control'
  <2>1. X.pc = "idle" /\ ~(X.op.kind = "append" /\ X.op.entry.id # 0)
    BY <1>4, <1>7, NotCalling, ZenonT(40)
  <2>2. io'[w] = X /\ job'[w] = Y
    BY <1>1, <1>7, Zenon
  <2>3. ControlOf(w)'
    BY <1>7, <2>1, <2>2, ControlBetween, ZenonT(40)
  <2>4. Y.pc \notin InBackup
    BY <1>7, ZenonT(40) DEF InBackup
  <2> QED BY <1>6, <1>7, <2>3, <2>4, Zenon
\* It calls the index.
<1>8. ASSUME NEW op, NEW pc \in {"remove", "noted", "replace"}, CallIndex(w, op, pc),
             op.kind \in {"remove", "verify", "replace"},
             scene' = scene, runs' = runs, pruned \subseteq pruned',
             \A b \in data : b \in data' \cup pruned' \cup 0..Grace,
             \A b \in Manifests : b \in Manifests' \cup pruned' \cup 0..Grace
      PROVE  Control'
  <2> DEFINE X == Called(op)
             Y == [job[w] EXCEPT !.pc = pc]
  <2>1. io' = [io EXCEPT ![w] = X] /\ job' = [job EXCEPT ![w] = Y] /\ Y.pc = pc /\ Y.orphans = job[w].orphans
    BY <1>8, CallShape
  <2> HIDE DEF Y
  <2>2. io'[w] = Called(op) /\ job'[w] = Y
    BY <1>1, <2>1, Zenon
  <2>3. job[w].orphans => "orphans" \in scene.use
    BY <1>1, ZenonT(40) DEF ControlOf
  <2>4. job'[w].pc \in {"remove", "noted", "replace"} /\ (job'[w].orphans => "orphans" \in scene'.use)
    BY <1>8, <2>1, <2>2, <2>3, ZenonT(40)
  <2>5. ControlOf(w)'
    BY <1>8, <2>2, <2>4, ControlCall, ZenonT(40)
  <2>6. Y.pc \notin InBackup
    BY <1>8, <2>1, Zenon DEF InBackup
  <2> QED BY <1>6, <1>8, <2>1, <2>5, <2>6, ZenonT(40)
<1>10. UNCHANGED <<data, man>> /\ pruned \subseteq pruned' =>
             /\ \A b \in data : b \in data' \cup pruned' \cup 0..Grace
             /\ \A b \in Manifests : b \in Manifests' \cup pruned' \cup 0..Grace
  BY <1>3, ZenonT(20)
<1>11. CASE StartPrune(w)
  <2>1. PICK o \in BOOLEAN : /\ job' = [job EXCEPT ![w] = [Rest EXCEPT !.pc = "plan", !.orphans = o]]
                             /\ o => "orphans" \in scene.use
    BY <1>11, Zenon DEF StartPrune, Command
  <2>2. [Rest EXCEPT !.pc = "plan", !.orphans = o].orphans = o
        /\ [Rest EXCEPT !.pc = "plan", !.orphans = o].pc = "plan"
    BY DEF Rest
  <2>3. UNCHANGED <<io, scene, runs, data, man, pruned>> /\ job[w].pc = "idle"
    BY <1>11, Zenon DEF StartPrune, indexVars, history, Command, Free
  <2>4. job[w].pc \notin Calling /\ io' = [io EXCEPT ![w] = io[w]]
    BY <1>2, <2>3, Zenon DEF Calling
  <2> QED BY <1>7, <1>10, <2>1, <2>2, <2>3, <2>4, Zenon
<1>12. CASE PlanPrune(w)
  <2> DEFINE doomed == Doomed(Rules, Entries)
             removal == RemovalOf(Entries, doomed)
             planned == [Rest EXCEPT !.pc = "delete", !.plan = removal, !.data = doomed, !.man = doomed]
             swept == [planned EXCEPT !.pc = "sweep"]
             Y == IF job[w].orphans THEN swept ELSE IF doomed = {} THEN Rest ELSE planned
  <2>1. doomed \subseteq 0..Reached /\ removal \in Removal(Reached) /\ removal.gone = doomed
    BY <1>0, <1>5, RemovalType, Zenon DEF RemovalOf, RemoveOp
  <2>2. /\ job' = [job EXCEPT ![w] = Y] /\ pruned' = pruned \cup doomed /\ job[w].pc = "plan"
        /\ UNCHANGED <<io, scene, runs, data, man>>
    BY <1>12, Zenon DEF PlanPrune, indexVars, bounds
  <2>3. /\ planned.pc = "delete" /\ planned.plan = removal /\ planned.data = doomed
        /\ planned.man = doomed /\ planned.orphans = FALSE
        /\ swept.pc = "sweep" /\ swept.plan = removal /\ swept.data = doomed
        /\ swept.man = doomed /\ swept.orphans = FALSE
    BY DEF Rest
  <2> HIDE DEF doomed, removal, planned, swept
  <2>4. job[w].pc \notin Calling /\ io' = [io EXCEPT ![w] = io[w]] /\ pruned \subseteq pruned'
    BY <1>2, <2>2, Zenon DEF Calling
  <2>5. CASE ~job[w].orphans /\ doomed = {}
    BY <1>4, <1>7, <1>10, <2>2, <2>4, <2>5, Zenon
  <2>6. CASE ~(~job[w].orphans /\ doomed = {})
    <3>1. /\ Y.pc \in {"sweep", "delete"} /\ Y.plan = removal /\ Y.data = doomed /\ Y.man = doomed
          /\ Y.orphans = FALSE /\ (Y.pc = "sweep" => "orphans" \in scene.use)
      BY <1>1, <2>3, <2>6, Zenon DEF ControlOf
    <3> HIDE DEF Y
    <3>2. Y.pc \notin InBackup
      BY <3>1, ZenonT(20) DEF InBackup
    <3>3. io[w].pc = "idle" /\ ~(io[w].op.kind = "append" /\ io[w].op.entry.id # 0)
      BY <2>4, NotCalling, Zenon
    <3>4. ASSUME io'[w] = io[w], job'[w] = Y, Reached' \in Int, Reached <= Reached', 0..Grace \subseteq 0..Grace'
          PROVE  ControlOf(w)'
      <4>1. removal \in Removal(Reached')
        BY <1>0, <2>1, <3>4, TypesGrow, ZenonT(40)
      <4>2. job'[w].pc \in {"sweep", "delete"} =>
              /\ job'[w].plan \in Removal(Reached')
              /\ job'[w].plan.gone \subseteq job'[w].data \cap job'[w].man \cap pruned'
              /\ job'[w].data \cup job'[w].man \subseteq pruned' \cup 0..Grace'
        BY <2>1, <2>2, <3>1, <3>4, <4>1, Zenon
      <4>3. job'[w].pc \notin Calling /\ job'[w].pc \notin {"check", "record", "append", "manifest"}
        BY <3>1, <3>4, ZenonT(40) DEF Calling
      <4>4. job'[w].orphans \/ job'[w].pc = "sweep" => "orphans" \in scene'.use
        BY <2>2, <3>1, <3>4, Zenon
      <4>5. job'[w].pc \notin InBackup /\ io'[w].pc = "idle" /\ ~(io'[w].op.kind = "append" /\ io'[w].op.entry.id # 0)
        BY <3>2, <3>3, <3>4, ZenonT(20)
      <4> QED BY <4>2, <4>3, <4>4, <4>5, ZenonT(40) DEF ControlOf
    <3> QED BY <1>6, <1>10, <2>2, <2>4, <3>2, <3>4, ZenonT(40)
  <2> QED BY <2>5, <2>6, Zenon
<1>13. CASE Sweep(w)
  <2>1. PICK last \in 0..Grace :
          LET strays == {b \in 1..last : ~Listed(Entries, b)}
              d == job[w].data \cup (strays \cap data)
              m == job[w].man \cup (strays \cap Manifests)
          IN job' = [job EXCEPT ![w] = IF d \cup m = {} THEN Rest
                                       ELSE [job[w] EXCEPT !.pc = "delete", !.data = d, !.man = m]]
    BY <1>13, Zenon DEF Sweep
  <2> DEFINE strays == {b \in 1..last : ~Listed(Entries, b)}
             d == job[w].data \cup (strays \cap data)
             m == job[w].man \cup (strays \cap Manifests)
             Z == [job[w] EXCEPT !.pc = "delete", !.data = d, !.man = m]
             Y == IF d \cup m = {} THEN Rest ELSE Z
  <2>2. strays \subseteq 0..Grace
    <3>1. Grace \in Int
      BY GraceIs, Zenon
    <3> QED BY <3>1
  <2>3. /\ job' = [job EXCEPT ![w] = Y] /\ job[w].pc = "sweep"
        /\ UNCHANGED <<io, scene, runs, data, man, pruned>>
    BY <1>13, <2>1, ZenonT(20) DEF Sweep, indexVars, bounds, history
  <2>4. /\ job[w].plan \in Removal(Reached)
        /\ job[w].plan.gone \subseteq job[w].data \cap job[w].man \cap pruned
        /\ job[w].data \cup job[w].man \subseteq pruned \cup 0..Grace
        /\ "orphans" \in scene.use
    BY <1>1, <2>3, Zenon DEF ControlOf
  <2>5. job[w].plan.gone \subseteq d \cap m \cap pruned /\ d \cup m \subseteq pruned \cup 0..Grace
    BY <2>2, <2>4, Zenon
  <2>6. job[w].pc \notin Calling /\ io' = [io EXCEPT ![w] = io[w]] /\ pruned \subseteq pruned'
    BY <1>2, <2>3, Zenon DEF Calling
  <2> HIDE DEF d, m
  <2>7. Z.pc = "delete" /\ Z.data = d /\ Z.man = m /\ Z.plan = job[w].plan
    BY <1>1 DEF Job
  <2> HIDE DEF Z
  <2>8. CASE d \cup m = {}
    BY <1>4, <1>7, <1>10, <2>3, <2>6, <2>8, Zenon
  <2>9. CASE d \cup m # {}
    <3>1. Y = Z /\ Z.pc \notin InBackup
      BY <2>7, <2>9, Zenon DEF InBackup
    <3> HIDE DEF Y
    <3>2. io[w].pc = "idle" /\ ~(io[w].op.kind = "append" /\ io[w].op.entry.id # 0)
      BY <2>6, NotCalling, Zenon
    <3>3. ASSUME io'[w] = io[w], job'[w] = Z, Reached' \in Int, Reached <= Reached', 0..Grace \subseteq 0..Grace'
          PROVE  ControlOf(w)'
      <4>1. job[w].plan \in Removal(Reached')
        BY <1>0, <2>4, <3>3, TypesGrow, ZenonT(40)
      <4>2. /\ job'[w].plan \in Removal(Reached')
            /\ job'[w].plan.gone \subseteq job'[w].data \cap job'[w].man \cap pruned'
            /\ job'[w].data \cup job'[w].man \subseteq pruned' \cup 0..Grace'
        BY <2>3, <2>5, <2>7, <3>3, <4>1, ZenonT(40)
      <4>3. job'[w].pc = "delete" /\ job'[w].pc \notin InBackup /\ "orphans" \in scene'.use
            /\ io'[w].pc = "idle" /\ ~(io'[w].op.kind = "append" /\ io'[w].op.entry.id # 0)
        BY <2>3, <2>4, <2>7, <3>1, <3>2, <3>3, ZenonT(40)
      <4> QED BY <4>2, <4>3, ZenonT(40) DEF ControlOf
    <3> QED BY <1>6, <1>10, <2>3, <2>6, <3>1, <3>3, ZenonT(40)
  <2> QED BY <2>8, <2>9, Zenon
<1>14. CASE ApplyPrune(w)
  <2>1. PICK d \in SUBSET job[w].data, m \in SUBSET job[w].man :
          /\ data' = data \ d
          /\ man' = [b \in Ids |-> IF b \in m THEN NoManifest ELSE man[b]]
          /\ \/ NoFault /\ CallIndex(w, job[w].plan, "remove")
             \/ Fault /\ Done(w) /\ UNCHANGED io
    BY <1>14, Zenon DEF ApplyPrune
  <2>2. UNCHANGED <<scene, runs, pruned>> /\ job[w].pc = "delete"
    BY <1>14, ZenonT(40) DEF ApplyPrune, bounds, history
  <2>3. /\ job[w].plan \in Removal(Reached) /\ job[w].data \cup job[w].man \subseteq pruned \cup 0..Grace
    BY <1>1, <2>2, ZenonT(40) DEF ControlOf
  <2>4. \A b \in data : b \in data' \cup pruned' \cup 0..Grace
    BY <2>1, <2>2, <2>3, ZenonT(40)
  <2>5. \A b \in Manifests : b \in Manifests' \cup pruned' \cup 0..Grace
    BY <2>1, <2>2, <2>3, ZenonT(40) DEF Manifests
  <2>6. CASE Fault /\ Done(w) /\ UNCHANGED io
    <3>1. io' = [io EXCEPT ![w] = io[w]] /\ job' = [job EXCEPT ![w] = Rest] /\ job[w].pc \notin Calling
      BY <1>2, <2>2, <2>6, Zenon DEF Done, Calling
    <3> QED BY <1>4, <1>7, <2>2, <2>4, <2>5, <3>1, ZenonT(40)
  <2>7. CASE NoFault /\ CallIndex(w, job[w].plan, "remove")
    <3>1. job[w].plan.kind = "remove"
      BY <2>3, ZenonT(20) DEF Removal
    <3> QED BY <1>8, <2>2, <2>4, <2>5, <2>7, <3>1, ZenonT(40)
  <2> QED BY <2>1, <2>6, <2>7, ZenonT(40)
<1> USE DEF Calling
<1>15. CASE StartVerify(w)
  <2>1. PICK e \in Backups(Entries) : job' = [job EXCEPT ![w] = [Rest EXCEPT !.pc = "check", !.id = e.id]]
    BY <1>15, Zenon DEF StartVerify
  <2> DEFINE Y == [Rest EXCEPT !.pc = "check", !.id = e.id]
  <2>2. e.id \in 0..Reached
    BY <1>0, <1>5, BackupFacts, Zenon
  <2>3. Y.pc = "check" /\ Y.id = e.id /\ Y.orphans = FALSE
    BY SMTT(30) DEF Rest
  <2>4. UNCHANGED <<io, scene, runs, data, man, pruned>> /\ job[w].pc = "idle" /\ job' = [job EXCEPT ![w] = Y]
    BY <1>15, <2>1, ZenonT(20) DEF StartVerify, indexVars, history, Command, Free
  <2> HIDE DEF Y
  <2>5. Y.pc \notin InBackup /\ io' = [io EXCEPT ![w] = io[w]]
    BY <1>2, <2>3, <2>4, Zenon DEF InBackup
  <2>6. io[w].pc = "idle" /\ ~(io[w].op.kind = "append" /\ io[w].op.entry.id # 0)
    BY <2>4, NotCalling, Zenon
  <2>7. ASSUME io'[w] = io[w], job'[w] = Y, Reached' \in Int, Reached <= Reached'
        PROVE  ControlOf(w)'
    <3>1. job'[w].id \in 0..Reached'
      BY <1>0, <2>2, <2>3, <2>7
    <3>2. job'[w].pc = "check" /\ job'[w].pc \notin InBackup /\ ~job'[w].orphans
          /\ io'[w].pc = "idle" /\ ~(io'[w].op.kind = "append" /\ io'[w].op.entry.id # 0)
      BY <2>3, <2>5, <2>6, <2>7, Zenon
    <3> QED BY <3>1, <3>2, ZenonT(40) DEF ControlOf
  <2> QED BY <1>6, <1>10, <2>4, <2>5, <2>7, ZenonT(20)
<1>16. CASE Check(w)
  <2>1. UNCHANGED <<io, scene, runs, data, man, pruned>> /\ job[w].pc = "check"
    BY <1>16, Zenon DEF Check, indexVars, history
  <2>2. io' = [io EXCEPT ![w] = io[w]] /\ pruned \subseteq pruned'
    BY <1>2, <2>1, Zenon
  <2>3. CASE Done(w)
    BY <1>4, <1>7, <1>10, <2>1, <2>2, <2>3, Zenon DEF Done
  <2>4. CASE ~Done(w)
    <3>1. PICK v : job' = [job EXCEPT ![w].pc = "record", ![w].plan = VerifyOp(job[w].id, v)]
      BY <1>16, <2>4, Zenon DEF Check
    <3> DEFINE op == VerifyOp(job[w].id, v)
               Y == [job[w] EXCEPT !.pc = "record", !.plan = op]
    <3>2. job' = [job EXCEPT ![w] = Y]
      BY <1>1, <3>1, ZenonT(40) DEF Job
    <3>3. op.kind = "verify"
      BY Zenon DEF VerifyOp
    <3> HIDE DEF op
    <3>4. Y.pc = "record" /\ Y.plan = op /\ Y.id = job[w].id /\ Y.orphans = job[w].orphans
      BY <1>1, Zenon DEF Job
    <3> HIDE DEF Y
    <3>5. job[w].id \in 0..Reached /\ (job[w].orphans => "orphans" \in scene.use)
      BY <1>1, <2>1, ZenonT(40) DEF ControlOf
    <3>6. io[w].pc = "idle" /\ ~(io[w].op.kind = "append" /\ io[w].op.entry.id # 0)
      BY <2>1, NotCalling, Zenon
    <3>7. Y.pc \notin InBackup
      BY <3>4, Zenon DEF InBackup
    <3>8. ASSUME io'[w] = io[w], job'[w] = Y, Reached' \in Int, Reached <= Reached'
          PROVE  ControlOf(w)'
      <4>1. job'[w].id \in 0..Reached' /\ job'[w].plan.kind = "verify"
        <5>1. Reached \in Int
          BY <1>0
        <5>2. job[w].id \in 0..Reached'
          BY <3>5, <3>8, <5>1
        <5> QED BY <3>3, <3>4, <3>8, <5>2, Zenon
      <4>2. job'[w].pc = "record" /\ job'[w].pc \notin InBackup /\ (job'[w].orphans => "orphans" \in scene'.use)
            /\ io'[w].pc = "idle" /\ ~(io'[w].op.kind = "append" /\ io'[w].op.entry.id # 0)
        BY <2>1, <3>4, <3>5, <3>6, <3>7, <3>8, ZenonT(40)
      <4> QED BY <4>1, <4>2, ZenonT(40) DEF ControlOf
    <3> QED BY <1>6, <1>10, <2>1, <2>2, <3>2, <3>7, <3>8, ZenonT(20)
  <2> QED BY <2>3, <2>4, Zenon
<1>17. CASE Record(w)
  <2>1. /\ job[w].pc = "record"
        /\ man' \in {man, [man EXCEPT ![job[w].id] = job[w].plan.ver]}
        /\ \/ NoFault /\ CallIndex(w, job[w].plan, "noted")
           \/ Fault /\ Done(w) /\ UNCHANGED io
        /\ UNCHANGED <<data, scene, runs, pruned>>
    BY <1>17, ZenonT(40) DEF Record, bounds, history
  <2>2. job[w].plan.kind = "verify" /\ job[w].plan \in Op(Reached)
    BY <1>1, <2>1, ZenonT(40) DEF ControlOf, Job
  <2>3. job[w].plan.ver \in Int
    BY <2>2, ZenonT(40) DEF Op, Removal
  <2>4. \A b \in Manifests : b \in Manifests' \cup pruned' \cup 0..Grace
    <3>1. man \in [Ids -> Int \cup {NoManifest}] /\ NoManifest \notin Int
      BY CatalogAssumption, Zenon DEF Types
    <3> QED BY <2>1, <2>3, <3>1, ZenonT(40) DEF Manifests
  <2>5. \A b \in data : b \in data' \cup pruned' \cup 0..Grace
    BY <2>1, ZenonT(40)
  <2>6. CASE Fault /\ Done(w) /\ UNCHANGED io
    <3>1. io' = [io EXCEPT ![w] = io[w]] /\ job' = [job EXCEPT ![w] = Rest]
      BY <1>2, <2>6 DEF Done
    <3>2. job[w].pc \notin Calling
      BY <2>1, Zenon
    <3> QED BY <1>4, <1>7, <2>1, <2>4, <2>5, <3>1, <3>2, ZenonT(40)
  <2>7. CASE NoFault /\ CallIndex(w, job[w].plan, "noted")
    BY <1>8, <2>1, <2>2, <2>4, <2>5, <2>7, ZenonT(40)
  <2> QED BY <2>1, <2>6, <2>7, ZenonT(40)
<1>18. CASE StartReindex(w)
  <2> DEFINE Y == [Rest EXCEPT !.pc = "fetch", !.man = Manifests]
  <2>1. job' = [job EXCEPT ![w] = Y] /\ UNCHANGED <<io, scene, runs, data, man, pruned>> /\ job[w].pc = "idle"
    BY <1>18, Zenon DEF StartReindex, indexVars, history, Command, Free
  <2>2. Y.pc = "fetch" /\ Y.orphans = FALSE
    BY DEF Rest
  <2> HIDE DEF Y
  <2>3. io' = [io EXCEPT ![w] = io[w]] /\ job[w].pc \notin Calling
    BY <1>2, <2>1, Zenon
  <2> QED BY <1>7, <1>10, <2>1, <2>2, <2>3, ZenonT(40)
<1>19. CASE Fetch(w)
  <2>1. UNCHANGED <<data, man, scene, runs, pruned>> /\ job[w].pc = "fetch"
    BY <1>19, ZenonT(40) DEF Fetch, bounds, history
  <2>2. CASE CallIndex(w, ReplaceOp(Rebuild(job[w].man)), "replace")
    <3>1. ReplaceOp(Rebuild(job[w].man)).kind = "replace"
      BY Zenon DEF ReplaceOp
    <3> QED BY <1>8, <1>10, <2>1, <2>2, <3>1, ZenonT(40)
  <2>3. CASE Done(w) /\ UNCHANGED io
    <3>1. io' = [io EXCEPT ![w] = io[w]] /\ job' = [job EXCEPT ![w] = Rest]
      BY <1>2, <2>3, Zenon DEF Done
    <3>2. job[w].pc \notin Calling
      BY <2>1, Zenon
    <3> QED BY <1>4, <1>7, <1>10, <2>1, <3>1, <3>2, ZenonT(40)
  <2> QED BY <1>19, <2>2, <2>3, ZenonT(40) DEF Fetch
<1>20. CASE Finish(w) \/ Crash(w)
  <2>1. io' = [io EXCEPT ![w] = Idle] /\ job' = [job EXCEPT ![w] = Rest]
    BY <1>20 DEF Finish, Crash, Hangup, Done
  <2>2. UNCHANGED <<scene, data, man, runs, pruned>>
    BY <1>20, Zenon DEF Finish, Crash, bounds, history
  <2> QED BY <1>4, <1>7, <1>10, <2>1, <2>2, ZenonT(20)
<1>21. CASE UseIndex(w)
  <2>1. UNCHANGED <<data, man, job, scene, runs, pruned>> /\ Access(w)
    BY <1>21, Zenon DEF UseIndex, bounds, history
  <2>2. PICK X : /\ io' = [io EXCEPT ![w] = X] /\ X.op = io[w].op
                 /\ io[w].pc \in {"head", "get", "put", "replace"}
                 /\ X.pc \in {"head", "get", "put"} \cup Returned
                 /\ X.pc \in {"head", "get", "put"} => io[w].pc \in {"head", "get", "put"}
    BY <2>1, AccessShape, Zenon
  <2>3. Manifests' = Manifests /\ Reached' = Reached /\ Grace' = Grace
    BY <2>1, ZenonT(20) DEF Manifests, Reached, Grace
  <2>4. io'[w] = X /\ \A v \in Writers \ {w} : io'[v] = io[v]
    BY <1>1, <2>2, Zenon
  <2>5. ControlOf(w)'
    <3>1. X.pc # "replace" /\ io[w].pc # "idle"
      BY <2>2, Zenon DEF Returned
    <3> QED BY <1>1, <2>1, <2>2, <2>3, <2>4, <3>1, ZenonT(20) DEF ControlOf
  <2>6. ASSUME NEW v \in Writers \ {w} PROVE ControlOf(v)'
    <3>1. ControlOf(v)
      BY Zenon DEF Control
    <3> QED BY <2>1, <2>3, <2>4, <3>1, ZenonT(40) DEF ControlOf
  <2> QED BY <2>5, <2>6, Zenon DEF Control
<1> QED BY <1>11, <1>12, <1>13, <1>14, <1>15, <1>16, <1>17, <1>18, <1>19, <1>20, <1>21, Zenon

(* Types and control together are an invariant.                            *)
LEMMA ControlStep ==
    ASSUME WellOrdered, Types, Control, [Next]_vars
    PROVE  Types' /\ Control'
<1>1. Types'
  BY TypesStep, Zenon
<1>2. ASSUME UNCHANGED <<io, scene, data, man, job, runs, pruned>> PROVE Control'
  <2>1. Manifests' = Manifests /\ Reached' = Reached /\ Grace' = Grace
    BY <1>2, ZenonT(20) DEF Manifests, Reached, Grace
  <2> QED BY <1>2, <2>1, ZenonT(40) DEF Control, ControlOf
<1>3. CASE LoseIndex
  <2>1. UNCHANGED <<io, scene, data, man, job, runs, pruned>>
    BY <1>3, Zenon DEF LoseIndex, history
  <2> QED BY <1>1, <1>2, <2>1, Zenon
<1>4. CASE UNCHANGED vars
  <2>1. UNCHANGED <<io, scene, data, man, job, runs, pruned>>
    BY <1>4, Zenon DEF vars, indexVars, history
  <2> QED BY <1>1, <1>2, <2>1
<1> QED BY <1>1, <1>3, <1>4, ControlBackup, ControlWriter, Zenon DEF Next
=============================================================================
