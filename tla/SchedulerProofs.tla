-------------------------- MODULE SchedulerProofs --------------------------
(***************************************************************************)
(* Proofs about Scheduler, for any set of processes, any periods and any   *)
(* scenario: how many replicas, one-shot processes, crashes, restarts,     *)
(* manual runs and store failures there are, and how long it goes on.      *)
(***************************************************************************)
EXTENDS Scheduler, TLAPS

USE DEF Kinds, Threads, Worker

-----------------------------------------------------------------------------
(* Slots.  The periods are numbers nobody fixed, so division is pinned     *)
(* down here, once, and Slot stays folded everywhere else.                 *)

(* Multiplication by a number is monotone. *)
LEMMA Times ==
  ASSUME NEW d \in Nat, NEW x \in Nat, NEW y \in Nat, x <= y
  PROVE  d * x <= d * y
<1>1. PICK z \in Nat : y = x + z
  BY y - x \in Nat
<1>2. d * y = d * x + d * z
  BY <1>1
<1>3. d * z \in Nat /\ d * x \in Nat
  OBVIOUS
<1> QED BY <1>2, <1>3

(* A slot is a number, and it is the one its time falls into. *)
LEMMA SlotBounds ==
  ASSUME NEW k \in Kinds, NEW t \in Nat
  PROVE  /\ Slot(k, t) \in Nat
         /\ Every[k] * Slot(k, t) <= t
         /\ t < Every[k] * (Slot(k, t) + 1)
<1>1. Every[k] \in Nat /\ Every[k] > 0
  BY ScheduleAssumption
<1> DEFINE d == Every[k]
<1> HIDE DEF d
<1>2. d \in Nat /\ d > 0
  BY <1>1 DEF d
<1>3. t \div d \in Nat /\ d * (t \div d) <= t /\ t < d * (t \div d + 1)
  BY <1>2, SMT
<1> QED BY <1>3 DEF Slot, d

(* The next time of a schedule has come exactly when its slot has. *)
LEMMA NextSlot ==
  ASSUME NEW k \in Kinds, NEW last \in Nat, NEW t \in Nat
  PROVE  NextTime(k, last) <= t <=> Slot(k, last) < Slot(k, t)
<1> DEFINE d == Every[k]
           s == Slot(k, last)
           u == Slot(k, t)
<1>1. d \in Nat /\ s \in Nat /\ u \in Nat /\ d * u <= t /\ t < d * (u + 1)
  BY SlotBounds, ScheduleAssumption, Zenon
<1>2. NextTime(k, last) = d * (s + 1)
  BY <1>1 DEF NextTime
<1> HIDE DEF d, s, u
<1>3. ASSUME d * (s + 1) <= t, u <= s PROVE FALSE
  <2>1. d * (u + 1) <= d * (s + 1)
    BY <1>1, <1>3, Times
  <2>2. d * (u + 1) \in Nat /\ d * (s + 1) \in Nat
    BY <1>1
  <2> QED BY <1>1, <1>3, <2>1, <2>2
<1>4. ASSUME s < u PROVE d * (s + 1) <= t
  <2>1. d * (s + 1) <= d * u
    BY <1>1, <1>4, Times
  <2>2. d * u \in Nat /\ d * (s + 1) \in Nat
    BY <1>1
  <2> QED BY <1>1, <2>1, <2>2
<1>5. d * (s + 1) <= t <=> s < u
  BY <1>1, <1>3, <1>4
<1> QED BY <1>2, <1>5 DEF s, u

(* A later time falls into the same slot or into a later one. *)
LEMMA SlotMonotone ==
  ASSUME NEW k \in Kinds, NEW a \in Nat, NEW b \in Nat, a <= b
  PROVE  Slot(k, a) <= Slot(k, b)
<1>1. Slot(k, a) \in Nat /\ Slot(k, b) \in Nat
  BY SlotBounds
<1>2. ASSUME Slot(k, b) < Slot(k, a) PROVE FALSE
  <2>1. NextTime(k, b) <= a /\ ~(NextTime(k, b) <= b)
    BY <1>1, <1>2, NextSlot
  <2>2. NextTime(k, b) \in Nat
    BY <1>1, ScheduleAssumption DEF NextTime
  <2> QED BY <2>1, <2>2
<1> QED BY <1>1, <1>2

-----------------------------------------------------------------------------
(* Type correctness.                                                       *)

Tasks == Kinds \cup {"refresh", "merge"}
Count == [slot : Nat, times : Nat]

Process == [mode : Modes, loop : Seq(Tasks), chan : Seq(Kinds),
            timers : SUBSET {"tick", "refresh"}, claims : [Kinds -> Count],
            last : [Kinds -> Nat], seen : [Kinds -> Nat]]

Thread == [pc : Stages, kind : Kinds, manual : BOOLEAN, slot : Nat]

Types ==
    /\ now \in Nat /\ scene \in Scenario
    /\ lease \in [by : Threads \cup {NoOne}, live : BOOLEAN] /\ expiry \in Nat
    /\ index \in [Kinds -> Nat]
    /\ node \in [Nodes -> Process] /\ run \in [Threads -> Thread]
    /\ served \in [Kinds -> Count]
    /\ log \in [Kinds -> SUBSET {"ran", "failed", "missed", "locked", "notdue"}]

(* The counts of runs and of claims stay counts. *)
LEMMA TallyType ==
  ASSUME NEW c \in Count, NEW s \in Nat
  PROVE  Tally(c, s) \in Count
  BY DEF Tally, Count

(* What a process and a thread are when they have just begun. *)
LEMMA RestTypes == Down \in Process /\ Rest \in Thread /\ None \in [Kinds -> Count]
  BY DEF Down, Rest, None, Process, Thread, Count, Modes, Stages, Tasks

(* The jobs of a scenario are kinds, and Scheduled is the set of them. *)
LEMMA JobsType ==
  ASSUME scene \in Scenario
  PROVE  Jobs \in Seq(Kinds) /\ Jobs \in Seq(Tasks) /\ <<"refresh">> \o Jobs \in Seq(Tasks)
<1>1. Jobs \in {<<"backup">>, <<"backup", "verify">>}
  BY DEF Jobs, Scenario
<1>2. Jobs \in Seq(Kinds) /\ Jobs \in Seq(Tasks)
  <2>1. <<"backup">> \in Seq(Kinds) /\ <<"backup">> \in Seq(Tasks)
    BY DEF Tasks
  <2>2. <<"backup", "verify">> \in Seq(Kinds) /\ <<"backup", "verify">> \in Seq(Tasks)
    BY DEF Tasks
  <2> QED BY <1>1, <2>1, <2>2, Zenon
<1>3. <<"refresh">> \in Seq(Tasks)
  BY DEF Tasks
<1> QED BY <1>2, <1>3

(* What an action does to one process or one thread keeps them well typed. *)
LEMMA SetTypes ==
  ASSUME node \in [Nodes -> Process], NEW n \in Nodes, NEW r \in Process, Set(n, r)
  PROVE  node' \in [Nodes -> Process]
  BY DEF Set

(* A run that moves to another stage keeps its type.                       *)
LEMMA StageTypes ==
  ASSUME run \in [Threads -> Thread], NEW t \in Threads, NEW pc \in Stages, Stage(t, pc)
  PROVE  run' \in [Threads -> Thread]
  BY DEF Stage, Thread

(* What is spent is taken from the scenario, whose jobs stay the same.     *)
LEMMA SpendTypes ==
  ASSUME scene \in Scenario,
         NEW what \in {"daemons", "shots", "crashes", "stops", "manual", "refreshes", "faults"},
         Spend(what)
  PROVE  scene' \in Scenario /\ scene'.jobs = scene.jobs
  BY DEF Spend, Scenario

(* What is logged of a job keeps the type of the log.                      *)
LEMMA TellTypes ==
  ASSUME log \in [Kinds -> SUBSET {"ran", "failed", "missed", "locked", "notdue"}],
         NEW k \in Kinds, NEW what \in {"ran", "failed", "missed", "locked", "notdue"},
         Tell(k, what)
  PROVE  log' \in [Kinds -> SUBSET {"ran", "failed", "missed", "locked", "notdue"}]
  BY DEF Tell

(* A claim is dated now, and counted. *)
LEMMA ClaimType ==
  ASSUME NEW r \in Process, NEW k \in Kinds, now \in Nat
  PROVE  Claim(r, k) \in Process
<1>1. Tally(r.claims[k], Slot(k, now)) \in Count
  BY TallyType, SlotBounds, Zenon DEF Process
<1> QED BY <1>1, Zenon DEF Claim, Process

(* Every step of a loop keeps the types of its process. *)
LEMMA LoopTypes ==
  ASSUME Types, NEW n \in Nodes,
         Start(n) \/ Fire(n) \/ RefreshRead(n) \/ Merge(n) \/ Dispatch(n) \/ Stop(n) \/ Close(n)
  PROVE  Types'
<1>0. node[n] \in Process /\ Down \in Process
  BY RestTypes DEF Types
<1>1. CASE Start(n)
  <2>1. [Down EXCEPT !.mode = "daemon", !.loop = <<"refresh">> \o Jobs] \in Process
    BY <1>0, JobsType, Zenon DEF Types, Process, Modes
  <2>2. [Down EXCEPT !.mode = "once", !.loop = <<"refresh">> \o Jobs] \in Process
    BY <1>0, JobsType, ZenonT(40) DEF Types, Process, Modes
  <2> QED BY <1>1, <2>1, <2>2, SetTypes, SpendTypes DEF Types, Start
<1>2. CASE Fire(n)
  <2>1. PICK timer \in node[n].timers :
          /\ IF timer = "refresh" THEN Spend("refreshes") ELSE UNCHANGED scene
          /\ Set(n, [node[n] EXCEPT !.timers = @ \ {timer},
                                    !.loop = IF timer = "tick" THEN Jobs ELSE <<"refresh">>])
    BY <1>2, Zenon DEF Fire
  <2>2. Jobs \in Seq(Tasks) /\ <<"refresh">> \in Seq(Tasks)
    BY JobsType DEF Types, Tasks
  <2>3. [node[n] EXCEPT !.timers = @ \ {timer},
                        !.loop = IF timer = "tick" THEN Jobs ELSE <<"refresh">>] \in Process
    BY <1>0, <2>2, Zenon DEF Process
  <2> QED BY <1>2, <2>1, <2>3, SetTypes, SpendTypes, Zenon DEF Types, Fire
<1>3. CASE RefreshRead(n)
  <2>1. Tail(node[n].loop) \in Seq(Tasks) /\ <<"merge">> \o Tail(node[n].loop) \in Seq(Tasks)
    BY <1>0, <1>3 DEF RefreshRead, Facing, Process, Tasks
  <2>2. [node[n] EXCEPT !.loop = <<"merge">> \o Tail(@), !.seen = index] \in Process
    BY <1>0, <2>1, Zenon DEF Types, Process
  <2>3. [node[n] EXCEPT !.loop = Tail(@)] \in Process
    BY <1>0, <2>1, Zenon DEF Process
  <2> QED BY <1>0, <1>3, <2>2, <2>3, SetTypes, SpendTypes DEF Types, RefreshRead, Fails
<1>4. CASE Merge(n)
  <2>1. Tail(node[n].loop) \in Seq(Tasks)
    BY <1>0, <1>4 DEF Merge, Facing, Process
  <2>2. [k \in Kinds |-> Later(node[n].last[k], node[n].seen[k])] \in [Kinds -> Nat]
    BY <1>0, Zenon DEF Process, Later
  <2>3. Down.seen \in [Kinds -> Nat]
    BY <1>0 DEF Process
  <2>4. [node[n] EXCEPT !.loop = Tail(@),
                        !.last = [k \in Kinds |-> Later(@[k], node[n].seen[k])],
                        !.seen = Down.seen] \in Process
    BY <1>0, <2>1, <2>2, <2>3, Zenon DEF Process
  <2> QED BY <1>4, <2>4, SetTypes DEF Types, Merge
<1>5. CASE Dispatch(n)
  <2> DEFINE this == [node[n] EXCEPT !.loop = Tail(@)]
  <2>1. PICK k \in Kinds :
          /\ Facing(n, k)
          /\ \/ ~Due(k, node[n].last[k]) /\ Set(n, this) /\ UNCHANGED log
             \/ /\ Due(k, node[n].last[k])
                /\ IF node[n].chan # <<>> \/ (scene.overlap # "queue" /\ Busy(n))
                   THEN Set(n, Claim(this, k)) /\ Tell(k, "missed")
                   ELSE Set(n, [Claim(this, k) EXCEPT !.chan = <<k>>]) /\ UNCHANGED log
    BY <1>5, Zenon DEF Dispatch
  <2>2. this \in Process
    <3>1. Tail(node[n].loop) \in Seq(Tasks)
      BY <1>0, <2>1 DEF Process, Facing
    <3> QED BY <1>0, <3>1, Zenon DEF Process
  <2> HIDE DEF this
  <2>3. Claim(this, k) \in Process
    BY <2>2, ClaimType DEF Types
  <2>4. [Claim(this, k) EXCEPT !.chan = <<k>>] \in Process
    <3>1. <<k>> \in Seq(Kinds)
      OBVIOUS
    <3> QED BY <2>3, <3>1, Zenon DEF Process
  <2>5. node' \in [Nodes -> Process]
    BY <2>1, <2>2, <2>3, <2>4, SetTypes DEF Types
  <2> QED BY <1>5, <2>1, <2>5, TellTypes, Zenon DEF Types, Dispatch
<1>6. CASE Stop(n) \/ Close(n)
  <2>1. [node[n] EXCEPT !.mode = "stopping"] \in Process
        /\ [node[n] EXCEPT !.mode = "closing"] \in Process
    BY <1>0, Zenon DEF Process, Modes
  <2> QED BY <1>6, <2>1, SetTypes, SpendTypes DEF Types, Stop, Close
<1> QED BY <1>1, <1>2, <1>3, <1>4, <1>5, <1>6

(* So does every step that starts a thread. *)
LEMMA StartTypes ==
  ASSUME Types, NEW n \in Nodes,
         RunOnce(n) \/ Take(n) \/ StoreBusy(n) \/ (\E k \in Kinds : Manual(n, k))
  PROVE  Types'
<1>0. node[n] \in Process /\ Down \in Process /\ Rest \in Thread
      /\ Worker(n) \in Threads /\ <<n, "ui">> \in Threads
  BY RestTypes DEF Types
<1>1. CASE RunOnce(n)
  <2>1. CASE node[n].loop = <<>> /\ Set(n, Down) /\ UNCHANGED run
    BY <1>0, <1>1, <2>1, SetTypes DEF Types, RunOnce
  <2>2. ASSUME NEW k \in Kinds, Facing(n, k), Set(n, [node[n] EXCEPT !.loop = Tail(@)]),
               \/ run' = [run EXCEPT ![Worker(n)] = [Rest EXCEPT !.pc = "acquire", !.kind = k]]
               \/ UNCHANGED run
        PROVE  Types'
    <3>1. Tail(node[n].loop) \in Seq(Tasks)
      BY <1>0, <2>2 DEF Process, Facing
    <3>2. [node[n] EXCEPT !.loop = Tail(@)] \in Process
      BY <1>0, <3>1, Zenon DEF Process
    <3>3. [Rest EXCEPT !.pc = "acquire", !.kind = k] \in Thread
      BY <1>0, Zenon DEF Thread, Stages
    <3>4. run' \in [Threads -> Thread]
      BY <1>0, <2>2, <3>3, Zenon DEF Types
    <3> QED BY <1>1, <2>2, <3>2, <3>4, SetTypes DEF Types, RunOnce
  <2> QED BY <1>1, <2>1, <2>2 DEF RunOnce
<1>2. CASE Take(n)
  <2>1. Head(node[n].chan) \in Kinds /\ <<>> \in Seq(Kinds)
    BY <1>0, <1>2 DEF Take, Process
  <2>2. [Rest EXCEPT !.pc = "took", !.kind = Head(node[n].chan)] \in Thread
    BY <1>0, <2>1, Zenon DEF Thread, Stages
  <2>3. [node[n] EXCEPT !.chan = <<>>] \in Process
    BY <1>0, <2>1, Zenon DEF Process
  <2> QED BY <1>0, <1>2, <2>2, <2>3, SetTypes DEF Types, Take
<1>3. CASE StoreBusy(n)
  <2>1. "acquire" \in Stages
    BY DEF Stages
  <2> QED BY <1>0, <1>3, <2>1, StageTypes DEF Types, StoreBusy
<1>4. ASSUME NEW k \in Kinds, Manual(n, k) PROVE Types'
  <2>1. [Rest EXCEPT !.pc = "acquire", !.kind = k, !.manual = TRUE] \in Thread
    BY <1>0, Zenon DEF Thread, Stages
  <2> QED BY <1>0, <1>4, <2>1, SpendTypes DEF Types, Manual
<1> QED BY <1>1, <1>2, <1>3, <1>4

(* Whatever becomes of a lease is a lease. *)
LEMMA LeaseType ==
  ASSUME NEW t \in Threads
  PROVE  /\ [by |-> t, live |-> TRUE] \in [by : Threads \cup {NoOne}, live : BOOLEAN]
         /\ [by |-> t, live |-> FALSE] \in [by : Threads \cup {NoOne}, live : BOOLEAN]
         /\ [by |-> NoOne, live |-> FALSE] \in [by : Threads \cup {NoOne}, live : BOOLEAN]
  OBVIOUS

(* And every step of a thread. *)
LEMMA WorkTypes ==
  ASSUME Types, NEW t \in Threads, Work(t)
  PROVE  Types'
<1>0. run[t] \in Thread /\ Rest \in Thread /\ run[t].kind \in Kinds /\ t[1] \in Nodes
  BY RestTypes DEF Types, Thread
<1>s. {"record", "recheck", "release", "work"} \subseteq Stages
  BY DEF Stages
<1>1. CASE Acquire(t)
  <2>1. run' \in [Threads -> Thread]
    BY <1>1, <1>s, StageTypes DEF Types, Acquire
  <2>2. scene' \in Scenario /\ expiry' \in Nat
    BY <1>1, SpendTypes DEF Types, Acquire, Fails
  <2>3. lease' \in [by : Threads \cup {NoOne}, live : BOOLEAN]
    BY <1>1, LeaseType, Zenon DEF Types, Acquire, L!Grant
  <2>4. log' \in [Kinds -> SUBSET {"ran", "failed", "missed", "locked", "notdue"}]
    BY <1>0, <1>1, TellTypes DEF Types, Acquire
  <2> QED BY <1>1, <2>1, <2>2, <2>3, <2>4 DEF Types, Acquire
<1>2. CASE Recheck(t)
  <2>1. Slot(run[t].kind, now) \in Nat
    BY <1>0, SlotBounds DEF Types
  <2>2. run' \in [Threads -> Thread]
    <3>1. CASE run' = [run EXCEPT ![t].pc = "work", ![t].slot = Slot(run[t].kind, now)]
      BY <1>s, <2>1, <3>1 DEF Types, Thread
    <3>2. CASE Stage(t, "release")
      BY <1>s, <3>2, StageTypes DEF Types
    <3> QED BY <1>2, <3>1, <3>2 DEF Recheck
  <2>3. scene' \in Scenario
    BY <1>2, SpendTypes DEF Types, Recheck, Fails
  <2>4. log' \in [Kinds -> SUBSET {"ran", "failed", "missed", "locked", "notdue"}]
    BY <1>0, <1>2, TellTypes DEF Types, Recheck
  <2> QED BY <1>2, <2>2, <2>3, <2>4 DEF Types, Recheck
<1>3. CASE Finish(t)
  <2>1. run' \in [Threads -> Thread]
    BY <1>3, <1>s, StageTypes DEF Types, Finish
  <2>2. log' \in [Kinds -> SUBSET {"ran", "failed", "missed", "locked", "notdue"}]
    BY <1>0, <1>3, TellTypes DEF Types, Finish, OnRecord, OffRecord
  <2>3. index' \in [Kinds -> Nat]
    BY <1>0, <1>3 DEF Types, Finish, OnRecord, OffRecord
  <2>4. served' \in [Kinds -> Count]
    <3>1. run[t].slot \in Nat /\ served[run[t].kind] \in Count
      BY <1>0 DEF Types, Thread
    <3>2. Tally(served[run[t].kind], run[t].slot) \in Count
      BY <3>1, TallyType
    <3> QED BY <1>0, <1>3, <3>2 DEF Types, Finish, OnRecord, OffRecord
  <2> QED BY <1>3, <2>1, <2>2, <2>3, <2>4 DEF Types, Finish
<1>4. CASE Release(t)
  <2>1. run' \in [Threads -> Thread]
    BY <1>4, <1>s, StageTypes DEF Types, Release
  <2>2. scene' \in Scenario /\ expiry' \in Nat
    BY <1>4, SpendTypes, ScheduleAssumption DEF Types, Release
  <2>3. lease' \in [by : Threads \cup {NoOne}, live : BOOLEAN]
    BY <1>4, LeaseType, Zenon DEF Types, Release, L!GiveUp, L!Abandon, L!Free
  <2> QED BY <1>4, <2>1, <2>2, <2>3 DEF Types, Release
<1>5. CASE Record(t)
  <2>1. node' \in [Nodes -> Process]
    <3>1. node[t[1]] \in Process /\ now \in Nat
      BY <1>0 DEF Types
    <3>2. [node[t[1]] EXCEPT !.last[run[t].kind] = now] \in Process
      BY <1>0, <3>1, Zenon DEF Process
    <3> QED BY <1>0, <1>5, <3>2, Zenon DEF Types, Record
  <2> QED BY <1>0, <1>5, <2>1 DEF Types, Record
<1> QED BY <1>1, <1>2, <1>3, <1>4, <1>5 DEF Work

(* The end of a process, and the passing of time. *)
LEMMA GoneTypes ==
  ASSUME Types, NEW n \in Nodes, Gone(n), scene' \in Scenario
  PROVE  Types'
<1>1. node' \in [Nodes -> Process] /\ run' \in [Threads -> Thread]
  BY RestTypes, SetTypes DEF Types, Gone
<1>2. lease' \in [by : Threads \cup {NoOne}, live : BOOLEAN] /\ expiry' \in Nat
  <2>1. CASE lease.live /\ lease.by[1] = n
    <3>1. lease' = [by |-> lease.by, live |-> FALSE] /\ expiry' = now + TTL
      BY <2>1 DEF Gone, L!Abandon
    <3> QED BY <3>1, ScheduleAssumption DEF Types
  <2>2. CASE ~(lease.live /\ lease.by[1] = n)
    BY <2>2 DEF Gone, Types
  <2> QED BY <2>1, <2>2
<1> QED BY <1>1, <1>2 DEF Types, Gone

(* Time passing keeps the types.                                           *)
LEMMA AdvanceTypes ==
  ASSUME Types, Advance
  PROVE  Types'
<1>1. node' \in [Nodes -> Process]
  <2>1. ASSUME NEW n \in Nodes
        PROVE  [node[n] EXCEPT !.timers = {"tick", "refresh"}] \in Process
    <3>1. node[n] \in Process
      BY DEF Types
    <3> QED BY <3>1, Zenon DEF Process
  <2> QED BY <2>1 DEF Types, Advance
<1>2. log' \in [Kinds -> SUBSET {"ran", "failed", "missed", "locked", "notdue"}]
  BY DEF Types, Advance
<1> QED BY <1>1, <1>2 DEF Types, Advance

(* The steps of the specification, one by one. *)
LEMMA Steps ==
  ASSUME Next
  PROVE  \/ Advance
         \/ \E n \in Nodes :
              \/ Start(n) \/ Fire(n) \/ RefreshRead(n) \/ Merge(n) \/ Dispatch(n) \/ Stop(n) \/ Close(n)
              \/ RunOnce(n) \/ Take(n) \/ StoreBusy(n) \/ (\E k \in Kinds : Manual(n, k))
              \/ Exit(n) \/ Crash(n)
         \/ \E t \in Threads : Work(t)
  BY DEF Next, Step, Loop

(* Every step of a daemon, of a run or of the world keeps the types.       *)
LEMMA TypeStep == Types /\ [Next]_vars => Types'
<1> SUFFICES ASSUME Types, [Next]_vars PROVE Types'
  OBVIOUS
<1>1. CASE Advance
  BY <1>1, AdvanceTypes
<1>2. ASSUME NEW n \in Nodes, Exit(n) \/ Crash(n) PROVE Types'
  BY <1>2, GoneTypes, SpendTypes, Zenon DEF Exit, Crash, Types
<1>3. CASE UNCHANGED vars
  BY <1>3 DEF vars, Types
<1> QED BY <1>1, <1>2, <1>3, Steps, LoopTypes, StartTypes, WorkTypes

(* The types hold at the start.                                            *)
LEMMA TypeInit == Init => Types
  BY RestTypes, ScheduleAssumption DEF Init, Types, L!Init, L!Free

(* The variables keep their types: no step of a loop, a worker, a run or a *)
(* failing process leaves a state that the next one cannot read.           *)
THEOREM TypeCorrect == Spec => []Types
  BY TypeInit, TypeStep, PTL DEF Spec

-----------------------------------------------------------------------------
(* The lease.  A thread holds it from Acquire to Release, so there is one  *)
(* such thread at a time, and the lease says which.                        *)

Holding == {"recheck", "work", "release"}

LeaseInv ==
    /\ lease.live => lease.by \in Threads
    /\ \A t \in Threads : run[t].pc \in Holding <=> lease.live /\ lease.by = t

(* The loops, and the steps that start a thread, leave the lease alone and *)
(* make no thread hold it.                                                 *)
LEMMA LeaseUntouched ==
  ASSUME Types, NEW n \in Nodes,
         \/ Start(n) \/ Fire(n) \/ RefreshRead(n) \/ Merge(n) \/ Dispatch(n) \/ Stop(n) \/ Close(n)
         \/ RunOnce(n) \/ Take(n) \/ StoreBusy(n) \/ (\E k \in Kinds : Manual(n, k))
  PROVE  /\ lease' = lease
         /\ \A t \in Threads : run'[t].pc \in Holding <=> run[t].pc \in Holding
<1>1. CASE Start(n) \/ Fire(n) \/ RefreshRead(n) \/ Merge(n) \/ Dispatch(n) \/ Stop(n) \/ Close(n)
  BY <1>1, Zenon DEF Start, Fire, RefreshRead, Merge, Dispatch, Stop, Close
<1>2. CASE RunOnce(n)
  <2>1. CASE UNCHANGED run
    BY <1>2, <2>1 DEF RunOnce
  <2>2. ASSUME NEW k \in Kinds,
               run' = [run EXCEPT ![Worker(n)] = [Rest EXCEPT !.pc = "acquire", !.kind = k]]
        PROVE  \A t \in Threads : run'[t].pc \in Holding <=> run[t].pc \in Holding
    BY <1>2, <2>2, Zenon DEF RunOnce, Types, Holding, Rest
  <2> QED BY <1>2, <2>1, <2>2 DEF RunOnce
<1>3. CASE Take(n)
  BY <1>3, Zenon DEF Take, Types, Holding, Rest
<1>4. CASE StoreBusy(n)
  <2>1. run[Worker(n)] \in Thread /\ run \in [Threads -> Thread]
    BY DEF Types
  <2>2. run'[Worker(n)].pc = "acquire" /\ \A t \in Threads \ {Worker(n)} : run'[t] = run[t]
    BY <1>4, <2>1 DEF StoreBusy, Stage, Thread
  <2> QED BY <1>4, <2>2, Zenon DEF StoreBusy, Holding
<1>5. ASSUME NEW k \in Kinds, Manual(n, k)
      PROVE  /\ lease' = lease
             /\ \A t \in Threads : run'[t].pc \in Holding <=> run[t].pc \in Holding
  BY <1>5, Zenon DEF Manual, Types, Holding, Rest
<1> QED BY <1>1, <1>2, <1>3, <1>4, <1>5, Zenon

(* The end of a process ends its threads, and abandons a lease of theirs. *)
LEMMA LeaseGone ==
  ASSUME Types, LeaseInv, NEW n \in Nodes, Gone(n)
  PROVE  LeaseInv' /\ [L!Next]_lease
<1>1. \A t \in Threads : run'[t] = IF t[1] = n THEN Rest ELSE run[t]
  BY DEF Gone
<1>2. Rest.pc \notin Holding
  BY DEF Rest, Holding
<1>3. CASE lease.live /\ lease.by[1] = n
  <2>1. lease' = [by |-> lease.by, live |-> FALSE] /\ L!Abandon(lease.by) /\ lease.by \in Threads
    BY <1>3 DEF Gone, L!Abandon, LeaseInv
  <2>2. \A t \in Threads : run'[t].pc \notin Holding
    BY <1>1, <1>2, <1>3 DEF LeaseInv
  <2>3. LeaseInv'
    BY <2>1, <2>2 DEF LeaseInv
  <2>4. L!Next
    BY <2>1 DEF L!Next
  <2> QED BY <2>3, <2>4
<1>4. CASE ~(lease.live /\ lease.by[1] = n)
  <2>1. lease' = lease
    BY <1>4 DEF Gone
  <2> QED BY <1>1, <1>2, <1>4, <2>1 DEF LeaseInv
<1> QED BY <1>3, <1>4

(* A thread takes a lease that nobody acts on, and gives up or abandons    *)
(* its own.                                                                *)
LEMMA LeaseWork ==
  ASSUME Types, LeaseInv, NEW t \in Threads, Work(t)
  PROVE  LeaseInv' /\ [L!Next]_lease
<1>0. run \in [Threads -> Thread] /\ DOMAIN run[t] = {"pc", "kind", "manual", "slot"}
  BY DEF Types, Thread
<1>s. ASSUME NEW pc, Stage(t, pc)
      PROVE  run'[t].pc = pc /\ \A u \in Threads \ {t} : run'[u] = run[u]
  BY <1>0, <1>s DEF Stage
<1>1. CASE Acquire(t)
  <2>1. CASE Stage(t, "record") /\ UNCHANGED lease
    BY <1>1, <1>s, <2>1 DEF LeaseInv, Holding, Acquire
  <2>2. CASE ~Locked /\ L!Grant(t) /\ Stage(t, "recheck")
    <3>1. lease' = [by |-> t, live |-> TRUE] /\ ~lease.live
      BY <2>2 DEF L!Grant
    <3>2. LeaseInv'
      BY <1>s, <2>2, <3>1 DEF LeaseInv, Holding
    <3> QED BY <2>2, <3>2 DEF L!Next
  <2> QED BY <1>1, <2>1, <2>2 DEF Acquire
<1>2. CASE Recheck(t)
  <2>1. lease' = lease /\ run'[t].pc \in {"work", "release"}
    BY <1>0, <1>2, <1>s DEF Recheck
  <2>2. \A u \in Threads \ {t} : run'[u] = run[u]
    BY <1>0, <1>2, <1>s DEF Recheck
  <2> QED BY <1>2, <2>1, <2>2 DEF LeaseInv, Holding, Recheck
<1>3. CASE Finish(t)
  BY <1>3, <1>s DEF Finish, LeaseInv, Holding
<1>4. CASE Release(t)
  <2>1. L!GiveUp(t) \/ L!Abandon(t)
    BY <1>4 DEF Release
  <2>2. lease.by = t /\ ~lease'.live
    BY <2>1 DEF L!GiveUp, L!Abandon, L!Free
  <2>3. LeaseInv'
    BY <1>4, <1>s, <2>2 DEF Release, LeaseInv, Holding
  <2> QED BY <2>1, <2>3 DEF L!Next
<1>5. CASE Record(t)
  <2>1. run'[t].pc = "idle" /\ \A u \in Threads \ {t} : run'[u] = run[u]
    BY <1>0, <1>5 DEF Record, Rest
  <2> QED BY <1>5, <2>1 DEF Record, LeaseInv, Holding
<1> QED BY <1>1, <1>2, <1>3, <1>4, <1>5 DEF Work

(* Every step keeps the lease invariant, and is a step of the abstract     *)
(* lease or changes none of it.                                            *)
LEMMA LeaseStep == Types /\ LeaseInv /\ [Next]_vars => LeaseInv' /\ [L!Next]_lease
<1> SUFFICES ASSUME Types, LeaseInv, [Next]_vars PROVE LeaseInv' /\ [L!Next]_lease
  OBVIOUS
<1>1. CASE Advance \/ UNCHANGED vars
  BY <1>1 DEF Advance, vars, LeaseInv
<1>2. ASSUME NEW n \in Nodes,
             \/ Start(n) \/ Fire(n) \/ RefreshRead(n) \/ Merge(n) \/ Dispatch(n) \/ Stop(n) \/ Close(n)
             \/ RunOnce(n) \/ Take(n) \/ StoreBusy(n) \/ (\E k \in Kinds : Manual(n, k))
      PROVE  LeaseInv' /\ [L!Next]_lease
  BY <1>2, LeaseUntouched DEF LeaseInv
<1>3. ASSUME NEW n \in Nodes, Exit(n) \/ Crash(n) PROVE LeaseInv' /\ [L!Next]_lease
  BY <1>3, LeaseGone DEF Exit, Crash
<1> QED BY <1>1, <1>2, <1>3, Steps, LeaseWork

(* At the start no run holds a lease.                                      *)
LEMMA LeaseInit == Init => LeaseInv /\ L!Init
  BY DEF Init, LeaseInv, L!Init, L!Free, Holding, Rest

(* The executor uses the lock as a lease: the threads of all processes     *)
(* take it one at a time, whatever crashes and releases fail (exec.go, Run *)
(* and acquire).                                                           *)
THEOREM LeaseUse == Spec => LeaseRespected
  BY TypeCorrect, LeaseInit, LeaseStep, PTL DEF Spec, LeaseRespected, L!Spec

-----------------------------------------------------------------------------
(* Slots.  What is on record, known or claimed is not in the future, and a *)
(* count of one points at a slot that is not after its date.               *)

Known(r) == \A k \in Kinds : r.last[k] <= now /\ r.seen[k] <= now

Claimed(r) ==
    \A k \in Kinds :
        /\ r.claims[k].times <= 1
        /\ r.claims[k].times = 1 => r.last[k] # 0 /\ r.claims[k].slot <= Slot(k, r.last[k])

ClaimInv ==
    /\ now # 0
    /\ \A k \in Kinds : index[k] <= now
    /\ \A n \in Nodes : Known(node[n]) /\ Claimed(node[n])

(* A process that dispatches a job did not claim its slot before. *)
LEMMA ClaimOnce ==
  ASSUME NEW r \in Process, NEW k \in Kinds, now \in Nat, now # 0,
         Known(r), Claimed(r), Due(k, r.last[k])
  PROVE  Known(Claim(r, k)) /\ Claimed(Claim(r, k))
<1> DEFINE c == r.claims[k]
           q == Claim(r, k)
<1>1. /\ c \in Count /\ r.last[k] \in Nat
      /\ Slot(k, now) \in Nat /\ Slot(k, r.last[k]) \in Nat
  BY SlotBounds, Zenon DEF Process
<1>2. c.times = 1 => c.slot < Slot(k, now)
  BY <1>1, NextSlot DEF Claimed, Due, Count
<1>3. Tally(c, Slot(k, now)) = [slot |-> Slot(k, now), times |-> 1]
  BY <1>1, <1>2 DEF Tally, Claimed, Count
<1>4. /\ q.seen = r.seen
      /\ q.last = [r.last EXCEPT ![k] = now]
      /\ q.claims = [r.claims EXCEPT ![k] = [slot |-> Slot(k, now), times |-> 1]]
  BY <1>3 DEF Claim, Process
<1> HIDE DEF c, q
<1>5. r.last \in [Kinds -> Nat] /\ r.claims \in [Kinds -> Count]
  BY DEF Process
<1>6. Known(q)
  BY <1>4, <1>5 DEF Known
<1>7. Claimed(q)
  BY <1>1, <1>4, <1>5 DEF Claimed
<1> QED BY <1>6, <1>7 DEF q

(* What is known only grows: with the index, and with the process's own    *)
(* claims.                                                                 *)
LEMMA ClaimLoop ==
  ASSUME Types, ClaimInv, NEW n \in Nodes,
         \/ Start(n) \/ Fire(n) \/ RefreshRead(n) \/ Merge(n) \/ Dispatch(n) \/ Stop(n) \/ Close(n)
         \/ RunOnce(n) \/ Take(n)
  PROVE  ClaimInv'
<1>0. node[n] \in Process /\ node \in [Nodes -> Process] /\ now \in Nat /\ index \in [Kinds -> Nat]
  BY DEF Types
<1>1. ASSUME NEW r, Set(n, r), Known(r), Claimed(r), UNCHANGED <<now, index>> PROVE ClaimInv'
  <2>1. node'[n] = r /\ \A m \in Nodes \ {n} : node'[m] = node[m]
    BY <1>0, <1>1 DEF Set
  <2> QED BY <1>1, <2>1, Zenon DEF ClaimInv, Known, Claimed
<1>2. ASSUME NEW r, r.last = node[n].last, r.seen = node[n].seen, r.claims = node[n].claims
      PROVE  Known(r) /\ Claimed(r)
  BY <1>2, Zenon DEF ClaimInv, Known, Claimed
<1>3. ASSUME NEW r, r.last = Down.last, r.seen = Down.seen, r.claims = Down.claims
      PROVE  Known(r) /\ Claimed(r)
  <2>1. \A k \in Kinds : r.last[k] = 0 /\ r.seen[k] = 0 /\ r.claims[k] = [slot |-> 0, times |-> 0]
    BY <1>3, Zenon DEF Down, None
  <2> QED BY <1>0, <2>1 DEF Known, Claimed
<1>4. CASE Start(n)
  <2>1. PICK mode, loop : Set(n, [Down EXCEPT !.mode = mode, !.loop = loop])
    BY <1>4, Zenon DEF Start
  <2>2. Known([Down EXCEPT !.mode = mode, !.loop = loop])
        /\ Claimed([Down EXCEPT !.mode = mode, !.loop = loop])
    BY <1>3, Zenon DEF Down
  <2> QED BY <1>1, <1>4, <2>1, <2>2, SMTT(30) DEF Start
<1>5. CASE Fire(n) \/ Stop(n) \/ Close(n) \/ Take(n)
  <2>1. CASE Fire(n)
    <3>1. PICK timers, loop : Set(n, [node[n] EXCEPT !.timers = timers, !.loop = loop])
      BY <2>1, Zenon DEF Fire
    <3> QED BY <1>0, <1>1, <1>2, <2>1, <3>1, Zenon DEF Fire, Process
  <2>2. CASE Stop(n) \/ Close(n)
    BY <1>0, <1>1, <1>2, <2>2, Zenon DEF Stop, Close, Process
  <2>3. CASE Take(n)
    BY <1>0, <1>1, <1>2, <2>3, Zenon DEF Take, Process
  <2> QED BY <1>5, <2>1, <2>2, <2>3
<1>6. CASE RefreshRead(n)
  <2>1. CASE Set(n, Down)
    BY <1>1, <1>3, <1>6, <2>1 DEF RefreshRead
  <2>2. CASE Set(n, [node[n] EXCEPT !.loop = Tail(@)])
    BY <1>0, <1>1, <1>2, <1>6, <2>2, Zenon DEF RefreshRead, Process
  <2>3. CASE Set(n, [node[n] EXCEPT !.loop = <<"merge">> \o Tail(@), !.seen = index])
    <3>1. Known([node[n] EXCEPT !.loop = <<"merge">> \o Tail(@), !.seen = index])
          /\ Claimed([node[n] EXCEPT !.loop = <<"merge">> \o Tail(@), !.seen = index])
      BY <1>0, Zenon DEF ClaimInv, Known, Claimed, Process
    <3> QED BY <1>1, <1>6, <2>3, <3>1 DEF RefreshRead
  <2> QED BY <1>6, <2>1, <2>2, <2>3 DEF RefreshRead
<1>7. CASE Merge(n)
  <2> DEFINE r == [node[n] EXCEPT !.loop = Tail(@),
                                  !.last = [k \in Kinds |-> Later(@[k], node[n].seen[k])],
                                  !.seen = Down.seen]
  <2>1. /\ r.last = [k \in Kinds |-> Later(node[n].last[k], node[n].seen[k])]
        /\ r.seen = [k \in Kinds |-> 0] /\ r.claims = node[n].claims
    BY <1>0 DEF Process, Down
  <2> HIDE DEF r
  <2>2. Known(r)
    BY <1>0, <2>1 DEF ClaimInv, Known, Later, Process
  <2>3. ASSUME NEW k \in Kinds
        PROVE  /\ node[n].last[k] # 0 => r.last[k] # 0
               /\ Slot(k, node[n].last[k]) <= Slot(k, r.last[k])
               /\ Slot(k, node[n].last[k]) \in Nat /\ Slot(k, r.last[k]) \in Nat
    <3>1. node[n].last[k] \in Nat /\ r.last[k] \in Nat /\ node[n].last[k] <= r.last[k]
      BY <1>0, <2>1 DEF Process, Later
    <3>2. Slot(k, node[n].last[k]) \in Nat /\ Slot(k, r.last[k]) \in Nat
      BY <3>1, SlotBounds, Zenon
    <3>3. Slot(k, node[n].last[k]) <= Slot(k, r.last[k])
      BY <3>1, SlotMonotone, Zenon
    <3>4. node[n].last[k] # 0 => r.last[k] # 0
      BY <3>1, SMTT(30)
    <3> QED BY <3>2, <3>3, <3>4, Zenon
  <2>4. Claimed(r)
    BY <1>0, <2>1, <2>3, SMTT(30) DEF ClaimInv, Claimed, Process, Count
  <2> QED BY <1>1, <1>7, <2>2, <2>4 DEF Merge, r
<1>8. CASE Dispatch(n)
  <2> DEFINE this == [node[n] EXCEPT !.loop = Tail(@)]
  <2>1. PICK k \in Kinds :
          /\ Facing(n, k)
          /\ \/ ~Due(k, node[n].last[k]) /\ Set(n, this) /\ UNCHANGED log
             \/ /\ Due(k, node[n].last[k])
                /\ IF node[n].chan # <<>> \/ (scene.overlap # "queue" /\ Busy(n))
                   THEN Set(n, Claim(this, k)) /\ Tell(k, "missed")
                   ELSE Set(n, [Claim(this, k) EXCEPT !.chan = <<k>>]) /\ UNCHANGED log
    BY <1>8, Zenon DEF Dispatch
  <2>2. this \in Process
    <3>1. Tail(node[n].loop) \in Seq(Tasks)
      BY <1>0, <2>1 DEF Process, Facing
    <3> QED BY <1>0, <3>1, Zenon DEF Process
  <2>3. this.last = node[n].last /\ this.seen = node[n].seen /\ this.claims = node[n].claims
    BY <1>0 DEF Process
  <2> HIDE DEF this
  <2>4. Known(this) /\ Claimed(this)
    BY <1>2, <2>3, Zenon
  <2>5. ASSUME Due(k, node[n].last[k])
        PROVE  /\ Known(Claim(this, k)) /\ Claimed(Claim(this, k))
               /\ Known([Claim(this, k) EXCEPT !.chan = <<k>>])
               /\ Claimed([Claim(this, k) EXCEPT !.chan = <<k>>])
    <3>1. Known(Claim(this, k)) /\ Claimed(Claim(this, k)) /\ Claim(this, k) \in Process
      BY <1>0, <2>2, <2>3, <2>4, <2>5, ClaimOnce, ClaimType, Zenon DEF ClaimInv
    <3> QED BY <3>1, Zenon DEF Process, Known, Claimed
  <2> QED BY <1>1, <1>8, <2>1, <2>4, <2>5, Zenon DEF Dispatch
<1>9. CASE RunOnce(n)
  <2>1. CASE Set(n, Down)
    BY <1>1, <1>3, <1>9, <2>1, Zenon DEF RunOnce
  <2>2. CASE Set(n, [node[n] EXCEPT !.loop = Tail(@)])
    BY <1>0, <1>1, <1>2, <1>9, <2>2, Zenon DEF RunOnce, Process
  <2> QED BY <1>9, <2>1, <2>2, Zenon DEF RunOnce
<1> QED BY <1>4, <1>5, <1>6, <1>7, <1>8, <1>9

(* A thread dates what it puts on record, and a worker what it ran, now. *)
LEMMA ClaimWork ==
  ASSUME Types, ClaimInv, NEW t \in Threads, Work(t)
  PROVE  ClaimInv'
<1>0. /\ node \in [Nodes -> Process] /\ now \in Nat /\ index \in [Kinds -> Nat]
      /\ run[t].kind \in Kinds /\ t[1] \in Nodes
  BY DEF Types, Thread
<1>1. CASE Acquire(t) \/ Recheck(t) \/ Release(t)
  BY <1>1, Zenon DEF Acquire, Recheck, Release, ClaimInv, Known, Claimed
<1>2. CASE Finish(t)
  <2>1. \A k \in Kinds : index'[k] = index[k] \/ index'[k] = now
    BY <1>0, <1>2, Zenon DEF Finish, OnRecord, OffRecord
  <2> QED BY <1>0, <1>2, <2>1 DEF Finish, ClaimInv, Known, Claimed
<1>3. CASE Record(t)
  <2>1. ASSUME NEW n \in Nodes
        PROVE  /\ node'[n].seen = node[n].seen /\ node'[n].claims = node[n].claims
               /\ \A k \in Kinds : node'[n].last[k] = node[n].last[k] \/ node'[n].last[k] = now
    <3>1. node[n] \in Process
      BY <1>0
    <3> QED BY <1>0, <1>3, <3>1, Zenon DEF Record, Process
  <2>2. ASSUME NEW n \in Nodes PROVE Known(node'[n]) /\ Claimed(node'[n])
    <3>1. node[n] \in Process /\ Known(node[n]) /\ Claimed(node[n]) /\ now # 0
      BY <1>0, Zenon DEF ClaimInv
    <3>2. Known(node'[n])
      BY <1>0, <2>1, <3>1 DEF Known
    <3>3. ASSUME NEW k \in Kinds
          PROVE  /\ Slot(k, node[n].last[k]) <= Slot(k, now)
                 /\ Slot(k, now) \in Nat /\ Slot(k, node[n].last[k]) \in Nat
      BY <1>0, <3>1, SlotMonotone, SlotBounds, Zenon DEF Process, Known
    <3>4. ASSUME NEW k \in Kinds
          PROVE  /\ node'[n].claims[k].times <= 1
                 /\ node'[n].claims[k].times = 1 =>
                      node'[n].last[k] # 0 /\ node'[n].claims[k].slot <= Slot(k, node'[n].last[k])
      <4>1. node[n].claims[k] \in Count
        BY <3>1, Zenon DEF Process
      <4>2. CASE node'[n].last[k] = node[n].last[k]
        BY <2>1, <3>1, <4>2, Zenon DEF Claimed
      <4>3. CASE node'[n].last[k] = now
        BY <2>1, <3>1, <3>3, <4>1, <4>3 DEF Claimed, Count
      <4> QED BY <2>1, <4>2, <4>3, Zenon
    <3>5. Claimed(node'[n])
      BY <3>4, Zenon DEF Claimed
    <3> QED BY <3>2, <3>5
  <2> QED BY <1>3, <2>2, Zenon DEF Record, ClaimInv, Known, Claimed
<1> QED BY <1>1, <1>2, <1>3 DEF Work

(* Every step keeps the claims of the slots (at most one run each).        *)
LEMMA ClaimStep == Types /\ ClaimInv /\ [Next]_vars => ClaimInv'
<1> SUFFICES ASSUME Types, ClaimInv, [Next]_vars PROVE ClaimInv'
  OBVIOUS
<1>0. node \in [Nodes -> Process] /\ now \in Nat /\ index \in [Kinds -> Nat]
  BY SMTT(30) DEF Types
<1>1. CASE Advance
  <2>1. ASSUME NEW n \in Nodes
        PROVE  /\ node'[n].seen = node[n].seen /\ node'[n].claims = node[n].claims
               /\ node'[n].last = node[n].last /\ node[n] \in Process
    <3>1. node[n] \in Process
      BY <1>0
    <3> QED BY <1>1, <3>1 DEF Advance, Process
  <2>2. now' = now + 1 /\ index' = index
    BY <1>1 DEF Advance
  <2> QED BY <1>0, <2>1, <2>2, SMTT(30) DEF ClaimInv, Known, Claimed, Process
<1>2. ASSUME NEW n \in Nodes, StoreBusy(n) \/ (\E k \in Kinds : Manual(n, k)) PROVE ClaimInv'
  BY <1>2, SMTT(30) DEF StoreBusy, Manual, ClaimInv, Known, Claimed
<1>3. ASSUME NEW n \in Nodes, Exit(n) \/ Crash(n) PROVE ClaimInv'
  <2>1. Set(n, Down) /\ UNCHANGED <<now, index>>
    BY <1>3, Zenon DEF Exit, Crash, Gone
  <2>2. /\ node'[n].last = [k \in Kinds |-> 0] /\ node'[n].seen = [k \in Kinds |-> 0]
        /\ node'[n].claims = [k \in Kinds |-> [slot |-> 0, times |-> 0]]
        /\ \A m \in Nodes \ {n} : node'[m] = node[m]
    BY <1>0, <2>1, Zenon DEF Set, Down, None
  <2>3. (Known(node[n]) /\ Claimed(node[n]))'
    BY <1>0, <2>1, <2>2 DEF Known, Claimed
  <2> QED BY <2>1, <2>2, <2>3, Zenon DEF ClaimInv, Known, Claimed
<1>4. CASE UNCHANGED vars
  BY <1>4, Zenon DEF vars, ClaimInv, Known, Claimed
<1> QED BY <1>1, <1>2, <1>3, <1>4, Steps, ClaimLoop, ClaimWork

(* What is on record in a slot was decided under the lease, so it is       *)
(* older than the slot of the run that is being made now.                  *)
ServedInv ==
    /\ \A k \in Kinds :
        /\ served[k].times <= 1
        /\ served[k].times = 1 => index[k] # 0 /\ served[k].slot <= Slot(k, index[k])
    /\ \A t \in Threads : run[t].pc = "work" =>
        /\ run[t].slot <= Slot(run[t].kind, now)
        /\ ~run[t].manual /\ served[run[t].kind].times = 1
             => served[run[t].kind].slot < run[t].slot

(* Only the thread with the lease decides, and only it writes. *)
LEMMA ServedWork ==
  ASSUME Types, LeaseInv, ClaimInv, ServedInv, NEW t \in Threads, Work(t)
  PROVE  ServedInv'
<1> DEFINE k == run[t].kind
<1>0. /\ run \in [Threads -> Thread] /\ now \in Nat /\ index \in [Kinds -> Nat]
      /\ served \in [Kinds -> Count] /\ k \in Kinds /\ run[t].slot \in Nat
      /\ DOMAIN run[t] = {"pc", "kind", "manual", "slot"}
      /\ index[k] \in Nat /\ served[k] \in Count /\ index[k] <= now /\ now # 0
  BY Zenon DEF Types, Thread, ClaimInv
<1>1. Slot(k, now) \in Nat /\ Slot(k, index[k]) \in Nat /\ Slot(k, index[k]) <= Slot(k, now)
  BY <1>0, SlotBounds, SlotMonotone, ZenonT(20)
<1>s. ASSUME NEW pc, Stage(t, pc), pc # "work", UNCHANGED <<now, index, served>>
      PROVE  ServedInv'
  <2>1. run'[t].pc # "work" /\ \A u \in Threads \ {t} : run'[u] = run[u]
    BY <1>0, <1>s DEF Stage
  <2> QED BY <1>s, <2>1, Zenon DEF ServedInv
<1>2. CASE Acquire(t)
  BY <1>2, <1>s DEF Acquire
<1>3. CASE Recheck(t)
  <2>1. CASE Stage(t, "release")
    BY <1>3, <1>s, <2>1 DEF Recheck
  <2>2. CASE /\ run[t].manual \/ Due(k, index[k])
             /\ run' = [run EXCEPT ![t].pc = "work", ![t].slot = Slot(k, now)]
    <3>1. /\ run'[t].pc = "work" /\ run'[t].slot = Slot(k, now)
          /\ run'[t].kind = k /\ run'[t].manual = run[t].manual
          /\ \A u \in Threads \ {t} : run'[u] = run[u]
      BY <1>0, <2>2
    <3>2. ~run[t].manual /\ served[k].times = 1 => served[k].slot < Slot(k, now)
      BY <1>0, <1>1, <2>2, NextSlot DEF ServedInv, Due, Count
    <3> QED BY <1>0, <1>1, <1>3, <3>1, <3>2 DEF ServedInv, Recheck
  <2> QED BY <1>3, <2>1, <2>2 DEF Recheck
<1>4. CASE Finish(t)
  <2>1. /\ run'[t].pc = "release" /\ \A u \in Threads \ {t} : run'[u] = run[u]
        /\ run[t].pc = "work"
    BY <1>0, <1>4 DEF Finish, Stage
  <2>2. \A u \in Threads : run'[u].pc # "work"
    BY <2>1 DEF LeaseInv, Holding
  <2>3. CASE OffRecord(t)
    BY <2>2, <2>3, Zenon DEF OffRecord, ServedInv
  <2>4. CASE OnRecord(t)
    <3>1. index'[k] = now /\ \A j \in Kinds \ {k} : index'[j] = index[j] /\ served'[j] = served[j]
      BY <1>0, <2>4, Zenon DEF OnRecord
    <3>2. CASE run[t].manual
      BY <1>0, <1>1, <2>2, <2>4, <3>1, <3>2, SMTT(30) DEF OnRecord, ServedInv, Count
    <3>3. CASE ~run[t].manual
      <4>1. served'[k] = Tally(served[k], run[t].slot)
        BY <1>0, <2>4, <3>3, Zenon DEF OnRecord
      <4>2. served[k].times = 1 => served[k].slot < run[t].slot
        BY <2>1, <3>3, Zenon DEF ServedInv
      <4>3. served'[k] = [slot |-> run[t].slot, times |-> 1]
        <5> DEFINE c == served[k]
        <5>1. c \in Count /\ c.times <= 1 /\ (c.times = 1 => c.slot # run[t].slot)
          BY <1>0, <4>2 DEF ServedInv, Count
        <5> HIDE DEF c
        <5>2. Tally(c, run[t].slot) = [slot |-> run[t].slot, times |-> 1]
          BY <5>1 DEF Tally, Count
        <5> QED BY <4>1, <5>2 DEF c
      <4>4. run[t].slot <= Slot(k, now)
        BY <2>1, Zenon DEF ServedInv
      <4> QED BY <1>0, <2>2, <3>1, <4>3, <4>4 DEF ServedInv
    <3> QED BY <3>2, <3>3
  <2> QED BY <1>4, <2>3, <2>4 DEF Finish
<1>5. CASE Release(t)
  BY <1>5, <1>s, Zenon DEF Release
<1>6. CASE Record(t)
  <2>1. run'[t].pc # "work" /\ \A u \in Threads \ {t} : run'[u] = run[u]
    BY <1>0, <1>6 DEF Record, Rest
  <2> QED BY <1>6, <2>1 DEF ServedInv, Record
<1> QED BY <1>2, <1>3, <1>4, <1>5, <1>6 DEF Work

(* Every step keeps what is known of the slots that were served.           *)
LEMMA ServedStep == Types /\ LeaseInv /\ ClaimInv /\ ServedInv /\ [Next]_vars => ServedInv'
<1> SUFFICES ASSUME Types, LeaseInv, ClaimInv, ServedInv, [Next]_vars PROVE ServedInv'
  OBVIOUS
<1>0. run \in [Threads -> Thread] /\ now \in Nat
  BY DEF Types
<1>1. CASE Advance
  <2>1. ASSUME NEW t \in Threads
        PROVE  /\ Slot(run[t].kind, now) <= Slot(run[t].kind, now')
               /\ Slot(run[t].kind, now) \in Nat /\ Slot(run[t].kind, now') \in Nat
               /\ run[t].slot \in Nat
    <3>1. run[t].kind \in Kinds /\ run[t].slot \in Nat /\ now' \in Nat /\ now <= now'
      BY <1>0, <1>1 DEF Advance, Thread
    <3> QED BY <1>0, <3>1, SlotMonotone, SlotBounds, Zenon
  <2> QED BY <1>1, <2>1 DEF Advance, ServedInv
<1>2. ASSUME NEW n \in Nodes,
             \/ Start(n) \/ Fire(n) \/ RefreshRead(n) \/ Merge(n) \/ Dispatch(n) \/ Stop(n) \/ Close(n)
             \/ RunOnce(n) \/ Take(n) \/ StoreBusy(n) \/ (\E k \in Kinds : Manual(n, k))
      PROVE  ServedInv'
  <2>1. UNCHANGED <<now, index, served>>
    BY <1>2, ZenonT(20) DEF Start, Fire, RefreshRead, Merge, Dispatch, Stop, Close, RunOnce, Take, StoreBusy,
                Manual
  <2>2. \A t \in Threads : run'[t].pc = "work" => run'[t] = run[t]
    <3>1. CASE Start(n) \/ Fire(n) \/ RefreshRead(n) \/ Merge(n) \/ Dispatch(n) \/ Stop(n) \/ Close(n)
      BY <3>1, Zenon DEF Start, Fire, RefreshRead, Merge, Dispatch, Stop, Close
    <3>2. CASE RunOnce(n)
      <4>1. PICK k : run' = [run EXCEPT ![Worker(n)] = [Rest EXCEPT !.pc = "acquire", !.kind = k]]
                     \/ run' = run
        BY <3>2, Zenon DEF RunOnce
      <4> QED BY <1>0, <4>1, ZenonT(20) DEF Rest
    <3>3. CASE Take(n)
      BY <1>0, <3>3 DEF Take, Rest
    <3>4. CASE StoreBusy(n)
      BY <1>0, <3>4 DEF StoreBusy, Stage, Thread
    <3>5. CASE \E k \in Kinds : Manual(n, k)
      <4>1. PICK k \in Kinds : Manual(n, k)
        BY <3>5
      <4> QED BY <1>0, <4>1 DEF Manual, Rest
    <3> QED BY <1>2, <3>1, <3>2, <3>3, <3>4, <3>5, Zenon
  <2> QED BY <2>1, <2>2, Zenon DEF ServedInv
<1>3. ASSUME NEW n \in Nodes, Exit(n) \/ Crash(n) PROVE ServedInv'
  BY <1>3 DEF Exit, Crash, Gone, Rest, ServedInv
<1>4. CASE UNCHANGED vars
  BY <1>4, Zenon DEF vars, ServedInv
<1> QED BY <1>1, <1>2, <1>3, <1>4, Steps, ServedWork

(* At the start no slot is claimed or served.                              *)
LEMMA SlotInit == Init => ClaimInv /\ ServedInv
  BY DEF Init, ClaimInv, ServedInv, Known, Claimed, Down, None, Rest

(* No slot runs twice.  The executor asks the index again under the lock,  *)
(* so a slot has one scheduled run on record, whatever other replicas,     *)
(* restarted daemons, one-shot processes and manual runs do in between;    *)
(* and no daemon claims a slot again, although dispatch, the worker's      *)
(* record and a slow refresh all write the date it goes by (exec.go, Run;  *)
(* scheduler.go, dispatch, record and refresh).                            *)
THEOREM SlotsRunOnce == Spec => []OnePerSlot
<1>1. Types /\ LeaseInv /\ ClaimInv /\ ServedInv => OnePerSlot
  BY Zenon DEF ClaimInv, ServedInv, Claimed, OnePerSlot
<1> QED BY <1>1, TypeInit, TypeStep, LeaseInit, LeaseStep, SlotInit, ClaimStep, ServedStep, PTL
        DEF Spec

-----------------------------------------------------------------------------
(* Traces.  What dates a kind in the present slot left a trace in it, or   *)
(* is on its way to one in the process that claimed it.                    *)

Present(k, t) == t # 0 /\ Slot(k, t) = Slot(k, now)

OnItsWay(n, k) ==
    \/ node[n].chan = <<k>>
    \/ run[Worker(n)].pc # "idle" /\ run[Worker(n)].kind = k

TraceInv ==
    /\ \A k \in Kinds : Present(k, index[k]) => log[k] # {}
    /\ \A t \in Threads : run[t].pc \in {"release", "record"} => log[run[t].kind] # {}
    /\ \A n \in Nodes : \A k \in Kinds :
        /\ Present(k, node[n].seen[k]) => log[k] # {}
        /\ Present(k, node[n].last[k]) => log[k] # {} \/ OnItsWay(n, k)

(* Within a slot the log only grows, so a step of one process keeps the    *)
(* traces of the others; what it must see to is its own.                   *)
LEMMA TraceOne ==
  ASSUME TraceInv, NEW n \in Nodes, UNCHANGED <<now, index>>,
         \A k \in Kinds : log[k] # {} => log'[k] # {},
         \A m \in Nodes \ {n} : node'[m] = node[m] /\ run'[Worker(m)] = run[Worker(m)],
         \A t \in Threads : run'[t].pc \in {"release", "record"} => log'[run'[t].kind] # {},
         \A k \in Kinds :
            /\ Present(k, node'[n].seen[k]) => log'[k] # {}
            /\ Present(k, node'[n].last[k]) => log'[k] # {} \/ OnItsWay(n, k)'
  PROVE  TraceInv'
  BY DEF TraceInv, Present, OnItsWay

(* A loop that claims a slot passes the job on or says it was missed. *)
LEMMA TraceLoop ==
  ASSUME Types, TraceInv, NEW n \in Nodes,
         Start(n) \/ Fire(n) \/ RefreshRead(n) \/ Merge(n) \/ Dispatch(n) \/ Stop(n) \/ Close(n)
  PROVE  TraceInv'
<1>0. /\ node[n] \in Process /\ node \in [Nodes -> Process] /\ run \in [Threads -> Thread]
      /\ log \in [Kinds -> SUBSET {"ran", "failed", "missed", "locked", "notdue"}]
      /\ index \in [Kinds -> Nat]
  BY SMTT(30) DEF Types
<1>1. UNCHANGED <<now, index, run>>
  BY ZenonT(20) DEF Start, Fire, RefreshRead, Merge, Dispatch, Stop, Close
<1>2. ASSUME NEW r, Set(n, r), r.last = node[n].last, r.seen = node[n].seen, r.chan = node[n].chan,
             UNCHANGED log
      PROVE  TraceInv'
  <2>1. node'[n] = r /\ \A m \in Nodes \ {n} : node'[m] = node[m]
    BY <1>0, <1>2 DEF Set
  <2> QED BY <1>1, <1>2, <2>1, TraceOne, ZenonT(40) DEF TraceInv, OnItsWay
<1>3. ASSUME NEW r, Set(n, r), r.last = Down.last, r.seen = Down.seen, UNCHANGED log
      PROVE  TraceInv'
  <2>1. node'[n] = r /\ \A m \in Nodes \ {n} : node'[m] = node[m]
    BY <1>0, <1>3, Zenon DEF Set
  <2>2. \A k \in Kinds : node'[n].last[k] = 0 /\ node'[n].seen[k] = 0
    BY <1>3, <2>1, Zenon DEF Down
  <2> QED BY <1>1, <1>3, <2>1, <2>2, TraceOne, ZenonT(20) DEF TraceInv, Present
<1>4. CASE Start(n)
  <2>1. PICK mode, loop : Set(n, [Down EXCEPT !.mode = mode, !.loop = loop])
    BY <1>4, ZenonT(30) DEF Start
  <2>2. [Down EXCEPT !.mode = mode, !.loop = loop].last = Down.last
        /\ [Down EXCEPT !.mode = mode, !.loop = loop].seen = Down.seen
    BY SMTT(30) DEF Down
  <2> QED BY <1>3, <1>4, <2>1, <2>2, Zenon DEF Start
<1>5. CASE Fire(n)
  <2>1. PICK timers, loop : Set(n, [node[n] EXCEPT !.timers = timers, !.loop = loop])
    BY <1>5, Zenon DEF Fire
  <2> QED BY <1>0, <1>2, <1>5, <2>1, Zenon DEF Fire, Process
<1>6. CASE Stop(n) \/ Close(n)
  BY <1>0, <1>2, <1>6, Zenon DEF Stop, Close, Process
<1>7. CASE RefreshRead(n)
  <2>1. CASE Set(n, Down)
    BY <1>3, <1>7, <2>1 DEF RefreshRead
  <2>2. CASE Set(n, [node[n] EXCEPT !.loop = Tail(@)])
    BY <1>0, <1>2, <1>7, <2>2, Zenon DEF RefreshRead, Process
  <2>3. CASE Set(n, [node[n] EXCEPT !.loop = <<"merge">> \o Tail(@), !.seen = index])
    <3>1. /\ node'[n].last = node[n].last /\ node'[n].seen = index /\ node'[n].chan = node[n].chan
          /\ \A m \in Nodes \ {n} : node'[m] = node[m]
      BY <1>0, <2>3 DEF Set, Process
    <3>2. log' = log
      BY <1>7 DEF RefreshRead
    <3> QED BY <1>1, <3>1, <3>2, TraceOne, ZenonT(20) DEF TraceInv, OnItsWay
  <2> QED BY <1>7, <2>1, <2>2, <2>3 DEF RefreshRead
<1>8. CASE Merge(n)
  <2>1. /\ node'[n].last = [k \in Kinds |-> Later(node[n].last[k], node[n].seen[k])]
        /\ node'[n].seen = [k \in Kinds |-> 0] /\ node'[n].chan = node[n].chan
        /\ \A m \in Nodes \ {n} : node'[m] = node[m]
    BY <1>0, <1>8 DEF Merge, Set, Process, Down
  <2>2. log' = log
    BY <1>8, SMTT(30) DEF Merge
  <2>3. \A k \in Kinds : Present(k, node'[n].last[k]) => log[k] # {} \/ OnItsWay(n, k)
    BY <2>1, Zenon DEF TraceInv, Later
  <2>4. \A k \in Kinds : ~Present(k, node'[n].seen[k])
    BY <2>1, Zenon DEF Present
  <2>5. \A k \in Kinds : OnItsWay(n, k) => OnItsWay(n, k)'
    BY <1>1, <2>1, Zenon DEF OnItsWay
  <2>6. \A t \in Threads : run'[t].pc \in {"release", "record"} => log'[run'[t].kind] # {}
    BY <1>1, <2>2, Zenon DEF TraceInv
  <2> QED BY <1>1, <2>1, <2>2, <2>3, <2>4, <2>5, <2>6, TraceOne, ZenonT(30)
<1>9. CASE Dispatch(n)
  <2> DEFINE this == [node[n] EXCEPT !.loop = Tail(@)]
  <2>1. PICK k \in Kinds :
          /\ Facing(n, k)
          /\ \/ ~Due(k, node[n].last[k]) /\ Set(n, this) /\ UNCHANGED log
             \/ /\ Due(k, node[n].last[k])
                /\ IF node[n].chan # <<>> \/ (scene.overlap # "queue" /\ Busy(n))
                   THEN Set(n, Claim(this, k)) /\ Tell(k, "missed")
                   ELSE Set(n, [Claim(this, k) EXCEPT !.chan = <<k>>]) /\ UNCHANGED log
    BY <1>9, Zenon DEF Dispatch
  <2>2. CASE Set(n, this) /\ UNCHANGED log
    BY <1>0, <1>2, <2>2, ZenonT(20) DEF Process
  <2>3. CASE Set(n, Claim(this, k)) /\ Tell(k, "missed")
    <3>1. /\ \A j \in Kinds \ {k} : node'[n].last[j] = node[n].last[j]
          /\ node'[n].seen = node[n].seen /\ node'[n].chan = node[n].chan
          /\ \A m \in Nodes \ {n} : node'[m] = node[m]
      BY <1>0, <2>3 DEF Set, Process, Claim
    <3>2. log'[k] # {} /\ \A j \in Kinds \ {k} : log'[j] = log[j]
      BY <1>0, <2>3 DEF Tell
    <3>3. \A j \in Kinds : OnItsWay(n, j) => OnItsWay(n, j)'
      BY <1>1, <3>1, Zenon DEF OnItsWay
    <3>4. \A j \in Kinds : log[j] # {} => log'[j] # {}
      BY <3>2, Zenon
    <3>5. \A t \in Threads : run'[t].pc \in {"release", "record"} => log'[run'[t].kind] # {}
      BY <1>0, <1>1, <3>4, ZenonT(20) DEF TraceInv, Thread
    <3>6. \A j \in Kinds :
            /\ Present(j, node'[n].seen[j]) => log'[j] # {}
            /\ Present(j, node'[n].last[j]) => log'[j] # {} \/ OnItsWay(n, j)'
      BY <3>1, <3>2, <3>3, Zenon DEF TraceInv
    <3> QED BY <1>1, <3>1, <3>4, <3>5, <3>6, TraceOne, Zenon
  <2>4. CASE node[n].chan = <<>> /\ Set(n, [Claim(this, k) EXCEPT !.chan = <<k>>]) /\ UNCHANGED log
    <3>1. /\ \A j \in Kinds \ {k} : node'[n].last[j] = node[n].last[j]
          /\ node'[n].seen = node[n].seen /\ node'[n].chan = <<k>>
          /\ \A m \in Nodes \ {n} : node'[m] = node[m]
      BY <1>0, <2>4 DEF Set, Process, Claim
    <3>2. \A j \in Kinds : node[n].chan # <<j>>
      BY <2>4
    <3> QED BY <1>1, <2>4, <3>1, <3>2, TraceOne, ZenonT(20) DEF TraceInv, OnItsWay
  <2> QED BY <2>1, <2>2, <2>3, <2>4
<1> QED BY <1>4, <1>5, <1>6, <1>7, <1>8, <1>9

(* A worker that takes a job from the channel keeps it on its way. *)
LEMMA TraceStart ==
  ASSUME Types, TraceInv, NEW n \in Nodes,
         RunOnce(n) \/ Take(n) \/ StoreBusy(n) \/ (\E k \in Kinds : Manual(n, k))
  PROVE  TraceInv'
<1>0. /\ node[n] \in Process /\ node \in [Nodes -> Process] /\ run \in [Threads -> Thread]
      /\ run[Worker(n)] \in Thread /\ Worker(n) \in Threads /\ <<n, "ui">> \in Threads
  BY DEF Types
<1>1. UNCHANGED <<now, index, log>>
  BY DEF RunOnce, Take, StoreBusy, Manual
<1>2. CASE RunOnce(n)
  <2>1. \/ /\ node'[n].last = node[n].last /\ node'[n].seen = node[n].seen
           /\ node'[n].chan = node[n].chan
        \/ node'[n].last = [k \in Kinds |-> 0] /\ node'[n].seen = [k \in Kinds |-> 0]
    <3>1. CASE Set(n, Down)
      BY <1>0, <3>1, Zenon DEF Set, Down
    <3>2. CASE Set(n, [node[n] EXCEPT !.loop = Tail(@)])
      BY <1>0, <3>2 DEF Set, Process
    <3> QED BY <1>2, <3>1, <3>2, Zenon DEF RunOnce
  <2>2. \A m \in Nodes \ {n} : node'[m] = node[m]
    BY <1>0, <1>2, Zenon DEF RunOnce, Set
  <2>3. PICK kd : run' = [run EXCEPT ![Worker(n)] = [Rest EXCEPT !.pc = "acquire", !.kind = kd]]
                  \/ run' = run
    BY <1>2, Zenon DEF RunOnce
  <2>4. /\ \A t \in Threads \ {Worker(n)} : run'[t] = run[t]
        /\ run'[Worker(n)].pc \in {"acquire", "idle"} /\ run[Worker(n)].pc = "idle"
    BY <1>0, <1>2, <2>3, ZenonT(20) DEF RunOnce, Rest
  <2>5. \A k \in Kinds :
          /\ Present(k, node'[n].seen[k]) => log'[k] # {}
          /\ Present(k, node'[n].last[k]) => log'[k] # {} \/ OnItsWay(n, k)'
    BY <1>1, <2>1, <2>4, Zenon DEF TraceInv, OnItsWay, Present
  <2> QED BY <1>1, <2>2, <2>4, <2>5, TraceOne, SMTT(30) DEF TraceInv
<1>3. CASE Take(n)
  <2>1. /\ node'[n].last = node[n].last /\ node'[n].seen = node[n].seen
        /\ \A m \in Nodes \ {n} : node'[m] = node[m]
    BY <1>0, <1>3 DEF Take, Set, Process
  <2>2. /\ \A t \in Threads \ {Worker(n)} : run'[t] = run[t]
        /\ run'[Worker(n)].pc = "took" /\ run'[Worker(n)].kind = Head(node[n].chan)
        /\ run[Worker(n)].pc = "idle"
    BY <1>0, <1>3, SMTT(30) DEF Take, Rest
  <2>3. \A k \in Kinds : OnItsWay(n, k) => OnItsWay(n, k)'
    BY <2>2 DEF OnItsWay
  <2>4. \A t \in Threads : run'[t].pc \in {"release", "record"} => log'[run'[t].kind] # {}
    BY <1>1, <2>2, SMTT(30) DEF TraceInv
  <2>5. \A k \in Kinds :
          /\ Present(k, node'[n].seen[k]) => log'[k] # {}
          /\ Present(k, node'[n].last[k]) => log'[k] # {} \/ OnItsWay(n, k)'
    BY <1>1, <2>1, <2>3, Zenon DEF TraceInv
  <2> QED BY <1>1, <2>1, <2>2, <2>4, <2>5, TraceOne, Zenon
<1>4. CASE StoreBusy(n)
  <2>1. /\ \A t \in Threads \ {Worker(n)} : run'[t] = run[t]
        /\ run'[Worker(n)].pc = "acquire" /\ run'[Worker(n)].kind = run[Worker(n)].kind
        /\ node' = node
    BY <1>0, <1>4 DEF StoreBusy, Stage, Thread
  <2>2. run[Worker(n)].pc # "idle"
    BY <1>4, Zenon DEF StoreBusy
  <2>3. \A t \in Threads : run'[t].pc \in {"release", "record"} => log'[run'[t].kind] # {}
    BY <1>1, <2>1, Zenon DEF TraceInv
  <2>4. \A j \in Kinds :
          /\ Present(j, node'[n].seen[j]) => log'[j] # {}
          /\ Present(j, node'[n].last[j]) => log'[j] # {} \/ OnItsWay(n, j)'
    BY <1>1, <2>1, <2>2, Zenon DEF TraceInv, OnItsWay
  <2> QED BY <1>1, <2>1, <2>3, <2>4, TraceOne, ZenonT(40)
<1>5. ASSUME NEW k \in Kinds, Manual(n, k) PROVE TraceInv'
  <2>1. /\ \A t \in Threads \ {<<n, "ui">>} : run'[t] = run[t]
        /\ run'[<<n, "ui">>].pc = "acquire" /\ node' = node
    BY <1>0, <1>5, SMTT(30) DEF Manual, Rest
  <2>2. \A t \in Threads : run'[t].pc \in {"release", "record"} => log'[run'[t].kind] # {}
    BY <1>1, <2>1, Zenon DEF TraceInv
  <2>3. \A j \in Kinds :
          /\ Present(j, node'[n].seen[j]) => log'[j] # {}
          /\ Present(j, node'[n].last[j]) => log'[j] # {} \/ OnItsWay(n, j)'
    BY <1>0, <1>1, <2>1, ZenonT(30) DEF TraceInv, OnItsWay
  <2> QED BY <1>1, <2>1, <2>2, <2>3, TraceOne, Zenon
<1> QED BY <1>2, <1>3, <1>4, <1>5

(* A run ends with a word in the log, whatever became of it. *)
LEMMA TraceWork ==
  ASSUME Types, TraceInv, NEW t \in Threads, Work(t)
  PROVE  TraceInv'
<1> DEFINE k == run[t].kind
           n == t[1]
<1>0. /\ node \in [Nodes -> Process] /\ run \in [Threads -> Thread] /\ run[t] \in Thread
      /\ log \in [Kinds -> SUBSET {"ran", "failed", "missed", "locked", "notdue"}]
      /\ index \in [Kinds -> Nat] /\ k \in Kinds /\ n \in Nodes
  BY Zenon DEF Types, Thread
<1>1. now' = now
  BY Zenon DEF Work, Acquire, Recheck, Finish, Release, Record
<1>s. ASSUME run'[t].kind = k, run'[t].pc # "idle", run[t].pc # "idle",
             \A u \in Threads \ {t} : run'[u] = run[u],
             node' = node, \A j \in Kinds : index'[j] = index[j] \/ log'[j] # {},
             \A j \in Kinds : log[j] # {} => log'[j] # {},
             run'[t].pc \in {"release", "record"} => log'[k] # {}
      PROVE  TraceInv'
  <2>1. \A j \in Kinds : Present(j, index[j])' => log'[j] # {}
    BY <1>1, <1>s DEF TraceInv, Present
  <2>2. \A u \in Threads : run'[u].pc \in {"release", "record"} => log'[run'[u].kind] # {}
    <3> SUFFICES ASSUME NEW u \in Threads, run'[u].pc \in {"release", "record"}
                 PROVE  log'[run'[u].kind] # {}
      OBVIOUS
    <3>1. CASE u = t
      BY <1>s, <3>1, Zenon
    <3>2. CASE u # t
      <4>1. run'[u] = run[u] /\ run[u].kind \in Kinds /\ log[run[u].kind] # {}
        BY <1>0, <1>s, <3>2, Zenon DEF TraceInv, Thread
      <4> QED BY <1>s, <4>1, Zenon
    <3> QED BY <3>1, <3>2
  <2>3. \A m \in Nodes : \A j \in Kinds : OnItsWay(m, j) => OnItsWay(m, j)'
    BY <1>s, Zenon DEF OnItsWay
  <2>4. \A m \in Nodes : \A j \in Kinds :
          /\ Present(j, node[m].seen[j])' => log'[j] # {}
          /\ Present(j, node[m].last[j])' => log'[j] # {} \/ OnItsWay(m, j)'
    BY <1>1, <1>s, <2>3, Zenon DEF TraceInv, Present
  <2> QED BY <2>1, <2>2, <2>4, ZenonT(20) DEF TraceInv
<1>g. ASSUME NEW pc, Stage(t, pc)
      PROVE  run'[t].pc = pc /\ run'[t].kind = k /\ \A u \in Threads \ {t} : run'[u] = run[u]
  BY <1>0, <1>g DEF Stage, Thread
<1>t. ASSUME NEW what, Tell(k, what)
      PROVE  log'[k] # {} /\ \A j \in Kinds : log[j] # {} => log'[j] # {}
  BY <1>0, <1>t, Zenon DEF Tell
<1>2. CASE Acquire(t)
  <2>1. node' = node /\ index' = index /\ run[t].pc # "idle"
    BY <1>2, Zenon DEF Acquire
  <2>2. CASE Stage(t, "recheck") /\ UNCHANGED log
    BY <1>g, <1>s, <2>1, <2>2, SMTT(30)
  <2>3. CASE Stage(t, "record") /\ (Tell(k, "locked") \/ Tell(k, "failed"))
    BY <1>g, <1>s, <1>t, <2>1, <2>3
  <2> QED BY <1>2, <2>2, <2>3, Zenon DEF Acquire
<1>3. CASE Recheck(t)
  <2>1. node' = node /\ index' = index /\ run[t].pc # "idle"
    BY <1>3 DEF Recheck
  <2>2. CASE run' = [run EXCEPT ![t].pc = "work", ![t].slot = Slot(k, now)] /\ UNCHANGED log
    <3>1. /\ run'[t].pc = "work" /\ run'[t].kind = k
          /\ \A u \in Threads \ {t} : run'[u] = run[u]
      BY <1>0, <2>2 DEF Thread
    <3> QED BY <1>s, <2>1, <2>2, <3>1, ZenonT(20)
  <2>3. CASE Stage(t, "release") /\ (Tell(k, "notdue") \/ Tell(k, "failed"))
    BY <1>g, <1>s, <1>t, <2>1, <2>3
  <2> QED BY <1>3, <2>2, <2>3 DEF Recheck
<1>4. CASE Finish(t)
  <2>1. node' = node /\ run[t].pc # "idle" /\ Stage(t, "release")
    BY <1>4 DEF Finish
  <2>2. (Tell(k, "ran") \/ Tell(k, "failed")) /\ \A j \in Kinds \ {k} : index'[j] = index[j]
    BY <1>0, <1>4, Zenon DEF Finish, OnRecord, OffRecord
  <2> QED BY <1>g, <1>s, <1>t, <2>1, <2>2
<1>5. CASE Release(t)
  <2>1. node' = node /\ index' = index /\ log' = log /\ run[t].pc = "release" /\ Stage(t, "record")
    BY <1>5 DEF Release
  <2>2. log[k] # {}
    BY <2>1, Zenon DEF TraceInv
  <2> QED BY <1>g, <1>s, <2>1, <2>2
<1>6. CASE Record(t)
  <2>1. /\ run[t].pc = "record" /\ index' = index /\ log' = log
        /\ run'[t].pc = "idle" /\ \A u \in Threads \ {t} : run'[u] = run[u]
    BY <1>0, <1>6 DEF Record, Rest
  <2>2. log[k] # {}
    BY <2>1, Zenon DEF TraceInv
  <2>3. /\ \A m \in Nodes \ {n} : node'[m] = node[m]
        /\ node'[n].chan = node[n].chan /\ node'[n].seen = node[n].seen
        /\ \A j \in Kinds \ {k} : node'[n].last[j] = node[n].last[j]
    <3>1. node[n] \in Process
      BY <1>0
    <3> QED BY <1>0, <1>6, <3>1, Zenon DEF Record, Process
  <2>4. \A j \in Kinds : OnItsWay(n, j) => OnItsWay(n, j)' \/ j = k
    BY <2>1, <2>3, Zenon DEF OnItsWay
  <2>5. \A u \in Threads : run'[u].pc \in {"release", "record"} => log'[run'[u].kind] # {}
    BY <2>1 DEF TraceInv
  <2>6. \A m \in Nodes \ {n} : <<m, "worker">> # t /\ <<m, "worker">> \in Threads
    BY <1>0, SMTT(30)
  <2>7. \A j \in Kinds :
          /\ Present(j, node'[n].seen[j]) => log'[j] # {}
          /\ Present(j, node'[n].last[j]) => log'[j] # {} \/ OnItsWay(n, j)'
    BY <2>1, <2>2, <2>3, <2>4, ZenonT(30) DEF TraceInv
  <2> HIDE DEF n
  <2> QED BY <1>0, <1>1, <2>1, <2>3, <2>5, <2>6, <2>7, TraceOne, ZenonT(20)
<1> QED BY <1>2, <1>3, <1>4, <1>5, <1>6 DEF Work

(* A new slot begins without a trace, and nothing is dated in it yet. *)
LEMMA TraceAdvance ==
  ASSUME Types, ClaimInv, TraceInv, Advance
  PROVE  TraceInv'
<1>0. /\ node \in [Nodes -> Process] /\ now \in Nat /\ index \in [Kinds -> Nat]
      /\ now' = now + 1 /\ index' = index /\ run' = run
  BY DEF Types, Advance
<1>1. ASSUME NEW k \in Kinds, NEW a \in Nat, a <= now, Present(k, a)'
      PROVE  Present(k, a) /\ log'[k] = log[k]
  <2>1. /\ Slot(k, a) <= Slot(k, now) /\ Slot(k, now) <= Slot(k, now')
        /\ Slot(k, a) \in Nat /\ Slot(k, now) \in Nat /\ Slot(k, now') \in Nat
    <3>1. now' \in Nat /\ now <= now'
      BY <1>0
    <3> QED BY <1>0, <1>1, <3>1, SlotMonotone, SlotBounds, Zenon
  <2>2. a # 0 /\ Slot(k, a) = Slot(k, now')
    BY <1>1 DEF Present
  <2>3. Slot(k, now') = Slot(k, now)
    BY <2>1, <2>2
  <2> QED BY <2>2, <2>3 DEF Present, Advance
<1>2. ASSUME NEW n \in Nodes
      PROVE  /\ node'[n].last = node[n].last /\ node'[n].seen = node[n].seen
             /\ node'[n].chan = node[n].chan /\ node[n] \in Process
  <2>1. node[n] \in Process
    BY <1>0
  <2> QED BY <2>1 DEF Advance, Process
<1>3. ASSUME NEW k \in Kinds PROVE Present(k, index[k])' => log'[k] # {}
  <2>1. index[k] \in Nat /\ index[k] <= now
    BY <1>0 DEF ClaimInv
  <2> QED BY <1>0, <1>1, <2>1, Zenon DEF TraceInv
<1>4. \A t \in Threads : run'[t].pc \in {"release", "record"} => log'[run'[t].kind] # {}
  BY <1>0, SMTT(30) DEF Advance, Quiet
<1>5. ASSUME NEW n \in Nodes, NEW k \in Kinds
      PROVE  /\ Present(k, node[n].seen[k])' => log'[k] # {}
             /\ Present(k, node[n].last[k])' => log'[k] # {} \/ OnItsWay(n, k)'
  <2>1. /\ node[n].seen[k] \in Nat /\ node[n].seen[k] <= now
        /\ node[n].last[k] \in Nat /\ node[n].last[k] <= now
    BY <1>2 DEF ClaimInv, Known, Process
  <2>2. OnItsWay(n, k) => OnItsWay(n, k)'
    BY <1>0, <1>2, Zenon DEF OnItsWay
  <2>3. Present(k, node[n].seen[k])' => Present(k, node[n].seen[k]) /\ log'[k] = log[k]
    BY <1>1, <1>2, <2>1, Zenon DEF Present
  <2>4. Present(k, node[n].last[k])' => Present(k, node[n].last[k]) /\ log'[k] = log[k]
    BY <1>1, <1>2, <2>1, Zenon DEF Present
  <2> QED BY <2>2, <2>3, <2>4, Zenon DEF TraceInv
<1> QED BY <1>3, <1>4, <1>5, Zenon DEF TraceInv

(* Every step keeps a trace of every run that was started: on record, or   *)
(* on its way there.                                                       *)
LEMMA TraceStep == Types /\ ClaimInv /\ TraceInv /\ [Next]_vars => TraceInv'
<1> SUFFICES ASSUME Types, ClaimInv, TraceInv, [Next]_vars PROVE TraceInv'
  BY SMTT(30)
<1>1. ASSUME NEW n \in Nodes, Exit(n) \/ Crash(n) PROVE TraceInv'
  <2>1. node \in [Nodes -> Process] /\ run \in [Threads -> Thread]
    BY SMTT(30) DEF Types
  <2>2. Gone(n) /\ UNCHANGED <<now, index, log>>
    BY <1>1, Zenon DEF Exit, Crash, Gone
  <2>3. /\ \A k \in Kinds : node'[n].last[k] = 0 /\ node'[n].seen[k] = 0
        /\ \A m \in Nodes \ {n} : node'[m] = node[m]
    BY <2>1, <2>2, Zenon DEF Gone, Set, Down
  <2>4. \A t \in Threads : IF t[1] = n THEN run'[t].pc = "idle" ELSE run'[t] = run[t]
    BY <2>2, Zenon DEF Gone, Rest
  <2>5. \A t \in Threads : run'[t].pc \in {"release", "record"} => log'[run'[t].kind] # {}
    BY <2>2, <2>4, Zenon DEF TraceInv
  <2>6. \A m \in Nodes \ {n} : run'[Worker(m)] = run[Worker(m)]
    BY <2>4, SMTT(30)
  <2>7. \A k \in Kinds : ~Present(k, node'[n].seen[k]) /\ ~Present(k, node'[n].last[k])
    BY <2>3, Zenon DEF Present
  <2> QED BY <2>2, <2>3, <2>5, <2>6, <2>7, TraceOne
<1>2. CASE UNCHANGED vars
  BY <1>2, Zenon DEF vars, TraceInv, Present, OnItsWay
<1> QED BY <1>1, <1>2, Steps, TraceLoop, TraceStart, TraceWork, TraceAdvance

(* A daemon has looked at a job since its ticker last fired, or will: the  *)
(* job is ahead of its loop.                                               *)
Ahead(s, k) == \E i \in DOMAIN s : s[i] = k

Looked(r) ==
    r.mode = "daemon" =>
        \A k \in Scheduled : "tick" \in r.timers \/ Ahead(r.loop, k) \/ ~Due(k, r.last[k])

LookedInv == \A n \in Nodes : Looked(node[n])

(* A loop that takes one task off has the rest still ahead. *)
LEMMA AheadTail ==
  ASSUME NEW s \in Seq(Tasks), s # <<>>, NEW k, Ahead(s, k), Head(s) # k
  PROVE  Ahead(Tail(s), k) /\ Ahead(<<"merge">> \o Tail(s), k)
<1>1. PICK i \in 1..Len(s) : s[i] = k
  BY DEF Ahead
<1>2. i # 1 /\ i - 1 \in 1..Len(Tail(s)) /\ Tail(s)[i - 1] = k /\ Tail(s) \in Seq(Tasks)
  BY <1>1
<1>3. i \in 1..Len(<<"merge">> \o Tail(s)) /\ (<<"merge">> \o Tail(s))[i] = k
  BY <1>1, <1>2
<1>4. <<"merge">> \o Tail(s) \in Seq(Tasks) /\ Tail(s) \in Seq(Tasks)
  BY <1>2 DEF Tasks
<1>5. Ahead(Tail(s), k)
  <2>1. DOMAIN Tail(s) = 1..Len(Tail(s))
    BY <1>4
  <2> QED BY <1>2, <2>1, Zenon DEF Ahead
<1>6. DOMAIN (<<"merge">> \o Tail(s)) = 1..Len(<<"merge">> \o Tail(s))
  BY <1>4
<1>7. Ahead(<<"merge">> \o Tail(s), k)
  BY <1>3, <1>6, Zenon DEF Ahead
<1> QED BY <1>5, <1>7

(* Nothing is ahead in an empty pass of the loop.                          *)
LEMMA AheadNone == \A k : ~Ahead(<<>>, k)
<1>1. <<>> \in Seq(Tasks) /\ Len(<<>>) = 0
  OBVIOUS
<1>2. DOMAIN <<>> = 1..0
  BY <1>1
<1> QED BY <1>2 DEF Ahead

(* Every scheduled kind is ahead of a loop that has all jobs to look at. *)
LEMMA AheadJobs ==
  ASSUME scene \in Scenario, NEW k \in Scheduled
  PROVE  Ahead(Jobs, k) /\ Ahead(<<"refresh">> \o Jobs, k) /\ k \in Kinds
<1>1. PICK i \in DOMAIN Jobs : Jobs[i] = k
  BY DEF Scheduled, Jobs
<1>2. Jobs \in Seq(Kinds)
  BY JobsType
<1> HIDE DEF Jobs
<1>3. i + 1 \in 1..Len(<<"refresh">> \o Jobs) /\ (<<"refresh">> \o Jobs)[i + 1] = k
  BY <1>1, <1>2
<1> QED BY <1>1, <1>2, <1>3 DEF Ahead

(* What a process knows only grows, so a job that is not due stays so      *)
(* within a tick; one that was dated now is not due.                       *)
LEMMA NotDue ==
  ASSUME now \in Nat, now # 0, NEW k \in Kinds
  PROVE  /\ ~Due(k, now)
         /\ \A a, b \in Nat : a <= b /\ ~Due(k, a) => ~Due(k, b)
<1>1. ~Due(k, now)
  BY NextSlot, SlotBounds, SMTT(30) DEF Due
<1>2. ASSUME NEW a \in Nat, NEW b \in Nat, a <= b, ~Due(k, a) PROVE ~Due(k, b)
  <2>1. /\ Slot(k, a) <= Slot(k, b) /\ ~(Slot(k, a) < Slot(k, now))
        /\ Slot(k, a) \in Nat /\ Slot(k, b) \in Nat /\ Slot(k, now) \in Nat
    BY <1>2, NextSlot, SlotBounds, SlotMonotone, Zenon DEF Due
  <2>2. ~(Slot(k, b) < Slot(k, now)) /\ b # 0
    BY <1>2, <2>1 DEF Due
  <2> QED BY <2>2, NextSlot DEF Due
<1> QED BY <1>1, <1>2

(* A step of one process within a tick. *)
LEMMA LookedOne ==
  ASSUME LookedInv, NEW n \in Nodes, now' = now, scene'.jobs = scene.jobs,
         \A m \in Nodes \ {n} : node'[m] = node[m], Looked(node'[n])
  PROVE  LookedInv'
  BY DEF LookedInv, Looked, Scheduled, Due

(* Every step of the loop of a daemon keeps what it has looked at.         *)
LEMMA LookedLoop ==
  ASSUME Types, ClaimInv, LookedInv, NEW n \in Nodes,
         \/ Start(n) \/ Fire(n) \/ RefreshRead(n) \/ Merge(n) \/ Dispatch(n) \/ Stop(n) \/ Close(n)
         \/ RunOnce(n) \/ Take(n)
  PROVE  LookedInv'
<1>0. /\ node[n] \in Process /\ node \in [Nodes -> Process] /\ now \in Nat /\ now # 0
      /\ scene \in Scenario /\ Looked(node[n])
  BY Zenon DEF Types, ClaimInv, LookedInv
<1>1. now' = now /\ scene'.jobs = scene.jobs
  BY <1>0, SpendTypes, ZenonT(40) DEF Start, Fire, RefreshRead, Merge, Dispatch, Stop, Close, RunOnce, Take, Fails
<1>2. ASSUME NEW r, Set(n, r), Looked(r) PROVE LookedInv'
  <2>1. node'[n] = r /\ \A m \in Nodes \ {n} : node'[m] = node[m]
    BY <1>0, <1>2 DEF Set
  <2> QED BY <1>1, <1>2, <2>1, LookedOne, Zenon
<1>3. Looked(Down)
  BY Zenon DEF Looked, Down
<1>4. \A k \in Scheduled : k \in Kinds /\ k # "refresh" /\ k # "merge"
  BY <1>0, AheadJobs
<1>5. CASE Start(n)
  <2>1. Looked([Down EXCEPT !.mode = "daemon", !.loop = <<"refresh">> \o Jobs])
    BY <1>0, AheadJobs DEF Looked, Down
  <2>2. Looked([Down EXCEPT !.mode = "once", !.loop = <<"refresh">> \o Jobs])
    BY SMTT(30) DEF Looked, Down
  <2> QED BY <1>2, <1>5, <2>1, <2>2 DEF Start
<1>6. CASE Fire(n)
  <2>1. PICK timer \in node[n].timers :
          Set(n, [node[n] EXCEPT !.timers = @ \ {timer},
                                 !.loop = IF timer = "tick" THEN Jobs ELSE <<"refresh">>])
    BY <1>6, Zenon DEF Fire
  <2> DEFINE r == [node[n] EXCEPT !.timers = @ \ {timer},
                                  !.loop = IF timer = "tick" THEN Jobs ELSE <<"refresh">>]
  <2>2. /\ r.mode = node[n].mode /\ r.last = node[n].last /\ r.timers = node[n].timers \ {timer}
        /\ r.loop = IF timer = "tick" THEN Jobs ELSE <<"refresh">>
    BY <1>0 DEF Process
  <2> HIDE DEF r
  <2>3. CASE timer = "tick"
    <3>1. Looked(r)
      BY <1>0, <2>2, <2>3, AheadJobs, Zenon DEF Looked
    <3> QED BY <1>2, <2>1, <3>1, SMTT(30) DEF r
  <2>4. CASE timer # "tick"
    <3>1. \A k : ~Ahead(node[n].loop, k)
      BY <1>6, AheadNone, ZenonT(20) DEF Fire
    <3>2. Looked(r)
      <4>1. "tick" \in node[n].timers => "tick" \in r.timers
        BY <2>2, <2>4, Zenon
      <4> QED BY <1>0, <2>2, <3>1, <4>1, Zenon DEF Looked
    <3> QED BY <1>2, <2>1, <3>2 DEF r
  <2> QED BY <2>3, <2>4, Zenon
<1>t. ASSUME NEW r, r.mode = node[n].mode, r.timers = node[n].timers, r.last = node[n].last,
             node[n].loop # <<>>, Head(node[n].loop) \in {"refresh", "merge"},
             r.loop = Tail(node[n].loop) \/ r.loop = <<"merge">> \o Tail(node[n].loop)
      PROVE  Looked(r)
  <2>1. \A k \in Scheduled : Ahead(node[n].loop, k) => Ahead(r.loop, k)
    <3> SUFFICES ASSUME NEW k \in Scheduled, Ahead(node[n].loop, k) PROVE Ahead(r.loop, k)
      BY Zenon
    <3>1. node[n].loop \in Seq(Tasks) /\ Head(node[n].loop) # k
      BY <1>0, <1>4, <1>t, Zenon DEF Process
    <3> QED BY <1>t, <3>1, AheadTail, ZenonT(20)
  <2> QED BY <1>0, <1>t, <2>1, Zenon DEF Looked
<1>7. CASE RefreshRead(n)
  <2>1. CASE Set(n, Down)
    BY <1>2, <1>3, <2>1
  <2>2. CASE Set(n, [node[n] EXCEPT !.loop = Tail(@)])
    BY <1>0, <1>2, <1>7, <1>t, <2>2, Zenon DEF RefreshRead, Facing, Process
  <2>3. CASE Set(n, [node[n] EXCEPT !.loop = <<"merge">> \o Tail(@), !.seen = index])
    BY <1>0, <1>2, <1>7, <1>t, <2>3, Zenon DEF RefreshRead, Facing, Process
  <2> QED BY <1>7, <2>1, <2>2, <2>3 DEF RefreshRead
<1>8. CASE Merge(n)
  <2> DEFINE q == [node[n] EXCEPT !.loop = Tail(@)]
             r == [node[n] EXCEPT !.loop = Tail(@),
                                  !.last = [k \in Kinds |-> Later(@[k], node[n].seen[k])],
                                  !.seen = Down.seen]
  <2>1. Looked(q)
    BY <1>0, <1>8, <1>t, ZenonT(20) DEF Merge, Facing, Process
  <2>2. /\ r.mode = q.mode /\ r.timers = q.timers /\ r.loop = q.loop
        /\ r.last = [k \in Kinds |-> Later(q.last[k], node[n].seen[k])]
        /\ q.last \in [Kinds -> Nat] /\ node[n].seen \in [Kinds -> Nat]
    BY <1>0 DEF Process
  <2> HIDE DEF q, r
  <2>3. ASSUME NEW k \in Kinds
        PROVE  q.last[k] \in Nat /\ r.last[k] \in Nat /\ q.last[k] <= r.last[k]
    <3>1. q.last[k] \in Nat /\ node[n].seen[k] \in Nat
      BY <2>2, Zenon
    <3>2. r.last[k] = Later(q.last[k], node[n].seen[k])
      BY <2>2, Zenon
    <3> QED BY <3>1, <3>2 DEF Later
  <2>4. Looked(r)
    BY <1>0, <1>4, <2>1, <2>2, <2>3, NotDue, Zenon DEF Looked
  <2> QED BY <1>2, <1>8, <2>4 DEF Merge, r
<1>9. CASE Dispatch(n)
  <2> DEFINE this == [node[n] EXCEPT !.loop = Tail(@)]
  <2>1. PICK k \in Kinds :
          /\ Facing(n, k)
          /\ \/ ~Due(k, node[n].last[k]) /\ Set(n, this) /\ UNCHANGED log
             \/ /\ Due(k, node[n].last[k])
                /\ IF node[n].chan # <<>> \/ (scene.overlap # "queue" /\ Busy(n))
                   THEN Set(n, Claim(this, k)) /\ Tell(k, "missed")
                   ELSE Set(n, [Claim(this, k) EXCEPT !.chan = <<k>>]) /\ UNCHANGED log
    BY <1>9, Zenon DEF Dispatch
  <2>2. ASSUME NEW r, r.mode = node[n].mode, r.timers = node[n].timers,
               r.loop = Tail(node[n].loop), ~Due(k, r.last[k]),
               \A j \in Kinds \ {k} : r.last[j] = node[n].last[j]
        PROVE  Looked(r)
    <3>1. \A j \in Scheduled : Ahead(node[n].loop, j) /\ j # k => Ahead(r.loop, j)
      BY <1>0, <1>4, <2>1, <2>2, AheadTail DEF Process, Facing
    <3> QED BY <1>0, <1>4, <2>2, <3>1, Zenon DEF Looked
  <2>3. CASE ~Due(k, node[n].last[k]) /\ Set(n, this)
    BY <1>0, <1>2, <2>2, <2>3, Zenon DEF Process
  <2>4. CASE Set(n, Claim(this, k))
    <3>1. /\ Claim(this, k).mode = node[n].mode /\ Claim(this, k).timers = node[n].timers
          /\ Claim(this, k).loop = Tail(node[n].loop) /\ Claim(this, k).last[k] = now
          /\ \A j \in Kinds \ {k} : Claim(this, k).last[j] = node[n].last[j]
      BY <1>0 DEF Process, Claim
    <3> QED BY <1>0, <1>2, <2>2, <2>4, <3>1, NotDue, Zenon
  <2>5. CASE Set(n, [Claim(this, k) EXCEPT !.chan = <<k>>])
    <3> DEFINE r == [Claim(this, k) EXCEPT !.chan = <<k>>]
    <3>1. /\ r.mode = node[n].mode /\ r.timers = node[n].timers
          /\ r.loop = Tail(node[n].loop) /\ r.last[k] = now
          /\ \A j \in Kinds \ {k} : r.last[j] = node[n].last[j]
      BY <1>0 DEF Process, Claim
    <3> QED BY <1>0, <1>2, <2>2, <2>5, <3>1, NotDue, Zenon
  <2> QED BY <2>1, <2>3, <2>4, <2>5
<1>10. CASE Stop(n) \/ Close(n)
  BY <1>0, <1>2, <1>10 DEF Stop, Close, Process, Looked
<1>11. CASE RunOnce(n)
  BY <1>0, <1>2, <1>3, <1>11, Zenon DEF RunOnce, Process, Looked
<1>12. CASE Take(n)
  BY <1>0, <1>2, <1>12, Zenon DEF Take, Process, Looked
<1> QED BY <1>5, <1>6, <1>7, <1>8, <1>9, <1>10, <1>11, <1>12, Zenon

(* Every step keeps what the loop has looked at.                           *)
LEMMA LookedStep == Types /\ ClaimInv /\ LookedInv /\ [Next]_vars => LookedInv'
<1> SUFFICES ASSUME Types, ClaimInv, LookedInv, [Next]_vars PROVE LookedInv'
  OBVIOUS
<1>0. node \in [Nodes -> Process] /\ run \in [Threads -> Thread] /\ scene \in Scenario
      /\ now \in Nat /\ now # 0
  BY Zenon DEF Types, ClaimInv
<1>1. CASE Advance
  <2>1. ASSUME NEW n \in Nodes PROVE node'[n].mode = "daemon" => "tick" \in node'[n].timers
    <3>1. node[n] \in Process
      BY <1>0, SMTT(30)
    <3> QED BY <1>1, <3>1 DEF Advance, Process
  <2> QED BY <2>1, Zenon DEF LookedInv, Looked
<1>2. ASSUME NEW n \in Nodes, StoreBusy(n) \/ (\E k \in Kinds : Manual(n, k)) PROVE LookedInv'
  <2>1. node' = node /\ now' = now /\ scene'.jobs = scene.jobs
    BY <1>0, <1>2, SpendTypes DEF StoreBusy, Manual
  <2> QED BY <2>1, Zenon DEF LookedInv, Looked, Scheduled, Due
<1>3. ASSUME NEW n \in Nodes, Exit(n) \/ Crash(n) PROVE LookedInv'
  <2>1. Set(n, Down) /\ now' = now /\ scene'.jobs = scene.jobs
    BY <1>0, <1>3, SpendTypes, Zenon DEF Exit, Crash, Gone
  <2>2. node'[n] = Down /\ \A m \in Nodes \ {n} : node'[m] = node[m]
    BY <1>0, <2>1, Zenon DEF Set
  <2>3. Looked(Down)
    BY Zenon DEF Looked, Down
  <2> QED BY <2>1, <2>2, <2>3, LookedOne, Zenon
<1>4. ASSUME NEW t \in Threads, Work(t) PROVE LookedInv'
  <2>1. now' = now /\ scene'.jobs = scene.jobs
    BY <1>0, <1>4, SpendTypes, Zenon DEF Work, Acquire, Recheck, Finish, Release, Record, Fails
  <2>2. CASE node' = node
    BY <2>1, <2>2, ZenonT(30) DEF LookedInv, Looked, Scheduled, Due
  <2>3. CASE Record(t) /\ node' # node
    <3> DEFINE n == t[1]
               k == run[t].kind
    <3>1. n \in Nodes /\ k \in Kinds /\ node[n] \in Process
      BY <1>0 DEF Thread
    <3>2. /\ \A m \in Nodes \ {n} : node'[m] = node[m]
          /\ node'[n].mode = node[n].mode /\ node'[n].timers = node[n].timers
          /\ node'[n].loop = node[n].loop /\ node'[n].last[k] = now
          /\ \A j \in Kinds \ {k} : node'[n].last[j] = node[n].last[j]
      BY <1>0, <2>3, <3>1, Zenon DEF Record, Process
    <3>3. \A j \in Scheduled : j \in Kinds
      BY <1>0, AheadJobs, SMTT(30)
    <3> HIDE DEF n, k
    <3>4. Looked(node'[n])
      BY <1>0, <3>1, <3>2, <3>3, NotDue, ZenonT(20) DEF LookedInv, Looked
    <3> QED BY <2>1, <3>1, <3>2, <3>4, LookedOne, Zenon
  <2> QED BY <1>4, <2>2, <2>3 DEF Work, Acquire, Recheck, Finish, Release
<1>5. CASE UNCHANGED vars
  BY <1>5 DEF vars, LookedInv, Looked, Scheduled, Due
<1> QED BY <1>1, <1>2, <1>3, <1>4, <1>5, Steps, LookedLoop, Zenon

(* At the start there is no run to trace and nothing was looked at.        *)
LEMMA TraceInit == Init => TraceInv /\ LookedInv
  BY DEF Init, TraceInv, LookedInv, Looked, Present, Down, Rest

(* A slot that ends while a daemon is up has left a trace.                 *)
LEMMA SlotEnd ==
  ASSUME Types, ClaimInv, TraceInv, LookedInv, Next,
         NEW k \in Scheduled, SlotEnds(k), SomeDaemon
  PROVE  log[k] # {} \/ UnderWay(k)
<1>0. node \in [Nodes -> Process] /\ now \in Nat /\ k \in Kinds
  BY AheadJobs, Zenon DEF Types
<1>1. Advance
  <2>1. ASSUME NEW n \in Nodes,
               \/ Start(n) \/ Fire(n) \/ RefreshRead(n) \/ Merge(n) \/ Dispatch(n) \/ Stop(n)
               \/ Close(n) \/ RunOnce(n) \/ Take(n) \/ StoreBusy(n) \/ (\E j \in Kinds : Manual(n, j))
               \/ Exit(n) \/ Crash(n)
        PROVE  now' = now
    BY <2>1, ZenonT(20) DEF Start, Fire, RefreshRead, Merge, Dispatch, Stop, Close, RunOnce, Take, StoreBusy,
                Manual, Exit, Crash, Gone
  <2>2. ASSUME NEW t \in Threads, Work(t) PROVE now' = now
    BY <2>2, Zenon DEF Work, Acquire, Recheck, Finish, Release, Record
  <2> QED BY <2>1, <2>2, Steps, Zenon DEF SlotEnds
<1>2. PICK n \in Nodes : node[n].mode = "daemon"
  BY DEF SomeDaemon
<1>3. ~Due(k, node[n].last[k])
  <2>1. node[n].loop = <<>> /\ "tick" \notin node[n].timers
    BY <1>1, <1>2, Zenon DEF Advance, Quiet
  <2> QED BY <1>2, <2>1, AheadNone, Zenon DEF LookedInv, Looked
<1>4. node[n].last[k] \in Nat /\ node[n].last[k] <= now
  BY <1>0 DEF ClaimInv, Known, Process
<1>5. Present(k, node[n].last[k])
  <2>1. /\ node[n].last[k] # 0 /\ ~(Slot(k, node[n].last[k]) < Slot(k, now))
        /\ Slot(k, node[n].last[k]) <= Slot(k, now)
        /\ Slot(k, node[n].last[k]) \in Nat /\ Slot(k, now) \in Nat
    BY <1>0, <1>3, <1>4, NextSlot, SlotBounds, SlotMonotone, Zenon DEF Due
  <2> QED BY <2>1 DEF Present
<1>6. log[k] # {} \/ OnItsWay(n, k)
  BY <1>0, <1>5, Zenon DEF TraceInv
<1> QED BY <1>6, Zenon DEF OnItsWay, UnderWay

(* Every slot is accounted for.  When a slot ends while a daemon is up, a  *)
(* run of the slot ended, is under way or waits in the channel, or the log *)
(* says why there was none, whatever was skipped for overlap, locked out,  *)
(* found done by a peer, failed or crashed (scheduler.go, tick, dispatch,  *)
(* missed and report).                                                     *)
THEOREM EverySlotAccounted == Spec => SlotAccounted
<1>1. Types /\ ClaimInv /\ TraceInv /\ LookedInv /\ [Next]_vars
        => [\A k \in Scheduled : SlotEnds(k) /\ SomeDaemon => log[k] # {} \/ UnderWay(k)]_vars
  BY SlotEnd, Zenon
<1> QED BY <1>1, TypeInit, TypeStep, SlotInit, ClaimStep, TraceInit, TraceStep, LookedStep, PTL
        DEF Spec, SlotAccounted
=============================================================================
