----------------------------- MODULE Scheduler -----------------------------
(***************************************************************************)
(* The scheduler and the executor (internal/scheduler) for one target:     *)
(* replicas of the daemon and one-shot `vaultd run` processes that derive  *)
(* what is due from the index, take the target's lease, look at the index  *)
(* again and run.  A node has a loop that ticks, a worker behind a channel *)
(* of one, and the thread of a run somebody started in the UI.             *)
(*                                                                         *)
(* Time is counted in ticks.  A schedule names the multiples of its        *)
(* period; 0 is the zero time.  Only a dump or a check takes time, the     *)
(* steps around it happen within a tick.                                   *)
(***************************************************************************)
EXTENDS Naturals, Sequences

CONSTANTS
    Nodes,      \* the processes
    NoOne,      \* nobody holds the lease
    Every,      \* the period of the backup and of the verify schedule
    TTL,        \* the length of a lease
    Scenarios,  \* the situations to explore, see Scenario
    MaxTime     \* bound on time

VARIABLES
    now,
    scene,    \* the scenario, with what may still happen in it
    lease,    \* the target's lock, as module Lease describes it
    expiry,   \* when an abandoned lease runs out
    index,    \* when each kind last ran, according to the bucket
    node,     \* each process: its loop, its channel, the times it knows
    run,      \* each thread: the job it is on
    served,   \* history: the last slot with a scheduled run on record, and how many
    log       \* history: what was logged or reported of each kind in its present slot

vars == <<now, scene, lease, expiry, index, node, run, served, log>>

Kinds == {"backup", "verify"}
Threads == Nodes \X {"worker", "ui"}
Worker(n) == <<n, "worker">>

L == INSTANCE Lease WITH Procs <- Threads, NoOne <- NoOne, lease <- lease

\* Where processes run, what the target schedules, its on_overlap, how many processes start as daemons or one-shot, crash, are
\* told to stop, how many runs somebody starts by hand, how often
\* a daemon refreshes what it knows, and how many calls to
\* the store fail.
Scenario == [hosts : SUBSET Nodes, jobs : {<<"backup">>, <<"backup", "verify">>}, overlap : {"skip", "queue", "fail"}, daemons : Nat,
             shots : Nat, crashes : Nat, stops : Nat, manual : Nat, refreshes : Nat,
             faults : Nat]

\* A schedule has a period, and nobody is no thread.
ASSUME ScheduleAssumption ==
    /\ Every \in [Kinds -> Nat \ {0}] /\ TTL \in Nat
    /\ NoOne \notin Threads /\ Scenarios \subseteq Scenario

-----------------------------------------------------------------------------
(* Jobs (job.go).                                                          *)

Slot(k, t) == t \div Every[k]

\* The first time of the schedule after t.
NextTime(k, t) == (Slot(k, t) + 1) * Every[k]

Jobs == scene.jobs

Due(k, last) == last = 0 \/ NextTime(k, last) <= now

-----------------------------------------------------------------------------

\* Count one more of slot s.
Tally(c, s) == [slot |-> s, times |-> IF c.slot = s THEN c.times + 1 ELSE 1]
None == [k \in Kinds |-> [slot |-> 0, times |-> 0]]

Down == [mode |-> "down", loop |-> <<>>, chan |-> <<>>, timers |-> {}, claims |-> None,
         last |-> [k \in Kinds |-> 0], seen |-> [k \in Kinds |-> 0]]

Rest == [pc |-> "idle", kind |-> "backup", manual |-> FALSE, slot |-> 0]

Modes == {"down", "daemon", "stopping", "closing", "once"}
Stages == {"idle", "took", "acquire", "recheck", "work", "release", "record"}

TypeOK ==
    /\ now \in 1..MaxTime /\ scene \in Scenario
    /\ lease \in [by : Threads \cup {NoOne}, live : BOOLEAN]
    /\ expiry \in 0..(MaxTime + TTL)
    /\ index \in [Kinds -> 0..MaxTime]
    /\ \A n \in Nodes :
        /\ node[n].mode \in Modes
        /\ Len(node[n].chan) <= 1
        /\ node[n].timers \subseteq {"tick", "refresh"}
        /\ \A k \in Kinds : node[n].last[k] <= now /\ node[n].seen[k] <= now
    /\ \A t \in Threads : run[t].pc \in Stages /\ run[t].kind \in Kinds

Init ==
    /\ now = 1
    /\ scene \in Scenarios
    /\ L!Init /\ expiry = 0
    /\ index = [k \in Kinds |-> 0]
    /\ node = [n \in Nodes |-> Down]
    /\ run = [t \in Threads |-> Rest]
    /\ served = None /\ log = [k \in Kinds |-> {}]

Spend(what) == scene[what] > 0 /\ scene' = [scene EXCEPT ![what] = @ - 1]

Cancelled(t) == t[2] = "worker" /\ node[t[1]].mode \in {"stopping", "closing"}

\* A call of thread t to the store fails.
Fails(t) == Spend("faults") \/ (Cancelled(t) /\ UNCHANGED scene)

Set(n, r) == node' = [node EXCEPT ![n] = r]
Stage(t, pc) == run' = [run EXCEPT ![t].pc = pc]
Tell(k, outcome) == log' = [log EXCEPT ![k] = @ \cup {outcome}]


-----------------------------------------------------------------------------
(* The loop of a process (scheduler.go).                                   *)

\* Run and RunOnce read the index first and then look at every job.
Start(n) ==
    /\ n \in scene.hosts /\ node[n].mode = "down" /\ run[<<n, "ui">>].pc = "idle"
    /\ \/ Spend("daemons") /\ Set(n, [Down EXCEPT !.mode = "daemon", !.loop = <<"refresh">> \o Jobs])
       \/ Spend("shots") /\ Set(n, [Down EXCEPT !.mode = "once", !.loop = <<"refresh">> \o Jobs])
    /\ UNCHANGED <<now, lease, expiry, index, run, served, log>>

Running(n) == node[n].mode \in {"daemon", "stopping"}

\* A ticker fires.  A loop whose context is cancelled may still see it.
Fire(n) ==
    /\ Running(n) /\ node[n].loop = <<>>
    /\ \E timer \in node[n].timers :
        /\ IF timer = "refresh" THEN Spend("refreshes") ELSE UNCHANGED scene
        /\ Set(n, [node[n] EXCEPT !.timers = @ \ {timer},
                                  !.loop = IF timer = "tick" THEN Jobs ELSE <<"refresh">>])
    /\ UNCHANGED <<now, lease, expiry, index, run, served, log>>

Facing(n, task) == node[n].loop # <<>> /\ Head(node[n].loop) = task

\* refresh reads the index; when it cannot, the daemon goes on with what it
\* knows and a one-shot process gives up.
RefreshRead(n) ==
    /\ Facing(n, "refresh")
    /\ \/ Set(n, [node[n] EXCEPT !.loop = <<"merge">> \o Tail(@), !.seen = index])
          /\ UNCHANGED scene
       \/ /\ Fails(Worker(n))
          /\ Set(n, IF node[n].mode = "once" THEN Down ELSE [node[n] EXCEPT !.loop = Tail(@)])
    /\ UNCHANGED <<now, lease, expiry, index, run, served, log>>

Later(s, t) == IF s > t THEN s ELSE t

\* Mutant: what was read replaces what is known.
MergeReplaces(n) ==
    /\ Facing(n, "merge")
    /\ Set(n, [node[n] EXCEPT !.loop = Tail(@), !.last = node[n].seen])
    /\ UNCHANGED <<now, scene, lease, expiry, index, run, served, log>>

\* refresh never moves a job backwards.
Merge(n) ==
    /\ Facing(n, "merge")
    /\ Set(n, [node[n] EXCEPT !.loop = Tail(@),
                              !.last = [k \in Kinds |-> Later(@[k], node[n].seen[k])],
                              !.seen = Down.seen])
    /\ UNCHANGED <<now, scene, lease, expiry, index, run, served, log>>

Busy(n) == run[Worker(n)].pc \notin {"idle", "took"}

\* The slot is claimed before the worker picks the job up.
Claim(process, k) == [process EXCEPT !.last[k] = now, !.claims[k] = Tally(@, Slot(k, now))]

\* Mutant: a run the overlap policy did not start is not reported.
DispatchSilently(n) ==
    \E k \in Kinds : LET this == [node[n] EXCEPT !.loop = Tail(@)] IN
        /\ Running(n) /\ Facing(n, k)
        /\ IF Due(k, node[n].last[k])
           THEN Set(n, [Claim(this, k) EXCEPT !.chan = IF Busy(n) \/ @ # <<>> THEN @ ELSE <<k>>])
           ELSE Set(n, this)
        /\ UNCHANGED <<now, scene, lease, expiry, index, run, served, log>>

\* tick and dispatch: the slot is claimed, then the job is handed to the
\* worker or reported as missed.
Dispatch(n) ==
    \E k \in Kinds : LET this == [node[n] EXCEPT !.loop = Tail(@)] IN
        /\ Running(n) /\ Facing(n, k)
        /\ \/ ~Due(k, node[n].last[k]) /\ Set(n, this) /\ UNCHANGED log
           \/ /\ Due(k, node[n].last[k])
              /\ IF node[n].chan # <<>> \/ (scene.overlap # "queue" /\ Busy(n))
                 THEN Set(n, Claim(this, k)) /\ Tell(k, "missed")
                 ELSE Set(n, [Claim(this, k) EXCEPT !.chan = <<k>>]) /\ UNCHANGED log
        /\ UNCHANGED <<now, scene, lease, expiry, index, run, served>>

\* RunOnce runs the jobs itself, one after the other, and exits.
RunOnce(n) ==
    /\ node[n].mode = "once" /\ run[Worker(n)].pc = "idle"
    /\ \/ \E k \in Kinds :
            /\ Facing(n, k) /\ Set(n, [node[n] EXCEPT !.loop = Tail(@)])
            /\ IF Due(k, node[n].last[k])
               THEN run' = [run EXCEPT ![Worker(n)] = [Rest EXCEPT !.pc = "acquire", !.kind = k]]
               ELSE UNCHANGED run
       \/ node[n].loop = <<>> /\ Set(n, Down) /\ UNCHANGED run
    /\ UNCHANGED <<now, scene, lease, expiry, index, served, log>>

-----------------------------------------------------------------------------
(* The worker, the UI's thread, and Executor.Run (exec.go).                *)

\* Mutant: the worker leaves its loop when the context ends.
TakeUntilStopped(n) ==
    /\ node[n].mode = "daemon" /\ run[Worker(n)].pc = "idle" /\ node[n].chan # <<>>
    /\ run' = [run EXCEPT ![Worker(n)] = [Rest EXCEPT !.pc = "took", !.kind = Head(node[n].chan)]]
    /\ Set(n, [node[n] EXCEPT !.chan = <<>>])
    /\ UNCHANGED <<now, scene, lease, expiry, index, served, log>>

\* serve receives a job; busy is set a moment later.
Take(n) ==
    /\ run[Worker(n)].pc = "idle" /\ node[n].chan # <<>>
    /\ run' = [run EXCEPT ![Worker(n)] = [Rest EXCEPT !.pc = "took", !.kind = Head(node[n].chan)]]
    /\ Set(n, [node[n] EXCEPT !.chan = <<>>])
    /\ UNCHANGED <<now, scene, lease, expiry, index, served, log>>

StoreBusy(n) ==
    /\ run[Worker(n)].pc = "took" /\ Stage(Worker(n), "acquire")
    /\ UNCHANGED <<now, scene, lease, expiry, index, node, served, log>>

\* Somebody presses "back up now" or "verify now".
Manual(n, k) ==
    /\ node[n].mode = "daemon" /\ run[<<n, "ui">>].pc = "idle" /\ Spend("manual")
    /\ run' = [run EXCEPT ![<<n, "ui">>] =
                [Rest EXCEPT !.pc = "acquire", !.kind = k, !.manual = TRUE]]
    /\ UNCHANGED <<now, lease, expiry, index, node, served, log>>

\* The lease is somebody's: in use, or left behind and not yet run out.
Locked == lease.by # NoOne /\ (lease.live \/ now < expiry)

\* Mutant: the lock is not asked for.
AcquireUnasked(t) ==
    /\ run[t].pc = "acquire"
    /\ lease' = [by |-> t, live |-> TRUE] /\ Stage(t, "recheck") /\ UNCHANGED log
    /\ UNCHANGED <<now, scene, expiry, index, node, served>>

\* Locked out is no failure; a cancelled context or a store error is.
Acquire(t) ==
    /\ run[t].pc = "acquire"
    /\ \/ /\ ~Cancelled(t) /\ Locked
          /\ Stage(t, "record") /\ Tell(run[t].kind, "locked")
          /\ UNCHANGED <<scene, lease, expiry>>
       \/ /\ ~Cancelled(t) /\ ~Locked
          /\ L!Grant(t) /\ expiry' = 0 /\ Stage(t, "recheck") /\ UNCHANGED <<scene, log>>
       \/ /\ Fails(t)
          /\ Stage(t, "record") /\ Tell(run[t].kind, "failed") /\ UNCHANGED <<lease, expiry>>
    /\ UNCHANGED <<now, index, node, served>>

\* Mutant: the executor trusts the scheduler's cached answer.
RecheckNever(t) ==
    /\ run[t].pc = "recheck"
    /\ run' = [run EXCEPT ![t].pc = "work", ![t].slot = Slot(run[t].kind, now)]
    /\ UNCHANGED <<now, scene, lease, expiry, index, node, served, log>>

\* Now that the lock is held, the index decides; a manual job is always due.
Recheck(t) ==
    /\ run[t].pc = "recheck"
    /\ LET k == run[t].kind IN
        \/ /\ run[t].manual \/ Due(k, index[k])
           /\ run' = [run EXCEPT ![t].pc = "work", ![t].slot = Slot(k, now)]
           /\ UNCHANGED <<scene, log>>
        \/ /\ ~run[t].manual /\ ~Due(k, index[k])
           /\ Stage(t, "release") /\ Tell(k, "notdue") /\ UNCHANGED scene
        \/ ~run[t].manual /\ Fails(t) /\ Stage(t, "release") /\ Tell(k, "failed")
    /\ UNCHANGED <<now, lease, expiry, index, node, served>>

\* A backup, a failure of it and a verdict are put on record.
OnRecord(t) ==
    LET k == run[t].kind IN
        /\ index' = [index EXCEPT ![k] = now]
        /\ served' = IF run[t].manual THEN served
                     ELSE [served EXCEPT ![k] = Tally(@, run[t].slot)]
        /\ Tell(k, "ran")

\* The record may fail, there may be nothing to verify, a check may be
\* skipped, or fail to run at all.
OffRecord(t) == Tell(run[t].kind, "failed") /\ UNCHANGED <<index, served>>

\* A run that is cancelled, or loses its lease, ends like any other.
Finish(t) ==
    /\ run[t].pc = "work" /\ Stage(t, "release")
    /\ OnRecord(t) \/ OffRecord(t)
    /\ UNCHANGED <<now, scene, lease, expiry, node>>

\* Release, which may fail and leave the lease to expire.
Release(t) ==
    /\ run[t].pc = "release" /\ Stage(t, "record")
    /\ \/ L!GiveUp(t) /\ UNCHANGED <<scene, expiry>>
       \/ Spend("faults") /\ L!Abandon(t) /\ expiry' = now + TTL
    /\ UNCHANGED <<now, index, node, served, log>>

\* record: whatever came of it, the job ran now.  The UI records nothing.
Record(t) ==
    /\ run[t].pc = "record" /\ run' = [run EXCEPT ![t] = Rest]
    /\ node' = IF t[2] = "worker" THEN [node EXCEPT ![t[1]].last[run[t].kind] = now] ELSE node
    /\ UNCHANGED <<now, scene, lease, expiry, index, served, log>>

-----------------------------------------------------------------------------
(* The end of a process, and time.                                         *)

\* SIGTERM cancels the context of the loop and of the worker.
Stop(n) ==
    /\ node[n].mode = "daemon" /\ Spend("stops")
    /\ Set(n, [node[n] EXCEPT !.mode = "stopping"])
    /\ UNCHANGED <<now, lease, expiry, index, run, served, log>>

\* The loop returns: stop closes the channel and waits for the worker.
Close(n) ==
    /\ node[n].mode = "stopping" /\ node[n].loop = <<>>
    /\ Set(n, [node[n] EXCEPT !.mode = "closing"])
    /\ UNCHANGED <<now, scene, lease, expiry, index, run, served, log>>

\* The threads of n are gone; a lease they held stays behind.
Gone(n) ==
    /\ Set(n, Down)
    /\ run' = [t \in Threads |-> IF t[1] = n THEN Rest ELSE run[t]]
    /\ IF lease.live /\ lease.by[1] = n
       THEN L!Abandon(lease.by) /\ expiry' = now + TTL
       ELSE UNCHANGED <<lease, expiry>>
    /\ UNCHANGED <<now, index, served, log>>

\* Nothing waits for a run of the UI.
Exit(n) ==
    /\ node[n].mode = "closing" /\ node[n].chan = <<>> /\ run[Worker(n)].pc = "idle"
    /\ Gone(n) /\ UNCHANGED scene

Crash(n) == node[n].mode # "down" /\ Spend("crashes") /\ Gone(n)

\* Every daemon ticked, and only dumps and checks are under way.
Quiet ==
    /\ \A n \in Nodes :
        /\ node[n].loop = <<>>
        /\ node[n].mode = "daemon" => "tick" \notin node[n].timers
        /\ node[n].chan # <<>> => run[Worker(n)].pc = "work"
    /\ \A t \in Threads : run[t].pc = "idle" \/ (run[t].pc = "work" /\ ~Cancelled(t))

Advance ==
    /\ now < MaxTime /\ Quiet
    /\ now' = now + 1
    /\ node' = [n \in Nodes |-> IF node[n].mode = "daemon"
                                THEN [node[n] EXCEPT !.timers = {"tick", "refresh"}]
                                ELSE node[n]]
    /\ log' = [k \in Kinds |-> IF Slot(k, now') = Slot(k, now) THEN log[k] ELSE {}]
    /\ UNCHANGED <<scene, lease, expiry, index, run, served>>

Loop(n) ==
    Fire(n) \/ RefreshRead(n) \/ Merge(n) \/ Dispatch(n) \/ RunOnce(n) \/ Close(n) \/ Exit(n)

Work(t) == Acquire(t) \/ Recheck(t) \/ Finish(t) \/ Release(t) \/ Record(t)

\* What goes on by itself once it is under way.
Step ==
    \/ \E n \in Nodes : Loop(n) \/ Take(n) \/ StoreBusy(n)
    \/ \E t \in Threads : Work(t)

Next ==
    \/ Advance \/ Step
    \/ \E n \in Nodes : \/ Start(n) \/ Stop(n) \/ Crash(n)
                        \/ \E k \in Kinds : Manual(n, k)

Spec == Init /\ [][Next]_vars

\* The Go runtime does not stop while a goroutine can run, and a dump or a
\* check ends, by itself or by its timeout.
FairSpec == Spec /\ WF_vars(Step)

-----------------------------------------------------------------------------
(* Properties.                                                             *)

\* No slot runs twice: once the executor holds the lock it asks the index
\* again, so no slot gets two scheduled runs on record, whatever the replicas,
\* restarts, one-shot processes and the caches of each believe; and a daemon
\* claims a slot at most once, although the claim, the worker's record and a
\* slow refresh write the same entry (exec.go, Run; scheduler.go, dispatch,
\* record and refresh).
OnePerSlot ==
    \A k \in Kinds :
        /\ served[k].times <= 1
        /\ \A n \in Nodes : node[n].claims[k].times <= 1

UnderWay(k) ==
    \/ \E t \in Threads : run[t].pc # "idle" /\ run[t].kind = k
    \/ \E n \in Nodes : node[n].chan = <<k>>

Scheduled == {scene.jobs[i] : i \in DOMAIN scene.jobs}
SlotEnds(k) == now' # now /\ Slot(k, now') # Slot(k, now)
SomeDaemon == \E n \in Nodes : node[n].mode = "daemon"

\* A slot that ends while a daemon is up has left a trace: a run ended in it,
\* is under way, or the log says why there was none (scheduler.go, tick,
\* missed and report).
SlotAccounted ==
    [][\A k \in Scheduled : SlotEnds(k) /\ SomeDaemon => log[k] # {} \/ UnderWay(k)]_vars

\* What the package comment promises of a restart: the slot a daemon woke up
\* in was tried, is under way or was reported as missed (job.go).
RestartKeepsSlot ==
    [][\A k \in Scheduled : SlotEnds(k) /\ SomeDaemon =>
         log[k] \cap {"ran", "failed", "missed"} # {} \/ UnderWay(k)]_vars

\* SIGTERM brings a daemon down, after the run in flight and the one in the
\* channel (scheduler.go, stop).
ShutdownCompletes ==
    \A n \in Nodes : node[n].mode = "stopping" ~> node[n].mode = "down"

\* The executor uses the lock as a lease: one thread of one process at a time
\* (exec.go, acquire and Run).
LeaseRespected == L!Spec
=============================================================================
