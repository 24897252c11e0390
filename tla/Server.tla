------------------------------- MODULE Server -------------------------------
(***************************************************************************)
(* internal/server: the runs the UI starts and the registry that shows     *)
(* them, their captured log, the prune that is previewed before it is      *)
(* applied, and how the daemon stops.  The runs take the lease of their    *)
(* target, which a scheduled run of the daemon may hold, and announce what *)
(* came of them through Notify.  Throttle is in front of the handlers.     *)
(***************************************************************************)
EXTENDS Notify, Throttle, FiniteSetsExt

CONSTANTS
    MaxRuns,         \* bound: runs the UI starts
    Verifiable,      \* the targets that declare a verification
    runHistory, maxRunLogLines,
    Loggers,         \* the goroutines of a run that log
    Keep,            \* how many backups retention keeps
    Scenarios        \* the situations to explore, see Scenario

RunIDs == 1..MaxRuns

\* There is always a finished run to drop; see trim.
ASSUME HistoryAssumption ==
    IsFiniteSet(Targets) /\ runHistory \in Nat /\ Cardinality(Targets) <= runHistory
ASSUME EmitterAssumption ==
    /\ MaxRuns \in Nat /\ Emitters = 0..MaxRuns
    /\ {"backup.succeeded", "backup.failed", "verify.failed"} \subseteq Events
ASSUME LogAssumption == IsFiniteSet(Loggers) /\ maxRunLogLines \in Nat \ {0}

VARIABLES
    left,     \* what may still happen
    run,      \* the runs of the UI and, as 0, one of the schedule: what they are, where they are
    order,    \* runs.order; runs.byID holds the same ids
    active,   \* runs.active
    capture,  \* the goroutines between the two halves of runHandler.capture
    lease,    \* who holds the lock of each target
    stored,   \* the backups of each target
    prune,    \* a prune request in flight, and the token the operator holds
    shown,    \* history: the deletions the operator was shown
    erased,   \* history: what prune requests deleted
    daemon    \* "up", "stopping", "down"

serverVars == <<left, run, order, active, capture, lease, stored, prune, shown, erased, daemon>>
vars == <<now, notifyVars, throttleVars, serverVars>>

\* How often the operator starts a run, how many runs the schedule starts,
\* prune requests, log lines of a run, failures of what a run does, answers
\* of webhooks that are no success, requests to authenticate, and signals;
\* how far the clock goes, the targets there are, and whether they have
\* notifiers.
Scenario == [clicks : Nat, scheduled : Nat, prunes : Nat, lines : Nat, faults : Nat,
             hiccups : Nat, tries : Nat, stops : Nat, ticks : Nat,
             targets : SUBSET Targets, subscribed : BOOLEAN]

ASSUME ScenarioAssumption == Scenarios \subseteq Scenario

NoRun == [target |-> Never, kind |-> Never, state |-> "none", pc |-> "none", outcome |-> "none", log |-> 0]
NoPrune == [pc |-> "idle", target |-> Never, plan |-> {}, token |-> Never]

States == {"running", "succeeded", "failed", "skipped"}
Steps == {"acquire", "work", "emit", "release", "finish"}
Lives(id) == run[id].pc \in Steps /\ daemon # "down"

\* The types, with the bounds on what the daemon keeps in memory: a run's log
\* exceeds its limit by less than the goroutines that log at the same time
\* (runlog.go, capture), the registry holds runHistory runs (runs.go, trim),
\* and no failed token is remembered past the window and a sweep (throttle.go).
TypeOK ==
    /\ \A id \in RunIDs : run[id].log < maxRunLogLines + Cardinality(Loggers)
    /\ \A h \in DOMAIN seen : seen[h].last + forget >= swept
    /\ left \in Scenario
    /\ \A id \in Emitters : run[id].state \in States \cup {"none"} /\ (run[id].pc \in {"none", "end"} \/ run[id].pc \in Steps)
    /\ Range(order) \subseteq RunIDs /\ active \in [Targets -> 0..MaxRuns]
    /\ Len(order) <= runHistory
    /\ lease \in [Targets -> Emitters \cup {Never}]
    /\ daemon \in {"up", "stopping", "down"}
    /\ \A e \in Emitters : note[e].pc \in {"idle", "next", "dedup", "post"}
    /\ \A r \in Requests : req[r].pc \in {"new", "token", "refused"}

Init ==
    \E s \in Scenarios :
        /\ left = s /\ now = forget
        /\ NotifyInit(s.hiccups) /\ ThrottleInit(s.tries)
        /\ run = [id \in Emitters |-> NoRun] /\ order = <<>>
        /\ active = [t \in Targets |-> 0]
        /\ capture = [id \in RunIDs |-> {}]
        /\ lease = [t \in Targets |-> Never]
        /\ stored = [t \in Targets |-> 1..Keep]
        /\ prune = NoPrune /\ shown = {} /\ erased = {}
        /\ daemon = "up"

Spend(what) == left[what] > 0 /\ left' = [left EXCEPT ![what] = @ - 1]

-----------------------------------------------------------------------------
(* The registry (runs.go).                                                 *)

\* Mutant: the oldest run is dropped, whatever it is doing.
trimOldest(ids) == IF Len(ids) > runHistory THEN Tail(ids) ELSE ids

\* Mutant: one run more than the history is kept.
trimLate(ids) == IF Len(ids) <= runHistory + 1 THEN ids ELSE Tail(ids)

\* The first run in the queue that has ended is dropped, and the running ones
\* before it go to the back.  One run is added at a time, so one is dropped.
trim(ids) ==
    IF Len(ids) <= runHistory THEN ids
    ELSE LET i == Min({j \in DOMAIN ids : j < Len(ids) /\ run[ids[j]].state # "running"})
         IN SubSeq(ids, i + 1, Len(ids)) \o SubSeq(ids, 1, i - 1)

\* A click while a run of the target is going on is answered with that run.
begin(t, kind, id) ==
    IF active[t] # 0 THEN UNCHANGED <<run, order, active>>
    ELSE /\ run' = [run EXCEPT ![id] = [NoRun EXCEPT !.target = t, !.kind = kind, !.state = "running", !.pc = "acquire"]]
         /\ order' = trim(Append(order, id))
         /\ active' = [active EXCEPT ![t] = id]

startRun(t, kind) ==
    /\ daemon = "up" /\ Spend("clicks")
    /\ kind = "verify" => t \in Verifiable
    /\ \E id \in RunIDs :
        /\ run[id] = NoRun /\ \A other \in 1..(id - 1) : run[other] # NoRun
        /\ begin(t, kind, id)
    /\ UNCHANGED <<now, notifyVars, throttleVars, capture, lease, stored, prune, shown, erased, daemon>>

\* A run that is no longer in the registry has nothing to record.
finish(id) ==
    IF id \notin Range(order) THEN run' = [run EXCEPT ![id].pc = "end"] /\ UNCHANGED active
    ELSE /\ run' = [run EXCEPT ![id].pc = "end", ![id].state = run[id].outcome]
         /\ active' = [active EXCEPT ![run[id].target] = 0]

room(id) == id \in Range(order) /\ run[id].log < maxRunLogLines

\* runHandler.capture looks at the log, lets go of the mutex, and appends.
Look(id) ==
    /\ Lives(id) /\ Spend("lines") /\ room(id)
    /\ \E l \in Loggers \ capture[id] : capture' = [capture EXCEPT ![id] = @ \cup {l}]
    /\ UNCHANGED <<now, notifyVars, throttleVars, run, order, active, lease, stored, prune, shown, erased, daemon>>

AppendLine(id) ==
    /\ daemon # "down"
    /\ \E l \in capture[id] : capture' = [capture EXCEPT ![id] = @ \ {l}]
    /\ run' = IF id \in Range(order) THEN [run EXCEPT ![id].log = @ + 1] ELSE run
    /\ UNCHANGED <<now, notifyVars, throttleVars, left, order, active, lease, stored, prune, shown, erased, daemon>>

-----------------------------------------------------------------------------
(* The goroutine of a run: execute, around Executor.Run.                   *)

At(id, pc) == daemon # "down" /\ run[id].pc = pc
Goto(id, pc, outcome) == run' = [run EXCEPT ![id].pc = pc, ![id].outcome = outcome]

\* A run of the schedule ends with the daemon's context, one of the UI has a
\* context that never ends (SetContext in ListenAndServe).
Cut(id) == id = 0 /\ daemon = "stopping"
Fails(id) == Spend("faults") \/ (Cut(id) /\ UNCHANGED left)

ScheduledRun(t) ==
    /\ daemon = "up" /\ run[0] = NoRun /\ Spend("scheduled")
    /\ run' = [run EXCEPT ![0] = [NoRun EXCEPT !.target = t, !.kind = "backup", !.pc = "acquire"]]
    /\ UNCHANGED <<now, notifyVars, throttleVars, order, active, capture, lease, stored, prune, shown, erased, daemon>>

Acquire(id) ==
    /\ At(id, "acquire")
    /\ \/ /\ lease[run[id].target] = Never /\ ~Cut(id)
          /\ lease' = [lease EXCEPT ![run[id].target] = id]
          /\ Goto(id, "work", "none") /\ UNCHANGED left
       \/ /\ lease[run[id].target] # Never /\ ~Cut(id)
          /\ Goto(id, "finish", "skipped") /\ UNCHANGED <<left, lease>>
       \/ Fails(id) /\ Goto(id, "finish", "failed") /\ UNCHANGED lease
    /\ UNCHANGED <<now, notifyVars, throttleVars, order, active, capture, stored, prune, shown, erased, daemon>>

\* Without a notifier there is nothing to deliver.
Announce(id, event, t) == IF left.subscribed THEN Emit(id, event, t) ELSE UNCHANGED note

Taken(t) == Max(stored[t] \cup {0}) + 1

\* The dump or the check, up to the event that announces it.  A check that
\* finds nothing wrong announces nothing.
Work(id) ==
    LET t == run[id].target
        backup == run[id].kind = "backup"
    IN
    /\ At(id, "work")
    /\ \/ /\ ~Cut(id) /\ UNCHANGED left /\ Goto(id, "emit", "succeeded")
          /\ stored' = IF backup THEN [stored EXCEPT ![t] = @ \cup {Taken(t)}] ELSE stored
          /\ IF backup THEN Announce(id, "backup.succeeded", t) ELSE UNCHANGED note
       \/ /\ Fails(id) /\ Goto(id, "emit", "failed")
          /\ Announce(id, IF backup THEN "backup.failed" ELSE "verify.failed", t) /\ UNCHANGED stored
    /\ UNCHANGED <<now, sent, hiccups, throttleVars, order, active, capture, lease, prune, shown, erased, daemon>>

\* What retention would delete: all but the newest.
Plan(t) == {b \in stored[t] : Cardinality({c \in stored[t] : c > b}) >= Keep}

\* Emit has returned; after a backup, retention is applied or fails quietly.
Emitted(id) ==
    LET t == run[id].target IN
    /\ At(id, "emit") /\ note[id].pc = "idle" /\ Goto(id, "release", run[id].outcome)
    /\ \/ /\ UNCHANGED left
          /\ stored' = IF run[id].kind = "backup" /\ run[id].outcome = "succeeded"
                       THEN [stored EXCEPT ![t] = @ \ Plan(t)] ELSE stored
       \/ Fails(id) /\ UNCHANGED stored
    /\ UNCHANGED <<now, notifyVars, throttleVars, order, active, capture, lease, prune, shown, erased, daemon>>

Release(id) ==
    /\ At(id, "release") /\ Goto(id, "finish", run[id].outcome)
    /\ lease' = [lease EXCEPT ![run[id].target] = Never]
    /\ UNCHANGED <<now, notifyVars, throttleVars, left, order, active, capture, stored, prune, shown, erased, daemon>>

\* Mutant: a run that found the lock taken is not recorded.
FinishRan(id) ==
    /\ At(id, "finish")
    /\ IF id = 0 THEN run' = [run EXCEPT ![0] = NoRun] /\ UNCHANGED active
       ELSE capture[id] = {} /\ run[id].outcome # "skipped" /\ finish(id)
    /\ UNCHANGED <<now, notifyVars, throttleVars, left, order, capture, lease, stored, prune, shown, erased, daemon>>

\* The goroutines that log have been waited for by now.
Finish(id) ==
    /\ At(id, "finish")
    /\ IF id = 0 THEN run' = [run EXCEPT ![0] = NoRun] /\ UNCHANGED active
       ELSE capture[id] = {} /\ finish(id)
    /\ UNCHANGED <<now, notifyVars, throttleVars, left, order, capture, lease, stored, prune, shown, erased, daemon>>

execute(id) ==
    \/ Acquire(id) \/ Work(id) \/ Emitted(id) \/ Release(id) \/ Finish(id)
    \/ daemon # "down" /\ Deliver(id) /\ UNCHANGED <<now, throttleVars, serverVars>>

-----------------------------------------------------------------------------
(* actionPrune: the plan is made from the bucket, compared with the token   *)
(* of the preview, and applied without the lock.                           *)

\* Mutant: the token only has to be there.
confirmedBy(token, plan) == token # Never

confirms(token, plan) == token = plan

PrunePlan(t) ==
    /\ daemon = "up" /\ prune.pc = "idle" /\ Spend("prunes")
    /\ \E token \in {Never, IF prune.target = t THEN prune.token ELSE Never} :
        LET plan == Plan(t) IN
        IF token = Never
        THEN /\ shown' = shown \cup {<<t, plan>>}
             /\ prune' = [NoPrune EXCEPT !.target = t, !.token = plan]
        ELSE /\ prune' = IF confirms(token, plan) /\ plan # {}
                         THEN [prune EXCEPT !.pc = "apply", !.plan = plan] ELSE prune
             /\ UNCHANGED shown
    /\ UNCHANGED <<now, notifyVars, throttleVars, run, order, active, capture, lease, stored, erased, daemon>>

\* The request's own context plays no part.
PruneApply ==
    /\ daemon # "down" /\ prune.pc = "apply"
    /\ prune' = [prune EXCEPT !.pc = "idle"]
    /\ stored' = [stored EXCEPT ![prune.target] = @ \ prune.plan]
    /\ erased' = erased \cup {<<prune.target, prune.plan>>}
    /\ UNCHANGED <<now, notifyVars, throttleVars, left, run, order, active, capture, lease, shown, daemon>>

-----------------------------------------------------------------------------
(* serve: the signal, the drain and the exit.                              *)

Stop ==
    /\ daemon = "up" /\ Spend("stops") /\ daemon' = "stopping"
    /\ UNCHANGED <<now, notifyVars, throttleVars, run, order, active, capture, lease, stored, prune, shown, erased>>

\* The group waits for the scheduler, which waits for its runs, and for the
\* HTTP server, which waits for its requests, as long as the grace lasts, and
\* not for the runs they began.
Exit ==
    /\ daemon = "stopping" /\ run[0] = NoRun
    /\ daemon' = "down"
    /\ UNCHANGED <<now, notifyVars, throttleVars, left, run, order, active, capture, lease, stored, prune, shown, erased>>

-----------------------------------------------------------------------------

\* Only the windows of deliveries and of failed tokens look at the clock.
Time ==
    /\ Tick /\ Spend("ticks") /\ daemon # "down"
    /\ UNCHANGED <<notifyVars, throttleVars, run, order, active, capture, lease, stored, prune, shown, erased, daemon>>

Operator ==
    \/ \E t \in left.targets, kind \in {"backup", "verify"} : startRun(t, kind)
    \/ \E t \in left.targets : ScheduledRun(t) \/ PrunePlan(t)
    \/ \E id \in RunIDs : Look(id)
    \/ \E r \in Requests : daemon = "up" /\ Authenticate(r) /\ UNCHANGED <<now, notifyVars, serverVars>>
    \/ Stop
    \/ Time

Daemon ==
    \/ \E id \in Emitters : execute(id)
    \/ \E id \in RunIDs : AppendLine(id)
    \/ PruneApply \/ Exit

Next == Operator \/ Daemon

\* The daemon's goroutines run; a webhook answers or times out.
Spec == Init /\ [][Next]_vars /\ WF_vars(Daemon)

-----------------------------------------------------------------------------

\* The registry and the runs agree: a target is taken exactly while one run
\* of it goes on, and that run can be watched, however many began and ended
\* meanwhile (runs.go, begin, finish and trim).
OneRunWatched ==
    \A t \in Targets :
        {id \in RunIDs : run[id].target = t /\ run[id].pc \in Steps} = {active[t]} \ {0}
        /\ (active[t] # 0 => active[t] \in Range(order) /\ run[active[t]].state = "running")

\* A prune request deletes what one preview showed, all of it and nothing else,
\* whatever the backups and prunes in between did (actions.go, actionPrune).
AppliedWasShown == erased \subseteq shown

\* The button of a target comes back: whatever fails, a run ends, and its
\* target can be started again, unless the daemon exits first (execute).
ButtonReturns == \A t \in Targets : active[t] # 0 ~> (active[t] = 0 \/ daemon = "down")

\* serve.go: "finish the dump you are on, release the lock: a killed run
\* leaves a lease behind": no run of the daemon holds a lease when it is down.
StopReleases == daemon = "down" => \A t \in Targets : lease[t] = Never
=============================================================================
