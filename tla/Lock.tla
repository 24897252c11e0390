-------------------------------- MODULE Lock --------------------------------
(***************************************************************************)
(* The per-target lock of internal/lock: a lease kept in one object of the *)
(* bucket, taken with a conditional create, renewed and taken over with a  *)
(* conditional overwrite.                                                  *)
(*                                                                         *)
(* A process is anything that calls Acquire: a daemon replica, a one-shot  *)
(* `vaultd backup`, a CronJob.  Every call to the store is a step of its   *)
(* own, so a process may stall, crash or lose a response between any two.  *)
(* The ETag of the object is the number of the write that produced it: the *)
(* body carries a random ID and two timestamps, so no two writes have the  *)
(* same content.                                                           *)
(***************************************************************************)
EXTENDS Naturals

CONSTANTS
    Procs,       \* the callers of Acquire
    NoLock,      \* the lock object does not exist
    TTL,         \* Locker.TTL in clock units
    Timely,      \* TRUE: a live process never outstays the lease it asked for
    MaxTime,     \* bound on the clock
    MaxWrites,   \* no acquisition starts once the object was written this often
    MaxFaults,   \* bound on failed store calls
    MaxCrashes   \* bound on processes that die

ASSUME TTLAssumption == TTL \in Nat /\ TTL >= 3
ASSUME TimelyAssumption == Timely \in BOOLEAN
ASSUME BoundsAssumption == MaxFaults \in Nat /\ MaxCrashes \in Nat
ASSUME NoLockAssumption ==
    NoLock \notin [by : Procs, exp : Nat, etag : Nat]

renewDivisor    == 3
acquireAttempts == 3
Interval        == TTL \div renewDivisor

VARIABLES
    obj,      \* the lock object: its Owner (by, exp) and its ETag, or NoLock
    writes,   \* how often the object was written; source of fresh ETags
    clock,    \* wall clock, the same for every process
    pc,       \* where each process is in Acquire, its run, or Release
    owner,    \* the Owner record the process writes: AcquiredAt and ExpiresAt
    etag,     \* the ETag its next conditional write is conditioned on
    snap,     \* the ETag Release read under the mutex
    tries,    \* attempts of the Acquire in progress
    hb,       \* its heartbeat goroutine: off, waiting, or inside renew
    beat,     \* when the ticker fires next
    renewal,  \* the ExpiresAt of the renewal in flight
    done,     \* whether Held.Context() is cancelled
    faults, crashes

proc == <<pc, owner, etag, snap, tries, hb, beat, renewal, done>>
vars == <<obj, writes, clock, proc, faults, crashes>>

Phases == {"idle", "create", "readback", "head", "get", "takeover", "reread",
           "held", "relwait", "reldelete"}

\* The phases from the write that took the lock to the end of Release.
Holding == {"readback", "held", "relwait", "reldelete"}

NoOwner == [acq |-> 0, exp |-> 0]

\* The run still works: its context is not cancelled.
Working(p) == pc[p] = "held" /\ ~done[p]

TypeOK ==
    /\ obj \in [by : Procs, exp : Nat, etag : Nat] \cup {NoLock}
    /\ writes \in Nat /\ clock \in Nat /\ faults \in Nat /\ crashes \in Nat
    /\ pc \in [Procs -> Phases]
    /\ owner \in [Procs -> [acq : Nat, exp : Nat]]
    /\ etag \in [Procs -> Nat] /\ snap \in [Procs -> Nat]
    /\ tries \in [Procs -> 0..acquireAttempts]
    /\ hb \in [Procs -> {"off", "wait", "put"}]
    /\ beat \in [Procs -> Nat] /\ renewal \in [Procs -> Nat]
    /\ done \in [Procs -> BOOLEAN]

Init ==
    /\ obj = NoLock /\ writes = 0 /\ clock = 0 /\ faults = 0 /\ crashes = 0
    /\ pc = [p \in Procs |-> "idle"]
    /\ owner = [p \in Procs |-> NoOwner]
    /\ etag = [p \in Procs |-> 0] /\ snap = [p \in Procs |-> 0]
    /\ tries = [p \in Procs |-> 0]
    /\ hb = [p \in Procs |-> "off"]
    /\ beat = [p \in Procs |-> 0] /\ renewal = [p \in Procs |-> 0]
    /\ done = [p \in Procs |-> FALSE]

-----------------------------------------------------------------------------
(* What the store does.                                                    *)

Matches(tag) == obj # NoLock /\ obj.etag = tag

\* An accepted write of the lock object.
Write(p, exp) ==
    /\ obj' = [by |-> p, exp |-> exp, etag |-> writes + 1]
    /\ writes' = writes + 1

NoWrite == UNCHANGED <<obj, writes>>

\* A call that fails may or may not have had its effect.
Fault == faults < MaxFaults /\ faults' = faults + 1
NoFault == UNCHANGED faults

-----------------------------------------------------------------------------
(* Acquire.                                                                *)

\* Mutant: a lease counts as expired one heartbeat early.
ExpiredEarly(exp, now) == now + Interval >= exp

Expired(exp, now) == now >= exp

Goto(p, phase) == pc' = [pc EXCEPT ![p] = phase]

\* The process holds nothing: Acquire failed, Release returned, or it died.
Leave(p) ==
    /\ Goto(p, "idle")
    /\ owner' = [owner EXCEPT ![p] = NoOwner]
    /\ etag' = [etag EXCEPT ![p] = 0] /\ snap' = [snap EXCEPT ![p] = 0]
    /\ tries' = [tries EXCEPT ![p] = 0]
    /\ hb' = [hb EXCEPT ![p] = "off"]
    /\ beat' = [beat EXCEPT ![p] = 0] /\ renewal' = [renewal EXCEPT ![p] = 0]
    /\ done' = [done EXCEPT ![p] = FALSE]

\* A new attempt: attempt() reads the clock once and keeps it.
Attempt(p, n) ==
    /\ Goto(p, "create")
    /\ owner' = [owner EXCEPT ![p] = [acq |-> clock, exp |-> clock + TTL]]
    /\ tries' = [tries EXCEPT ![p] = n]
    /\ UNCHANGED <<etag, snap, hb, beat, renewal, done>>

\* The object was gone when it was read: Acquire tries again, up to a limit.
Retry(p) ==
    \/ tries[p] < acquireAttempts /\ Attempt(p, tries[p] + 1)
    \/ tries[p] = acquireAttempts /\ Leave(p)

\* hold(): the handle gets its ETag and its heartbeat starts ticking.
Hold(p, tag) ==
    /\ Goto(p, "held")
    /\ etag' = [etag EXCEPT ![p] = tag]
    /\ hb' = [hb EXCEPT ![p] = "wait"]
    /\ beat' = [beat EXCEPT ![p] = clock + Interval]
    /\ UNCHANGED <<owner, snap, tries, renewal, done>>

Step(p, phase) ==
    /\ Goto(p, phase)
    /\ UNCHANGED <<owner, etag, snap, tries, hb, beat, renewal, done>>

Acquire(p) ==
    /\ pc[p] = "idle" /\ writes < MaxWrites
    /\ Attempt(p, 1)
    /\ UNCHANGED <<obj, writes, clock, faults, crashes>>

\* PutIfAbsent.  A response lost on the way makes the store client retry: the
\* retry meets the object the first try created and reports it as not created.
PutIfAbsent(p) ==
    /\ pc[p] = "create"
    /\ \/ obj = NoLock /\ Write(p, owner[p].exp) /\ NoFault /\ Step(p, "readback")
       \/ obj # NoLock /\ NoWrite /\ NoFault /\ Step(p, "head")
       \/ NoWrite /\ Fault /\ Leave(p)
       \/ obj = NoLock /\ Write(p, owner[p].exp) /\ Fault /\ Leave(p)
       \/ obj = NoLock /\ Write(p, owner[p].exp) /\ Fault /\ Step(p, "head")
    /\ UNCHANGED <<clock, crashes>>

\* hold() with no ETag: a Head reads back whatever the object carries now.
ReadBack(p) ==
    /\ pc[p] = "readback" /\ NoWrite
    /\ \/ obj # NoLock /\ NoFault /\ Hold(p, obj.etag)
       \/ obj = NoLock /\ NoFault /\ Retry(p)
       \/ Fault /\ Leave(p)
    /\ UNCHANGED <<clock, crashes>>

\* read(): the ETag comes from a Head, the Owner from a later Get.
ReadHead(p) ==
    /\ pc[p] = "head" /\ NoWrite
    /\ \/ /\ obj # NoLock /\ NoFault
          /\ Goto(p, "get") /\ etag' = [etag EXCEPT ![p] = obj.etag]
          /\ UNCHANGED <<owner, snap, tries, hb, beat, renewal, done>>
       \/ obj = NoLock /\ NoFault /\ Retry(p)
       \/ Fault /\ Leave(p)
    /\ UNCHANGED <<clock, crashes>>

ReadGet(p) ==
    /\ pc[p] = "get" /\ NoWrite
    /\ \/ /\ obj # NoLock /\ NoFault
          /\ IF Expired(obj.exp, owner[p].acq)
             THEN Step(p, "takeover")
             ELSE Leave(p)                        \* ErrLocked
       \/ obj = NoLock /\ NoFault /\ Retry(p)
       \/ Fault /\ Leave(p)
    /\ UNCHANGED <<clock, crashes>>

\* Mutant: the overwrite of an expired lease carries no condition.
TakeOverBlindly(p) ==
    /\ pc[p] = "takeover"
    /\ Write(p, owner[p].exp) /\ NoFault /\ Hold(p, writes + 1)
    /\ UNCHANGED <<clock, crashes>>

\* The expired lease is overwritten, conditioned on the ETag it was read at.
TakeOver(p) ==
    /\ pc[p] = "takeover"
    /\ \/ /\ Matches(etag[p]) /\ Write(p, owner[p].exp) /\ NoFault
          /\ Hold(p, writes + 1)
       \/ ~Matches(etag[p]) /\ NoWrite /\ NoFault /\ Step(p, "reread")
       \/ NoWrite /\ Fault /\ Leave(p)
       \/ Matches(etag[p]) /\ Write(p, owner[p].exp) /\ Fault /\ Leave(p)
       \/ Matches(etag[p]) /\ Write(p, owner[p].exp) /\ Fault /\ Step(p, "reread")
    /\ UNCHANGED <<clock, crashes>>

\* Another process took it first; reading it again only names that process.
ReRead(p) ==
    /\ pc[p] = "reread" /\ NoWrite
    /\ \/ obj # NoLock /\ NoFault /\ Leave(p)     \* ErrLocked
       \/ obj = NoLock /\ NoFault /\ Retry(p)
       \/ Fault /\ Leave(p)
    /\ UNCHANGED <<clock, crashes>>

-----------------------------------------------------------------------------
(* The heartbeat goroutine.                                                *)

\* The ticker case of the select.  It may be chosen even when the context is
\* done as well.  renew() computes the new expiry, then calls the store.
Beat(p) ==
    /\ hb[p] = "wait" /\ clock >= beat[p]
    /\ hb' = [hb EXCEPT ![p] = "put"]
    /\ renewal' = [renewal EXCEPT ![p] = clock + TTL]
    /\ beat' = [beat EXCEPT ![p] = clock + Interval]
    /\ UNCHANGED <<obj, writes, clock, pc, owner, etag, snap, tries, done,
                   faults, crashes>>

\* Any failed renewal cancels the run and ends the heartbeat.
Lose(p) ==
    /\ hb' = [hb EXCEPT ![p] = "off"]
    /\ done' = [done EXCEPT ![p] = TRUE]
    /\ renewal' = [renewal EXCEPT ![p] = 0]
    /\ UNCHANGED <<pc, owner, etag, snap, tries, beat>>

Renewed(p) ==
    /\ hb' = [hb EXCEPT ![p] = "wait"]
    /\ owner' = [owner EXCEPT ![p] = [acq |-> owner[p].acq, exp |-> renewal[p]]]
    /\ etag' = [etag EXCEPT ![p] = writes + 1]
    /\ renewal' = [renewal EXCEPT ![p] = 0]
    /\ UNCHANGED <<pc, snap, tries, beat, done>>

\* Mutant: a refused renewal is ignored and the run goes on.
RenewRegardless(p) ==
    /\ hb[p] = "put"
    /\ \/ Matches(etag[p]) /\ Write(p, renewal[p]) /\ NoFault /\ Renewed(p)
       \/ /\ ~Matches(etag[p]) /\ NoWrite /\ NoFault
          /\ hb' = [hb EXCEPT ![p] = "wait"]
          /\ UNCHANGED <<pc, owner, etag, snap, tries, beat, renewal, done>>
    /\ UNCHANGED <<clock, crashes>>

Renew(p) ==
    /\ hb[p] = "put"
    /\ \/ Matches(etag[p]) /\ Write(p, renewal[p]) /\ NoFault /\ Renewed(p)
       \/ ~Matches(etag[p]) /\ NoWrite /\ NoFault /\ Lose(p)
       \/ NoWrite /\ Fault /\ Lose(p)
       \/ Matches(etag[p]) /\ Write(p, renewal[p]) /\ Fault /\ Lose(p)
    /\ UNCHANGED <<clock, crashes>>

\* The Done case of the select: the goroutine returns and closes h.done.
HeartbeatStop(p) ==
    /\ hb[p] = "wait" /\ done[p]
    /\ hb' = [hb EXCEPT ![p] = "off"]
    /\ UNCHANGED <<obj, writes, clock, pc, owner, etag, snap, tries, beat,
                   renewal, done, faults, crashes>>

-----------------------------------------------------------------------------
(* The run, Release, and the environment.                                  *)

\* The caller's own context ends (a timeout, a SIGTERM): the run is shutting
\* down and has yet to call Release.
CancelRun(p) ==
    /\ Working(p)
    /\ done' = [done EXCEPT ![p] = TRUE]
    /\ UNCHANGED <<obj, writes, clock, pc, owner, etag, snap, tries, hb, beat,
                   renewal, faults, crashes>>

\* Mutant: Release waits for a heartbeat whose context it never cancelled.
ReleaseNoCancel(p) ==
    /\ pc[p] = "held" /\ hb[p] # "put"
    /\ Goto(p, "relwait")
    /\ snap' = [snap EXCEPT ![p] = etag[p]]
    /\ UNCHANGED <<obj, writes, clock, owner, etag, tries, hb, beat, renewal,
                   done, faults, crashes>>

\* Release takes the mutex, which renew holds across its call to the store,
\* reads the ETag, and cancels the context after letting the mutex go.
Release(p) ==
    /\ pc[p] = "held" /\ hb[p] # "put"
    /\ Goto(p, "relwait")
    /\ snap' = [snap EXCEPT ![p] = etag[p]]
    /\ done' = [done EXCEPT ![p] = TRUE]
    /\ UNCHANGED <<obj, writes, clock, owner, etag, tries, hb, beat, renewal,
                   faults, crashes>>

\* Once the heartbeat is gone: a Head, and a comparison with the ETag read.
ReleaseHead(p) ==
    /\ pc[p] = "relwait" /\ hb[p] = "off" /\ NoWrite
    /\ \/ Matches(snap[p]) /\ NoFault /\ Step(p, "reldelete")
       \/ ~Matches(snap[p]) /\ NoFault /\ Leave(p)
       \/ Fault /\ Leave(p)
    /\ UNCHANGED <<clock, crashes>>

\* The Delete itself carries no condition.
ReleaseDelete(p) ==
    /\ pc[p] = "reldelete" /\ Leave(p)
    /\ \/ obj' = NoLock /\ UNCHANGED writes /\ NoFault
       \/ obj' = NoLock /\ UNCHANGED writes /\ Fault
       \/ NoWrite /\ Fault
    /\ UNCHANGED <<clock, crashes>>

\* The process dies; its lock stays in the bucket.
Crash(p) ==
    /\ pc[p] # "idle" /\ crashes < MaxCrashes
    /\ crashes' = crashes + 1
    /\ Leave(p)
    /\ UNCHANGED <<obj, writes, clock, faults>>

Tick ==
    /\ clock < MaxTime
    /\ Timely => \A p \in Procs : pc[p] # "idle" => clock + 1 < owner[p].exp
    /\ clock' = clock + 1
    /\ UNCHANGED <<obj, writes, proc, faults, crashes>>

Next ==
    \/ Tick
    \/ \E p \in Procs :
        \/ Acquire(p) \/ PutIfAbsent(p) \/ ReadBack(p) \/ ReadHead(p)
        \/ ReadGet(p) \/ TakeOver(p) \/ ReRead(p)
        \/ Beat(p) \/ Renew(p) \/ HeartbeatStop(p)
        \/ CancelRun(p) \/ Release(p) \/ ReleaseHead(p) \/ ReleaseDelete(p)
        \/ Crash(p)

Spec == Init /\ [][Next]_vars

-----------------------------------------------------------------------------
(* Fairness.  A store call ends: it answers, fails, or meets its timeout.  *)
(* A ticker that is due fires, a goroutine whose context is done returns,  *)
(* and time passes.  Nothing makes a run end or an acquisition start.      *)

StoreStep(p) ==
    \/ PutIfAbsent(p) \/ ReadBack(p) \/ ReadHead(p) \/ ReadGet(p) \/ TakeOver(p)
    \/ ReRead(p) \/ ReleaseHead(p) \/ ReleaseDelete(p)

Fairness ==
    /\ WF_vars(Tick)
    /\ \A p \in Procs :
        /\ WF_vars(StoreStep(p)) /\ WF_vars(Renew(p))
        /\ WF_vars(Beat(p)) /\ WF_vars(HeartbeatStop(p))

FairSpec == Spec /\ Fairness

-----------------------------------------------------------------------------
(* Properties.                                                             *)

(* Two runs never work on one target at once.  This is what Acquire,       *)
(* Held.Context and the heartbeat are for; it needs Timely, because a      *)
(* process paused past its own lease cannot know that it lost it.          *)
MutualExclusion ==
    \A p, q \in Procs : Working(p) /\ Working(q) => p = q

(* A live lease does not change hands: whoever overwrites the lock of      *)
(* another process does so after it expired (attempt, renew).              *)
NoSteal ==
    [][ obj # NoLock /\ obj' # NoLock /\ obj'.by # obj.by
            => Expired(obj.exp, clock) ]_vars

(* Release deletes the lock of the process that releases, and never one    *)
(* that a new owner took over in the meantime (Release's doc comment).     *)
ReleaseOwnOnly ==
    [][ obj # NoLock /\ obj' = NoLock => pc[obj.by] = "reldelete" ]_vars

(* Of the handles that exist, at most one carries the ETag of the object:  *)
(* only that one can renew or release the lock (hold, renew).              *)
OneCurrentHandle ==
    \A p, q \in Procs :
        (/\ pc[p] = "held" /\ Matches(etag[p])
         /\ pc[q] = "held" /\ Matches(etag[q])) => p = q

(* A run whose lock was taken from it finds out and stops: its next        *)
(* renewal fails and cancels Held.Context (heartbeat).  The last Interval  *)
(* before MaxTime is left out, since no ticker fires after it.             *)
LostRunStops ==
    \A p \in Procs :
        Working(p) /\ ~Matches(etag[p]) /\ clock + Interval <= MaxTime
            ~> ~Working(p)

(* Acquire returns whatever the other processes do, since its retries are  *)
(* bounded (acquireAttempts), and so does Release: the heartbeat it waits  *)
(* for is stuck neither on the mutex nor on a context nobody cancelled.    *)
CallsReturn ==
    \A p \in Procs :
        /\ pc[p] \in {"create", "readback", "head", "get", "takeover", "reread"}
                ~> pc[p] \in {"idle", "held"}
        /\ pc[p] \in {"relwait", "reldelete"} ~> pc[p] = "idle"

(* A lock that was released is gone: without store failures and crashes,   *)
(* a process that holds nothing has no lock in the bucket.  Release says   *)
(* of the lock it leaves behind that it "would block the target until the  *)
(* lease expired".                                                         *)
ReleasedIsGone ==
    \A p \in Procs : pc[p] = "idle" => obj = NoLock \/ obj.by # p

-----------------------------------------------------------------------------
(* What the rest of vaultd relies on: the bucket's lock as the lease of    *)
(* one process, which is live while that process is between the write that *)
(* took the lock and the end of its Release.                               *)

LeaseOf ==
    IF obj = NoLock
    THEN [by |-> NoLock, live |-> FALSE]
    ELSE [by |-> obj.by, live |-> pc[obj.by] \in Holding]

Abstract == INSTANCE Lease WITH lease <- LeaseOf, NoOne <- NoLock

(* The lock implements the abstract lease (under Timely): only a lease     *)
(* whose process is gone is taken over, only its process frees it.         *)
ImplementsLease == Abstract!Spec
=============================================================================
