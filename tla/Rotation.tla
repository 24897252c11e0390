------------------------------ MODULE Rotation ------------------------------
(***************************************************************************)
(* The life of one target's backups under its retention policy, with the   *)
(* runs one after the other (they hold the target's lock): backups that    *)
(* succeed or fail, verifications, and the prune the executor runs after   *)
(* a backup or an operator starts.  Module Catalog has the interleavings;  *)
(* this one has the calendar, many policies, and a long history.           *)
(***************************************************************************)
EXTENDS Prune

CONSTANTS
    Policies,   \* the policies to try
    MaxTime,    \* the last hour
    MaxRuns,    \* bound on the entries of the index
    MaxChecked  \* bound on the backups that are ever verified

ASSUME RotationAssumption ==
    /\ Policies \subseteq Policy
    /\ MaxTime \in Nat /\ MaxRuns \in Nat /\ MaxChecked \in Nat

VARIABLES
    policy,   \* the configured policy
    now,      \* the hour of the last run
    index,    \* the target's index
    hist      \* every backup ever stored, and its last verification

vars == <<policy, now, index, hist>>

Hours == 1..MaxTime
Taken == DOMAIN hist

TypeOK ==
    /\ policy \in Policies
    /\ now \in 0..MaxTime
    /\ \A i \in DOMAIN index :
        index[i] \in [id : 0..MaxTime, at : Hours, ok : BOOLEAN, ver : -1..1]
    /\ Taken \subseteq Hours
    /\ \A b \in Taken : hist[b] \in -1..1

Init ==
    /\ policy \in Policies
    /\ now = 0 /\ index = <<>>
    /\ hist = [b \in {} |-> 0]

\* A run starts at a later hour.
Runs(at) ==
    /\ at > now /\ now' = at
    /\ Len(index) < MaxRuns
    /\ UNCHANGED policy

Backup(at) ==
    /\ Runs(at)
    /\ index' = Updated(AppendOp(NewEntry(at, 0)), index)
    /\ hist' = [b \in Taken \cup {at} |-> IF b = at THEN 0 ELSE hist[b]]

FailedBackup(at) ==
    /\ Runs(at)
    /\ index' = Updated(AppendOp(NewFailureEntry(at)), index)
    /\ UNCHANGED hist

\* A stored backup is verified, for the first time or again.
Verify(b, outcome) ==
    /\ Listed(index, b)
    /\ hist[b] # 0 \/ Cardinality({c \in Taken : hist[c] # 0}) < MaxChecked
    /\ index' = Updated(VerifyOp(b, outcome), index)
    /\ hist' = [hist EXCEPT ![b] = outcome]
    /\ UNCHANGED <<policy, now>>

\* Plan, then Apply: nothing happens when nothing is to be deleted.
ApplyPlan ==
    LET doomed == Doomed(policy, index)
    IN /\ doomed # {}
       /\ index' = Updated(RemovalOf(index, doomed), index)
       /\ UNCHANGED <<policy, now, hist>>

Next ==
    \/ \E at \in Hours : Backup(at) \/ FailedBackup(at)
    \/ \E b \in Taken, outcome \in {-1, 1} : Verify(b, outcome)
    \/ ApplyPlan

Spec == Init /\ [][Next]_vars

-----------------------------------------------------------------------------
(* Properties.                                                             *)

Stored == {b.id : b \in Backups(index)}

\* The most recent periods of a tier that ever held a backup.
RecentPeriods(tier) ==
    LET ever == {bucketKey(b, tier) : b \in Taken}
    IN {p \in ever : Cardinality({q \in ever : q > p}) < policy.keep[tier]}

Named(tier, b) ==
    IF tier = "weekly" THEN Weekday(b) = policy.weekOn ELSE MonthDay(b) = policy.monthOn

(* However the prunes fell, a backup remains of each of the most recent    *)
(* periods of a tier that ever held one: deleting early never leaves a     *)
(* tier short (survivors).                                                 *)
PeriodsCovered ==
    \A tier \in rungs : \A p \in RecentPeriods(tier) :
        \E b \in Stored : bucketKey(b, tier) = p

(* A kept week or month that ever had a backup on the day the policy names *)
(* still has one of that day: the stand-in chosen before that day came     *)
(* makes way, and nothing displaces the backup after (representative).     *)
NamedDayPromoted ==
    \A tier \in {"weekly", "monthly"}, b \in Taken :
        bucketKey(b, tier) \in RecentPeriods(tier) /\ Named(tier, b) =>
            \E c \in Stored :
                bucketKey(c, tier) = bucketKey(b, tier) /\ Named(tier, c)

(* A backup whose last verification passed is deleted only while a newer   *)
(* one that passed remains (Plan, invariant 2).                            *)
VerifiedOutlives ==
    [][ \A b \in Stored \ Stored' :
            hist[b] = 1 => \E c \in Stored' : hist[c] = 1 /\ c > b ]_vars

(* A prune right after a prune deletes nothing: dropping backups never     *)
(* changes which of the others represent a period.                         *)
PruneSettles ==
    [][ ApplyPlan => Doomed(policy, index') = {} ]_vars
=============================================================================
