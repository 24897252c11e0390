----------------------------- MODULE Retention -----------------------------
(***************************************************************************)
(* The retention policy of internal/retention, a pure function from the    *)
(* backups of a target to the ones prune deletes: grandfather-father-son   *)
(* tiers, the most recent verified backup, the min_keep floor, and the     *)
(* freeze after a failed run.                                              *)
(*                                                                         *)
(* The backups are a set of records with fields id, at and verified, and a *)
(* field line that tells apart two index entries of one backup.  Times are *)
(* hours since an epoch.                                                   *)
(***************************************************************************)
EXTENDS Naturals, FiniteSets

CONSTANTS HoursPerDay, DaysPerWeek, DaysPerMonth, MonthsPerYear

ASSUME CalendarAssumption ==
    {HoursPerDay, DaysPerWeek, DaysPerMonth, MonthsPerYear} \subseteq Nat \ {0}

-----------------------------------------------------------------------------
(* The calendar of the policy's location, with days, weeks, months and     *)
(* years short enough to enumerate.  A week may straddle two months.       *)

DayOf(at) == at \div HoursPerDay
Weekday(at) == DayOf(at) % DaysPerWeek
MonthDay(at) == (DayOf(at) % DaysPerMonth) + 1

bucketKey(at, tier) ==
    CASE tier = "hourly"  -> at
      [] tier = "daily"   -> DayOf(at)
      [] tier = "weekly"  -> DayOf(at) \div DaysPerWeek
      [] tier = "monthly" -> DayOf(at) \div DaysPerMonth
      [] tier = "yearly"  -> DayOf(at) \div (DaysPerMonth * MonthsPerYear)

-----------------------------------------------------------------------------
(* A policy and its tiers.                                                 *)

rungs == {"hourly", "daily", "weekly", "monthly", "yearly"}

Policy == [keep : [rungs -> Nat], weekOn : Nat, monthOn : Nat, minKeep : Nat]

empty(policy) == \A tier \in rungs : policy.keep[tier] = 0

Newest(S) == CHOOSE b \in S : \A c \in S : c.at <= b.at

Periods(tier, S) == {bucketKey(b.at, tier) : b \in S}

\* Mutant: a tier keeps calendar periods, whether or not they hold a backup.
KeptPeriodsOfCalendar(policy, tier, S) ==
    {p \in Periods(tier, S) : \A q \in Periods(tier, S) : q < p + policy.keep[tier]}

\* The most recent periods that hold a backup, Keep of them.
KeptPeriods(policy, tier, S) ==
    {p \in Periods(tier, S) :
        Cardinality({q \in Periods(tier, S) : q > p}) < policy.keep[tier]}

\* The backups of a period that its rule names.
OnNamedDay(policy, tier, S) ==
    {b \in S : \/ tier = "weekly" /\ Weekday(b.at) = policy.weekOn
               \/ tier = "monthly" /\ MonthDay(b.at) = policy.monthOn}

\* Mutant: the named day is ignored.
representativeNewest(policy, tier, S) == Newest(S)

\* The backup that stands for a period: the newest of the named day, or else
\* the newest.
representative(policy, tier, S) ==
    LET named == OnNamedDay(policy, tier, S)
    IN IF named # {} THEN Newest(named) ELSE Newest(S)

survivors(policy, tier, S) ==
    {representative(policy, tier, {b \in S : bucketKey(b.at, tier) = p}).id :
        p \in KeptPeriods(policy, tier, S)}

-----------------------------------------------------------------------------
(* The plan.                                                               *)

\* Mutant: no backup is kept for being verified.
newestVerifiedNone(S) == {}

newestVerified(S) ==
    LET verified == {b \in S : b.verified}
    IN IF verified = {} THEN {} ELSE {Newest(verified).id}

countKept(S, ids) == Cardinality({b \in S : b.id \in ids})

\* Mutant: the floor counts one backup too many as kept.
FloorShort(policy, S, ids) ==
    LET doomed == {b \in S : b.id \notin ids}
    IN {b.id : b \in {d \in doomed :
            Cardinality({c.id : c \in {x \in doomed : x.at > d.at}})
                + countKept(S, ids) + 1 < policy.minKeep}}

\* The newest doomed backups, promoted until MinKeep entries are kept.
Floor(policy, S, ids) ==
    LET doomed == {b \in S : b.id \notin ids}
    IN {b.id : b \in {d \in doomed :
            Cardinality({c.id : c \in {x \in doomed : x.at > d.at}})
                + countKept(S, ids) < policy.minKeep}}

\* The ids the policy keeps: all of them when it has no tier.
KeptIDs(policy, S) ==
    LET chosen == newestVerified(S) \cup UNION {survivors(policy, tier, S) : tier \in rungs}
    IN IF empty(policy) THEN {b.id : b \in S} ELSE chosen \cup Floor(policy, S, chosen)

\* Mutant: a failed run does not stop retention.
PlanThawed(policy, S, lastRunFailed) == {b.id : b \in S} \ KeptIDs(policy, S)

\* The ids Policy.Plan deletes; none while the most recent run failed.
Plan(policy, S, lastRunFailed) ==
    IF lastRunFailed THEN {} ELSE {b.id : b \in S} \ KeptIDs(policy, S)
=============================================================================
