------------------------------- MODULE Prune -------------------------------
(***************************************************************************)
(* internal/prune: how a target's index entries become the input of its    *)
(* retention policy, and what a plan removes from the index.               *)
(***************************************************************************)
EXTENDS Entries, Retention

\* The stored backups among the entries.  Failed runs are not backups.
Backups(es) ==
    {[id |-> es[i].id, at |-> es[i].at, verified |-> Verified(es[i]), line |-> i] :
        i \in {j \in DOMAIN es : es[j].ok}}

\* The entry with the latest FinishedAt, the first of them on a tie, is a
\* failure.
LastRunFailed(es) ==
    \E i \in DOMAIN es :
        /\ ~es[i].ok
        /\ \A j \in DOMAIN es : es[j].at <= es[i].at
        /\ \A j \in 1..(i - 1) : es[j].at < es[i].at

\* The ids prune.Runner.Plan decides to delete.
Doomed(policy, es) == Plan(policy, Backups(es), LastRunFailed(es))

\* Where the retained window starts; 0 is the zero time.
OldestKept(es, doomed) ==
    LET kept == {b.at : b \in {c \in Backups(es) : c.id \notin doomed}}
    IN IF kept = {} THEN 0 ELSE CHOOSE t \in kept : \A u \in kept : t <= u

\* The Remove that Apply sends to the index once the objects are gone.
RemovalOf(es, doomed) == RemoveOp(doomed, OldestKept(es, doomed))
=============================================================================
