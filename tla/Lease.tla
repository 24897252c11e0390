-------------------------------- MODULE Lease --------------------------------
(***************************************************************************)
(* What internal/lock promises to its callers: one target is leased to one *)
(* process at a time.  A lease ends in one of two ways.  Its process frees *)
(* it, or abandons it (a crash, a failed renewal, a response that never    *)
(* arrived), and an abandoned lease may pass to somebody else.             *)
(***************************************************************************)
CONSTANTS Procs, NoOne

VARIABLE lease   \* whose lease it is, and whether that process still acts on it

Free == [by |-> NoOne, live |-> FALSE]

Init == lease = Free

\* A process takes a lease that is free or abandoned.
Grant(p) ==
    /\ ~lease.live
    /\ lease' = [by |-> p, live |-> TRUE]

\* As Grant, but the process never learns that it succeeded.
GrantUnseen(p) ==
    /\ ~lease.live
    /\ lease' = [by |-> p, live |-> FALSE]

\* The process stops acting on its lease and leaves it behind.
Abandon(p) ==
    /\ lease = [by |-> p, live |-> TRUE]
    /\ lease' = [by |-> p, live |-> FALSE]

\* The process gives its lease up.
GiveUp(p) ==
    /\ lease = [by |-> p, live |-> TRUE]
    /\ lease' = Free

Next == \E p \in Procs : Grant(p) \/ GrantUnseen(p) \/ Abandon(p) \/ GiveUp(p)

Spec == Init /\ [][Next]_lease
=============================================================================
