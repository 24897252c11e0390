---------------------------- MODULE MCScheduler ----------------------------
(* Instances of Scheduler for TLC.                                         *)
EXTENDS Scheduler

CONSTANTS n1, n2

MCEvery == [backup |-> 2, verify |-> 3]

One == <<"backup">>
Both == <<"backup", "verify">>

Plan(hosts, jobs, overlap, daemons, shots, crashes, stops, manual, refreshes, faults) ==
    [hosts |-> hosts, jobs |-> jobs, overlap |-> overlap, daemons |-> daemons, shots |-> shots,
     crashes |-> crashes, stops |-> stops, manual |-> manual,
     refreshes |-> refreshes, faults |-> faults]

MCScenarios == {
    \* two replicas, and the store failing once
    Plan({n1, n2}, One, "skip", 2, 0, 0, 0, 0, 0, 1),
    \* a daemon that crashes and is started again, or is replaced
    Plan({n1, n2}, One, "skip", 2, 0, 1, 0, 0, 1, 0),
    \* a daemon beside a one-shot process, and one-shot processes alone
    Plan({n1, n2}, One, "fail", 1, 1, 0, 0, 0, 1, 0),
    Plan({n1, n2}, Both, "fail", 0, 2, 0, 0, 0, 1, 1),
    \* a daemon that is shut down, with a run waiting or one started by hand
    Plan({n1}, One, "queue", 1, 0, 0, 1, 1, 0, 0),
    Plan({n1}, Both, "queue", 1, 0, 0, 1, 0, 1, 0),
    \* two schedules and a run started by hand contend for one worker and one lock
    Plan({n1}, Both, "skip", 1, 0, 0, 0, 1, 0, 0)}

RestartScenarios == {Plan({n1}, One, "skip", 2, 0, 1, 0, 0, 0, 0)}
=============================================================================
