------------------------------ MODULE MCServer ------------------------------
(* Instances of Server for TLC.                                            *)
EXTENDS Server

None == [clicks |-> 0, scheduled |-> 0, prunes |-> 0, lines |-> 0, faults |-> 0,
         hiccups |-> 0, tries |-> 0, stops |-> 0, ticks |-> 0, subscribed |-> FALSE, targets |-> Targets]

MCSubs == << [events |-> {"backup.failed", "backup.succeeded"}, dedup |-> 2],
             [events |-> {"backup.failed", "verify.failed"}, dedup |-> 0] >>
MCEvents == {"backup.succeeded", "backup.failed", "verify.failed"}
MCEmitters == RunIDs \cup {0}

One == [None EXCEPT !.targets = Verifiable]

\* Runs of the UI and of the schedule, failing, with the history full.
Runs == [None EXCEPT !.clicks = 4, !.faults = 1]
Mixed == [None EXCEPT !.clicks = 2, !.scheduled = 1, !.faults = 1]
\* One run with a log at its limit.
Logs == [One EXCEPT !.clicks = 1, !.lines = 4]
\* Webhooks that fail, and the same event again.
Webhooks == [One EXCEPT !.clicks = 2, !.faults = 1, !.hiccups = 2, !.ticks = 2, !.subscribed = TRUE]
\* Previews, applications and backups.
Prunes == [None EXCEPT !.clicks = 2, !.faults = 1, !.prunes = 4]
\* Requests with right and wrong tokens.
Tokens == [None EXCEPT !.tries = 5, !.ticks = 6]
\* The daemon is told to stop.
Stops == [One EXCEPT !.clicks = 2, !.scheduled = 1, !.prunes = 2, !.faults = 1, !.stops = 1]

MCScenarios == {Runs, Mixed, Logs, Webhooks, Prunes, Tokens, Stops}
StopScenarios == {Stops}
=============================================================================
