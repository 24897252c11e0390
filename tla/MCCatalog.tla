----------------------------- MODULE MCCatalog -----------------------------
EXTENDS Catalog

\* One backup a day, the last one or two kept.
MCRules ==
    [keep |-> [tier \in rungs |-> IF tier = "daily" THEN 1 ELSE 0],
     weekOn |-> 0, monthOn |-> 1, minKeep |-> 2]

Story(use, overlap, r, v, c, crash, loss, fail, resend) ==
    [use |-> use, overlap |-> overlap, runs |-> r, checks |-> v, commands |-> c,
     crashes |-> crash, losses |-> loss, faults |-> [failed |-> fail, resent |-> resend]]

MCScenarios ==
    { Story({}, TRUE, 4, 2, 0, 1, 0, 1, 0),                  \* the daemon alone
      Story({}, TRUE, 3, 0, 0, 0, 0, 0, 1),                  \* a resent request
      Story({"prune", "verify"}, FALSE, 4, 1, 1, 1, 0, 1, 0),\* commands in between
      Story({"prune", "verify"}, TRUE, 3, 1, 2, 0, 0, 1, 0), \* commands beside it
      Story({"orphans"}, TRUE, 2, 0, 2, 1, 0, 1, 0),         \* the sweep beside it
      Story({"reindex", "prune", "orphans"}, FALSE, 3, 1, 2, 1, 1, 1, 0) }

\* A prune dies; a verification and another prune follow.
FloorScenarios == { Story({"prune", "verify"}, FALSE, 3, 2, 1, 1, 0, 0, 0) }

=============================================================================
