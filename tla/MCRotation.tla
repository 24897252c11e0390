----------------------------- MODULE MCRotation -----------------------------
EXTENDS Rotation

\* keep per tier (hourly, daily, weekly, monthly, yearly), the named days and
\* the floor.
Rules(h, d, w, m, y, on, min) ==
    [keep |-> [tier \in rungs |->
        CASE tier = "hourly" -> h [] tier = "daily" -> d [] tier = "weekly" -> w
          [] tier = "monthly" -> m [] tier = "yearly" -> y],
     weekOn |-> on, monthOn |-> 2, minKeep |-> min]

MCPolicies ==
    { Rules(0, 0, 0, 0, 0, 0, 1),    \* no retention block
      Rules(0, 1, 0, 0, 0, 0, 1),    \* one tier
      Rules(1, 0, 0, 0, 0, 0, 3),    \* the floor does all the work
      Rules(0, 1, 2, 0, 0, 0, 1),    \* the named weekday comes first
      Rules(0, 1, 2, 0, 0, 1, 1),    \* the named weekday comes last
      Rules(0, 2, 0, 2, 1, 0, 2),
      Rules(2, 1, 1, 1, 1, 1, 0) }
=============================================================================
