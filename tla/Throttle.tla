------------------------------ MODULE Throttle ------------------------------
(***************************************************************************)
(* internal/server/throttle.go, as authenticate uses it: a request asks    *)
(* whether its address must wait, and later tells how its token was.       *)
(***************************************************************************)
EXTENDS Clock

CONSTANTS
    Requests,  \* the requests that may be served at a time
    Hosts,     \* their addresses
    failureBudget, lockout, maxLockout, forget,
    maxShift   \* most doublings of the lockout (6 in the code)

ASSUME ThrottleAssumption ==
    /\ {failureBudget, lockout, maxLockout, forget, maxShift} \subseteq Nat
    /\ maxLockout < forget /\ Hosts # {}

\* What doubling does, as far as the lockout is doubled.
ASSUME DoublingAssumption ==
    \A n \in 0..maxShift : 2 ^ n \in Nat /\ (n < maxShift => 2 ^ n <= 2 ^ (n + 1))

VARIABLES
    seen,      \* the addresses remembered, with count, last and until
    swept,     \* when the map was last swept
    req,       \* the requests: where they are, and from whom
    tries      \* how many are still to come

throttleVars == <<seen, swept, req, tries>>

\* The zero time of the last sweep is long ago.
ThrottleInit(n) ==
    /\ seen = <<>> /\ swept = 0 /\ tries = n
    /\ req = [r \in Requests |-> [pc |-> "new", host |-> CHOOSE h \in Hosts : TRUE]]

Without(hosts) == [h \in DOMAIN seen \ hosts |-> seen[h]]

\* The records nobody has touched for a while.
stale == {h \in DOMAIN seen : now - seen[h].last > forget}

\* blocked: sweep, when it is time to, and look.
blocked(r, h) ==
    /\ req[r].pc = "new" /\ tries > 0 /\ tries' = tries - 1
    /\ LET time == now - swept >= forget
           after == IF time THEN Without(stale) ELSE seen
       IN /\ seen' = after
          /\ swept' = IF time THEN now ELSE swept
          /\ req' = [req EXCEPT ![r] =
                [host |-> h, pc |-> IF h \in DOMAIN after /\ after[h].until > now THEN "refused" ELSE "token"]]

Record(h) == IF h \in DOMAIN seen THEN seen[h] ELSE [count |-> 0, last |-> 0, until |-> 0]

Least(a, b) == IF a < b THEN a ELSE b

\* Mutant: the doublings are not limited, and a duration has room for two.
unlimited(count) == (lockout * 2 ^ (count - failureBudget - 1)) % (4 * lockout)

penalty(count) == Least(lockout * 2 ^ Least(count - failureBudget - 1, maxShift), maxLockout)

failed(r) ==
    /\ req[r].pc = "token" /\ req' = [req EXCEPT ![r].pc = "new"]
    /\ LET h == req[r].host
           n == Record(h).count + 1
       IN seen' = [g \in DOMAIN seen \cup {h} |->
            IF g # h THEN seen[g]
            ELSE [count |-> n, last |-> now,
                  until |-> IF n > failureBudget THEN now + penalty(n) ELSE Record(h).until]]
    /\ UNCHANGED <<swept, tries>>

succeeded(r) ==
    /\ req[r].pc = "token" /\ req' = [req EXCEPT ![r].pc = "new"]
    /\ seen' = Without({req[r].host})
    /\ UNCHANGED <<swept, tries>>

\* The refused client comes again.
Retry(r) ==
    /\ req[r].pc = "refused" /\ req' = [req EXCEPT ![r].pc = "new"]
    /\ UNCHANGED <<seen, swept, tries>>

Authenticate(r) == (\E h \in Hosts : blocked(r, h)) \/ failed(r) \/ succeeded(r) \/ Retry(r)

-----------------------------------------------------------------------------

\* An address that must wait is not forgotten, and does not have to wait less,
\* before its time is over or one of its requests presented the right token
\* (throttle.go, failed and sweep).
WaitHolds ==
    [][\A h \in DOMAIN seen :
        seen[h].until > now' =>
            \/ h \in DOMAIN seen' /\ seen'[h].until >= seen[h].until
            \/ \E r \in Requests : req[r].pc = "token" /\ req[r].host = h /\ req'[r].pc = "new"
                                   /\ h \notin DOMAIN seen']_<<now, throttleVars>>
=============================================================================
