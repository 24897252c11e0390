---------------------------- MODULE ServerProofs ----------------------------
(***************************************************************************)
(* Proofs about Server and the parts it puts together: the throttle in     *)
(* front of the handlers, the deliveries of a run's events, the registry   *)
(* of runs with their logs, and the prune that is previewed.  They hold    *)
(* for any targets, runs, subscriptions, addresses, requests and bounds.   *)
(***************************************************************************)
EXTENDS Server, TLAPS

-----------------------------------------------------------------------------
(* Which steps concern which part.                                         *)

(* The throttle is touched by the requests alone, and time passes by       *)
(* itself.                                                                 *)
LEMMA ThrottleFrame ==
  ASSUME [Next]_vars
  PROVE  \/ \E r \in Requests : Authenticate(r) /\ now' = now
         \/ now' = now + 1 /\ UNCHANGED throttleVars
         \/ UNCHANGED <<now, throttleVars>>
<1>1. CASE Operator
  BY <1>1, ZenonT(20) DEF Operator, startRun, ScheduledRun, PrunePlan, Look, Stop, Time, Tick
<1>2. CASE Daemon
  BY <1>2, Zenon DEF Daemon, execute, Acquire, Work, Emitted, Release, Finish, AppendLine, PruneApply, Exit
<1>3. CASE UNCHANGED vars
  BY <1>3 DEF vars
<1> QED BY <1>1, <1>2, <1>3, SMTT(30) DEF Next

-----------------------------------------------------------------------------
(* The throttle.                                                           *)

(* Multiplication by a number is monotone. *)
LEMMA Times ==
  ASSUME NEW d \in Nat, NEW x \in Nat, NEW y \in Nat, x <= y
  PROVE  d * x <= d * y /\ d * x \in Nat /\ d * y \in Nat
<1>1. PICK z \in Nat : y = x + z
  BY y - x \in Nat
<1>2. d * y = d * x + d * z
  BY <1>1
<1>3. d * z \in Nat /\ d * x \in Nat /\ d * y \in Nat
  OBVIOUS
<1> QED BY <1>2, <1>3

(* One failure more never shortens the lockout, and none makes it longer   *)
(* than maxLockout (throttle.go, failed).                                  *)
LEMMA PenaltyGrows ==
  ASSUME NEW n \in Nat, n > failureBudget
  PROVE  penalty(n) \in Nat /\ penalty(n) <= maxLockout /\ penalty(n) <= penalty(n + 1)
<1>0. failureBudget \in Nat /\ lockout \in Nat /\ maxLockout \in Nat /\ maxShift \in Nat
  BY ThrottleAssumption
<1> DEFINE a == Least(n - failureBudget - 1, maxShift)
           b == Least((n + 1) - failureBudget - 1, maxShift)
<1>1. a \in 0..maxShift /\ b \in 0..maxShift /\ (b = a \/ b = a + 1)
  BY <1>0 DEF Least
<1>2. penalty(n) = Least(lockout * 2 ^ a, maxLockout) /\ penalty(n + 1) = Least(lockout * 2 ^ b, maxLockout)
  BY DEF penalty
<1> HIDE DEF a, b
<1>3. 2 ^ a \in Nat /\ 2 ^ b \in Nat /\ 2 ^ a <= 2 ^ b
  <2>1. CASE b = a
    BY <1>1, <2>1, DoublingAssumption
  <2>2. CASE b = a + 1
    <3>1. a < maxShift
      BY <1>0, <1>1, <2>2
    <3> QED BY <1>1, <2>2, <3>1, DoublingAssumption
  <2> QED BY <1>1, <2>1, <2>2
<1> DEFINE p == 2 ^ a
           q == 2 ^ b
<1> HIDE DEF p, q
<1>4. lockout * p <= lockout * q /\ lockout * p \in Nat /\ lockout * q \in Nat
  BY <1>0, <1>3, Times DEF p, q
<1>5. penalty(n) = Least(lockout * p, maxLockout) /\ penalty(n + 1) = Least(lockout * q, maxLockout)
  BY <1>2 DEF p, q
<1> DEFINE u == lockout * p
           v == lockout * q
<1> HIDE DEF u, v
<1>6. u <= v /\ u \in Nat /\ v \in Nat
  BY <1>4 DEF u, v
<1>7. penalty(n) = Least(u, maxLockout) /\ penalty(n + 1) = Least(v, maxLockout)
  BY <1>5 DEF u, v
<1> QED BY <1>0, <1>6, <1>7 DEF Least

Remembered == [count : Nat, last : Nat, until : Nat]

\* What is remembered of an address is not from the future, outlived the
\* last sweep, and says how long to wait after that many failures.
Kept(r) ==
    /\ r \in Remembered
    /\ r.last <= now /\ swept <= r.last + forget
    /\ r.until = IF r.count > failureBudget THEN r.last + penalty(r.count) ELSE 0

ThrottleInv ==
    /\ now \in Nat /\ swept \in Nat /\ swept <= now
    /\ req \in [Requests -> [pc : {"new", "token", "refused"}, host : Hosts]]
    /\ \A h \in DOMAIN seen : Kept(seen[h])

(* At the start no request has failed.                                     *)
LEMMA ThrottleStart ==
  ASSUME Init
  PROVE  ThrottleInv
<1>1. forget \in Nat /\ (CHOOSE h \in Hosts : TRUE) \in Hosts
  BY ThrottleAssumption
<1>2. DOMAIN seen = {} /\ swept = 0 /\ now = forget
  BY DEF Init, ThrottleInit
<1>3. req \in [Requests -> [pc : {"new", "token", "refused"}, host : Hosts]]
  BY <1>1 DEF Init, ThrottleInit
<1> QED BY <1>1, <1>2, <1>3 DEF ThrottleInv

(* What each step of a request does to what is remembered of an address:   *)
(* it stays, is dated again, is forgotten because it is old, or because    *)
(* the right token came.                                                   *)
LEMMA RequestStep ==
  ASSUME ThrottleInv, NEW r \in Requests, Authenticate(r), now' = now
  PROVE  /\ ThrottleInv'
         /\ \A h \in DOMAIN seen : seen[h].until > now =>
              \/ h \in DOMAIN seen' /\ seen'[h].until >= seen[h].until
              \/ req[r].pc = "token" /\ req[r].host = h /\ req'[r].pc = "new" /\ h \notin DOMAIN seen'
<1>0. /\ {failureBudget, maxLockout, forget} \subseteq Nat /\ maxLockout < forget
      /\ req[r] \in [pc : {"new", "token", "refused"}, host : Hosts]
      /\ now \in Nat /\ swept \in Nat /\ swept <= now
  BY ThrottleAssumption DEF ThrottleInv
<1>1. ASSUME NEW pc \in {"new", "token", "refused"}, req' = [req EXCEPT ![r].pc = pc]
      PROVE  /\ req' \in [Requests -> [pc : {"new", "token", "refused"}, host : Hosts]]
             /\ req'[r].pc = pc
  BY <1>0, <1>1 DEF ThrottleInv
<1>2. ASSUME NEW h \in Hosts, blocked(r, h)
      PROVE  /\ ThrottleInv'
             /\ \A g \in DOMAIN seen : seen[g].until > now =>
                  g \in DOMAIN seen' /\ seen'[g].until >= seen[g].until
  <2> DEFINE due == now - swept >= forget
             after == IF due THEN Without(stale) ELSE seen
  <2>1. /\ seen' = after /\ swept' = IF due THEN now ELSE swept
        /\ req' = [req EXCEPT ![r] =
             [host |-> h, pc |-> IF h \in DOMAIN after /\ after[h].until > now THEN "refused" ELSE "token"]]
    BY <1>2, Zenon DEF blocked
  <2>2. req' \in [Requests -> [pc : {"new", "token", "refused"}, host : Hosts]]
    BY <2>1 DEF ThrottleInv
  <2>3. CASE due
    <3>1. DOMAIN seen' = DOMAIN seen \ stale /\ \A g \in DOMAIN seen' : seen'[g] = seen[g]
      BY <2>1, <2>3 DEF Without
    <3>2. swept' = now
      BY <2>1, <2>3
    <3>3. ASSUME NEW g \in DOMAIN seen'
          PROVE  Kept(seen[g])'
      <4>1. Kept(seen[g]) /\ ~(now - seen[g].last > forget) /\ seen'[g] = seen[g]
        BY <3>1, <3>3 DEF ThrottleInv, stale
      <4>2. now <= seen[g].last + forget
        BY <1>0, <4>1 DEF Kept, Remembered
      <4> QED BY <1>2, <3>2, <4>1, <4>2, now' = now DEF Kept
    <3>4. ASSUME NEW g \in DOMAIN seen, seen[g].until > now
          PROVE  g \in DOMAIN seen'
      <4> DEFINE s == seen[g]
      <4>1. s \in Remembered /\ s.last <= now /\ s.until = IF s.count > failureBudget THEN s.last + penalty(s.count) ELSE 0
        BY DEF ThrottleInv, Kept
      <4> HIDE DEF s
      <4>2. s.count > failureBudget => penalty(s.count) \in Nat /\ penalty(s.count) <= maxLockout
        BY <4>1, PenaltyGrows DEF Remembered
      <4>3. s.until <= s.last + maxLockout
        BY <1>0, <4>1, <4>2 DEF Remembered
      <4>4. ~(now - s.last > forget)
        BY <1>0, <3>4, <4>1, <4>3 DEF s, Remembered
      <4> QED BY <3>1, <4>4 DEF stale, s
    <3>5. \A g \in DOMAIN seen : seen[g].until \in Nat
      BY DEF ThrottleInv, Kept, Remembered
    <3> QED BY <1>0, <2>2, <3>1, <3>2, <3>3, <3>4, <3>5, now' = now DEF ThrottleInv
  <2>4. CASE ~due
    <3>1. seen' = seen /\ swept' = swept
      BY <2>1, <2>4
    <3>2. \A g \in DOMAIN seen : seen[g].until \in Nat
      BY DEF ThrottleInv, Kept, Remembered
    <3> QED BY <2>2, <3>1, <3>2, now' = now DEF ThrottleInv, Kept
  <2> QED BY <2>3, <2>4
<1>3. CASE failed(r)
  <2> DEFINE h == req[r].host
             n == Record(h).count + 1
             new == [count |-> n, last |-> now,
                     until |-> IF n > failureBudget THEN now + penalty(n) ELSE Record(h).until]
  <2>1. /\ seen' = [g \in DOMAIN seen \cup {h} |-> IF g # h THEN seen[g] ELSE new]
        /\ swept' = swept /\ req' = [req EXCEPT ![r].pc = "new"]
    BY <1>3, Zenon DEF failed
  <2>2. Record(h) \in Remembered /\ Record(h).last <= now
        /\ Record(h).until = IF Record(h).count > failureBudget THEN Record(h).last + penalty(Record(h).count) ELSE 0
    BY <1>0 DEF Record, ThrottleInv, Kept, Remembered
  <2> DEFINE old == Record(h)
  <2> HIDE DEF h, old
  <2>3. n \in Nat /\ old.count \in Nat /\ old.last \in Nat /\ n = old.count + 1
    BY <2>2 DEF Remembered, old
  <2>4. n > failureBudget => penalty(n) \in Nat
    BY <2>3, PenaltyGrows
  <2>5. old.count > failureBudget => penalty(old.count) <= penalty(n) /\ penalty(old.count) \in Nat
    BY <2>3, PenaltyGrows
  <2>6. Kept(new) /\ new.until \in Nat
    <3>1. n <= failureBudget => old.until = 0
      BY <1>0, <2>2, <2>3 DEF old
    <3> QED BY <1>0, <2>3, <2>4, <3>1 DEF Kept, Remembered, old
  <2>7. old.until <= new.until
    BY <1>0, <2>2, <2>3, <2>4, <2>5 DEF old, Remembered
  <2> HIDE DEF new, n
  <2>8. \A g \in DOMAIN seen : g = h => seen[g] = old
    BY DEF Record, old
  <2>9. /\ h \in DOMAIN seen' /\ seen'[h] = new
        /\ \A g \in DOMAIN seen' : g # h => g \in DOMAIN seen /\ seen'[g] = seen[g]
        /\ \A g \in DOMAIN seen : g \in DOMAIN seen'
    BY <2>1
  <2>10. \A g \in DOMAIN seen' : Kept(seen[g])'
    BY <2>1, <2>6, <2>9, now' = now DEF ThrottleInv, Kept
  <2>11. ThrottleInv'
    BY <1>0, <1>1, <2>1, <2>10, now' = now, Zenon DEF ThrottleInv
  <2>12. \A g \in DOMAIN seen : seen[g].until \in Nat
    BY DEF ThrottleInv, Kept, Remembered
  <2>13. \A g \in DOMAIN seen : g \in DOMAIN seen' /\ seen'[g].until >= seen[g].until
    BY <2>6, <2>7, <2>8, <2>9, <2>12
  <2> QED BY <2>11, <2>13
<1>4. CASE succeeded(r)
  <2>1. /\ DOMAIN seen' = DOMAIN seen \ {req[r].host} /\ \A g \in DOMAIN seen' : seen'[g] = seen[g]
        /\ swept' = swept /\ req' = [req EXCEPT ![r].pc = "new"] /\ req[r].pc = "token"
    BY <1>4 DEF succeeded, Without
  <2>2. \A g \in DOMAIN seen : seen[g].until \in Nat
    BY DEF ThrottleInv, Kept, Remembered
  <2>3. ThrottleInv'
    BY <1>0, <1>1, <2>1, now' = now DEF ThrottleInv, Kept
  <2> QED BY <1>1, <2>1, <2>2, <2>3
<1>5. CASE Retry(r)
  <2>1. \A g \in DOMAIN seen : seen[g].until \in Nat
    BY DEF ThrottleInv, Kept, Remembered
  <2> QED BY <1>0, <1>1, <1>5, <2>1, now' = now DEF Retry, ThrottleInv, Kept
<1> QED BY <1>2, <1>3, <1>4, <1>5 DEF Authenticate

(* Every step of the daemon keeps the throttle invariant.                  *)
LEMMA ThrottleStep == ThrottleInv /\ [Next]_vars => ThrottleInv'
<1> SUFFICES ASSUME ThrottleInv, [Next]_vars PROVE ThrottleInv'
  OBVIOUS
<1>1. CASE now' = now + 1 /\ UNCHANGED throttleVars
  BY <1>1 DEF throttleVars, ThrottleInv, Kept, Remembered
<1>2. CASE UNCHANGED <<now, throttleVars>>
  BY <1>2 DEF throttleVars, ThrottleInv, Kept
<1> QED BY <1>1, <1>2, ThrottleFrame, RequestStep

(* An address that must wait is not forgotten, and does not have to wait   *)
(* less, before its time is over or the right token came from it: neither  *)
(* a sweep nor a failure counted by a request that overlaps can do that    *)
(* (throttle.go, failed, succeeded and sweep).                             *)
THEOREM LockoutHolds == Spec => WaitHolds
<1> DEFINE W == \A h \in DOMAIN seen :
        seen[h].until > now' =>
            \/ h \in DOMAIN seen' /\ seen'[h].until >= seen[h].until
            \/ \E r \in Requests : req[r].pc = "token" /\ req[r].host = h /\ req'[r].pc = "new"
                                   /\ h \notin DOMAIN seen'
<1>1. ThrottleInv /\ [Next]_vars => [W]_<<now, throttleVars>>
  <2> SUFFICES ASSUME ThrottleInv, [Next]_vars PROVE W \/ UNCHANGED <<now, throttleVars>>
    OBVIOUS
  <2>1. CASE now' = now + 1 /\ UNCHANGED throttleVars
    <3>1. \A h \in DOMAIN seen : seen[h].until \in Nat
      BY DEF ThrottleInv, Kept, Remembered
    <3> QED BY <2>1, <3>1 DEF throttleVars
  <2>2. ASSUME NEW r \in Requests, Authenticate(r), now' = now PROVE W
    BY <2>2, RequestStep
  <2> QED BY <2>1, <2>2, ThrottleFrame, Zenon
<1>2. Init => ThrottleInv
  BY ThrottleStart
<1> QED BY <1>1, <1>2, ThrottleStep, PTL DEF Spec, WaitHolds

-----------------------------------------------------------------------------
(* The deliveries.                                                         *)

Answers == {"ok", "later", "refused"}

Delivery == [pc : {"idle", "next", "dedup", "post"}, event : Events \cup {Never},
             target : Targets \cup {Never}, sub : Nat \ {0}, at : Nat,
             answers : Seq(Answers), served : SUBSET Nat]

\* How far a delivery has come: the subscriptions before the present one
\* that asked for the event had their turn, and as long as one is being
\* posted every answer so far asked to be tried again.
Underway(r) ==
    /\ r.pc = "idle" /\ r.event # Never => r.served = wants(r.event)
    /\ r.pc = "next" => r.event # Never /\ r.served = {i \in wants(r.event) : i < r.sub}
    /\ r.pc \in {"dedup", "post"} =>
        /\ r.event # Never /\ r.sub \in wants(r.event)
        /\ r.served = {i \in wants(r.event) : i <= r.sub}
    /\ Len(r.answers) <= attempts
    /\ \A i \in 1..(Len(r.answers) - 1) : r.answers[i] = "later"
    /\ r.pc = "post" =>
        Len(r.answers) < attempts /\ \A i \in 1..Len(r.answers) : r.answers[i] = "later"

NotifyInv ==
    /\ note \in [Emitters -> Delivery]
    /\ sent \in [Keys -> Nat \cup {Never}]
    /\ \A e \in Emitters : Underway(note[e])

(* A subscription is a number from one to the number of them. *)
LEMMA Wanted ==
  ASSUME NEW event, NEW i \in wants(event)
  PROVE  i \in Nat /\ i >= 1 /\ i <= Len(Subs) /\ Subs[i].dedup \in Nat
<1> DEFINE Sub == [events : SUBSET Events, dedup : Nat]
<1>1. Subs \in Seq(Sub)
  BY NotifyAssumption
<1>d. \A x \in Sub : x.dedup \in Nat
  OBVIOUS
<1> HIDE DEF Sub
<1>2. i \in DOMAIN Subs
  BY DEF wants
<1>3. i \in 1..Len(Subs) /\ Len(Subs) \in Nat
  BY <1>1, <1>2
<1>4. Subs[i] \in Sub
  BY <1>1, <1>3
<1> QED BY <1>3, <1>4, <1>d

(* Nothing has been answered yet. *)
LEMMA SilentType == Silent \in Delivery /\ Silent.answers = <<>> /\ Silent.served = {} /\ Silent.sub = 1
<1>1. <<>> \in Seq(Answers)
  OBVIOUS
<1> QED BY <1>1 DEF Silent, Delivery

(* At the start nothing was emitted.                                       *)
LEMMA NotifyStart ==
  ASSUME Init
  PROVE  NotifyInv
<1>1. Len(<<>>) = 0
  OBVIOUS
<1>2. Silent \in Delivery
  BY SilentType
<1>3. Underway(Silent)
  BY <1>1, NotifyAssumption DEF Silent, Underway
<1>4. note = [e \in Emitters |-> Silent] /\ sent = [k \in Keys |-> Never]
  BY DEF Init, NotifyInit
<1> QED BY <1>2, <1>3, <1>4 DEF NotifyInv

(* A fresh delivery starts at the first subscription. *)
LEMMA EmitStep ==
  ASSUME NotifyInv, NEW e \in Emitters, NEW event \in Events, NEW t \in Targets,
         Emit(e, event, t), sent' = sent
  PROVE  NotifyInv'
<1> DEFINE r == [Silent EXCEPT !.pc = "next", !.event = event, !.target = t]
<1>1. <<>> \in Seq(Answers) /\ Len(<<>>) = 0
  OBVIOUS
<1>2. note' = [note EXCEPT ![e] = r]
  BY DEF Emit
<1>3. r \in Delivery
  BY SilentType, Zenon DEF Delivery
<1>4. /\ r.pc = "next" /\ r.event = event /\ r.answers = <<>> /\ r.served = {} /\ r.sub = 1
  BY SilentType DEF Delivery
<1> HIDE DEF r
<1>5. {} = {i \in wants(event) : i < 1}
  BY Wanted
<1>6. event # Never
  BY NotifyAssumption
<1>7. Underway(r)
  BY <1>1, <1>4, <1>5, <1>6, NotifyAssumption DEF Underway
<1> QED BY <1>2, <1>3, <1>7 DEF NotifyInv

(* Every step of a delivery keeps what it has come to. *)
LEMMA DeliverStep ==
  ASSUME NotifyInv, now \in Nat, NEW e \in Emitters, Deliver(e)
  PROVE  /\ NotifyInv'
         /\ \A k \in Keys : sent'[k] # sent[k] =>
              sent[k] = Never \/ sent'[k] >= sent[k] + Subs[k.sub].dedup
<1>0. /\ note[e] \in Delivery /\ Underway(note[e]) /\ note \in [Emitters -> Delivery]
      /\ sent \in [Keys -> Nat \cup {Never}] /\ attempts \in Nat /\ attempts > 0
      /\ Never \notin Nat
  BY NotifyAssumption DEF NotifyInv
<1>1. ASSUME NEW r \in Delivery, Underway(r), note' = [note EXCEPT ![e] = r],
             sent' \in [Keys -> Nat \cup {Never}]
      PROVE  NotifyInv'
  BY <1>1 DEF NotifyInv
<1>2. CASE Fanout(e)
  <2> DEFINE i == note[e].sub
             done == [note[e] EXCEPT !.pc = "idle"]
             pass == [note[e] EXCEPT !.sub = i + 1]
             turn == [note[e] EXCEPT !.pc = "dedup", !.at = now, !.served = @ \cup {i}]
  <2>1. note[e].pc = "next" /\ sent' = sent
    BY <1>2 DEF Fanout
  <2>2. i \in Nat /\ i > 0 /\ note[e].served = {j \in wants(note[e].event) : j < i} /\ note[e].event # Never
    BY <1>0, <2>1 DEF Underway, Delivery
  <2>3. CASE i > Len(Subs)
    <3>1. done \in Delivery
      BY <1>0, Zenon DEF Delivery
    <3>2. note[e].served = wants(note[e].event)
      BY <2>2, <2>3, Wanted
    <3>3. Underway(done)
      BY <1>0, <3>2 DEF Underway, Delivery
    <3>4. note' = [note EXCEPT ![e] = done]
      BY <1>0, <1>2, <2>3, Zenon DEF Fanout
    <3> QED BY <1>0, <1>1, <2>1, <3>1, <3>3, <3>4, Zenon
  <2>4. CASE ~(i > Len(Subs)) /\ i \notin wants(note[e].event)
    <3>1. pass \in Delivery
      <4>1. i + 1 \in Nat \ {0}
        BY <2>2
      <4> QED BY <1>0, <4>1, Zenon DEF Delivery
    <3>2. note[e].served = {j \in wants(note[e].event) : j < i + 1}
      BY <2>2, <2>4, Wanted
    <3>3. Underway(pass)
      BY <1>0, <2>1, <2>2, <3>2 DEF Underway, Delivery
    <3>4. note' = [note EXCEPT ![e] = pass]
      BY <1>0, <1>2, <2>4, Zenon DEF Fanout
    <3> QED BY <1>0, <1>1, <2>1, <3>1, <3>3, <3>4, Zenon
  <2>5. CASE ~(i > Len(Subs)) /\ i \in wants(note[e].event)
    <3>1. turn \in Delivery
      BY <1>0, <2>2, ZenonT(20) DEF Delivery
    <3>2. note[e].served \cup {i} = {j \in wants(note[e].event) : j <= i}
      BY <2>2, <2>5, Wanted
    <3>3. Underway(turn)
      BY <1>0, <2>2, <2>5, <3>2 DEF Underway, Delivery
    <3>4. note' = [note EXCEPT ![e] = turn]
      BY <1>0, <1>2, <2>5, Zenon DEF Fanout
    <3> QED BY <1>0, <1>1, <2>1, <3>1, <3>3, <3>4, Zenon
  <2> QED BY <2>3, <2>4, <2>5
<1>n. ASSUME note[e].pc \in {"dedup", "post"}
      PROVE  /\ note[e].sub \in Nat /\ note[e].sub + 1 \in Nat \ {0}
             /\ note[e].served = {j \in wants(note[e].event) : j < note[e].sub + 1}
             /\ Subs[note[e].sub].dedup \in Nat
  <2>1. /\ note[e].sub \in wants(note[e].event) /\ note[e].sub \in Nat
        /\ note[e].served = {j \in wants(note[e].event) : j <= note[e].sub}
    BY <1>0, <1>n, Zenon DEF Underway, Delivery
  <2> QED BY <2>1, Wanted
<1>3. CASE suppress(e)
  <2>1. CASE Recent(Key(e), note[e].at)
    <3> DEFINE r == [note[e] EXCEPT !.pc = "next", !.sub = @ + 1]
    <3>1. note[e].pc = "dedup" /\ note' = [note EXCEPT ![e] = r] /\ sent' = sent
      BY <1>0, <1>3, <2>1 DEF suppress, Delivery
    <3>2. r \in Delivery
      BY <1>0, <1>n, <3>1, Zenon DEF Delivery
    <3>3. Underway(r)
      BY <1>0, <1>n, <3>1 DEF Underway, Delivery
    <3> QED BY <1>0, <1>1, <3>1, <3>2, <3>3, Zenon
  <2>2. CASE ~Recent(Key(e), note[e].at)
    <3> DEFINE r == [note[e] EXCEPT !.pc = "post", !.answers = <<>>]
    <3>1. /\ note[e].pc = "dedup" /\ note' = [note EXCEPT ![e] = r]
          /\ sent' = IF Subs[note[e].sub].dedup > 0 THEN [sent EXCEPT ![Key(e)] = note[e].at] ELSE sent
      BY <1>0, <1>3, <2>2, Zenon DEF suppress, Delivery
    <3>2. <<>> \in Seq(Answers) /\ Len(<<>>) = 0
      OBVIOUS
    <3>3. r \in Delivery
      BY <1>0, <3>2, Zenon DEF Delivery
    <3>4. Underway(r)
      BY <1>0, <3>1, <3>2 DEF Underway, Delivery
    <3>5. note[e].at \in Nat
      BY <1>0 DEF Delivery
    <3>6. sent' \in [Keys -> Nat \cup {Never}]
      BY <1>0, <3>1, <3>5, ZenonT(20)
    <3>7. ASSUME NEW k \in Keys, sent'[k] # sent[k]
          PROVE  sent[k] = Never \/ sent'[k] >= sent[k] + Subs[k.sub].dedup
      <4>1. k = Key(e) /\ sent'[k] = note[e].at
        BY <1>0, <3>1, <3>7
      <4>2. k.sub = note[e].sub
        BY <4>1 DEF Key
      <4>3. sent[k] = Never \/ ~(note[e].at < sent[k] + Subs[k.sub].dedup)
        BY <2>2, <4>1 DEF Recent
      <4>4. sent[k] \in Nat \cup {Never} /\ Subs[k.sub].dedup \in Nat
        BY <1>0, <1>n, <3>1, <4>2, SMTT(30)
      <4> QED BY <3>5, <4>1, <4>3, <4>4
    <3> QED BY <1>1, <3>1, <3>3, <3>4, <3>6, <3>7, Zenon
  <2> QED BY <2>1, <2>2, Zenon
<1>4. CASE post(e)
  <2>1. PICK answer \in Answers :
          note' = [note EXCEPT ![e] =
                [(IF temporary(answer) /\ Len(Append(note[e].answers, answer)) < attempts
                  THEN note[e] ELSE AfterDelivery(e, answer))
                    EXCEPT !.answers = Append(note[e].answers, answer)]]
    BY <1>4, Zenon DEF post, Answers
  <2>2. note[e].pc = "post" /\ sent' = sent
    BY <1>4, SMTT(30) DEF post
  <2> DEFINE s == Append(note[e].answers, answer)
  <2>3. /\ s \in Seq(Answers) /\ Len(s) = Len(note[e].answers) + 1 /\ Len(note[e].answers) \in Nat
        /\ \A j \in 1..(Len(s) - 1) : s[j] = "later"
        /\ Len(s) <= attempts /\ s[Len(s)] = answer
    <3>1. note[e].answers \in Seq(Answers) /\ Len(note[e].answers) < attempts
          /\ \A j \in 1..Len(note[e].answers) : note[e].answers[j] = "later"
      BY <1>0, <2>2, Zenon DEF Underway, Delivery
    <3> QED BY <1>0, <3>1, SMTT(30)
  <2> HIDE DEF s
  <2>4. CASE temporary(answer) /\ Len(s) < attempts
    <3> DEFINE r == [note[e] EXCEPT !.answers = s]
    <3>1. note' = [note EXCEPT ![e] = r]
      BY <2>1, <2>4 DEF s
    <3>2. r \in Delivery
      BY <1>0, <2>3, Zenon DEF Delivery
    <3>3. \A j \in 1..Len(s) : s[j] = "later"
      BY <2>3, <2>4 DEF temporary
    <3>4. Underway(r)
      BY <1>0, <2>2, <2>3, <2>4, <3>3, Zenon DEF Underway, Delivery
    <3> QED BY <1>0, <1>1, <2>2, <3>1, <3>2, <3>4, Zenon
  <2>5. CASE ~(temporary(answer) /\ Len(s) < attempts)
    <3> DEFINE r == [note[e] EXCEPT !.pc = "next", !.sub = @ + 1, !.answers = s]
    <3>1. note' = [note EXCEPT ![e] = r]
      BY <1>0, <2>1, <2>5, Zenon DEF s, AfterDelivery, Delivery
    <3>2. r \in Delivery
      BY <1>0, <1>n, <2>2, <2>3, ZenonT(40) DEF Delivery
    <3>3. Underway(r)
      BY <1>0, <1>n, <2>2, <2>3, Zenon DEF Underway, Delivery
    <3> QED BY <1>0, <1>1, <2>2, <3>1, <3>2, <3>3, Zenon
  <2> QED BY <2>4, <2>5, Zenon
<1> QED BY <1>2, <1>3, <1>4, Zenon DEF Deliver

(* Deliveries begin when a run has something to say, and go on by          *)
(* themselves.                                                             *)
LEMMA NotifyFrame ==
  ASSUME [Next]_vars
  PROVE  \/ \E e \in Emitters : Deliver(e) /\ now' = now
         \/ \E e \in Emitters, event \in Events :
              /\ run[e].pc = "work" /\ Emit(e, event, run[e].target) /\ sent' = sent
         \/ UNCHANGED <<note, sent>>
<1>1. CASE Operator
  BY <1>1, ZenonT(20) DEF Operator, startRun, ScheduledRun, PrunePlan, Look, Stop, Time, notifyVars
<1>2. ASSUME NEW id \in Emitters, Work(id)
      PROVE  \/ /\ run[id].pc = "work" /\ sent' = sent
                /\ \E event \in Events : Emit(id, event, run[id].target)
             \/ UNCHANGED <<note, sent>>
  <2>1. run[id].pc = "work" /\ sent' = sent
    BY <1>2, Zenon DEF Work, At
  <2>2. \/ note' = note \/ Emit(id, "backup.succeeded", run[id].target)
        \/ Emit(id, "backup.failed", run[id].target) \/ Emit(id, "verify.failed", run[id].target)
    BY <1>2, Zenon DEF Work, Announce
  <2> QED BY <2>1, <2>2, EmitterAssumption, Zenon
<1>3. ASSUME NEW id \in Emitters, execute(id), ~Work(id)
      PROVE  (Deliver(id) /\ now' = now) \/ UNCHANGED <<note, sent>>
  BY <1>3, Zenon DEF execute, Acquire, Emitted, Release, Finish, notifyVars
<1>4. CASE (\E id \in RunIDs : AppendLine(id)) \/ PruneApply \/ Exit
  BY <1>4, SMTT(30) DEF AppendLine, PruneApply, Exit, notifyVars
<1>5. CASE UNCHANGED vars
  BY <1>5, Zenon DEF vars, notifyVars
<1> QED BY <1>1, <1>2, <1>3, <1>4, <1>5, Zenon DEF Next, Daemon

-----------------------------------------------------------------------------
(* The registry.                                                           *)

Outcomes == {"succeeded", "failed", "skipped"}

Runs == [target : Targets \cup {Never}, kind : {"backup", "verify", Never},
         state : States \cup {"none"}, pc : Steps \cup {"none", "end"},
         outcome : Outcomes \cup {"none"}, log : Nat]

\* What a run is worth at each step: it knows its target as long as it goes
\* on, and its outcome before it ends.
Sound(r) ==
    /\ r \in Runs
    /\ r.pc \in Steps => r.target \in Targets
    /\ r.pc \in {"emit", "release", "finish"} => r.outcome \in Outcomes

\* A run of the UI is under way exactly when its target is taken by it, and
\* then it is in the queue; the queue holds each run once.
RegistryInv ==
    /\ left \in Scenario /\ daemon \in {"up", "stopping", "down"}
    /\ run \in [Emitters -> Runs] /\ \A id \in Emitters : Sound(run[id])
    /\ lease \in [Targets -> Emitters \cup {Never}]
    /\ active \in [Targets -> 0..MaxRuns]
    /\ order \in Seq(RunIDs) /\ Len(order) <= runHistory
    /\ \A i, j \in 1..Len(order) : order[i] = order[j] => i = j
    /\ \A id \in RunIDs : run[id].pc \in Steps =>
        /\ active[run[id].target] = id /\ run[id].state = "running"
        /\ \E i \in 1..Len(order) : order[i] = id
    /\ \A t \in Targets : active[t] # 0 => run[active[t]].pc \in Steps /\ run[active[t]].target = t
    /\ \A i \in 1..Len(order) :
        /\ run[order[i]].pc # "none"
        /\ run[order[i]].state = "running" => run[order[i]].pc \in Steps

\* What is used of numbers and of finite sets.  It is a hypothesis of the lemmas
\* that use it, and proved after them (CountingHolds): the library it is proved
\* from slows down every proof that has it in sight.
CountingOf(Fin(_), Size(_)) ==
    /\ \A S \in SUBSET Nat : S # {} => \E m \in S : \A n \in S : m <= n
    /\ \A S : Fin(S) => Size(S) \in Nat
    /\ Size({}) = 0
    /\ \A S : Fin(S) => \A T \in SUBSET S : Fin(T) /\ Size(T) <= Size(S)
    /\ \A S : Fin(S) => \A x \in S : Fin(S \ {x}) /\ Size(S \ {x}) = Size(S) - 1
    /\ \A n \in Nat : \A S : \A f \in [1..n -> S] :
         Fin(S) /\ (\A i, j \in 1..n : f[i] = f[j] => i = j) => n <= Size(S)

Counting == CountingOf(IsFiniteSet, Cardinality)

(* The smallest of some numbers. *)
LEMMA MinIsLeast ==
  ASSUME Counting, NEW S \in SUBSET Nat, S # {}
  PROVE  Min(S) \in S /\ \A y \in S : Min(S) <= y
<1>1. PICK x \in S : \A y \in S : x <= y
  BY Zenon DEF Counting, CountingOf
<1> QED BY <1>1, Zenon DEF Min

(* A full queue has a run that ended: the others are under way on          *)
(* different targets, and one target is free (runs.go, begin and trim).    *)
LEMMA SomeRunEnded ==
  ASSUME Counting, RegistryInv, NEW t \in Targets, active[t] = 0, Len(order) >= runHistory
  PROVE  \E i \in 1..Len(order) : run[order[i]].state # "running"
<1> SUFFICES ASSUME \A i \in 1..Len(order) : run[order[i]].state = "running" PROVE FALSE
  OBVIOUS
<1>1. order \in Seq(RunIDs) /\ Len(order) \in Nat /\ 0 \notin RunIDs /\ RunIDs \subseteq Emitters
  BY EmitterAssumption, SMTT(30) DEF RegistryInv, RunIDs
<1>2. ASSUME NEW i \in 1..Len(order)
      PROVE  /\ order[i] \in RunIDs /\ run[order[i]].target \in Targets
             /\ active[run[order[i]].target] = order[i]
  <2>1. order[i] \in RunIDs /\ run[order[i]].pc \in Steps
    BY <1>1 DEF RegistryInv
  <2> QED BY <1>1, <2>1, Zenon DEF RegistryInv, Sound
<1> DEFINE f == [i \in 1..Len(order) |-> run[order[i]].target]
           others == Targets \ {t}
<1>3. f \in [1..Len(order) -> others]
  <2>1. \A i \in 1..Len(order) : f[i] \in others
    BY <1>1, <1>2, Zenon
  <2> QED BY <2>1, Zenon
<1>4. ASSUME NEW i \in 1..Len(order), NEW j \in 1..Len(order), f[i] = f[j] PROVE i = j
  BY <1>2, <1>4 DEF RegistryInv
<1>5. /\ IsFiniteSet(others) /\ Cardinality(others) = Cardinality(Targets) - 1
      /\ Cardinality(Targets) \in Nat
  BY HistoryAssumption, Zenon DEF Counting, CountingOf
<1> HIDE DEF f, others
<1>6. Len(order) <= Cardinality(others)
  BY <1>1, <1>3, <1>4, <1>5, Zenon DEF Counting, CountingOf
<1> QED BY <1>1, <1>5, <1>6, HistoryAssumption

(* trim drops one run that ended, and neither a running one nor the one    *)
(* that was just added (runs.go, trim).                                    *)
LEMMA TrimStep ==
  ASSUME Counting, RegistryInv, NEW t \in Targets, active[t] = 0,
         NEW id \in RunIDs, run[id].pc = "none"
  PROVE  LET ids == Append(order, id)
             q == trim(ids)
         IN /\ q \in Seq(RunIDs) /\ Len(q) <= runHistory
            /\ \A i, j \in 1..Len(q) : q[i] = q[j] => i = j
            /\ \A j \in 1..Len(q) : q[j] = id \/ \E i \in 1..Len(order) : q[j] = order[i]
            /\ \E j \in 1..Len(q) : q[j] = id
            /\ \A i \in 1..Len(order) : run[order[i]].state = "running" => \E j \in 1..Len(q) : q[j] = order[i]
<1> DEFINE ids == Append(order, id)
           n == Len(order)
           q == trim(ids)
<1>1. /\ order \in Seq(RunIDs) /\ n \in Nat /\ n <= runHistory /\ runHistory \in Nat
      /\ \A i, j \in 1..n : order[i] = order[j] => i = j
      /\ \A i \in 1..n : order[i] # id
  BY HistoryAssumption, SMTT(30) DEF RegistryInv
<1>2. /\ ids \in Seq(RunIDs) /\ Len(ids) = n + 1 /\ ids[n + 1] = id /\ DOMAIN ids = 1..(n + 1)
      /\ \A i \in 1..n : ids[i] = order[i]
  BY <1>1, SMTT(30)
<1> HIDE DEF ids
<1>3. \A i, j \in 1..(n + 1) : ids[i] = ids[j] => i = j
  <2> SUFFICES ASSUME NEW i \in 1..(n + 1), NEW j \in 1..(n + 1), ids[i] = ids[j] PROVE i = j
    OBVIOUS
  <2>1. (i \in 1..n \/ i = n + 1) /\ (j \in 1..n \/ j = n + 1)
    BY <1>1, SMTT(30)
  <2> QED BY <1>1, <1>2, <2>1, Zenon
<1>4. CASE n + 1 <= runHistory
  <2>1. q = ids
    BY <1>2, <1>4 DEF trim
  <2>2. n + 1 \in 1..Len(q) /\ 1..n \subseteq 1..Len(q)
    BY <1>1, <1>2, <2>1
  <2>3. \A j \in 1..Len(q) : j \in 1..n \/ j = n + 1
    BY <1>1, <1>2, <2>1
  <2> HIDE DEF q
  <2>4. /\ q \in Seq(RunIDs) /\ Len(q) <= runHistory
        /\ \A i, j \in 1..Len(q) : q[i] = q[j] => i = j
    BY <1>2, <1>3, <1>4, <2>1
  <2>5. \A j \in 1..Len(q) : q[j] = id \/ \E i \in 1..Len(order) : q[j] = order[i]
    BY <1>2, <2>1, <2>3
  <2>6. \E j \in 1..Len(q) : q[j] = id
    BY <1>2, <2>1, <2>2
  <2>7. \A i \in 1..n : \E j \in 1..Len(q) : q[j] = order[i]
    BY <1>2, <2>1, <2>2, SMTT(30)
  <2> QED BY <2>4, <2>5, <2>6, <2>7, ZenonT(20) DEF q, ids
<1>5. CASE ~(n + 1 <= runHistory)
  <2> DEFINE S == {j \in DOMAIN ids : j < Len(ids) /\ run[ids[j]].state # "running"}
             i == Min(S)
  <2>1. S \in SUBSET Nat /\ S # {}
    <3>1. PICK j \in 1..n : run[order[j]].state # "running"
      BY <1>1, <1>5, SomeRunEnded
    <3>2. j \in S
      BY <1>1, <1>2, <3>1, SMTT(30)
    <3> QED BY <1>2, <3>2
  <2>2. q = SubSeq(ids, i + 1, n + 1) \o SubSeq(ids, 1, i - 1)
    BY <1>1, <1>2, <1>5, ZenonT(40) DEF trim
  <2>3. i \in 1..n /\ run[ids[i]].state # "running"
    <3> HIDE DEF S
    <3>1. i \in S
      BY <2>1, MinIsLeast, SMTT(30)
    <3> QED BY <1>1, <1>2, <3>1 DEF S
  <2> HIDE DEF i, q
  <2>4. /\ q \in Seq(RunIDs) /\ Len(q) = n
        /\ \A j \in 1..n : q[j] = ids[IF j <= n + 1 - i THEN i + j ELSE j - (n + 1 - i)]
    BY <1>1, <1>2, <2>2, <2>3, SMTT(30)
  <2> DEFINE at(j) == IF j <= n + 1 - i THEN i + j ELSE j - (n + 1 - i)
  <2>5. \A j \in 1..n : at(j) \in 1..(n + 1) /\ at(j) # i /\ q[j] = ids[at(j)]
    BY <1>1, <2>3, <2>4
  <2>6. \A j, k \in 1..n : at(j) = at(k) => j = k
    BY <1>1, <2>3, SMTT(30)
  <2>7. ASSUME NEW k \in 1..(n + 1), k # i PROVE \E j \in 1..n : at(j) = k
    <3>1. CASE k > i
      <4>1. k - i \in 1..n /\ at(k - i) = k
        BY <1>1, <2>3, <2>7, <3>1, SMTT(30)
      <4> QED BY <4>1
    <3>2. CASE k < i
      <4>1. k + (n + 1 - i) \in 1..n /\ at(k + (n + 1 - i)) = k
        BY <1>1, <2>3, <2>7, <3>2, SMTT(30)
      <4> QED BY <4>1
    <3> QED BY <1>1, <2>3, <2>7, <3>1, <3>2
  <2> HIDE DEF at
  <2>8. \A j, k \in 1..n : q[j] = q[k] => j = k
    BY <1>3, <2>5, <2>6
  <2>9. \A j \in 1..n : q[j] = id \/ \E k \in 1..n : q[j] = order[k]
    <3> SUFFICES ASSUME NEW j \in 1..n PROVE q[j] = id \/ \E k \in 1..n : q[j] = order[k]
      OBVIOUS
    <3>1. at(j) \in 1..n \/ at(j) = n + 1
      BY <1>1, <2>5
    <3> QED BY <1>2, <2>5, <3>1, Zenon
  <2>10. \E j \in 1..n : q[j] = id
    <3>1. n + 1 \in 1..(n + 1) /\ n + 1 # i
      BY <1>1, <2>3
    <3>2. PICK j \in 1..n : at(j) = n + 1
      BY <2>7, <3>1
    <3> QED BY <1>2, <2>5, <3>2, Zenon
  <2>11. \A k \in 1..n : run[order[k]].state = "running" => \E j \in 1..n : q[j] = order[k]
    <3> SUFFICES ASSUME NEW k \in 1..n, run[order[k]].state = "running"
                 PROVE  \E j \in 1..n : q[j] = order[k]
      OBVIOUS
    <3>1. k # i /\ k \in 1..(n + 1)
      BY <1>1, <1>2, <2>3
    <3>2. PICK j \in 1..n : at(j) = k
      BY <2>7, <3>1
    <3> QED BY <1>2, <2>5, <3>2, Zenon
  <2> QED BY <1>1, <2>4, <2>8, <2>9, <2>10, <2>11, SMTT(30) DEF q, ids
<1> QED BY <1>1, <1>4, <1>5, Zenon

(* Something that may still happen happens. *)
LEMMA SpendType ==
  ASSUME left \in Scenario,
         NEW what \in {"clicks", "scheduled", "prunes", "lines", "faults", "stops", "ticks"},
         Spend(what)
  PROVE  left' \in Scenario
  BY SMTT(30) DEF Spend, Scenario

(* A run that goes on, and whatever the others do to the queue, leaves the *)
(* registry as it is.                                                      *)
LEMMA RunGoesOn ==
  ASSUME RegistryInv, NEW id \in Emitters, NEW r, Sound(r), run' = [run EXCEPT ![id] = r],
         UNCHANGED <<order, active>>, left' \in Scenario, daemon' \in {"up", "stopping", "down"},
         lease' \in [Targets -> Emitters \cup {Never}],
         \/ id = 0
         \/ /\ r.target = run[id].target /\ r.state = run[id].state
            /\ r.pc \in Steps <=> run[id].pc \in Steps
            /\ r.pc = "none" <=> run[id].pc = "none"
  PROVE  RegistryInv'
<1>0. /\ RunIDs \subseteq Emitters /\ 0 \notin RunIDs /\ active \in [Targets -> 0..MaxRuns]
      /\ \A t \in Targets : active[t] # 0 => active[t] \in RunIDs
      /\ \A i \in 1..Len(order) : order[i] \in RunIDs
  BY EmitterAssumption, SMTT(30) DEF RegistryInv, RunIDs
<1>1. /\ run \in [Emitters -> Runs] /\ r \in Runs
      /\ run'[id] = r /\ \A x \in Emitters \ {id} : run'[x] = run[x]
  BY Zenon DEF RegistryInv, Sound
<1>2. run' \in [Emitters -> Runs] /\ \A x \in Emitters : Sound(run'[x])
  BY <1>1, Zenon DEF RegistryInv
<1>3. \A x \in RunIDs : /\ run'[x].pc \in Steps <=> run[x].pc \in Steps
                        /\ run'[x].pc = "none" <=> run[x].pc = "none"
                        /\ run'[x].target = run[x].target /\ run'[x].state = run[x].state
  BY <1>0, <1>1, SMTT(30)
<1>4. \A x \in RunIDs : run'[x].pc \in Steps =>
        /\ active'[run'[x].target] = x /\ run'[x].state = "running"
        /\ \E i \in 1..Len(order') : order'[i] = x
  BY <1>3, SMTT(30) DEF RegistryInv
<1>5. \A t \in Targets : active'[t] # 0 => run'[active'[t]].pc \in Steps /\ run'[active'[t]].target = t
  BY <1>0, <1>3, SMTT(30) DEF RegistryInv
<1>6. \A i \in 1..Len(order') :
        /\ run'[order'[i]].pc # "none"
        /\ run'[order'[i]].state = "running" => run'[order'[i]].pc \in Steps
  BY <1>0, <1>3 DEF RegistryInv
<1>7. \A x \in Emitters : Sound(run[x])'
  BY <1>2, Zenon DEF Sound
<1> QED BY <1>2, <1>4, <1>5, <1>6, <1>7, SMTT(30) DEF RegistryInv

(* A click begins a run, unless one of the target goes on. *)
LEMMA BeginStep ==
  ASSUME Counting, RegistryInv, NEW t \in Targets, NEW kind \in {"backup", "verify"}, startRun(t, kind)
  PROVE  RegistryInv'
<1>0. RunIDs \subseteq Emitters /\ 0 \notin RunIDs /\ left' \in Scenario /\ daemon' = daemon /\ lease' = lease
  BY EmitterAssumption, SpendType DEF RegistryInv, RunIDs, startRun
<1>1. PICK id \in RunIDs : run[id] = NoRun /\ begin(t, kind, id)
  BY SMTT(30) DEF startRun
<1>2. run[id].pc = "none" /\ run \in [Emitters -> Runs] /\ id # 0
  BY <1>0, <1>1 DEF NoRun, RegistryInv
<1>3. CASE active[t] # 0
  BY <1>0, <1>1, <1>3, SMTT(30) DEF begin, RegistryInv, Sound
<1>4. CASE active[t] = 0
  <2> DEFINE r == [target |-> t, kind |-> kind, state |-> "running", pc |-> "acquire", outcome |-> "none", log |-> 0]
             q == trim(Append(order, id))
  <2>1. /\ run' = [run EXCEPT ![id] = r] /\ order' = q /\ active' = [active EXCEPT ![t] = id]
    BY <1>1, <1>4, Zenon DEF begin, NoRun
  <2>2. Sound(r)
    BY Zenon DEF Sound, Runs, Steps, States
  <2>3. /\ q \in Seq(RunIDs) /\ Len(q) <= runHistory
        /\ \A i, j \in 1..Len(q) : q[i] = q[j] => i = j
        /\ \A j \in 1..Len(q) : q[j] = id \/ \E i \in 1..Len(order) : q[j] = order[i]
        /\ \E j \in 1..Len(q) : q[j] = id
        /\ \A i \in 1..Len(order) : run[order[i]].state = "running" => \E j \in 1..Len(q) : q[j] = order[i]
    BY <1>2, <1>4, TrimStep, Zenon
  <2>4. r.pc \in Steps /\ r.state = "running" /\ r.target = t /\ r.pc # "none" /\ r \in Runs
    BY <2>2, Zenon DEF Steps, Sound
  <2> HIDE DEF q, r
  <2>5. run'[id] = r /\ \A x \in Emitters \ {id} : run'[x] = run[x]
    BY <1>0, <1>2, <2>1, SMTT(30)
  <2>6. run' \in [Emitters -> Runs] /\ \A x \in Emitters : Sound(run[x])'
    <3>1. \A x \in Emitters : Sound(run'[x])
      BY <2>2, <2>5, Zenon DEF RegistryInv
    <3> QED BY <1>2, <2>1, <2>4, <3>1, ZenonT(20) DEF Sound
  <2>7. active' \in [Targets -> 0..MaxRuns]
    BY <1>1, <2>1 DEF RegistryInv, RunIDs
  <2>8. ASSUME NEW x \in RunIDs, run'[x].pc \in Steps
        PROVE  /\ active'[run'[x].target] = x /\ run'[x].state = "running"
               /\ \E i \in 1..Len(order') : order'[i] = x
    <3>1. CASE x = id
      BY <2>1, <2>3, <2>4, <2>5, <3>1, Zenon DEF RegistryInv
    <3>2. CASE x # id
      <4>1. /\ run'[x] = run[x] /\ run[x].target \in Targets /\ active[run[x].target] = x
            /\ run[x].state = "running"
        BY <1>0, <2>5, <2>8, <3>2, ZenonT(40) DEF RegistryInv, Sound
      <4>2. PICK i \in 1..Len(order) : order[i] = x
        BY <2>8, <4>1, Zenon DEF RegistryInv
      <4>3. run[x].target # t
        BY <1>0, <1>4, <4>1, Zenon
      <4> QED BY <2>1, <2>3, <4>1, <4>2, <4>3, SMTT(30) DEF RegistryInv
    <3> QED BY <3>1, <3>2, Zenon
  <2>9. ASSUME NEW u \in Targets, active'[u] # 0
        PROVE  run'[active'[u]].pc \in Steps /\ run'[active'[u]].target = u
    <3>1. CASE u = t
      BY <2>1, <2>4, <2>5, <3>1, Zenon DEF RegistryInv
    <3>2. CASE u # t
      <4>1. /\ active'[u] = active[u] /\ run[active[u]].pc \in Steps /\ run[active[u]].target = u
            /\ active[u] \in RunIDs
        BY <2>1, <2>9, <3>2, EmitterAssumption, SMTT(30) DEF RegistryInv, RunIDs
      <4>2. active[u] # id
        BY <1>2, <4>1, Zenon DEF Steps
      <4> QED BY <1>0, <2>5, <4>1, <4>2, Zenon
    <3> QED BY <3>1, <3>2, Zenon
  <2>10. ASSUME NEW j \in 1..Len(order')
         PROVE  /\ run'[order'[j]].pc # "none"
                /\ run'[order'[j]].state = "running" => run'[order'[j]].pc \in Steps
    <3>1. CASE q[j] = id
      BY <2>1, <2>4, <2>5, <3>1, Zenon
    <3>2. CASE q[j] # id
      <4>1. PICK i \in 1..Len(order) : q[j] = order[i]
        BY <2>1, <2>3, <3>2, ZenonT(20)
      <4>2. order[i] \in RunIDs
        BY DEF RegistryInv
      <4> QED BY <1>0, <2>1, <2>5, <3>2, <4>1, <4>2, SMTT(30) DEF RegistryInv
    <3> QED BY <3>1, <3>2, Zenon
  <2> QED BY <1>0, <2>1, <2>3, <2>6, <2>7, <2>8, <2>9, <2>10 DEF RegistryInv
<1> QED BY <1>3, <1>4, SMTT(30)

(* A run that ends gives its target back; it is in the queue, so there is  *)
(* something to record.                                                    *)
LEMMA FinishStep ==
  ASSUME RegistryInv, NEW id \in Emitters, Finish(id)
  PROVE  RegistryInv'
<1>0. /\ RunIDs \subseteq Emitters /\ 0 \notin RunIDs /\ Emitters = RunIDs \cup {0}
      /\ left' = left /\ daemon' = daemon /\ lease' = lease /\ order' = order
      /\ run \in [Emitters -> Runs] /\ active \in [Targets -> 0..MaxRuns]
      /\ \A i \in 1..Len(order) : order[i] \in RunIDs
  <2>1. RunIDs \subseteq Emitters /\ 0 \notin RunIDs /\ Emitters = RunIDs \cup {0}
    BY EmitterAssumption DEF RunIDs
  <2>2. left' = left /\ daemon' = daemon /\ lease' = lease /\ order' = order
    BY Zenon DEF Finish
  <2>3. /\ run \in [Emitters -> Runs] /\ active \in [Targets -> 0..MaxRuns]
        /\ order \in Seq(RunIDs)
    BY Zenon DEF RegistryInv
  <2>4. \A i \in 1..Len(order) : order[i] \in RunIDs
    BY <2>3
  <2> QED BY <2>1, <2>2, <2>3, <2>4, Zenon
<1>1. CASE id = 0
  <2>1. Sound(NoRun)
    BY Zenon DEF Sound, Runs, Steps, NoRun
  <2>2. run' = [run EXCEPT ![id] = NoRun] /\ active' = active
    BY <1>1, ZenonT(40) DEF Finish
  <2> QED BY <1>0, <1>1, <2>1, <2>2, RunGoesOn, ZenonT(20) DEF RegistryInv
<1>2. CASE id # 0
  <2>1. id \in RunIDs /\ run[id].pc = "finish" /\ finish(id)
    BY <1>0, <1>2, ZenonT(20) DEF Finish, At
  <2>2. run[id].pc \in Steps /\ run[id] \in Runs /\ run[id].outcome \in Outcomes /\ run[id].target \in Targets
    BY <2>1, Zenon DEF RegistryInv, Sound, Steps
  <2>3. id \in Range(order)
    <3>1. PICK i \in 1..Len(order) : order[i] = id
      BY <2>1, <2>2, Zenon DEF RegistryInv
    <3>2. i \in DOMAIN order
      BY <3>1 DEF RegistryInv
    <3> QED BY <3>1, <3>2, SMTT(30) DEF Range
  <2> DEFINE r == [run[id] EXCEPT !.pc = "end", !.state = run[id].outcome]
             t == run[id].target
  <2>4. run' = [run EXCEPT ![id] = r] /\ active' = [active EXCEPT ![t] = 0]
    BY <1>0, <2>1, <2>3, Zenon DEF finish, Runs
  <2>5. /\ r \in Runs /\ r.pc = "end" /\ r.state = run[id].outcome
        /\ r.pc \notin Steps /\ r.pc # "none" /\ r.state # "running" /\ Sound(r)
    BY <2>2, ZenonT(20) DEF Runs, Outcomes, States, Steps, Sound
  <2> HIDE DEF r
  <2>6. run'[id] = r /\ \A x \in Emitters \ {id} : run'[x] = run[x]
    BY <1>0, <2>4, Zenon
  <2>7. run' \in [Emitters -> Runs] /\ \A x \in Emitters : Sound(run[x])'
    <3>1. \A x \in Emitters : Sound(run'[x])
      BY <2>5, <2>6, Zenon DEF RegistryInv
    <3> QED BY <1>0, <2>4, <2>5, <3>1, Zenon DEF Sound
  <2>8. active[t] = id
    BY <2>1, <2>2, Zenon DEF RegistryInv
  <2>9. active' \in [Targets -> 0..MaxRuns]
    BY <1>0, <2>4, EmitterAssumption, ZenonT(20)
  <2>10. ASSUME NEW x \in RunIDs, run'[x].pc \in Steps
         PROVE  /\ active'[run'[x].target] = x /\ run'[x].state = "running"
                /\ \E i \in 1..Len(order') : order'[i] = x
    <3>1. x # id /\ run'[x] = run[x]
      BY <1>0, <2>5, <2>6, <2>10, Zenon
    <3>2. /\ active[run[x].target] = x /\ run[x].target \in Targets /\ run[x].state = "running"
          /\ \E i \in 1..Len(order) : order[i] = x
      BY <1>0, <2>10, <3>1, Zenon DEF RegistryInv, Sound
    <3> QED BY <1>0, <2>4, <2>8, <3>1, <3>2, Zenon
  <2>11. ASSUME NEW u \in Targets, active'[u] # 0
         PROVE  run'[active'[u]].pc \in Steps /\ run'[active'[u]].target = u
    <3>1. u # t /\ active'[u] = active[u]
      BY <1>0, <2>4, <2>11, Zenon
    <3>2. run[active[u]].pc \in Steps /\ run[active[u]].target = u /\ active[u] \in RunIDs
      BY <2>11, <3>1, EmitterAssumption, SMTT(30) DEF RegistryInv, RunIDs
    <3>3. active[u] # id
      BY <3>1, <3>2, Zenon
    <3> QED BY <1>0, <2>6, <3>1, <3>2, <3>3, Zenon
  <2>12. ASSUME NEW j \in 1..Len(order')
         PROVE  /\ run'[order'[j]].pc # "none"
                /\ run'[order'[j]].state = "running" => run'[order'[j]].pc \in Steps
    BY <1>0, <2>5, <2>6 DEF RegistryInv
  <2> QED BY <1>0, <2>7, <2>9, <2>10, <2>11, <2>12, SMTT(30) DEF RegistryInv
<1> QED BY <1>1, <1>2, SMTT(30)

(* What concerns no run leaves the registry as it is. *)
LEMMA RegistryFrame ==
  ASSUME RegistryInv, UNCHANGED <<run, order, active, lease>>,
         left' \in Scenario, daemon' \in {"up", "stopping", "down"}
  PROVE  RegistryInv'
<1>1. \A id \in Emitters : Sound(run[id])'
  BY Zenon DEF RegistryInv, Sound
<1> QED BY <1>1 DEF RegistryInv

(* A step of a run's goroutine that sets where it is and what came of it. *)
LEMMA GotoStep ==
  ASSUME RegistryInv, NEW id \in Emitters, NEW pc \in Steps, NEW outcome \in Outcomes \cup {"none"},
         Goto(id, pc, outcome), run[id].pc \in Steps, UNCHANGED <<order, active, daemon>>,
         pc \in {"emit", "release", "finish"} => outcome \in Outcomes, left' \in Scenario,
         lease' \in [Targets -> Emitters \cup {Never}]
  PROVE  RegistryInv'
<1> DEFINE r == [run[id] EXCEPT !.pc = pc, !.outcome = outcome]
<1>1. run[id] \in Runs /\ Sound(run[id]) /\ run \in [Emitters -> Runs] /\ daemon \in {"up", "stopping", "down"}
  BY Zenon DEF RegistryInv
<1>2. run' = [run EXCEPT ![id] = r]
  BY <1>1, Zenon DEF Goto, Runs
<1>3. /\ r \in Runs /\ r.pc = pc /\ r.outcome = outcome /\ r.target = run[id].target
      /\ r.state = run[id].state /\ r.log = run[id].log
  BY <1>1, Zenon DEF Runs
<1>4. Sound(r)
  BY <1>1, <1>3, SMTT(30) DEF Sound
<1>5. pc # "none" /\ run[id].pc # "none"
  BY Zenon DEF Steps
<1> HIDE DEF r
<1> QED BY <1>1, <1>2, <1>3, <1>4, <1>5, RunGoesOn, Zenon

(* The steps of a run's goroutine keep the registry. *)
LEMMA ExecuteStep ==
  ASSUME RegistryInv, NEW id \in Emitters, execute(id)
  PROVE  RegistryInv'
<1>0. /\ left \in Scenario /\ daemon \in {"up", "stopping", "down"}
      /\ lease \in [Targets -> Emitters \cup {Never}] /\ Sound(run[id])
      /\ {"acquire", "work", "emit", "release", "finish"} \subseteq Steps
      /\ {"succeeded", "failed", "skipped"} \subseteq Outcomes
  BY Zenon DEF RegistryInv, Steps, Outcomes
<1>1. Fails(id) => left' \in Scenario
  BY <1>0, SpendType DEF Fails
<1>2. CASE Acquire(id)
  <2>1. run[id].pc = "acquire" /\ UNCHANGED <<order, active, daemon>> /\ run[id].pc \in Steps
    <3>1. At(id, "acquire") /\ UNCHANGED <<order, active, daemon>>
      BY <1>2, Zenon DEF Acquire
    <3>2. run[id].pc = "acquire"
      BY <3>1, Zenon DEF At
    <3> QED BY <3>1, <3>2, Zenon DEF Steps
  <2>2. left' \in Scenario /\ lease' \in [Targets -> Emitters \cup {Never}]
    <3>1. left' = left \/ Fails(id)
      BY <1>2, Zenon DEF Acquire
    <3>2. lease' = lease \/ lease' = [lease EXCEPT ![run[id].target] = id]
      BY <1>2, Zenon DEF Acquire
    <3> QED BY <1>0, <1>1, <3>1, <3>2, Zenon
  <2>3. \/ Goto(id, "work", "none") \/ Goto(id, "finish", "skipped") \/ Goto(id, "finish", "failed")
    BY <1>2, Zenon DEF Acquire
  <2>4. CASE Goto(id, "work", "none")
    BY <1>0, <2>1, <2>2, <2>4, GotoStep, Zenon
  <2>5. CASE Goto(id, "finish", "skipped")
    BY <1>0, <2>1, <2>2, <2>5, GotoStep, Zenon
  <2>6. CASE Goto(id, "finish", "failed")
    BY <1>0, <2>1, <2>2, <2>6, GotoStep, Zenon
  <2> QED BY <2>3, <2>4, <2>5, <2>6, SMTT(30)
<1>3. CASE Work(id)
  <2>1. /\ run[id].pc = "work" /\ UNCHANGED <<order, active, daemon, lease>> /\ run[id].pc \in Steps
        /\ left' \in Scenario
    BY <1>0, <1>1, <1>3, ZenonT(40) DEF Work, At
  <2>2. lease' \in [Targets -> Emitters \cup {Never}]
    BY <1>0, <2>1, Zenon
  <2>3. Goto(id, "emit", "succeeded") \/ Goto(id, "emit", "failed")
    BY <1>3, ZenonT(20) DEF Work
  <2> QED BY <1>0, <2>1, <2>2, <2>3, GotoStep, Zenon
<1>4. CASE Emitted(id)
  <2>1. /\ run[id].pc = "emit" /\ UNCHANGED <<order, active, daemon, lease>> /\ run[id].pc \in Steps
        /\ Goto(id, "release", run[id].outcome) /\ left' \in Scenario
    BY <1>0, <1>1, <1>4, Zenon DEF Emitted, At
  <2>2. run[id].outcome \in Outcomes /\ lease' \in [Targets -> Emitters \cup {Never}]
    BY <1>0, <2>1, Zenon DEF Sound
  <2> QED BY <1>0, <2>1, <2>2, GotoStep, Zenon
<1>5. CASE Release(id)
  <2>1. /\ run[id].pc = "release" /\ UNCHANGED <<order, active, daemon, left>> /\ run[id].pc \in Steps
        /\ Goto(id, "finish", run[id].outcome) /\ left' \in Scenario
    BY <1>0, <1>5, ZenonT(40) DEF Release, At
  <2>2. run[id].outcome \in Outcomes /\ lease' \in [Targets -> Emitters \cup {Never}]
    BY <1>0, <1>5, <2>1, ZenonT(20) DEF Sound, Release
  <2> QED BY <1>0, <2>1, <2>2, GotoStep, Zenon
<1>6. CASE Finish(id)
  BY <1>6, FinishStep, SMTT(30)
<1>7. CASE UNCHANGED serverVars
  BY <1>0, <1>7, RegistryFrame, Zenon DEF serverVars
<1> QED BY <1>2, <1>3, <1>4, <1>5, <1>6, <1>7, Zenon DEF execute

(* Every step keeps the registry. *)
LEMMA RegistryStep ==
  ASSUME Counting, RegistryInv, [Next]_vars
  PROVE  RegistryInv'
<1>0. /\ left \in Scenario /\ daemon \in {"up", "stopping", "down"} /\ left.targets \subseteq Targets
      /\ run \in [Emitters -> Runs] /\ lease \in [Targets -> Emitters \cup {Never}]
      /\ 0 \in Emitters /\ RunIDs \subseteq Emitters
  BY EmitterAssumption, SMTT(30) DEF RegistryInv, RunIDs, Scenario
<1>1. ASSUME NEW t \in left.targets, NEW kind \in {"backup", "verify"}, startRun(t, kind)
      PROVE  RegistryInv'
  BY <1>0, <1>1, BeginStep, Zenon
<1>2. ASSUME NEW t \in left.targets, ScheduledRun(t)
      PROVE  RegistryInv'
  <2> DEFINE r == [NoRun EXCEPT !.target = t, !.kind = "backup", !.pc = "acquire"]
  <2>1. run' = [run EXCEPT ![0] = r] /\ UNCHANGED <<order, active>>
    BY <1>2 DEF ScheduledRun
  <2>2. Sound(r)
    <3>1. NoRun \in Runs
      BY Zenon DEF NoRun, Runs
    <3>2. r \in Runs /\ r.pc = "acquire" /\ r.target = t
      BY <1>0, <3>1, ZenonT(20) DEF Runs, Steps
    <3> QED BY <1>0, <3>2 DEF Sound
  <2>3. left' \in Scenario /\ daemon' \in {"up", "stopping", "down"} /\ lease' = lease
    BY <1>0, <1>2, SpendType DEF ScheduledRun
  <2> HIDE DEF r
  <2> QED BY <1>0, <2>1, <2>2, <2>3, RunGoesOn, Zenon
<1>3. ASSUME NEW t \in left.targets, PrunePlan(t)
      PROVE  RegistryInv'
  BY <1>0, <1>3, SpendType, RegistryFrame DEF PrunePlan
<1>4. ASSUME NEW id \in RunIDs, Look(id)
      PROVE  RegistryInv'
  BY <1>0, <1>4, SpendType, RegistryFrame, Zenon DEF Look
<1>5. CASE Stop \/ Time
  BY <1>0, <1>5, SpendType, RegistryFrame, Zenon DEF Stop, Time
<1>6. CASE UNCHANGED serverVars
  BY <1>0, <1>6, RegistryFrame, Zenon DEF serverVars
<1>7. ASSUME NEW id \in Emitters, execute(id)
      PROVE  RegistryInv'
  BY <1>7, ExecuteStep
<1>8. ASSUME NEW id \in RunIDs, AppendLine(id)
      PROVE  RegistryInv'
  <2>1. UNCHANGED <<order, active, lease, left, daemon>>
    BY <1>8, SMTT(30) DEF AppendLine
  <2>2. CASE run' = run
    BY <1>0, <2>1, <2>2, RegistryFrame, Zenon
  <2>3. CASE run' # run
    <3> DEFINE r == [run[id] EXCEPT !.log = @ + 1]
    <3>1. run[id] \in Runs /\ Sound(run[id])
      BY <1>0, Zenon DEF RegistryInv
    <3>2. run' = [run EXCEPT ![id] = r]
      BY <1>0, <1>8, <2>3, Zenon DEF AppendLine, Runs
    <3>3. r \in Runs /\ r.pc = run[id].pc /\ r.target = run[id].target /\ r.state = run[id].state
          /\ r.outcome = run[id].outcome
      BY <3>1 DEF Runs
    <3>4. Sound(r)
      BY <3>1, <3>3 DEF Sound
    <3> HIDE DEF r
    <3> QED BY <1>0, <2>1, <3>2, <3>3, <3>4, RunGoesOn, Zenon
  <2> QED BY <2>2, <2>3
<1>9. CASE PruneApply \/ Exit
  BY <1>0, <1>9, RegistryFrame, SMTT(30) DEF PruneApply, Exit
<1> QED BY <1>1, <1>2, <1>3, <1>4, <1>5, <1>6, <1>7, <1>8, <1>9, Zenon DEF Next, Operator, Daemon, vars

(* No run has begun. *)
LEMMA RegistryStart ==
  ASSUME Init PROVE RegistryInv
<1>1. /\ run = [id \in Emitters |-> NoRun] /\ order = <<>> /\ active = [t \in Targets |-> 0]
      /\ lease = [t \in Targets |-> Never] /\ left \in Scenario /\ daemon = "up"
  BY ScenarioAssumption, Zenon DEF Init
<1>2. Sound(NoRun) /\ NoRun \in Runs /\ NoRun.pc = "none" /\ NoRun.pc \notin Steps
  BY Zenon DEF Sound, NoRun, Runs, Steps
<1>3. RunIDs \subseteq Emitters /\ 0 \in 0..MaxRuns /\ runHistory \in Nat
  BY EmitterAssumption, HistoryAssumption DEF RunIDs
<1>4. order \in Seq(RunIDs) /\ Len(order) = 0
  BY <1>1
<1>5. 1..Len(order) = {} /\ Len(order) <= runHistory
  BY <1>3, <1>4
<1> HIDE DEF NoRun
<1> QED BY <1>1, <1>2, <1>3, <1>4, <1>5, Zenon DEF RegistryInv

-----------------------------------------------------------------------------
(* The captured log and the previewed prune.                               *)

\* A goroutine between the two halves of capture found room, and the others
\* that did so are goroutines of the run too.
LogInv ==
    /\ capture \in [RunIDs -> SUBSET Loggers]
    /\ \A id \in RunIDs : run[id].log + Cardinality(capture[id]) <= maxRunLogLines - 1 + Cardinality(Loggers)

(* What the steps do to the logs: one line is promised, one promised line  *)
(* is written or given up, or the logs stay as they are but for a new run's. *)
LEMMA LogFrame ==
  ASSUME RegistryInv, [Next]_vars
  PROVE  \/ \E id \in RunIDs : /\ run' = run /\ room(id)
                               /\ \E l \in Loggers \ capture[id] : capture' = [capture EXCEPT ![id] = @ \cup {l}]
         \/ \E id \in RunIDs : /\ run' = [run EXCEPT ![id].log = @ + 1] \/ run' = run
                               /\ \E l \in capture[id] : capture' = [capture EXCEPT ![id] = @ \ {l}]
         \/ capture' = capture /\ \A id \in RunIDs : run'[id].log = run[id].log \/ run'[id].log = 0
<1>0. /\ run \in [Emitters -> Runs] /\ RunIDs \subseteq Emitters /\ 0 \notin RunIDs /\ 0 \in Emitters
  BY EmitterAssumption DEF RegistryInv, RunIDs
<1>1. ASSUME NEW t, NEW kind, startRun(t, kind)
      PROVE  capture' = capture /\ \A id \in RunIDs : run'[id].log = run[id].log \/ run'[id].log = 0
  <2>1. capture' = capture /\ \E id \in RunIDs : begin(t, kind, id)
    BY <1>1, Zenon DEF startRun
  <2>2. PICK id \in RunIDs : begin(t, kind, id)
    BY <2>1
  <2>3. [NoRun EXCEPT !.target = t, !.kind = kind, !.state = "running", !.pc = "acquire"].log = 0
    BY DEF NoRun
  <2> QED BY <1>0, <2>1, <2>2, <2>3, ZenonT(20) DEF begin
<1>2. ASSUME NEW t, ScheduledRun(t)
      PROVE  capture' = capture /\ \A id \in RunIDs : run'[id].log = run[id].log
  BY <1>0, <1>2 DEF ScheduledRun
<1>3. ASSUME NEW id \in Emitters, execute(id)
      PROVE  capture' = capture /\ \A x \in RunIDs : run'[x].log = run[x].log
  <2>0. run[id] \in Runs
    BY <1>0
  <2>1. ASSUME NEW pc, NEW outcome, Goto(id, pc, outcome)
        PROVE  \A x \in RunIDs : run'[x].log = run[x].log
    BY <1>0, <2>0, <2>1, SMTT(30) DEF Goto, Runs
  <2>2. CASE Acquire(id) \/ Work(id) \/ Emitted(id) \/ Release(id)
    <3>1. capture' = capture
      BY <2>2, ZenonT(40) DEF Acquire, Work, Emitted, Release
    <3>2. \E pc, outcome : Goto(id, pc, outcome)
      BY <2>2, ZenonT(20) DEF Acquire, Work, Emitted, Release
    <3> QED BY <2>1, <3>1, <3>2, Zenon
  <2>3. CASE Finish(id)
    <3>1. capture' = capture
      BY <2>3, Zenon DEF Finish
    <3>2. CASE id = 0
      BY <1>0, <2>3, <3>1, <3>2, Zenon DEF Finish
    <3>3. CASE id # 0
      BY <1>0, <2>0, <2>3, <3>1, <3>3 DEF Finish, finish, Runs
    <3> QED BY <3>2, <3>3, Zenon
  <2>4. CASE UNCHANGED serverVars
    BY <2>4 DEF serverVars
  <2> QED BY <1>3, <2>2, <2>3, <2>4, Zenon DEF execute
<1>4. ASSUME NEW id \in RunIDs, Look(id)
      PROVE  /\ run' = run /\ room(id)
             /\ \E l \in Loggers \ capture[id] : capture' = [capture EXCEPT ![id] = @ \cup {l}]
  BY <1>4, Zenon DEF Look
<1>5. ASSUME NEW id \in RunIDs, AppendLine(id)
      PROVE  /\ run' = [run EXCEPT ![id].log = @ + 1] \/ run' = run
             /\ \E l \in capture[id] : capture' = [capture EXCEPT ![id] = @ \ {l}]
  BY <1>5, Zenon DEF AppendLine
<1>6. CASE (\E t \in left.targets : PrunePlan(t)) \/ Stop \/ Time \/ PruneApply \/ Exit \/ UNCHANGED serverVars
  BY <1>6, Zenon DEF PrunePlan, Stop, Time, PruneApply, Exit, serverVars
<1> HIDE DEF room
<1>7. CASE Operator
  BY <1>1, <1>2, <1>4, <1>6, <1>7, SMTT(30) DEF Operator
<1>8. CASE Daemon
  BY <1>3, <1>5, <1>6, <1>8 DEF Daemon
<1> QED BY <1>6, <1>7, <1>8, SMTT(30) DEF Next, vars

(* No step takes a log past its limit by more than the goroutines that log. *)
LEMMA LogStep ==
  ASSUME Counting, RegistryInv, RegistryInv', LogInv, [Next]_vars
  PROVE  LogInv'
<1>0. /\ run \in [Emitters -> Runs] /\ run' \in [Emitters -> Runs] /\ RunIDs \subseteq Emitters
      /\ maxRunLogLines \in Nat \ {0} /\ IsFiniteSet(Loggers) /\ Cardinality(Loggers) \in Nat
      /\ capture \in [RunIDs -> SUBSET Loggers]
  BY EmitterAssumption, LogAssumption DEF RegistryInv, RunIDs, LogInv, Counting, CountingOf
<1>1. \A id \in RunIDs : run[id].log \in Nat /\ run'[id].log \in Nat
  <2>1. \A id \in RunIDs : run[id] \in Runs /\ run'[id] \in Runs
    BY <1>0, SMTT(30)
  <2> QED BY <2>1, Zenon DEF Runs
<1>2. \A S \in SUBSET Loggers : IsFiniteSet(S) /\ Cardinality(S) \in Nat /\ Cardinality(S) <= Cardinality(Loggers)
  BY <1>0, Zenon DEF Counting, CountingOf
<1>3. ASSUME NEW id \in RunIDs, NEW l \in Loggers \ capture[id], run' = run, room(id),
             capture' = [capture EXCEPT ![id] = capture[id] \cup {l}]
      PROVE  LogInv'
  <2>1. capture' \in [RunIDs -> SUBSET Loggers]
    BY <1>0, <1>3, Zenon
  <2>2. run[id].log <= maxRunLogLines - 1
    BY <1>0, <1>1, <1>3, SMTT(30) DEF room
  <2>3. Cardinality(capture'[id]) \in Nat /\ Cardinality(capture'[id]) <= Cardinality(Loggers)
    BY <1>2, <2>1, Zenon
  <2>4. run'[id].log + Cardinality(capture'[id]) <= maxRunLogLines - 1 + Cardinality(Loggers)
    BY <1>0, <1>1, <1>3, <2>2, <2>3, SMTT(30)
  <2>5. \A x \in RunIDs \ {id} : capture'[x] = capture[x]
    BY <1>0, <1>3, Zenon
  <2> QED BY <1>3, <2>1, <2>4, <2>5, Zenon DEF LogInv
<1>4. ASSUME NEW id \in RunIDs, NEW l \in capture[id],
             run' = [run EXCEPT ![id].log = run[id].log + 1] \/ run' = run,
             capture' = [capture EXCEPT ![id] = capture[id] \ {l}]
      PROVE  LogInv'
  <2>1. capture' \in [RunIDs -> SUBSET Loggers]
    BY <1>0, <1>4
  <2>2. capture'[id] = capture[id] \ {l} /\ \A x \in RunIDs \ {id} : capture'[x] = capture[x]
    BY <1>0, <1>4
  <2>3. Cardinality(capture'[id]) = Cardinality(capture[id]) - 1
    BY <1>0, <1>2, <2>2, Zenon DEF Counting, CountingOf
  <2>4. Cardinality(capture[id]) \in Nat
    BY <1>0, <1>2, Zenon
  <2>5. run[id] \in Runs
    BY <1>0
  <2>6. /\ run'[id].log <= run[id].log + 1
        /\ \A x \in RunIDs \ {id} : run'[x] = run[x]
    BY <1>0, <1>1, <1>4, <2>5, SMTT(30) DEF Runs
  <2>7. run'[id].log + Cardinality(capture'[id]) <= maxRunLogLines - 1 + Cardinality(Loggers)
    BY <1>0, <1>1, <2>3, <2>4, <2>6, SMTT(30) DEF LogInv
  <2> QED BY <2>1, <2>2, <2>6, <2>7, ZenonT(20) DEF LogInv
<1>5. CASE capture' = capture /\ \A id \in RunIDs : run'[id].log = run[id].log \/ run'[id].log = 0
  <2>1. ASSUME NEW id \in RunIDs
        PROVE  run'[id].log + Cardinality(capture'[id]) <= maxRunLogLines - 1 + Cardinality(Loggers)
    <3>1. Cardinality(capture[id]) \in Nat /\ Cardinality(capture[id]) <= Cardinality(Loggers)
      BY <1>0, <1>2, Zenon
    <3> QED BY <1>0, <1>1, <1>5, <3>1, SMTT(30) DEF LogInv
  <2> QED BY <1>0, <1>5, <2>1, Zenon DEF LogInv
<1> QED BY <1>3, <1>4, <1>5, LogFrame, SMTT(30)

\* The token the operator holds, and the plan about to be applied, are of a
\* preview of the same target.
PruneInv ==
    /\ DOMAIN prune = {"pc", "target", "plan", "token"}
    /\ prune.token # Never => <<prune.target, prune.token>> \in shown
    /\ prune.pc = "apply" => <<prune.target, prune.plan>> \in shown
    /\ erased \subseteq shown

(* A request is confirmed by the token of a preview, or shows a preview. *)
LEMMA PruneStep ==
  ASSUME PruneInv, [Next]_vars
  PROVE  PruneInv'
<1>1. ASSUME NEW t \in left.targets, PrunePlan(t)
      PROVE  PruneInv'
  <2> DEFINE plan == Plan(t)
  <2>0. erased' = erased /\ prune.pc = "idle"
    BY <1>1 DEF PrunePlan
  <2>1. \/ /\ shown' = shown \cup {<<t, plan>>}
           /\ prune' = [NoPrune EXCEPT !.target = t, !.token = plan]
        \/ /\ prune.target = t /\ prune.token # Never /\ prune.token = plan
           /\ prune' = [prune EXCEPT !.pc = "apply", !.plan = plan] /\ shown' = shown
        \/ prune' = prune /\ shown' = shown
    BY <1>1 DEF PrunePlan, confirms
  <2> HIDE DEF plan
  <2>2. CASE /\ shown' = shown \cup {<<t, plan>>}
             /\ prune' = [NoPrune EXCEPT !.target = t, !.token = plan]
    <3>1. /\ DOMAIN prune' = {"pc", "target", "plan", "token"}
          /\ prune'.pc = "idle" /\ prune'.target = t /\ prune'.token = plan
      BY <2>2 DEF NoPrune
    <3> QED BY <2>0, <2>2, <3>1 DEF PruneInv
  <2>3. CASE /\ prune.target = t /\ prune.token # Never /\ prune.token = plan
             /\ prune' = [prune EXCEPT !.pc = "apply", !.plan = plan] /\ shown' = shown
    <3>1. /\ DOMAIN prune' = {"pc", "target", "plan", "token"}
          /\ prune'.target = t /\ prune'.token = plan /\ prune'.plan = plan
      BY <2>3 DEF PruneInv
    <3> QED BY <2>0, <2>3, <3>1 DEF PruneInv
  <2> QED BY <2>0, <2>1, <2>2, <2>3 DEF PruneInv
<1>2. CASE PruneApply
  <2>1. /\ prune.pc = "apply" /\ prune' = [prune EXCEPT !.pc = "idle"] /\ shown' = shown
        /\ erased' = erased \cup {<<prune.target, prune.plan>>}
    BY <1>2 DEF PruneApply
  <2>2. /\ DOMAIN prune' = {"pc", "target", "plan", "token"} /\ prune'.pc = "idle"
        /\ prune'.target = prune.target /\ prune'.token = prune.token
    BY <2>1 DEF PruneInv
  <2> QED BY <2>1, <2>2 DEF PruneInv
<1>3. CASE UNCHANGED <<prune, shown, erased>>
  BY <1>3, Zenon DEF PruneInv
<1>4. ASSUME Operator, ~\E t \in left.targets : PrunePlan(t)
      PROVE  UNCHANGED <<prune, shown, erased>>
  BY <1>4, ZenonT(20) DEF Operator, startRun, ScheduledRun, Look, Stop, Time, serverVars
<1>5. ASSUME Daemon, ~PruneApply
      PROVE  UNCHANGED <<prune, shown, erased>>
  BY <1>5, Zenon DEF Daemon, execute, Acquire, Work, Emitted, Release, Finish, AppendLine, Exit, serverVars
<1> QED BY <1>1, <1>2, <1>3, <1>4, <1>5, ZenonT(20) DEF Next, vars, serverVars

-----------------------------------------------------------------------------
(* What the invariants give.                                               *)

ServerInv == ThrottleInv /\ NotifyInv /\ RegistryInv /\ LogInv /\ PruneInv

(* The deliveries go on as they should in every step of the daemon, and    *)
(* stay their windows apart.                                               *)
LEMMA NotifyStep ==
  ASSUME ThrottleInv, NotifyInv, RegistryInv, [Next]_vars
  PROVE  /\ NotifyInv'
         /\ \A k \in Keys : sent'[k] # sent[k] =>
              sent[k] = Never \/ sent'[k] >= sent[k] + Subs[k.sub].dedup
<1>1. ASSUME NEW e \in Emitters, Deliver(e)
      PROVE  /\ NotifyInv'
             /\ \A k \in Keys : sent'[k] # sent[k] =>
                  sent[k] = Never \/ sent'[k] >= sent[k] + Subs[k.sub].dedup
  <2>1. now \in Nat
    BY SMTT(30) DEF ThrottleInv
  <2> QED BY <1>1, <2>1, DeliverStep, Zenon
<1>2. ASSUME NEW e \in Emitters, NEW event \in Events,
             run[e].pc = "work", Emit(e, event, run[e].target), sent' = sent
      PROVE  NotifyInv'
  <2>1. run[e].target \in Targets
    BY <1>2, Zenon DEF RegistryInv, Sound, Steps
  <2> QED BY <1>2, <2>1, EmitStep, ZenonT(20)
<1>3. CASE UNCHANGED <<note, sent>>
  BY <1>3, ZenonT(20) DEF NotifyInv
<1>4. CASE \E e \in Emitters : Deliver(e) /\ now' = now
  BY <1>1, <1>4, Zenon
<1>5. CASE \E e \in Emitters, event \in Events :
              /\ run[e].pc = "work" /\ Emit(e, event, run[e].target) /\ sent' = sent
  <2>1. sent' = sent
    BY <1>5, Zenon
  <2> QED BY <1>2, <1>5, <2>1, Zenon
<1> QED BY <1>3, <1>4, <1>5, NotifyFrame, Zenon

(* The daemon starts in the invariant. *)
LEMMA ServerStart ==
  ASSUME Counting, Init
  PROVE  ServerInv
<1>1. LogInv
  <2>1. /\ capture = [id \in RunIDs |-> {}] /\ run = [id \in Emitters |-> NoRun]
        /\ RunIDs \subseteq Emitters /\ NoRun.log = 0
    BY EmitterAssumption DEF Init, RunIDs, NoRun
  <2>2. Cardinality({}) = 0 /\ Cardinality(Loggers) \in Nat /\ maxRunLogLines \in Nat \ {0}
    BY LogAssumption, Zenon DEF Counting, CountingOf
  <2> HIDE DEF NoRun
  <2>3. \A id \in RunIDs : run[id].log = 0 /\ Cardinality(capture[id]) = 0
    BY <2>1, <2>2, Zenon
  <2> QED BY <2>1, <2>2, <2>3 DEF LogInv
<1>2. PruneInv
  BY DEF Init, PruneInv, NoPrune
<1> QED BY <1>1, <1>2, ThrottleStart, NotifyStart, RegistryStart DEF ServerInv

(* Every step of the daemon stays in it. *)
LEMMA ServerStep ==
  ASSUME Counting, ServerInv, [Next]_vars
  PROVE  ServerInv'
<1>1. ThrottleInv' /\ NotifyInv' /\ RegistryInv'
  BY ThrottleStep, NotifyStep, RegistryStep, Zenon DEF ServerInv
<1>2. LogInv' /\ PruneInv'
  BY <1>1, LogStep, PruneStep DEF ServerInv
<1> QED BY <1>1, <1>2 DEF ServerInv

(* In the invariant, the logs, the queue and the failures are bounded. *)
LEMMA InvBounds ==
  ASSUME Counting, ServerInv
  PROVE  TypeOK
<1>0. /\ run \in [Emitters -> Runs] /\ RunIDs \subseteq Emitters /\ note \in [Emitters -> Delivery]
      /\ req \in [Requests -> [pc : {"new", "token", "refused"}, host : Hosts]]
  BY EmitterAssumption, SMTT(30) DEF ServerInv, RegistryInv, NotifyInv, ThrottleInv, RunIDs
<1>1. ASSUME NEW id \in RunIDs PROVE run[id].log < maxRunLogLines + Cardinality(Loggers)
  <2>1. run[id] \in Runs /\ capture[id] \in SUBSET Loggers
    BY <1>0, Zenon DEF ServerInv, LogInv
  <2>2. Cardinality(capture[id]) \in Nat /\ Cardinality(Loggers) \in Nat
    BY <2>1, LogAssumption, Zenon DEF Counting, CountingOf
  <2>3. run[id].log + Cardinality(capture[id]) <= maxRunLogLines - 1 + Cardinality(Loggers)
    BY Zenon DEF ServerInv, LogInv
  <2>4. run[id].log \in Nat /\ maxRunLogLines \in Nat
    BY <2>1, LogAssumption, Zenon DEF Runs
  <2> QED BY <2>2, <2>3, <2>4
<1>2. \A h \in DOMAIN seen : seen[h].last + forget >= swept
  BY ThrottleAssumption, Zenon DEF ServerInv, ThrottleInv, Kept, Remembered
<1>3. \A id \in Emitters : run[id].state \in States \cup {"none"} /\ (run[id].pc \in {"none", "end"} \/ run[id].pc \in Steps)
  <2>1. \A id \in Emitters : run[id] \in Runs
    BY <1>0, SMTT(30)
  <2> QED BY <2>1, Zenon DEF Runs
<1>4. Range(order) \subseteq RunIDs
  BY SMTT(30) DEF ServerInv, RegistryInv, Range
<1>5. \A e \in Emitters : note[e].pc \in {"idle", "next", "dedup", "post"}
  <2>1. \A e \in Emitters : note[e] \in Delivery
    BY <1>0
  <2> QED BY <2>1, Zenon DEF Delivery
<1>6. \A r \in Requests : req[r].pc \in {"new", "token", "refused"}
  BY <1>0
<1> QED BY <1>1, <1>2, <1>3, <1>4, <1>5, <1>6, ZenonT(40) DEF ServerInv, RegistryInv, TypeOK

(* In the invariant, a target is taken exactly while one run of it goes on. *)
LEMMA InvWatches ==
  ASSUME ServerInv
  PROVE  OneRunWatched
<1>0. /\ RegistryInv /\ order \in Seq(RunIDs) /\ active \in [Targets -> 0..MaxRuns]
      /\ 0 \notin RunIDs /\ \A x \in 0..MaxRuns : x = 0 \/ x \in RunIDs
  <2>1. RegistryInv
    BY Zenon DEF ServerInv
  <2>2. order \in Seq(RunIDs) /\ active \in [Targets -> 0..MaxRuns]
    BY <2>1, Zenon DEF RegistryInv
  <2>3. 0 \notin RunIDs /\ \A x \in 0..MaxRuns : x = 0 \/ x \in RunIDs
    BY EmitterAssumption DEF RunIDs
  <2> QED BY <2>1, <2>2, <2>3, Zenon
<1> SUFFICES ASSUME NEW t \in Targets
             PROVE  /\ {id \in RunIDs : run[id].target = t /\ run[id].pc \in Steps} = {active[t]} \ {0}
                    /\ (active[t] # 0 => active[t] \in Range(order) /\ run[active[t]].state = "running")
  BY DEF OneRunWatched
<1>1. active[t] = 0 \/ active[t] \in RunIDs
  BY <1>0, Zenon
<1>2. \A id \in RunIDs : run[id].pc \in Steps /\ run[id].target = t => active[t] = id
  BY <1>0, Zenon DEF RegistryInv
<1>3. active[t] # 0 => run[active[t]].pc \in Steps /\ run[active[t]].target = t
  BY <1>0, Zenon DEF RegistryInv
<1>4. active[t] # 0 => run[active[t]].state = "running" /\ \E i \in 1..Len(order) : order[i] = active[t]
  BY <1>0, <1>1, <1>3, Zenon DEF RegistryInv
<1>5. \A i \in 1..Len(order) : order[i] \in Range(order)
  <2>1. DOMAIN order = 1..Len(order)
    BY <1>0
  <2> QED BY <2>1, Zenon DEF Range
<1> QED BY <1>0, <1>1, <1>2, <1>3, <1>4, <1>5, Zenon

(* Being finite and having a size, spelled out: what the library's         *)
(* definitions say, so that its theorems about them carry over.            *)
Listed(S) == \E seq \in Seq(S) : \A s \in S : \E n \in 1..Len(seq) : seq[n] = s

Counted(S) ==
    LET CS[T \in SUBSET S] == IF T = {} THEN 0 ELSE 1 + CS[T \ {CHOOSE x : x \in T}]
    IN  CS[S]

(* Facts about the definitions spelled out are facts about the library.    *)
LEMMA SpelledOut ==
  ASSUME CountingOf(Listed, Counted)
  PROVE  Counting
<1>1. \A S : Listed(S) = IsFiniteSet(S) /\ Counted(S) = Cardinality(S)
  BY Zenon DEF Listed, Counted, IsFiniteSet, Cardinality
<1> QED BY <1>1, Zenon DEF Counting, CountingOf

LOCAL INSTANCE FiniteSetTheorems

(* The numbers are well ordered, and finite sets have the sizes they       *)
(* should.                                                                 *)
LEMMA CountingHolds == Counting
<1> DEFINE R == OpToRel(<, Nat)
<1>1. ASSUME NEW S \in SUBSET Nat, S # {} PROVE \E m \in S : \A n \in S : m <= n
  <2>1. \A x, y \in Nat : x < y => <<x, y>> \in R
    <3>1. R = {ss \in Nat \X Nat : ss[1] < ss[2]}
      BY DEF OpToRel
    <3> HIDE DEF R
    <3> QED BY <3>1, Zenon
  <2>2. IsWellFoundedOn(R, Nat)
    BY NatLessThanWellFounded, Zenon
  <2> HIDE DEF R
  <2>3. PICK x \in S : \A y \in S : ~(<<y, x>> \in R)
    BY <1>1, <2>2, WFMin, Zenon
  <2>4. ASSUME NEW y \in S PROVE x <= y
    <3>1. ~(y < x)
      BY <2>1, <2>3, Zenon
    <3> QED BY <3>1
  <2> QED BY <2>4
<1>2. \A S : IsFiniteSet(S) => Cardinality(S) \in Nat
  BY FS_CardinalityType, Zenon
<1>3. Cardinality({}) = 0
  BY FS_EmptySet, Zenon
<1>4. ASSUME NEW S, IsFiniteSet(S), NEW T \in SUBSET S
      PROVE  IsFiniteSet(T) /\ Cardinality(T) <= Cardinality(S)
  BY <1>4, FS_Subset, Zenon
<1>5. ASSUME NEW S, IsFiniteSet(S), NEW x \in S
      PROVE  IsFiniteSet(S \ {x}) /\ Cardinality(S \ {x}) = Cardinality(S) - 1
  BY <1>5, FS_RemoveElement, Zenon
<1>6. ASSUME NEW n \in Nat, NEW S, NEW f \in [1..n -> S], IsFiniteSet(S),
             \A i, j \in 1..n : f[i] = f[j] => i = j
      PROVE  n <= Cardinality(S)
  <2>1. f \in Injection(1..n, S)
    <3>1. IsInjective(f)
      BY <1>6, Zenon DEF IsInjective
    <3> QED BY <3>1, Zenon DEF Injection
  <2>2. Cardinality(1..n) <= Cardinality(S)
    BY <1>6, <2>1, FS_Injection, Zenon
  <2>3. Cardinality(1..n) = n
    <3>1. Cardinality(1..n) = IF 1 > n THEN 0 ELSE n - 1 + 1
      BY FS_Interval
    <3> QED BY <3>1
  <2> QED BY <2>2, <2>3, Zenon
<1>7. \A S : Listed(S) = IsFiniteSet(S) /\ Counted(S) = Cardinality(S)
  BY Zenon DEF Listed, Counted, IsFiniteSet, Cardinality
<1>8. \A S \in SUBSET Nat : S # {} => \E m \in S : \A n \in S : m <= n
  BY <1>1, Zenon
<1>9. \A S : Listed(S) => Counted(S) \in Nat
  BY <1>2, <1>7, Zenon
<1>10. Counted({}) = 0
  BY <1>3, <1>7, Zenon
<1>11. \A S : Listed(S) => \A T \in SUBSET S : Listed(T) /\ Counted(T) <= Counted(S)
  BY <1>4, <1>7, Zenon
<1>12. \A S : Listed(S) => \A x \in S : Listed(S \ {x}) /\ Counted(S \ {x}) = Counted(S) - 1
  BY <1>5, <1>7, Zenon
<1>13. \A n \in Nat : \A S : \A f \in [1..n -> S] :
         Listed(S) /\ (\A i, j \in 1..n : f[i] = f[j] => i = j) => n <= Counted(S)
  BY <1>6, <1>7, Zenon
<1>14. CountingOf(Listed, Counted)
  BY <1>8, <1>9, <1>10, <1>11, <1>12, <1>13, Zenon DEF CountingOf
<1> QED BY <1>14, SpelledOut, Zenon

(* The daemon starts in the invariant and stays in it. *)
LEMMA ServerInvariant == Spec => []ServerInv
<1>1. Init => ServerInv
  BY CountingHolds, ServerStart, Zenon
<1>2. ServerInv /\ [Next]_vars => ServerInv'
  BY CountingHolds, ServerStep, Zenon
<1> QED BY <1>1, <1>2, PTL DEF Spec

(* The daemon's memory stays bounded, whatever is started, logged and      *)
(* refused: a run's log, the registry, and the tokens that failed          *)
(* (runlog.go, runs.go, throttle.go).                                      *)
THEOREM MemoryBounded == Spec => []TypeOK
<1>1. ServerInv => TypeOK
  BY CountingHolds, InvBounds, Zenon
<1> QED BY <1>1, ServerInvariant, PTL

(* A target is taken exactly while one run of it goes on, and that run is  *)
(* never pushed out of the registry (runs.go, begin, finish and trim).     *)
THEOREM RegistryAgrees == Spec => []OneRunWatched
<1>1. ServerInv => OneRunWatched
  BY InvWatches, Zenon
<1> QED BY <1>1, ServerInvariant, PTL

(* Whatever happens between a preview and its confirmation, a prune        *)
(* request deletes what a preview of its target showed (actions.go,        *)
(* actionPrune).                                                           *)
THEOREM PruneAsShown == Spec => []AppliedWasShown
<1>1. ServerInv => AppliedWasShown
  BY Zenon DEF ServerInv, PruneInv, AppliedWasShown
<1> QED BY <1>1, ServerInvariant, PTL

(* An endpoint that fails does not cost the others their delivery, and is  *)
(* tried no more than it should be (notify.go, Notify; webhook.go, Notify). *)
THEOREM EveryoneIsTold == Spec => []DeliveriesSettle
<1>1. ServerInv => DeliveriesSettle
  BY Zenon DEF ServerInv, NotifyInv, Underway, DeliveriesSettle
<1> QED BY <1>1, ServerInvariant, PTL

(* Two deliveries of an event of a target to a subscription are its window *)
(* apart, whichever runs have something to say (notify.go, suppress).      *)
THEOREM OnePerWindow == Spec => WindowKept
<1> DEFINE W == \A k \in Keys : sent'[k] # sent[k] =>
                  sent[k] = Never \/ sent'[k] >= sent[k] + Subs[k.sub].dedup
<1>1. ServerInv /\ [Next]_vars => [W]_<<now, notifyVars>>
  BY NotifyStep, Zenon DEF ServerInv
<1> QED BY <1>1, ServerInvariant, PTL DEF Spec, WindowKept
=============================================================================
