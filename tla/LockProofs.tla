----------------------------- MODULE LockProofs -----------------------------
(***************************************************************************)
(* Proofs about Lock, for any set of processes, any lease length and any   *)
(* number of store failures and crashes.                                   *)
(***************************************************************************)
EXTENDS Lock, TLAPS

USE DEF Phases, Holding, acquireAttempts

-----------------------------------------------------------------------------
(* Type correctness, by the parts of the state a step touches.             *)

ProcTypes ==
    /\ pc \in [Procs -> Phases]
    /\ owner \in [Procs -> [acq : Nat, exp : Nat]]
    /\ etag \in [Procs -> Nat] /\ snap \in [Procs -> Nat]
    /\ tries \in [Procs -> 0..acquireAttempts]
    /\ hb \in [Procs -> {"off", "wait", "put"}]
    /\ beat \in [Procs -> Nat] /\ renewal \in [Procs -> Nat]
    /\ done \in [Procs -> BOOLEAN]

StoreTypes ==
    /\ obj \in [by : Procs, exp : Nat, etag : Nat] \cup {NoLock}
    /\ writes \in Nat

(* The type invariant is the conjunction of its parts. *)
LEMMA TypeParts ==
    TypeOK <=> /\ ProcTypes /\ StoreTypes
               /\ clock \in Nat /\ faults \in Nat /\ crashes \in Nat
  BY DEF TypeOK, ProcTypes, StoreTypes

(* Interval is a number of clock units. *)
LEMMA IntervalType == Interval \in Nat
  BY TTLAssumption DEF Interval, renewDivisor

(* What one process does to its own state keeps that state well typed. *)
LEMMA LeaveTypes ==
  ASSUME ProcTypes, NEW p \in Procs, Leave(p)
  PROVE  ProcTypes'
  BY DEF ProcTypes, Leave, Goto, NoOwner

(* A new attempt keeps the types of the processes.                         *)
LEMMA AttemptTypes ==
  ASSUME ProcTypes, clock \in Nat, NEW p \in Procs,
         NEW n \in 0..acquireAttempts, Attempt(p, n)
  PROVE  ProcTypes'
  BY TTLAssumption DEF ProcTypes, Attempt, Goto

(* A retry, or giving up, keeps the types of the processes.                *)
LEMMA RetryTypes ==
  ASSUME ProcTypes, clock \in Nat, NEW p \in Procs, Retry(p)
  PROVE  ProcTypes'
<1>1. CASE tries[p] < acquireAttempts /\ Attempt(p, tries[p] + 1)
  <2>1. tries[p] + 1 \in 0..acquireAttempts
    BY <1>1 DEF ProcTypes
  <2> QED BY <1>1, <2>1, AttemptTypes
<1>2. CASE Leave(p)
  BY <1>2, LeaveTypes
<1> QED BY <1>1, <1>2 DEF Retry

(* Taking the lock keeps the types of the processes.                       *)
LEMMA HoldTypes ==
  ASSUME ProcTypes, clock \in Nat, NEW p \in Procs, NEW tag \in Nat, Hold(p, tag)
  PROVE  ProcTypes'
  BY IntervalType DEF ProcTypes, Hold, Goto

(* Moving to the next request keeps the types of the processes.            *)
LEMMA StepTypes ==
  ASSUME ProcTypes, NEW p \in Procs, NEW phase \in Phases, Step(p, phase)
  PROVE  ProcTypes'
  BY DEF ProcTypes, Step, Goto

(* A conditional write keeps the types of the store.                       *)
LEMMA WriteTypes ==
  ASSUME StoreTypes, NEW p \in Procs, NEW exp \in Nat, Write(p, exp)
  PROVE  StoreTypes'
  BY DEF StoreTypes, Write

(* Every step keeps TypeOK: the store and the process are typed apart. *)
LEMMA TypeStep == TypeOK /\ [Next]_vars => TypeOK'
<1> SUFFICES ASSUME TypeOK, [Next]_vars PROVE TypeOK'
  OBVIOUS
<1> USE DEF NoWrite, NoFault, Fault
<1>0. /\ ProcTypes /\ StoreTypes
      /\ clock \in Nat /\ faults \in Nat /\ crashes \in Nat
  BY TypeParts
<1>t. ASSUME ProcTypes', StoreTypes',
             clock' \in Nat, faults' \in Nat, crashes' \in Nat
      PROVE  TypeOK'
  BY <1>t DEF TypeOK, ProcTypes, StoreTypes
<1>1. CASE Tick
  BY <1>0, <1>1, <1>t DEF Tick, proc, ProcTypes, StoreTypes
<1>2. ASSUME NEW p \in Procs, Acquire(p) PROVE TypeOK'
  BY <1>0, <1>2, <1>t, AttemptTypes DEF Acquire, StoreTypes
<1>3. ASSUME NEW p \in Procs, PutIfAbsent(p) PROVE TypeOK'
  <2>1. owner[p].exp \in Nat
    BY <1>0 DEF ProcTypes
  <2>2. ProcTypes'
    BY <1>0, <1>3, StepTypes, LeaveTypes DEF PutIfAbsent
  <2>3. StoreTypes'
    BY <1>0, <1>3, <2>1, WriteTypes DEF PutIfAbsent, StoreTypes
  <2> QED BY <1>0, <1>3, <2>2, <2>3, <1>t DEF PutIfAbsent
<1>4. ASSUME NEW p \in Procs, ReadBack(p) PROVE TypeOK'
  <2>1. obj # NoLock => obj.etag \in Nat
    BY <1>0 DEF StoreTypes
  <2>2. ProcTypes'
    BY <1>0, <1>4, <2>1, HoldTypes, RetryTypes, LeaveTypes DEF ReadBack
  <2> QED BY <1>0, <1>4, <2>2, <1>t DEF ReadBack, StoreTypes
<1>5. ASSUME NEW p \in Procs, ReadHead(p) PROVE TypeOK'
  <2>1. obj # NoLock => obj.etag \in Nat
    BY <1>0 DEF StoreTypes
  <2>2. CASE obj # NoLock /\ Goto(p, "get")
    BY <1>0, <1>5, <2>1, <2>2, <1>t, LeaveTypes, RetryTypes, SMTT(30)
    DEF ReadHead, Goto, ProcTypes, StoreTypes
  <2>3. CASE Retry(p) \/ Leave(p)
    BY <1>0, <1>5, <2>3, <1>t, LeaveTypes, RetryTypes DEF ReadHead, StoreTypes
  <2> QED BY <1>5, <2>2, <2>3 DEF ReadHead
<1>6. ASSUME NEW p \in Procs, ReadGet(p) PROVE TypeOK'
  BY <1>0, <1>6, <1>t, StepTypes, LeaveTypes, RetryTypes DEF ReadGet, StoreTypes
<1>7. ASSUME NEW p \in Procs, TakeOver(p) PROVE TypeOK'
  <2>1. owner[p].exp \in Nat /\ writes + 1 \in Nat
    BY <1>0 DEF ProcTypes, StoreTypes
  <2>2. ProcTypes'
    BY <1>0, <1>7, <2>1, StepTypes, LeaveTypes, HoldTypes DEF TakeOver
  <2>3. StoreTypes'
    BY <1>0, <1>7, <2>1, WriteTypes DEF TakeOver, StoreTypes
  <2> QED BY <1>0, <1>7, <2>2, <2>3, <1>t DEF TakeOver
<1>8. ASSUME NEW p \in Procs, ReRead(p) PROVE TypeOK'
  BY <1>0, <1>8, <1>t, LeaveTypes, RetryTypes DEF ReRead, StoreTypes
<1>9. ASSUME NEW p \in Procs, Beat(p) PROVE TypeOK'
  BY <1>0, <1>9, <1>t, TTLAssumption, IntervalType DEF Beat, ProcTypes, StoreTypes
<1>10. ASSUME NEW p \in Procs, Renew(p) PROVE TypeOK'
  <2>1. renewal[p] \in Nat /\ writes + 1 \in Nat
    BY <1>0 DEF ProcTypes, StoreTypes
  <2>2. ASSUME Lose(p) PROVE ProcTypes'
    BY <1>0, <2>2 DEF Lose, ProcTypes
  <2>3. ASSUME Renewed(p) PROVE ProcTypes'
    BY <1>0, <2>1, <2>3 DEF Renewed, ProcTypes
  <2>4. StoreTypes'
    BY <1>0, <1>10, <2>1, WriteTypes DEF Renew, StoreTypes
  <2> QED BY <1>0, <1>10, <2>2, <2>3, <2>4, <1>t DEF Renew
<1>11. ASSUME NEW p \in Procs, HeartbeatStop(p) \/ CancelRun(p) \/ Release(p)
       PROVE  TypeOK'
  BY <1>0, <1>11, <1>t, ZenonT(20)
  DEF HeartbeatStop, CancelRun, Release, Goto, ProcTypes, StoreTypes
<1>12. ASSUME NEW p \in Procs, ReleaseHead(p) PROVE TypeOK'
  BY <1>0, <1>12, <1>t, StepTypes, LeaveTypes DEF ReleaseHead, StoreTypes
<1>13. ASSUME NEW p \in Procs, ReleaseDelete(p) \/ Crash(p) PROVE TypeOK'
  BY <1>0, <1>13, <1>t, LeaveTypes DEF ReleaseDelete, Crash, StoreTypes
<1>14. CASE UNCHANGED vars
  BY <1>0, <1>14, <1>t DEF vars, proc, ProcTypes, StoreTypes
<1> QED
  BY <1>1, <1>2, <1>3, <1>4, <1>5, <1>6, <1>7, <1>8, <1>9, <1>10, <1>11,
     <1>12, <1>13, <1>14 DEF Next

(* TypeOK holds in every behaviour of the lock. *)
THEOREM TypeCorrect == Spec => []TypeOK
<1>1. Init => TypeOK
  BY DEF Init, TypeOK, NoOwner
<1> QED BY <1>1, TypeStep, PTL DEF Spec

-----------------------------------------------------------------------------
(* Mutual exclusion.  The inductive invariant says, of each process, what  *)
(* its next write would overwrite.                                         *)

LeaseInvOf(p) ==
    \* It is inside the lease it asked for.
    /\ pc[p] # "idle" => /\ clock < owner[p].exp /\ owner[p].exp <= clock + TTL
                         /\ owner[p].acq <= clock
    \* Its ETag comes from a write that happened: the next write's is new.
    /\ etag[p] <= writes
    \* Its heartbeat belongs to a handle, and a renewal only extends the lease.
    /\ hb[p] # "off" => pc[p] \in {"held", "relwait"}
    /\ hb[p] = "put" => owner[p].exp <= renewal[p] /\ renewal[p] <= clock + TTL
    \* A takeover that would succeed overwrites an expired lease, because the
    \* Owner is read after the ETag.
    /\ pc[p] = "takeover" /\ Matches(etag[p]) => obj.exp <= owner[p].acq
    \* If it holds the lock, the lock is in the bucket and names it.
    /\ pc[p] \in Holding => obj # NoLock /\ obj.by = p /\ owner[p].exp <= obj.exp

LeaseInv ==
    /\ TypeOK
    /\ obj # NoLock => obj.etag <= writes
    /\ \A p \in Procs : LeaseInvOf(p)

\* A step leaves the state of q alone.
Same(q) ==
    /\ pc'[q] = pc[q] /\ owner'[q] = owner[q] /\ etag'[q] = etag[q]
    /\ hb'[q] = hb[q] /\ renewal'[q] = renewal[q]

(* What a process does to its own state leaves the others alone. *)
LEMMA Locality ==
  ASSUME TypeOK, NEW p \in Procs, NEW q \in Procs, q # p,
         NEW phase, NEW n, NEW tag,
         \/ Leave(p) \/ Attempt(p, n) \/ Hold(p, tag) \/ Step(p, phase)
         \/ Lose(p) \/ Renewed(p)
  PROVE  Same(q)
  BY ZenonT(30) DEF TypeOK, Leave, Attempt, Hold, Step, Lose, Renewed, Goto, Same

(* A process that nobody disturbs keeps its part of the invariant. *)
LEMMA Undisturbed ==
  ASSUME LeaseInv, TypeOK', NEW q \in Procs, Same(q), UNCHANGED <<obj, writes, clock>>
  PROVE  LeaseInvOf(q)'
  BY DEF LeaseInv, LeaseInvOf, Same, Matches

(* So does one that holds nothing, whoever writes the lock. *)
LEMMA Overwritten ==
  ASSUME LeaseInv, TypeOK', NEW p \in Procs, NEW q \in Procs, NEW exp \in Nat,
         Same(q), Write(p, exp), UNCHANGED clock, pc[q] \notin Holding
  PROVE  LeaseInvOf(q)'
  BY DEF LeaseInv, LeaseInvOf, Same, Matches, Write, TypeOK

(* A process that holds nothing satisfies its part. *)
LEMMA Left ==
  ASSUME LeaseInv, TypeOK', NEW p \in Procs, Leave(p)
  PROVE  LeaseInvOf(p)'
  BY DEF LeaseInv, LeaseInvOf, Leave, Goto, TypeOK

(* A new attempt is inside the lease it will ask for. *)
LEMMA Attempted ==
  ASSUME LeaseInv, TypeOK', NEW p \in Procs, NEW n, Attempt(p, n), UNCHANGED <<writes, clock>>,
         hb[p] = "off"
  PROVE  LeaseInvOf(p)'
  BY TTLAssumption DEF LeaseInv, LeaseInvOf, Attempt, Goto, TypeOK

(* The lock of a process that holds it bars every other process. *)
LEMMA Sole ==
  ASSUME LeaseInv, NEW p \in Procs, NEW q \in Procs, pc[p] \in Holding, pc[q] \in Holding
  PROVE  p = q
  BY Zenon DEF LeaseInv, LeaseInvOf

(* A lease that has expired has no process holding it. *)
LEMMA ExpiredIsFree ==
  ASSUME LeaseInv, obj # NoLock, obj.exp <= clock, NEW q \in Procs
  PROVE  pc[q] \notin Holding
<1>1. owner[q].exp \in Nat /\ obj.exp \in Nat /\ clock \in Nat
  BY DEF LeaseInv, TypeOK
<1> QED BY <1>1 DEF LeaseInv, LeaseInvOf

(* LeaseInv holds at the start: nobody holds anything. *)
LEMMA LeaseInit == Init => LeaseInv
  BY DEF Init, LeaseInv, LeaseInvOf, TypeOK, Matches, NoOwner

(* The steps that write nothing. *)
LEMMA ReadStep ==
  ASSUME LeaseInv, TypeOK', NEW p \in Procs,
         ReadBack(p) \/ ReadHead(p) \/ ReadGet(p) \/ ReRead(p)
  PROVE  LeaseInv'
<1> USE DEF NoWrite
<1>1. UNCHANGED <<obj, writes, clock>>
  BY Zenon DEF ReadBack, ReadHead, ReadGet, ReRead
<1>2. hb[p] = "off"
  BY Zenon DEF LeaseInv, LeaseInvOf, TypeOK, ReadBack, ReadHead, ReadGet, ReRead
<1>3. ASSUME NEW q \in Procs, q # p PROVE Same(q)
  <2>1. CASE Leave(p) \/ Retry(p) \/ Step(p, "takeover") \/ \E tag \in Nat : Hold(p, tag)
    BY <1>3, <2>1, Locality DEF Retry, LeaseInv
  <2>2. CASE ReadHead(p) /\ Goto(p, "get") /\ obj # NoLock /\ UNCHANGED <<owner, hb, renewal>>
             /\ etag' = [etag EXCEPT ![p] = obj.etag]
    BY <1>3, <2>2 DEF Same, Goto, LeaseInv, TypeOK
  <2>3. obj # NoLock => obj.etag \in Nat
    BY DEF LeaseInv, TypeOK
  <2> QED BY <2>1, <2>2, <2>3, Zenon DEF ReadBack, ReadHead, ReadGet, ReRead
<1>4. LeaseInvOf(p)'
  <2>1. CASE Leave(p)
    BY <2>1, Left
  <2>2. CASE Retry(p)
    BY <1>1, <1>2, <2>2, Left, Attempted DEF Retry
  <2>3. CASE ReadBack(p) /\ obj # NoLock /\ Hold(p, obj.etag)
    BY <1>1, <2>3 DEF LeaseInv, LeaseInvOf, ReadBack, Hold, Goto, TypeOK, Matches
  <2>4. CASE ReadHead(p) /\ Goto(p, "get") /\ obj # NoLock /\ UNCHANGED <<owner, hb, renewal>>
             /\ etag' = [etag EXCEPT ![p] = obj.etag]
    BY <1>1, <2>4, SMTT(30) DEF LeaseInv, LeaseInvOf, ReadHead, Goto, TypeOK, Matches
  <2>5. CASE ReadGet(p) /\ Expired(obj.exp, owner[p].acq) /\ Step(p, "takeover")
    BY <1>1, <2>5 DEF LeaseInv, LeaseInvOf, ReadGet, Expired, Step, Goto, TypeOK, Matches
  <2> QED BY <2>1, <2>2, <2>3, <2>4, <2>5, Zenon DEF ReadBack, ReadHead, ReadGet, ReRead
<1> QED BY <1>1, <1>3, <1>4, Undisturbed DEF LeaseInv

(* The conditional create: there is no lock, so nobody holds one. *)
LEMMA CreateStep ==
  ASSUME LeaseInv, TypeOK', NEW p \in Procs, PutIfAbsent(p)
  PROVE  LeaseInv'
<1>1. /\ Leave(p) \/ Step(p, "readback") \/ Step(p, "head")
      /\ UNCHANGED clock
  BY DEF PutIfAbsent
<1>2. \A q \in Procs \ {p} : Same(q)
  BY <1>1, Locality DEF LeaseInv
<1>3. CASE NoWrite /\ (Leave(p) \/ Step(p, "head"))
  <2>1. LeaseInvOf(p)'
    <3>1. CASE Step(p, "head")
      BY <1>1, <1>3, <3>1
      DEF PutIfAbsent, NoWrite, Step, Goto, LeaseInv, LeaseInvOf, Matches, TypeOK
    <3> QED BY <1>3, <3>1, Left
  <2> QED BY <1>1, <1>2, <1>3, <2>1, Undisturbed DEF NoWrite, LeaseInv
<1>4. CASE obj = NoLock /\ Write(p, owner[p].exp)
  <2>1. owner[p].exp \in Nat
    BY SMTT(30) DEF LeaseInv, TypeOK
  <2>2. \A q \in Procs : pc[q] \notin Holding
    BY <1>4, Zenon DEF LeaseInv, LeaseInvOf
  <2>3. LeaseInvOf(p)'
    <3>1. CASE Step(p, "readback") \/ Step(p, "head")
      BY <1>1, <1>4, <2>1, <3>1, NoLockAssumption, SMTT(30)
      DEF PutIfAbsent, Write, Step, Goto, LeaseInv, LeaseInvOf, Matches, TypeOK
    <3> QED BY <1>1, <3>1, Left, SMTT(30)
  <2> QED BY <1>1, <1>2, <1>4, <2>1, <2>2, <2>3, Overwritten DEF LeaseInv, Write, TypeOK
<1> QED BY <1>3, <1>4, Zenon DEF PutIfAbsent

(* The takeover: it only succeeds on an expired lease, which nobody holds. *)
LEMMA TakeOverStep ==
  ASSUME LeaseInv, TypeOK', NEW p \in Procs, TakeOver(p)
  PROVE  LeaseInv'
<1>1. /\ Leave(p) \/ Hold(p, writes + 1) \/ Step(p, "reread")
      /\ UNCHANGED clock
  BY Zenon DEF TakeOver
<1>2. \A q \in Procs \ {p} : Same(q)
  BY <1>1, Locality DEF LeaseInv
<1>3. CASE NoWrite /\ (Leave(p) \/ Step(p, "reread"))
  <2>1. CASE Step(p, "reread")
    BY <1>1, <1>2, <1>3, <2>1, Undisturbed
    DEF TakeOver, NoWrite, Step, Goto, LeaseInv, LeaseInvOf, Matches, TypeOK
  <2>2. CASE Leave(p)
    BY <1>1, <1>2, <1>3, <2>2, Undisturbed, Left, SMTT(30) DEF NoWrite, LeaseInv
  <2> QED BY <1>3, <2>1, <2>2, SMTT(30)
<1>4. CASE Matches(etag[p]) /\ Write(p, owner[p].exp)
  <2>1. owner[p].exp \in Nat
    BY DEF LeaseInv, TypeOK
  <2>2. obj # NoLock /\ obj.exp <= clock
    <3>1. pc[p] = "takeover" /\ pc[p] # "idle"
      BY Zenon DEF TakeOver
    <3>2. obj # NoLock /\ obj.exp <= owner[p].acq /\ owner[p].acq <= clock
      BY <1>4, <3>1, Zenon DEF Matches, LeaseInv, LeaseInvOf
    <3>3. obj.exp \in Nat /\ owner[p].acq \in Nat /\ clock \in Nat
      BY <3>2, Zenon DEF LeaseInv, TypeOK
    <3> QED BY <3>2, <3>3
  <2>3. \A q \in Procs : pc[q] \notin Holding
    BY <2>2, ExpiredIsFree
  <2>4. LeaseInvOf(p)'
    <3>1. CASE Hold(p, writes + 1)
      BY <1>1, <1>4, <2>1, <3>1, NoLockAssumption, SMTT(30)
      DEF TakeOver, Write, Hold, Goto, LeaseInv, LeaseInvOf, Matches, TypeOK
    <3>2. CASE Step(p, "reread")
      BY <1>1, <1>4, <2>1, <3>2, NoLockAssumption, SMTT(30)
      DEF TakeOver, Write, Step, Goto, LeaseInv, LeaseInvOf, Matches, TypeOK
    <3> QED BY <1>1, <3>1, <3>2, Left, SMTT(30)
  <2> QED BY <1>1, <1>2, <1>4, <2>1, <2>3, <2>4, Overwritten, SMTT(30) DEF LeaseInv, Write, TypeOK
<1> QED BY <1>3, <1>4, Zenon DEF TakeOver

(* A renewal: the ETag matches, the renewing process holds the lock. *)
LEMMA RenewStep ==
  ASSUME LeaseInv, TypeOK', NEW p \in Procs, Renew(p)
  PROVE  LeaseInv'
<1>1. Lose(p) \/ Renewed(p)
  BY Zenon DEF Renew
<1>2. \A q \in Procs \ {p} : Same(q)
  BY <1>1, Locality DEF LeaseInv
<1>3. UNCHANGED clock /\ pc[p] \in Holding
  BY Zenon DEF Renew, LeaseInv, LeaseInvOf, TypeOK
<1>4. CASE NoWrite /\ Lose(p)
  <2>1. LeaseInvOf(p)'
    BY <1>3, <1>4 DEF NoWrite, Lose, LeaseInv, LeaseInvOf, Matches, TypeOK
  <2> QED BY <1>2, <1>3, <1>4, <2>1, Undisturbed, SMTT(30) DEF NoWrite, LeaseInv
<1>5. CASE Write(p, renewal[p])
  <2>1. renewal[p] \in Nat /\ owner[p].exp \in Nat
    BY Zenon DEF LeaseInv, TypeOK
  <2>2. \A q \in Procs \ {p} : pc[q] \notin Holding
    BY <1>3, Sole
  <2>3. LeaseInvOf(p)'
    <3>1. CASE Lose(p)
      BY <1>3, <1>5, <2>1, <3>1, NoLockAssumption, SMTT(30)
      DEF Renew, Write, Lose, LeaseInv, LeaseInvOf, Matches, TypeOK
    <3>2. CASE Renewed(p)
      BY <1>3, <1>5, <2>1, <3>2, NoLockAssumption, SMTT(30)
      DEF Renew, Write, Renewed, LeaseInv, LeaseInvOf, Matches, TypeOK
    <3> QED BY <1>1, <3>1, <3>2, SMTT(30)
  <2>4. \A q \in Procs \ {p} : LeaseInvOf(q)'
    BY <1>2, <1>3, <1>5, <2>1, <2>2, Overwritten, Zenon
  <2>5. obj'.etag <= writes'
    BY <1>5 DEF Write, LeaseInv, TypeOK
  <2> QED BY <2>3, <2>4, <2>5 DEF LeaseInv
<1> QED BY <1>4, <1>5, Zenon DEF Renew

(* Release and crashes: what is deleted is the process's own lock. *)
LEMMA ReleaseStep ==
  ASSUME LeaseInv, TypeOK', NEW p \in Procs,
         ReleaseHead(p) \/ ReleaseDelete(p) \/ Crash(p)
  PROVE  LeaseInv'
<1>1. Leave(p) \/ Step(p, "reldelete")
  BY Zenon DEF ReleaseHead, ReleaseDelete, Crash
<1>2. \A q \in Procs \ {p} : Same(q)
  BY <1>1, Locality DEF LeaseInv
<1>3. UNCHANGED <<writes, clock>>
  BY Zenon DEF ReleaseHead, ReleaseDelete, Crash, NoWrite
<1>4. CASE UNCHANGED obj
  <2>1. CASE ReleaseHead(p) /\ Step(p, "reldelete")
    BY <1>2, <1>3, <1>4, <2>1, Undisturbed
    DEF ReleaseHead, Step, Goto, LeaseInv, LeaseInvOf, Matches, TypeOK
  <2>2. CASE Leave(p)
    BY <1>2, <1>3, <1>4, <2>2, Undisturbed, Left DEF LeaseInv
  <2> QED BY <2>1, <2>2, Zenon DEF ReleaseHead, ReleaseDelete, Crash
<1>5. CASE ReleaseDelete(p) /\ obj' = NoLock
  <2>1. pc[p] \in Holding /\ Leave(p)
    BY <1>5, SMTT(30) DEF ReleaseDelete
  <2>2. ASSUME NEW q \in Procs \ {p} PROVE LeaseInvOf(q)'
    BY <1>2, <1>3, <1>5, <2>1, <2>2, Sole, ZenonT(30) DEF LeaseInv, LeaseInvOf, Same, Matches
  <2> QED BY <1>3, <1>5, <2>1, <2>2, Left DEF LeaseInv
<1> QED BY <1>4, <1>5, Zenon DEF ReleaseHead, ReleaseDelete, Crash, NoWrite

(* The heartbeat's own steps, the end of a run, and the passage of time. *)
LEMMA QuietStep ==
  ASSUME Timely, LeaseInv, TypeOK',
         \/ Tick \/ UNCHANGED vars
         \/ \E p \in Procs : \/ Acquire(p) \/ Beat(p) \/ HeartbeatStop(p)
                             \/ CancelRun(p) \/ Release(p)
  PROVE  LeaseInv'
<1>1. CASE Tick
  BY <1>1, TTLAssumption DEF Tick, proc, LeaseInv, LeaseInvOf, TypeOK, Matches
<1>2. CASE UNCHANGED vars
  BY <1>2, Zenon DEF vars, proc, LeaseInv, LeaseInvOf, Matches
<1>3. ASSUME NEW p \in Procs, Acquire(p) PROVE LeaseInv'
  <2>1. hb[p] = "off" /\ Attempt(p, 1) /\ UNCHANGED <<obj, writes, clock>>
    BY <1>3, Zenon DEF Acquire, LeaseInv, LeaseInvOf, TypeOK
  <2>2. \A q \in Procs \ {p} : Same(q)
    BY <2>1, Locality, Zenon DEF LeaseInv
  <2> QED BY <2>1, <2>2, Attempted, Undisturbed, Zenon DEF LeaseInv
<1>4. ASSUME NEW p \in Procs, Beat(p) PROVE LeaseInv'
  BY <1>4, TTLAssumption, SMTT(30) DEF Beat, LeaseInv, LeaseInvOf, TypeOK, Matches
<1>5. ASSUME NEW p \in Procs, HeartbeatStop(p) \/ CancelRun(p) PROVE LeaseInv'
  BY <1>5, SMTT(30) DEF HeartbeatStop, CancelRun, LeaseInv, LeaseInvOf, TypeOK, Matches
<1>6. ASSUME NEW p \in Procs, Release(p) PROVE LeaseInv'
  BY <1>6 DEF Release, Goto, LeaseInv, LeaseInvOf, TypeOK, Matches
<1> QED BY <1>1, <1>2, <1>3, <1>4, <1>5, <1>6, SMTT(30)

(* Every step keeps LeaseInv when no process outstays its lease. *)
LEMMA LeaseStep == Timely /\ LeaseInv /\ [Next]_vars => LeaseInv'
<1> SUFFICES ASSUME Timely, LeaseInv, [Next]_vars PROVE LeaseInv'
  OBVIOUS
<1>1. TypeOK'
  BY TypeStep DEF LeaseInv
<1> QED BY <1>1, ReadStep, CreateStep, TakeOverStep, RenewStep, ReleaseStep,
           QuietStep, Zenon DEF Next

(* LeaseInv holds in every behaviour in which no live process outstays the *)
(* lease it asked for.                                                     *)
THEOREM LeaseInvariant == ASSUME Timely PROVE Spec => []LeaseInv
<1>1. LeaseInv /\ [Next]_vars => LeaseInv'
  BY LeaseStep
<1> QED BY <1>1, LeaseInit, PTL DEF Spec

(* Two runs never work on one target at once, whatever crashes and store   *)
(* failures do: a working run holds the lock, and the lock names it.       *)
THEOREM Exclusion == ASSUME Timely PROVE Spec => []MutualExclusion
<1>1. LeaseInv => MutualExclusion
  BY Sole DEF MutualExclusion, Working
<1> QED BY <1>1, LeaseInvariant, PTL

(* At most one handle carries the ETag of the lock. *)
THEOREM SingleHandle == ASSUME Timely PROVE Spec => []OneCurrentHandle
<1>1. LeaseInv => OneCurrentHandle
  BY Sole DEF OneCurrentHandle
<1> QED BY <1>1, LeaseInvariant, PTL

(* A step that replaces the lock is a create, a takeover or a renewal, and *)
(* one that removes it is the Delete of a Release.                         *)
LEMMA WhoWrites ==
  ASSUME Next, obj' # obj
  PROVE  \E p \in Procs :
            \/ obj = NoLock /\ Write(p, owner[p].exp)
            \/ TakeOver(p) /\ Matches(etag[p]) /\ Write(p, owner[p].exp)
            \/ Renew(p) /\ Write(p, renewal[p])
            \/ ReleaseDelete(p) /\ obj' = NoLock
  BY ZenonT(40) DEF Next, Tick, Acquire, PutIfAbsent, ReadBack, ReadHead, ReadGet, TakeOver,
         ReRead, Beat, Renew, HeartbeatStop, CancelRun, Release, ReleaseHead,
         ReleaseDelete, Crash, NoWrite

(* A live lease does not change hands: a renewal finds its own lock, and a *)
(* takeover one that has expired.                                          *)
THEOREM LiveLeaseStays == ASSUME Timely PROVE Spec => NoSteal
<1>1. ASSUME LeaseInv, [Next]_vars, obj # NoLock, obj' # NoLock, obj'.by # obj.by
      PROVE  Expired(obj.exp, clock)
  <2>1. Next /\ obj' # obj
    BY <1>1 DEF vars
  <2>2. PICK p \in Procs :
            \/ TakeOver(p) /\ Matches(etag[p])
            \/ Renew(p) /\ Write(p, renewal[p])
    BY <1>1, <2>1, WhoWrites, Zenon
  <2>3. CASE TakeOver(p) /\ Matches(etag[p])
    <3>1. pc[p] = "takeover" /\ pc[p] # "idle"
      BY <2>3, Zenon DEF TakeOver
    <3>2. obj.exp <= owner[p].acq /\ owner[p].acq <= clock
      BY <1>1, <2>3, <3>1, Zenon DEF Matches, LeaseInv, LeaseInvOf
    <3>3. obj.exp \in Nat /\ owner[p].acq \in Nat /\ clock \in Nat
      BY <1>1, Zenon DEF LeaseInv, TypeOK
    <3> QED BY <3>2, <3>3, SMTT(30) DEF Expired
  <2>4. CASE Renew(p) /\ Write(p, renewal[p])
    BY <1>1, <2>4, Zenon DEF Renew, Write, LeaseInv, LeaseInvOf, TypeOK
  <2> QED BY <2>2, <2>3, <2>4, Zenon
<1> QED BY <1>1, LeaseInvariant, PTL DEF NoSteal, Spec

(* Release deletes the lock of the process that releases. *)
THEOREM OwnLockOnly == ASSUME Timely PROVE Spec => ReleaseOwnOnly
<1>1. ASSUME LeaseInv, [Next]_vars, obj # NoLock, obj' = NoLock
      PROVE  pc[obj.by] = "reldelete"
  <2>1. Next /\ obj' # obj
    BY <1>1 DEF vars
  <2>2. ASSUME NEW p \in Procs, NEW exp \in Nat, Write(p, exp) PROVE FALSE
    <3>1. obj' \in [by : Procs, exp : Nat, etag : Nat]
      BY <1>1, <2>2 DEF Write, LeaseInv, TypeOK
    <3> QED BY <1>1, <3>1, NoLockAssumption
  <2>3. \A p \in Procs : owner[p].exp \in Nat /\ renewal[p] \in Nat
    BY <1>1, Zenon DEF LeaseInv, TypeOK
  <2>4. PICK p \in Procs : ReleaseDelete(p)
    BY <2>1, <2>2, <2>3, WhoWrites, Zenon
  <2> QED BY <1>1, <2>4, Zenon DEF ReleaseDelete, LeaseInv, LeaseInvOf
<1> QED BY <1>1, LeaseInvariant, PTL DEF ReleaseOwnOnly, Spec

-----------------------------------------------------------------------------
(* The lock implements the abstract lease.                                 *)

(* A write changes the object: its ETag is new. *)
LEMMA WriteChanges ==
  ASSUME LeaseInv, NEW p \in Procs, NEW exp \in Nat, Write(p, exp)
  PROVE  /\ obj' # obj /\ obj' # NoLock
         /\ obj'.by = p
<1>1. obj' \in [by : Procs, exp : Nat, etag : Nat] /\ obj'.etag = writes + 1
  BY DEF Write, LeaseInv, TypeOK
<1>2. obj' # NoLock
  BY <1>1, NoLockAssumption
<1>3. obj # NoLock => obj.etag <= writes /\ obj.etag \in Nat /\ writes \in Nat
  BY Zenon DEF LeaseInv, TypeOK
<1> QED BY <1>1, <1>2, <1>3 DEF Write

(* A process starts to hold the lock only by writing it. *)
LEMMA HoldsByWriting ==
  ASSUME LeaseInv, Next, NEW p \in Procs, pc[p] \notin Holding, pc'[p] \in Holding
  PROVE  obj' # obj
<1>0. owner[p].exp \in Nat
  BY Zenon DEF LeaseInv, TypeOK
<1>3. ASSUME NEW q \in Procs, Leave(q) PROVE FALSE
  BY <1>3, Zenon DEF Leave, Goto, LeaseInv, TypeOK
<1>4. ASSUME NEW q \in Procs, Retry(q) PROVE FALSE
  BY <1>3, <1>4, Zenon DEF Retry, Attempt, Goto, LeaseInv, TypeOK
<1>5. ASSUME NEW q \in Procs, PutIfAbsent(q) PROVE obj' # obj
  <2>1. CASE Write(q, owner[q].exp)
    BY <2>1, WriteChanges, Zenon DEF LeaseInv, TypeOK
  <2>2. CASE Step(q, "head")
    BY <2>2, Zenon DEF Step, Goto, LeaseInv, TypeOK
  <2> QED BY <1>3, <1>5, <2>1, <2>2, Zenon DEF PutIfAbsent
<1>6. ASSUME NEW q \in Procs, TakeOver(q) PROVE obj' # obj
  <2>1. CASE Write(q, owner[q].exp)
    BY <2>1, WriteChanges DEF LeaseInv, TypeOK
  <2>2. CASE Step(q, "reread")
    BY <2>2, Zenon DEF Step, Goto, LeaseInv, TypeOK
  <2> QED BY <1>3, <1>6, <2>1, <2>2, Zenon DEF TakeOver
<1>7. ASSUME NEW q \in Procs,
             \/ ReadBack(q) \/ ReadHead(q) \/ ReadGet(q) \/ ReRead(q)
             \/ ReleaseHead(q) \/ ReleaseDelete(q) \/ Crash(q)
      PROVE  FALSE
  BY <1>3, <1>4, <1>7, Zenon
  DEF ReadBack, ReadHead, ReadGet, ReRead, ReleaseHead, ReleaseDelete, Crash,
      Hold, Step, Goto, LeaseInv, TypeOK
<1>8. ASSUME NEW q \in Procs,
             \/ Acquire(q) \/ Beat(q) \/ Renew(q) \/ HeartbeatStop(q)
             \/ CancelRun(q) \/ Release(q)
      PROVE  FALSE
  BY <1>8, Zenon
  DEF Acquire, Attempt, Beat, Renew, Lose, Renewed, HeartbeatStop, CancelRun,
      Release, Goto, LeaseInv, TypeOK
<1>9. CASE Tick
  BY <1>9, Zenon DEF Tick, proc
<1> QED BY <1>5, <1>6, <1>7, <1>8, <1>9, Zenon DEF Next

(* A step of the lock is a step of the abstract lease, or leaves it alone. *)
LEMMA LeaseSimulation ==
  ASSUME LeaseInv, LeaseInv', Next
  PROVE  Abstract!Next \/ UNCHANGED LeaseOf
<1> USE DEF Abstract!Next, Abstract!Grant, Abstract!GrantUnseen,
            Abstract!Abandon, Abstract!GiveUp, Abstract!Free
<1>0. /\ obj # NoLock => obj.by \in Procs
      /\ \A p \in Procs : owner[p].exp \in Nat /\ renewal[p] \in Nat
  BY Zenon DEF LeaseInv, TypeOK
<1>1. CASE obj' = obj
  <2>1. CASE obj = NoLock
    BY <1>1, <2>1, Zenon DEF LeaseOf
  <2>2. CASE obj # NoLock /\ pc[obj.by] \notin Holding
    <3>1. pc'[obj.by] \notin Holding
      BY <1>0, <1>1, <2>2, HoldsByWriting, Zenon
    <3>2. /\ (pc[obj.by] \in Holding) = FALSE
          /\ (pc'[obj.by] \in Holding) = FALSE
      BY <2>2, <3>1
    <3> QED BY <1>1, <2>2, <3>2, Zenon DEF LeaseOf
  <2>3. CASE obj # NoLock /\ pc[obj.by] \in Holding
    <3>1. LeaseOf = [by |-> obj.by, live |-> TRUE]
      BY <2>3, Zenon DEF LeaseOf
    <3>2. LeaseOf' = [by |-> obj.by, live |-> pc'[obj.by] \in Holding]
      BY <1>1, <2>3, Zenon DEF LeaseOf
    <3>3. CASE pc'[obj.by] \in Holding
      BY <3>1, <3>2, <3>3, Zenon
    <3>4. CASE pc'[obj.by] \notin Holding
      <4>0. (pc'[obj.by] \in Holding) = FALSE
        BY <3>4
      <4>1. LeaseOf' = [by |-> obj.by, live |-> FALSE]
        BY <3>2, <4>0, ZenonT(20)
      <4>2. Abstract!Abandon(obj.by)
        BY <3>1, <4>1
      <4> QED BY <1>0, <2>3, <4>2, Zenon
    <3> QED BY <3>3, <3>4, Zenon
  <2> QED BY <2>1, <2>2, <2>3, Zenon
<1>2. ASSUME NEW p \in Procs, Write(p, owner[p].exp), ~LeaseOf.live
      PROVE  Abstract!Next
  <2>1. LeaseOf' = [by |-> p, live |-> pc'[p] \in Holding]
    BY <1>0, <1>2, WriteChanges, Zenon DEF LeaseOf
  <2>2. CASE pc'[p] \in Holding
    <3>1. Abstract!Grant(p)
      BY <1>2, <2>1, <2>2, Zenon
    <3> QED BY <3>1, Zenon
  <2>3. CASE pc'[p] \notin Holding
    <3>1. (pc'[p] \in Holding) = FALSE
      BY <2>3
    <3>2. Abstract!GrantUnseen(p)
      BY <1>2, <2>1, <3>1, ZenonT(40)
    <3> QED BY <3>2, Zenon
  <2> QED BY <2>2, <2>3, Zenon
<1>3. ASSUME NEW p \in Procs, obj = NoLock, Write(p, owner[p].exp)
      PROVE  Abstract!Next
  BY <1>2, <1>3, Zenon DEF LeaseOf
<1>4. ASSUME NEW p \in Procs, TakeOver(p), Matches(etag[p]), Write(p, owner[p].exp)
      PROVE  Abstract!Next
  <2>1. pc[p] = "takeover" /\ pc[p] # "idle" /\ obj # NoLock
    BY <1>4, ZenonT(20) DEF TakeOver, Matches
  <2>2. obj.exp <= owner[p].acq /\ owner[p].acq <= clock
    BY <1>4, <2>1, Zenon DEF LeaseInv, LeaseInvOf
  <2>3. obj.exp <= clock
    BY <2>1, <2>2 DEF LeaseInv, TypeOK
  <2>4. pc[obj.by] \notin Holding
    BY <1>0, <2>1, <2>3, ExpiredIsFree, SMTT(30)
  <2> QED BY <1>2, <1>4, <2>1, <2>4, ZenonT(40) DEF LeaseOf
<1>5. ASSUME NEW p \in Procs, Renew(p), Write(p, renewal[p])
      PROVE  UNCHANGED LeaseOf
  <2>1. pc[p] \in Holding /\ pc' = pc
    BY <1>5, Zenon DEF Renew, Lose, Renewed, LeaseInv, LeaseInvOf, TypeOK
  <2>2. obj # NoLock /\ obj.by = p
    BY <2>1, Zenon DEF LeaseInv, LeaseInvOf
  <2> QED BY <1>0, <1>5, <2>1, <2>2, WriteChanges, Zenon DEF LeaseOf
<1>6. ASSUME NEW p \in Procs, ReleaseDelete(p), obj' = NoLock
      PROVE  Abstract!Next
  <2>1. obj # NoLock /\ obj.by = p /\ pc[p] \in Holding
    BY <1>6, Zenon DEF ReleaseDelete, LeaseInv, LeaseInvOf
  <2>2. Abstract!GiveUp(p)
    BY <1>6, <2>1, Zenon DEF LeaseOf
  <2> QED BY <2>2, Zenon
<1> QED BY <1>1, <1>3, <1>4, <1>5, <1>6, WhoWrites, Zenon

(* The lock implements the lease of module Lease when no live process      *)
(* outstays the lease it asked for.                                        *)
THEOREM Refinement == ASSUME Timely PROVE Spec => ImplementsLease
<1>1. Init => Abstract!Init
  BY Zenon DEF Init, Abstract!Init, Abstract!Free, LeaseOf
<1>2. LeaseInv /\ LeaseInv' /\ [Next]_vars => [Abstract!Next]_LeaseOf
  <2>1. CASE UNCHANGED vars
    BY <2>1, Zenon DEF vars, proc, LeaseOf
  <2> QED BY <2>1, LeaseSimulation
<1> QED BY <1>1, <1>2, LeaseInvariant, PTL DEF Spec, ImplementsLease, Abstract!Spec
=============================================================================
