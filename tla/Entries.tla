------------------------------ MODULE Entries ------------------------------
(***************************************************************************)
(* The entries of a target's index (internal/manifest/index.go) and what   *)
(* the operations of internal/index make of them, as pure operators.       *)
(***************************************************************************)
EXTENDS Integers, Sequences

(* Entries.  FinishedAt is a number that grows with every run.  ver is 0   *)
(* for a backup nobody verified, else the time of its last verification,   *)
(* negative when that one failed.                                          *)

NewEntry(id, ver) == [id |-> id, at |-> id, ok |-> TRUE, ver |-> ver]

NewFailureEntry(at) == [id |-> 0, at |-> at, ok |-> FALSE, ver |-> 0]

Verified(e) == e.ok /\ e.ver > 0

\* The calls a writer can make.
AppendOp(e) == [kind |-> "append", entry |-> e]
RemoveOp(ids, oldest) == [kind |-> "remove", gone |-> ids, oldestKept |-> oldest]
VerifyOp(id, v) == [kind |-> "verify", id |-> id, ver |-> v]
ReplaceOp(es) == [kind |-> "replace", entries |-> es]
NoOp == [kind |-> "none"]

\* The entries at these places, in their order.
Kept(es, places) ==
    LET upTo[n \in 0..Len(es)] ==
            IF n = 0 THEN <<>>
            ELSE IF n \in places THEN Append(upTo[n - 1], es[n]) ELSE upTo[n - 1]
    IN  upTo[Len(es)]

\* Mutant: only failure records are dropped.
pruneFailures(es, gone, oldestKept) ==
    Kept(es, {i \in DOMAIN es : es[i].ok \/ oldestKept = 0 \/ es[i].at >= oldestKept})

\* What survives a retention pass.  oldestKept = 0 is the zero time.
prune(es, gone, oldestKept) ==
    Kept(es, {i \in DOMAIN es :
                IF es[i].ok THEN es[i].id \notin gone
                            ELSE oldestKept = 0 \/ es[i].at >= oldestKept})

Listed(es, id) == \E i \in DOMAIN es : es[i].id = id

\* The contents an operation makes of the contents it read.
Updated(op, es) ==
    CASE op.kind = "append" -> Append(es, op.entry)
      [] op.kind = "remove" -> prune(es, op.gone, op.oldestKept)
      [] op.kind = "verify" ->
            [i \in DOMAIN es |->
                IF es[i].id = op.id THEN [es[i] EXCEPT !.ver = op.ver] ELSE es[i]]
      [] op.kind = "replace" -> op.entries
=============================================================================
