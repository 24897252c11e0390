------------------------------- MODULE Index -------------------------------
(***************************************************************************)
(* The listing cache of internal/index: one object per target that holds   *)
(* an entry per run.  Append, Remove and SetVerification are conditional   *)
(* read-modify-writes (Head, Get, PutIfMatch) that start over when another *)
(* writer got in between; Replace writes the object without a condition.   *)
(*                                                                         *)
(* A writer is one process that is inside one of these calls.  The ETag of *)
(* an object is a hash of its contents (storage/memory computes it, S3     *)
(* does for objects of one part), so here it is the contents.              *)
(***************************************************************************)
EXTENDS Entries

CONSTANTS
    Writers,         \* the processes that use the index
    NoIndex,         \* the index object does not exist; the ETag ""
    appendAttempts   \* rounds of one read-modify-write

VARIABLES
    idx,     \* the index object: a sequence of entries, or NoIndex
    io,      \* for each writer, the call it is in
    faults   \* the store requests that may still fail, or be sent twice

indexVars == <<idx, io, faults>>

-----------------------------------------------------------------------------
(* The calls, one store request at a time.                                 *)

Idle == [pc |-> "idle", op |-> NoOp, tag |-> NoIndex, body |-> <<>>, tries |-> 0]

Returned == {"ok", "failed"}

IndexInit == io = [w \in Writers |-> Idle]

Fault == faults.failed > 0 /\ faults' = [faults EXCEPT !.failed = @ - 1]
Resend == faults.resent > 0 /\ faults' = [faults EXCEPT !.resent = @ - 1]
NoFault == UNCHANGED faults

Call(w, op) ==
    io' = [io EXCEPT ![w] =
        [Idle EXCEPT !.op = op, !.pc = IF op.kind = "replace" THEN "replace" ELSE "head"]]

Return(w, result) == io' = [io EXCEPT ![w] = [@ EXCEPT !.pc = result]]

\* The writer is done with the call, or died inside it.
Hangup(w) == io' = [io EXCEPT ![w] = Idle]

\* Load: the ETag first.  No object means an empty index with no ETag.
LoadHead(w) ==
    /\ io[w].pc = "head"
    /\ \/ /\ NoFault
          /\ io' = [io EXCEPT ![w] =
                [@ EXCEPT !.pc = IF idx = NoIndex THEN "put" ELSE "get",
                          !.tag = idx, !.body = <<>>]]
       \/ Fault /\ Return(w, "failed")
    /\ UNCHANGED idx

\* Load: the contents, which may be newer than the ETag.
LoadGet(w) ==
    /\ io[w].pc = "get"
    /\ \/ /\ NoFault
          /\ io' = [io EXCEPT ![w] =
                IF idx = NoIndex
                THEN [@ EXCEPT !.pc = "put", !.tag = NoIndex, !.body = <<>>]
                ELSE [@ EXCEPT !.pc = "put", !.body = idx]]
       \/ Fault /\ Return(w, "failed")
    /\ UNCHANGED idx

\* Another writer won: load again, up to the limit.
Again(w) ==
    io' = [io EXCEPT ![w] =
        IF @.tries + 1 < appendAttempts
        THEN [@ EXCEPT !.pc = "head", !.tries = io[w].tries + 1]
        ELSE [@ EXCEPT !.pc = "failed"]]

\* Mutant: the write carries no condition.
PutBlindly(w) ==
    /\ io[w].pc = "put"
    /\ idx' = Updated(io[w].op, io[w].body) /\ NoFault /\ Return(w, "ok")

\* PutIfMatch.  When its response is lost the client may send it again, and
\* the second try is refused by what the first one wrote.
PutIfMatch(w) ==
    /\ io[w].pc = "put"
    /\ LET op == io[w].op
           Written == idx = io[w].tag /\ idx' = Updated(op, io[w].body)
       IN IF op.kind = "verify" /\ ~Listed(io[w].body, op.id)
          THEN NoFault /\ Return(w, "failed") /\ UNCHANGED idx
          ELSE \/ Written /\ NoFault /\ Return(w, "ok")
               \/ idx # io[w].tag /\ UNCHANGED idx /\ NoFault /\ Again(w)
               \/ UNCHANGED idx /\ Fault /\ Return(w, "failed")
               \/ Written /\ Fault /\ Return(w, "failed")
               \/ Written /\ Resend /\ Again(w)

\* Replace puts the whole object, whatever it holds now.
Replace(w) ==
    /\ io[w].pc = "replace"
    /\ \/ idx' = io[w].op.entries /\ NoFault /\ Return(w, "ok")
       \/ UNCHANGED idx /\ Fault /\ Return(w, "failed")
       \/ idx' = io[w].op.entries /\ Fault /\ Return(w, "failed")

Access(w) == LoadHead(w) \/ LoadGet(w) \/ PutIfMatch(w) \/ Replace(w)

IndexTypeOK(Entries) ==
    /\ idx = NoIndex \/ \A i \in DOMAIN idx : idx[i] \in Entries
    /\ \A w \in Writers :
        /\ io[w].pc \in {"idle", "head", "get", "put", "replace"} \cup Returned
        /\ io[w].tries \in 0..(appendAttempts - 1)
        /\ \A i \in DOMAIN io[w].body : io[w].body[i] \in Entries
    /\ faults \in [failed : Nat, resent : Nat]
=============================================================================
