------------------------------- MODULE Upload -------------------------------
(***************************************************************************)
(* One backup stream, from the dump to the bucket: the producer of         *)
(* internal/pipeline writes into an io.Pipe, the consumer (s3/uploader.go) *)
(* cuts what it reads into parts and hands them to a bounded group of      *)
(* goroutines, and internal/backup looks at what came of both.             *)
(*                                                                         *)
(* The stream is counted in chunks.  A dump of d chunks becomes d + 1      *)
(* chunks of object: closing the compressor and the encryptor writes the   *)
(* last one.  Chunk i is the number i.                                     *)
(***************************************************************************)
EXTENDS Naturals, Sequences, FiniteSets, SequencesExt, Optional

CONSTANTS
    Sizes,           \* the dumps to consider, in chunks
    initialPartSize, \* chunks of the first part
    maxPartSize,     \* chunks of the largest part
    partsPerGrowth,  \* the part size doubles after this many parts
    maxParts,        \* most parts of a multipart upload
    concurrency,     \* most parts in flight
    MaxFaults        \* bound on failures of the dump, the store and the context

ASSUME UploadAssumption ==
    /\ Sizes \subseteq Nat
    /\ {initialPartSize, maxPartSize, partsPerGrowth, maxParts, concurrency} \subseteq Nat \ {0}
    /\ initialPartSize <= maxPartSize /\ MaxFaults \in Nat

VARIABLES
    size,    \* chunks the dump will write
    dump,    \* the producer: where it is, what it wrote, how it ended
    pipe,    \* the chunk between the two, and how either end was closed
    put,     \* the consumer: where it is, the part in hand, how it ended
    flight,  \* the parts being uploaded: number -> chunks
    parts,   \* the completed parts, in the order they completed
    first,   \* the first error of the part group, of the pipeline
    bucket,  \* the multipart upload in progress, and the object
    faults,  \* failures so far
    outcome  \* what Run makes of it

vars == <<size, dump, pipe, put, flight, parts, first, bucket, faults, outcome>>

Whole == [i \in 1..(size + 1) |-> i]

\* The part size is doubled every partsPerGrowth parts, up to the maximum.
PartSize[n \in 1..maxParts] ==
    IF n = 1 THEN initialPartSize
    ELSE IF (n - 1) % partsPerGrowth = 0 /\ PartSize[n - 1] * 2 <= maxPartSize
         THEN PartSize[n - 1] * 2
         ELSE IF (n - 1) % partsPerGrowth = 0 THEN maxPartSize ELSE PartSize[n - 1]

Init ==
    /\ size \in Sizes
    /\ dump = [pc |-> "write", sent |-> 0, err |-> None]
    /\ pipe = [chunk |-> <<>>, writer |-> "open", reader |-> "open"]
    /\ put = [pc |-> "read", number |-> 1, data |-> <<>>, last |-> FALSE, read |-> 0, err |-> None]
    /\ flight = <<>> /\ parts = <<>>
    /\ first = [part |-> None, half |-> None, ctx |-> FALSE]
    /\ bucket = [upload |-> "none", object |-> None]
    /\ faults = 0 /\ outcome = None

Fault == faults < MaxFaults /\ faults' = faults + 1

-----------------------------------------------------------------------------
(* Contexts.  The two halves share one, which ends when either fails or    *)
(* the run is cancelled or times out; the parts share one below it.        *)

Cancelled == first.ctx \/ first.half # None
PartsCancelled == Cancelled \/ first.part # None

Cancel ==
    /\ ~first.ctx /\ outcome = None /\ Fault
    /\ first' = [first EXCEPT !.ctx = TRUE]
    /\ UNCHANGED <<size, dump, pipe, put, flight, parts, bucket, outcome>>

\* errgroup keeps the first error of its two halves.
HalfFails(err) == first' = [first EXCEPT !.half = IF @ = None THEN err ELSE @]

-----------------------------------------------------------------------------
(* The producer (pipeline.go, the dump it runs, and the stages).           *)

\* A write blocks until the reader took the chunk before it.
WriteChunk ==
    /\ dump.pc = "write" /\ dump.sent < size
    /\ pipe.chunk = <<>> /\ pipe.reader = "open"
    /\ dump' = [dump EXCEPT !.sent = @ + 1]
    /\ pipe' = [pipe EXCEPT !.chunk = <<dump.sent + 1>>]
    /\ UNCHANGED <<size, put, flight, parts, first, bucket, faults, outcome>>

\* closeStages writes what the compressor and the encryptor held back.
CloseStages ==
    /\ dump.pc = "write" /\ dump.sent = size
    /\ pipe.chunk = <<>> /\ pipe.reader = "open"
    /\ dump' = [dump EXCEPT !.pc = "close"]
    /\ pipe' = [pipe EXCEPT !.chunk = <<size + 1>>]
    /\ UNCHANGED <<size, put, flight, parts, first, bucket, faults, outcome>>

ClosePipe ==
    /\ dump.pc = "close" /\ pipe.chunk = <<>>
    /\ dump' = [dump EXCEPT !.pc = "done"]
    /\ pipe' = [pipe EXCEPT !.writer = "eof"]
    /\ UNCHANGED <<size, put, flight, parts, first, bucket, faults, outcome>>

\* The client died, was killed with the context, or could not write.
DumpEnds(writer) ==
    /\ dump.pc = "write"
    /\ \/ Fault
       \/ (Cancelled \/ pipe.reader # "open") /\ UNCHANGED faults
    /\ dump' = [dump EXCEPT !.pc = "return", !.err = "dump"]
    /\ pipe' = [pipe EXCEPT !.writer = writer, !.chunk = <<>>]
    /\ UNCHANGED <<size, put, flight, parts, first, bucket, outcome>>

\* Mutants: the pipe is closed as if all had been written, or not at all.
DumpFailsQuietly == DumpEnds("eof")
DumpFailsOpen == DumpEnds("open")

\* The pipe is closed with the error.
DumpFails == DumpEnds("error")

\* closeStages could not write; the dump itself succeeded.
StagesFail ==
    /\ dump.pc = "close" /\ pipe.chunk # <<>> /\ pipe.reader # "open"
    /\ dump' = [dump EXCEPT !.pc = "return"]
    /\ pipe' = [pipe EXCEPT !.writer = "error", !.chunk = <<>>]
    /\ UNCHANGED <<size, put, flight, parts, first, bucket, faults, outcome>>

\* The producer's half returns its error, and only then the context ends.
ProducerReturns ==
    /\ dump.pc = "return" /\ dump' = [dump EXCEPT !.pc = "done"]
    /\ HalfFails("dump")
    /\ UNCHANGED <<size, pipe, put, flight, parts, bucket, faults, outcome>>

-----------------------------------------------------------------------------
(* The consumer (uploader.go).                                             *)

\* readPart takes a chunk.
ReadChunk ==
    /\ put.pc = "read" /\ Len(put.data) < PartSize[put.number] /\ pipe.chunk # <<>>
    /\ put' = [put EXCEPT !.data = @ \o pipe.chunk, !.read = @ + 1]
    /\ pipe' = [pipe EXCEPT !.chunk = <<>>]
    /\ UNCHANGED <<size, dump, flight, parts, first, bucket, faults, outcome>>

AfterRead(last) ==
    IF put.number > 1 THEN "dispatch" ELSE IF last THEN "single" ELSE "create"

\* The part is full, or the stream ended in it, or right before it.
ReadPart ==
    /\ put.pc = "read"
    /\ \/ /\ Len(put.data) = PartSize[put.number]
          /\ put' = [put EXCEPT !.pc = AfterRead(FALSE)]
       \/ /\ Len(put.data) < PartSize[put.number] /\ pipe.chunk = <<>> /\ pipe.writer = "eof"
          /\ put' = IF put.data = <<>> /\ put.number > 1
                    THEN [put EXCEPT !.pc = "wait"]
                    ELSE [put EXCEPT !.pc = AfterRead(TRUE), !.last = TRUE]
       \/ /\ Len(put.data) < PartSize[put.number] /\ pipe.chunk = <<>> /\ pipe.writer = "error"
          /\ put' = [put EXCEPT !.err = "read", !.data = <<>>,
                                !.pc = IF put.number > 1 THEN "wait" ELSE "failed"]
    /\ UNCHANGED <<size, dump, pipe, flight, parts, first, bucket, faults, outcome>>

\* A call to the store.  It is not made once its context has ended; when it
\* fails it may have been carried out all the same.
Answered(done) == ~Cancelled /\ UNCHANGED faults /\ bucket' = done
Failed(done) ==
    \/ ~Cancelled /\ Fault /\ bucket' \in {bucket, done}
    \/ Cancelled /\ UNCHANGED <<faults, bucket>>

PutSingle ==
    /\ put.pc = "single"
    /\ LET stored == [bucket EXCEPT !.object = put.data] IN
        \/ Answered(stored) /\ put' = [put EXCEPT !.pc = "drain", !.data = <<>>]
        \/ Failed(stored) /\ put' = [put EXCEPT !.pc = "failed", !.err = "put", !.data = <<>>]
    /\ UNCHANGED <<size, dump, pipe, flight, parts, first, outcome>>

\* An upload whose identifier never arrived is nobody's.
CreateMultipart ==
    /\ put.pc = "create"
    /\ \/ Answered([bucket EXCEPT !.upload = "open"]) /\ put' = [put EXCEPT !.pc = "dispatch"]
       \/ /\ Failed([bucket EXCEPT !.upload = "orphan"])
          /\ put' = [put EXCEPT !.pc = "failed", !.err = "put", !.data = <<>>]
    /\ UNCHANGED <<size, dump, pipe, flight, parts, first, outcome>>

\* dispatch blocks until one of the group is free.  Then the loop ends if a
\* part failed, if this was the last one, or if there may be no more.
Dispatch ==
    /\ put.pc = "dispatch" /\ Cardinality(DOMAIN flight) < concurrency
    /\ flight' = [n \in DOMAIN flight \cup {put.number} |->
                    IF n = put.number THEN put.data ELSE flight[n]]
    /\ put' = IF put.last \/ PartsCancelled THEN [put EXCEPT !.pc = "wait", !.data = <<>>]
              ELSE IF put.number = maxParts
              THEN [put EXCEPT !.pc = "wait", !.data = <<>>, !.err = "limit"]
              ELSE [put EXCEPT !.pc = "read", !.data = <<>>, !.number = @ + 1]
    /\ UNCHANGED <<size, dump, pipe, parts, first, bucket, faults, outcome>>

\* A part arrives, or fails and with it the group.
UploadPart(n) ==
    /\ n \in DOMAIN flight
    /\ flight' = [m \in DOMAIN flight \ {n} |-> flight[m]]
    /\ \/ /\ ~PartsCancelled /\ UNCHANGED <<first, faults>>
          /\ parts' = Append(parts, [number |-> n, data |-> flight[n]])
       \/ /\ IF PartsCancelled THEN UNCHANGED faults ELSE Fault
          /\ first' = [first EXCEPT !.part = IF @ = None THEN "put" ELSE @]
          /\ UNCHANGED parts
    /\ UNCHANGED <<size, dump, pipe, put, bucket, outcome>>

\* Wait: the error of a part goes before the error of the stream.
Wait ==
    /\ put.pc = "wait" /\ flight = <<>>
    /\ put' = [put EXCEPT !.pc = IF first.part # None \/ put.err # None THEN "abort" ELSE "complete",
                          !.err = IF first.part # None THEN first.part ELSE @]
    /\ UNCHANGED <<size, dump, pipe, flight, parts, first, bucket, faults, outcome>>

Data(ps) == FlattenSeq([i \in 1..Len(ps) |-> ps[i].data])

\* What Complete makes of the parts it is given.
Assembled(listed) == [upload |-> "none", object |-> Data(listed)]
Sorted == SortSeq(parts, LAMBDA p, q : p.number < q.number)

CompleteWith(listed) ==
    /\ put.pc = "complete"
    /\ \/ Answered(Assembled(listed)) /\ put' = [put EXCEPT !.pc = "drain"]
       \/ Failed(Assembled(listed)) /\ put' = [put EXCEPT !.pc = "abort", !.err = "put"]
    /\ UNCHANGED <<size, dump, pipe, flight, parts, first, outcome>>

\* Mutant: the parts are listed as they arrived.
CompleteUnsorted == CompleteWith(parts)

\* A loop that ended early, because the context did, gets here with a part of
\* the stream.
Complete == CompleteWith(Sorted)

\* Mutant: the abort uses the context that has just ended.
AbortIfRunning ==
    /\ put.pc = "abort" /\ put' = [put EXCEPT !.pc = "failed"]
    /\ bucket' = IF Cancelled THEN bucket ELSE [bucket EXCEPT !.upload = "none"]
    /\ UNCHANGED <<size, dump, pipe, flight, parts, first, faults, outcome>>

\* The deferred abort runs whatever the context; its own error is ignored.
Abort ==
    /\ put.pc = "abort" /\ put' = [put EXCEPT !.pc = "failed"]
    /\ \/ bucket' = [bucket EXCEPT !.upload = "none"] /\ UNCHANGED faults
       \/ Fault /\ bucket' = [bucket EXCEPT !.upload = IF @ = "open" THEN "orphan" ELSE @]
    /\ UNCHANGED <<size, dump, pipe, flight, parts, first, outcome>>

\* The consumer's half fails: it closes the reading end with its error.
PutFails ==
    /\ put.pc = "failed" /\ put' = [put EXCEPT !.pc = "return"]
    /\ pipe' = [pipe EXCEPT !.reader = "error"]
    /\ UNCHANGED <<size, dump, flight, parts, first, bucket, faults, outcome>>

\* And returns it.
ConsumerReturns ==
    /\ put.pc = "return" /\ put' = [put EXCEPT !.pc = "done"]
    /\ HalfFails(put.err)
    /\ UNCHANGED <<size, dump, pipe, flight, parts, bucket, faults, outcome>>

\* The consumer's half is done.  It read the end of the stream to get here,
\* so the drain finds nothing.
Drain ==
    /\ put.pc = "drain" /\ put' = [put EXCEPT !.pc = "done"]
    /\ pipe' = [pipe EXCEPT !.reader = "closed"]
    /\ UNCHANGED <<size, dump, flight, parts, first, bucket, faults, outcome>>

-----------------------------------------------------------------------------
(* The run (backup.go).                                                    *)

\* stream returns, and classify names the side to blame.
Phase == IF dump.err = None /\ put.err # None THEN "upload" ELSE "dump"

Returned == dump.pc = "done" /\ put.pc = "done"

\* A dump of no bytes is not a backup: its object is deleted.
Judge ==
    /\ Returned /\ outcome = None
    /\ IF first.half # None
       THEN outcome' = Phase /\ UNCHANGED <<bucket, faults>>
       ELSE IF size = 0
       THEN /\ outcome' = "empty"
            /\ \/ bucket' = [bucket EXCEPT !.object = None] /\ UNCHANGED faults
               \/ Fault /\ UNCHANGED bucket
       ELSE outcome' = "stored" /\ UNCHANGED <<bucket, faults>>
    /\ UNCHANGED <<size, dump, pipe, put, flight, parts, first>>

Next ==
    \/ Cancel
    \/ WriteChunk \/ CloseStages \/ ClosePipe \/ DumpFails \/ StagesFail \/ ProducerReturns
    \/ ReadChunk \/ ReadPart \/ PutSingle \/ CreateMultipart \/ Dispatch
    \/ \E n \in DOMAIN flight : UploadPart(n)
    \/ Wait \/ Complete \/ Abort \/ PutFails \/ ConsumerReturns \/ Drain \/ Judge

Spec == Init /\ [][Next]_vars

-----------------------------------------------------------------------------
(* Properties.                                                             *)

TypeOK ==
    /\ size \in Sizes /\ faults \in 0..MaxFaults
    /\ dump.pc \in {"write", "close", "return", "done"} /\ dump.sent \in 0..size
    /\ pipe.writer \in {"open", "eof", "error"} /\ pipe.reader \in {"open", "error", "closed"}
    /\ Len(pipe.chunk) <= 1
    /\ put.number \in 1..maxParts /\ Len(put.data) <= PartSize[put.number]
    /\ DOMAIN flight \subseteq 1..put.number
    /\ bucket.upload \in {"none", "open", "orphan"}
    /\ outcome \in {None, "dump", "upload", "empty", "stored"}

\* Whole or nothing.  An object that can be seen in the bucket is the whole
\* stream of a dump that succeeded, in its order, whatever order its parts
\* arrived in and also when the run failed or was cancelled; a run that reports
\* success stored one and hashed all of it; and an upload that did not complete
\* was aborted, also when what ended it is the context, so that parts stay
\* behind only where the abort itself failed (pipeline.go, Run; uploader.go,
\* putMultipart and its deferred abort).
WholeOrNothing ==
    /\ bucket.object # None => dump.err = None /\ bucket.object = Whole
    /\ outcome = "stored" => bucket.object # None /\ put.read = Len(Whole)
    /\ put.pc = "done" => bucket.upload # "open"
=============================================================================
