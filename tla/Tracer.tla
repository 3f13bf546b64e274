------------------------------- MODULE Tracer -------------------------------
(***************************************************************************)
(* The traffic trace of a mapping: class Tracer of app/engine/bridge.py.   *)
(* The event loop only queues a chunk (write); a writer thread takes the   *)
(* queued chunks in batches, formats and appends them, and rotates the     *)
(* file when it has reached its size.  A chunk is its length.  A line is   *)
(* its serial number, and the rotated files are sequences of lines.        *)
(***************************************************************************)
EXTENDS Naturals, Sequences, SequencesExt, FiniteSetsExt

CONSTANTS
    Sizes,         \* lengths of the chunks a bridge hands over
    QueueMax,      \* QUEUE_MAX_BYTES
    Batch,         \* BATCH
    FileLines,     \* lines after which the file has reached trace_max_mb
    Keeps,         \* values of trace_keep
    MaxFed,        \* bound: bytes handed over
    MaxFaults      \* bound: rotations the disk refuses

VARIABLES
    trKeep,        \* trace_keep
    trQueue,       \* _q: chunks, 0 for the sentinel of aclose
    trQueued,      \* _queued
    trDropped,     \* _dropped
    trBatch,       \* the writer's batch, not yet formatted
    trOut,         \* formatted lines not yet appended: [data, missing]
    trStop,        \* the writer has met the sentinel
    trDone,        \* the writer has closed the file
    trFiles,       \* 0: the trace file, i: <file>.i, <<>> when there is none
    trNext,        \* number of the next line
    trFed,         \* bytes handed to write
    trTold,        \* bytes in the lines appended, traced or named as missing
    trClosed,      \* aclose was called
    trFaults

trVars == <<trKeep, trQueue, trQueued, trDropped, trBatch, trOut, trStop, trDone, trFiles,
            trNext, trFed, trTold, trClosed, trFaults>>

Bytes(q) == FoldSeq(LAMBDA a, b : a + b, 0, q)

TraceInit ==
    /\ trKeep = 0 /\ trQueue = <<>> /\ trQueued = 0 /\ trDropped = 0 /\ trBatch = <<>>
    /\ trOut = <<>> /\ trStop = FALSE /\ trDone = TRUE /\ trNext = 1
    /\ trFiles = [i \in 0 .. 0 |-> <<>>]
    /\ trFed = 0 /\ trTold = 0 /\ trClosed = TRUE /\ trFaults = 0

-----------------------------------------------------------------------------
(* open_tracer: a mapping with a trace file name starts.                   *)
TraceOpen(keep) ==
    /\ trDone /\ ~trStop
    /\ trKeep' = keep /\ trClosed' = FALSE /\ trDone' = FALSE
    /\ trFiles' = [i \in 0 .. keep |-> <<>>]
    /\ UNCHANGED <<trQueue, trQueued, trDropped, trBatch, trOut, trStop, trNext, trFed, trTold,
                   trFaults>>

Overfull(n) == trQueued + n > QueueMax

(* write: queue the chunk, or count it as dropped when too much waits.     *)
TraceWrite(n) ==
    /\ ~trClosed /\ trFed + n <= MaxFed
    /\ trFed' = trFed + n
    /\ IF Overfull(n)
         THEN /\ trDropped' = trDropped + n
              /\ UNCHANGED <<trQueue, trQueued>>
         ELSE /\ trQueued' = trQueued + n
              /\ trQueue' = Append(trQueue, n)
              /\ UNCHANGED trDropped
    /\ UNCHANGED <<trKeep, trBatch, trOut, trStop, trDone, trFiles, trNext, trTold, trClosed,
                   trFaults>>

(* _run: block for one item, then take what is there, at most BATCH.       *)
TraceTake ==
    LET k == Min({Batch, Len(trQueue)}) IN
    /\ ~trDone /\ ~trStop /\ trBatch = <<>> /\ trOut = <<>> /\ trQueue # <<>>
    /\ trBatch' = SubSeq(trQueue, 1, k)
    /\ trQueue' = SubSeq(trQueue, k + 1, Len(trQueue))
    /\ UNCHANGED <<trKeep, trQueued, trDropped, trOut, trStop, trDone, trFiles, trNext, trFed,
                   trTold, trClosed, trFaults>>

(* What was dropped since the last item, as a line of its own.             *)
Named(out) == IF trDropped > 0 THEN Append(out, trDropped) ELSE out

(* _run: one item of the batch, under the lock: it no longer waits, and    *)
(* what was dropped so far is named in a line before it.                   *)
TraceFormat ==
    LET n == Head(trBatch) IN
    /\ trBatch # <<>>
    /\ trBatch' = Tail(trBatch)
    /\ IF n = 0
         THEN trStop' = TRUE /\ UNCHANGED <<trQueued, trDropped, trOut>>
         ELSE /\ trQueued' = trQueued - n /\ trDropped' = 0
              /\ trOut' = Append(Named(trOut), n)
              /\ UNCHANGED trStop
    /\ UNCHANGED <<trKeep, trQueue, trDone, trFiles, trNext, trFed, trTold, trClosed, trFaults>>

Rotated(files, keep, j) ==
    IF keep = 0 THEN [files EXCEPT ![0] = <<>>]
    ELSE [i \in 0 .. keep |->
            IF i > keep - j THEN IF files[i - 1] # <<>> THEN files[i - 1] ELSE files[i]
            ELSE IF i = keep - j /\ j > 0 THEN <<>>
            ELSE files[i]]

(* _append, one line of the batch: write it, rotate when the file is full; *)
(* a move the system refuses leaves the writer in the same file.           *)
TraceAppend(j) ==
    LET grown == [trFiles EXCEPT ![0] = Append(@, trNext)]
        full  == Len(grown[0]) >= FileLines
    IN
    /\ trBatch = <<>> /\ trOut # <<>>
    /\ j = trKeep \/ (full /\ trFaults < MaxFaults)
    /\ trFiles' = IF full THEN Rotated(grown, trKeep, j) ELSE grown
    /\ trFaults' = IF j = trKeep THEN trFaults ELSE trFaults + 1
    /\ trNext' = trNext + 1 /\ trTold' = trTold + Head(trOut) /\ trOut' = Tail(trOut)
    /\ UNCHANGED <<trKeep, trQueue, trQueued, trDropped, trBatch, trStop, trDone, trFed, trClosed>>

(* aclose: the sentinel goes behind what is queued.                        *)
TraceClose ==
    /\ ~trClosed
    /\ trClosed' = TRUE /\ trQueue' = Append(trQueue, 0)
    /\ UNCHANGED <<trKeep, trQueued, trDropped, trBatch, trOut, trStop, trDone, trFiles, trNext,
                   trFed, trTold, trFaults>>

(* _run: the end of the loop closes the file.                              *)
TraceEnd ==
    /\ trStop /\ trBatch = <<>> /\ trOut = <<>> /\ ~trDone
    /\ trDone' = TRUE
    /\ UNCHANGED <<trKeep, trQueue, trQueued, trDropped, trBatch, trOut, trStop, trFiles, trNext,
                   trFed, trTold, trClosed, trFaults>>

TraceThread == TraceTake \/ TraceFormat \/ (\E j \in 0 .. trKeep : TraceAppend(j)) \/ TraceEnd

TraceNext ==
    \/ \E keep \in Keeps : TraceOpen(keep)
    \/ \E n \in Sizes : TraceWrite(n)
    \/ TraceClose
    \/ TraceThread

-----------------------------------------------------------------------------
(* "The trace says how many bytes are missing": once aclose has returned,  *)
(* every byte handed to write is in the trace or named there as missing.   *)
(* A drop at the very end is named too, because a chunk is only dropped    *)
(* while another one waits, and that one's line comes after the drop.      *)
TraceAccounted == trDone => trFed = trTold

(* At most QUEUE_MAX_BYTES wait for the disk, the writer's batch included. *)
TraceBounded == Bytes(trQueue) + Bytes(trBatch) <= QueueMax

(* Rotation loses only the oldest lines and keeps their order, whichever   *)
(* of the moves the system refuses: the files, oldest first, hold one      *)
(* unbroken run of lines that ends with the last line written; with every  *)
(* move made, that is trace_keep full files at least.                      *)
TraceKept ==
    LET all == FlattenSeq([k \in 1 .. trKeep + 1 |-> trFiles[trKeep + 1 - k]]) IN
    /\ trFaults = 0 => Len(all) >= Min({trNext - 1, trKeep * FileLines})
    /\ \A k \in 1 .. Len(all) : all[k] = trNext - 1 - Len(all) + k


=============================================================================
