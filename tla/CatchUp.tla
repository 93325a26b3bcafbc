------------------------------- MODULE CatchUp -------------------------------
(***************************************************************************)
(* Parallel catch-up of one partition (catchUpPartitionPipelined,          *)
(* fetchWorker and drainPartition of internal/mirror/parallel_source.go):  *)
(* fetchers read disjoint segments of the source log and Put the records   *)
(* into the ring buffer, the drainer takes batches out of it and hands     *)
(* them to the producer, and the calling goroutine closes the buffer when  *)
(* the fetchers have ended.                                                *)
(*                                                                         *)
(* Fetchers are numbered from 0, as in the code.  What becomes of a record *)
(* in the producer is abstracted to the moment its callback ends: with     *)
(* serial promises a failed produce blocks the callbacks for good (Retry   *)
(* waits for a promise of the same client) unless the context is already   *)
(* cancelled.                                                              *)
(***************************************************************************)
EXTENDS Integers, Sequences, FiniteSets

CONSTANTS
    StartOffset, EndOffset,  \* the range to catch up
    Log,             \* source offsets that hold a record (the rest are gaps)
    Workers,         \* ps.workers
    MinSegment,      \* ranges smaller than this per worker get one worker (1000)
    RingCapacity,    \* ps.ringBufferCapacity
    MaxBatch,        \* records of a DrainBatch (512)
    MetricLabels,    \* labels gomm2_records_replicated_total is declared with
    SerialPromises,  \* promises of a client run one at a time
    MayFail,         \* a fetcher may fail for good
    MayCancel        \* the context may be cancelled

ASSUME CatchUpAssumption ==
    /\ StartOffset \in Nat /\ EndOffset \in Nat
    /\ StartOffset < EndOffset
    /\ Log \subseteq Nat
    /\ Workers \in Nat \ {0}
    /\ MinSegment \in Nat
    /\ RingCapacity \in Nat \ {0}
    /\ MaxBatch \in Nat \ {0}
    /\ MetricLabels \in Nat
    /\ SerialPromises \in BOOLEAN /\ MayFail \in BOOLEAN /\ MayCancel \in BOOLEAN

LabelsPassed == 4

TotalRange == EndOffset - StartOffset

EffectiveWorkers == IF TotalRange \div Workers < MinSegment THEN 1 ELSE Workers
SegmentSize == TotalRange \div EffectiveWorkers

\* One slot more than the range when the whole range fits.
RingCap == IF TotalRange < RingCapacity THEN TotalRange + 1 ELSE RingCapacity

\* Worker i reads [SegStart(i), SegEnd(i)); the last takes the remainder.
Fetchers == {i \in 0 .. EffectiveWorkers - 1 : StartOffset + i * SegmentSize < EndOffset}
SegStart(i) == StartOffset + i * SegmentSize
SegEnd(i) == IF i = EffectiveWorkers - 1 THEN EndOffset ELSE SegStart(i) + SegmentSize

VARIABLES filled, record, drainOffset, closed, holder, tickets, cancelled,
          putPc, putOffset, drainPc, rec, batch

ringVars == <<filled, record, drainOffset, closed, holder, tickets, cancelled,
              putPc, putOffset, drainPc, rec, batch>>

Ring == INSTANCE RingBuffer WITH Capacity <- RingCap

VARIABLES
    fetchPc,    \* fetchPc[f]: "poll", "put", "fail", "broadcast" or "done"
    fetchPos,   \* fetchPos[f]: the next offset f's consumer looks for
    drainer,    \* "top", "drain", "produce", "wait" or "done"
    handed,     \* records given to Produce, in order
    pending,    \* drainPartition's inflight WaitGroup
    stuck,      \* a callback waits in Retry for a promise queued behind it
    counted,    \* periodRecs > 0
    main,       \* "fetchers", "close", "drainer" or "done"
    failed,     \* fetcherFailed
    panicked,   \* the process is dead
    clobbered   \* history: offsets whose slot was written for another record

ownVars == <<fetchPc, fetchPos, drainer, handed, pending, stuck, counted,
             main, failed, panicked, clobbered>>
vars == <<ringVars, ownVars>>

\* Type invariant: every counter, program counter and slot stays in its range,
\* the in-flight count of the drainer included.
TypeOK ==
    /\ Ring!RingTypeOK
    /\ fetchPc \in [Fetchers -> {"poll", "put", "fail", "broadcast", "done"}]
    /\ fetchPos \in [Fetchers -> Nat]
    /\ drainer \in {"top", "drain", "produce", "wait", "done"}
    /\ handed \in Seq(Nat \cup {Ring!Nil})
    /\ pending \in 0 .. Len(handed)
    /\ stuck \in BOOLEAN /\ counted \in BOOLEAN
    /\ main \in {"fetchers", "close", "drainer", "done"}
    /\ failed \in BOOLEAN /\ panicked \in BOOLEAN
    /\ clobbered \subseteq Nat

Init ==
    /\ Ring!RingInit
    /\ fetchPc = [f \in Fetchers |-> "poll"]
    /\ fetchPos = [f \in Fetchers |-> SegStart(f)]
    /\ drainer = "top"
    /\ handed = <<>>
    /\ pending = 0
    /\ stuck = FALSE
    /\ counted = FALSE
    /\ main = "fetchers"
    /\ failed = FALSE
    /\ panicked = FALSE
    /\ clobbered = {}

FetchGoto(f, pc) == fetchPc' = [fetchPc EXCEPT ![f] = pc]

\* The context given to the catch-up is cancelled.
Cancel ==
    /\ MayCancel
    /\ ~cancelled
    /\ cancelled' = TRUE
    /\ UNCHANGED <<filled, record, drainOffset, closed, holder, tickets,
                   putPc, putOffset, drainPc, rec, batch, ownVars>>

(***************************************************************************)
(* fetchWorker.                                                            *)
(***************************************************************************)

\* A poll returns the next record: one past the segment ends the fetcher, any
\* other is Put.  Where the log ends no record ever comes.
FetchRecord(f) ==
    /\ fetchPc[f] = "poll"
    /\ \E o \in Log :
         /\ o >= fetchPos[f]
         /\ \A q \in Log : q >= fetchPos[f] => o <= q
         /\ IF o >= SegEnd(f)
            THEN /\ FetchGoto(f, "done")
                 /\ UNCHANGED ringVars
            ELSE /\ FetchGoto(f, "put")
                 /\ Ring!PutCall(f, o)
    /\ UNCHANGED <<fetchPos, drainer, handed, pending, stuck, counted, main,
                   failed, panicked, clobbered>>

\* Put has returned: the next record, or the end of the segment or the buffer.
FetchNext(f) ==
    /\ fetchPc[f] = "put"
    /\ Ring!PutReturn(f)
    /\ fetchPos' = [fetchPos EXCEPT ![f] = putOffset[f] + 1]
    /\ FetchGoto(f, IF putPc[f] = "true" /\ putOffset[f] < SegEnd(f) - 1
                    THEN "poll" ELSE "done")
    /\ UNCHANGED <<drainer, handed, pending, stuck, counted, main, failed, panicked, clobbered>>

\* The context is cancelled: the poll comes back empty and the worker returns nil.
FetchCancelled(f) ==
    /\ fetchPc[f] = "poll"
    /\ cancelled
    /\ FetchGoto(f, "done")
    /\ UNCHANGED <<ringVars, fetchPos, drainer, handed, pending, stuck, counted,
                   main, failed, panicked, clobbered>>

\* Ten fetch errors in a row, or no client: the worker returns an error and its
\* goroutine marks the failure and closes the buffer.
FetchFails(f) ==
    /\ MayFail
    /\ fetchPc[f] = "poll"
    /\ FetchGoto(f, "fail")
    /\ failed' = TRUE
    /\ UNCHANGED <<ringVars, fetchPos, drainer, handed, pending, stuck, counted,
                   main, panicked, clobbered>>

FetchCloses(f) ==
    /\ \/ /\ fetchPc[f] = "fail"
          /\ Ring!SetClosed
          /\ FetchGoto(f, "broadcast")
       \/ /\ fetchPc[f] = "broadcast"
          /\ Ring!CloseBroadcast
          /\ FetchGoto(f, "done")
    /\ UNCHANGED <<fetchPos, drainer, handed, pending, stuck, counted, main,
                   failed, panicked, clobbered>>

\* The next offset the drainer takes out of the ring.
Base == StartOffset + Len(handed)
Cursor == IF drainPc = "idle" THEN Base ELSE Base + Len(batch)

\* The offset within a turn of the ring from the drainer, other than o itself, that
\* a record put at o takes the slot of.  There is none if o is within that turn.
Hit(o) ==
    {c \in Cursor .. Cursor + RingCap - 1 : c # o /\ Ring!slotIndex(c) = Ring!slotIndex(o)}

\* History, kept beside the plain write of Put: Put does not look at drainOffset,
\* though it is there for it (ring_buffer.go:48), and so writes a turn ahead.
NoteWrite(f) ==
    clobbered' = IF putPc[f] \in {"write", "rewrite"}
                 THEN clobbered \cup Hit(putOffset[f]) ELSE clobbered

FetchStep(f) ==
    \/ FetchRecord(f) \/ FetchNext(f) \/ FetchCancelled(f) \/ FetchFails(f) \/ FetchCloses(f)
    \/ /\ Ring!PutStep(f)
       /\ NoteWrite(f)
       /\ UNCHANGED <<fetchPc, fetchPos, drainer, handed, pending, stuck, counted,
                      main, failed, panicked>>

(***************************************************************************)
(* drainPartition.                                                         *)
(***************************************************************************)

\* The top of the loop.
DrainerTop ==
    /\ drainer = "top"
    /\ IF cancelled
       THEN /\ drainer' = "wait"
            /\ UNCHANGED ringVars
       ELSE /\ drainer' = "drain"
            /\ Ring!DrainCall
    /\ UNCHANGED <<fetchPc, fetchPos, handed, pending, stuck, counted, main,
                   failed, panicked, clobbered>>

\* inflight.Add(1) for each record of the batch.
AddInflight_Mutant == pending' = pending + MaxBatch
AddInflight == pending' = pending + Len(batch)

\* DrainBatch has returned.  A nil record in the batch is dereferenced.
DrainerBatch ==
    /\ drainer = "drain"
    /\ Ring!DrainReturn
    /\ IF drainPc = "false" \/ batch = <<>>
       THEN /\ drainer' = "wait"
            /\ UNCHANGED <<handed, pending, counted, panicked>>
       ELSE /\ drainer' = "produce"
            /\ handed' = handed \o batch
            /\ AddInflight
            /\ counted' = TRUE
            /\ panicked' = (\E i \in DOMAIN batch : batch[i] = Ring!Nil)
    /\ UNCHANGED <<fetchPc, fetchPos, stuck, main, failed, clobbered>>

\* The periodic flush of the metrics, when ten seconds have passed.
DrainerProgress ==
    /\ drainer = "produce"
    /\ drainer' = "top"
    /\ \E due \in BOOLEAN :
         /\ panicked' = (due /\ MetricLabels # LabelsPassed)
         /\ counted' = (counted /\ ~due)
    /\ UNCHANGED <<ringVars, fetchPc, fetchPos, handed, pending, stuck, main, failed,
                   clobbered>>

\* inflight.Wait() and the final flush.
DrainerEnd ==
    /\ drainer = "wait"
    /\ pending = 0
    /\ drainer' = "done"
    /\ panicked' = (counted /\ MetricLabels # LabelsPassed)
    /\ counted' = FALSE
    /\ UNCHANGED <<ringVars, fetchPc, fetchPos, handed, pending, stuck, main, failed,
                   clobbered>>

\* A produce callback ends: acknowledged, or given up after Retry.
ProduceSettled ==
    /\ pending > 0
    /\ ~stuck
    /\ pending' = pending - 1
    /\ UNCHANGED <<ringVars, fetchPc, fetchPos, drainer, handed, stuck, counted,
                   main, failed, panicked, clobbered>>

\* A produce fails: its callback waits in Retry for the promise of the retry,
\* which the client calls only after this callback returns.
ProduceBlocks ==
    /\ SerialPromises
    /\ pending > 0
    /\ ~cancelled
    /\ ~stuck
    /\ stuck' = TRUE
    /\ UNCHANGED <<ringVars, fetchPc, fetchPos, drainer, handed, pending, counted,
                   main, failed, panicked, clobbered>>

DrainerStep ==
    \/ DrainerTop \/ DrainerBatch \/ DrainerProgress \/ DrainerEnd
    \/ Ring!DrainStep /\ UNCHANGED ownVars

(***************************************************************************)
(* catchUpPartitionPipelined, after it has started the goroutines.         *)
(***************************************************************************)

MainStep ==
    /\ \/ /\ main = "fetchers"
          /\ \A f \in Fetchers : fetchPc[f] = "done"
          /\ Ring!SetClosed
          /\ main' = "close"
       \/ /\ main = "close"
          /\ Ring!CloseBroadcast
          /\ main' = "drainer"
       \/ /\ main = "drainer"
          /\ drainer = "done"
          /\ main' = "done"
          /\ UNCHANGED ringVars
    /\ UNCHANGED <<fetchPc, fetchPos, drainer, handed, pending, stuck, counted,
                   failed, panicked, clobbered>>

\* Nothing runs in a process that has panicked.
Next ==
    \/ ~panicked /\ Cancel
    \/ ~panicked /\ \E f \in Fetchers : FetchStep(f)
    \/ ~panicked /\ DrainerStep
    \/ ~panicked /\ ProduceSettled
    \/ ~panicked /\ ProduceBlocks
    \/ ~panicked /\ MainStep

Spec == Init /\ [][Next]_vars

(***************************************************************************)
(* Properties.                                                             *)
(***************************************************************************)

\* The records of the range, in source order.
InRange == {o \in Log : StartOffset <= o /\ o < EndOffset}

\* No slot was written for another record up to offset o.
Unharmed(o) == \A c \in clobbered : o < c

\* The drainer hands the producer the record of each offset of the range in turn:
\* none is skipped, repeated or overtaken, however the Puts of several fetchers,
\* DrainBatch, a failing fetcher, Close and a cancellation interleave - up to the
\* first offset whose slot a fetcher wrote for a record at least one turn of the
\* ring ahead, which Put does not prevent.  Nothing else disturbs the order.
DrainsPrefix ==
    \A i \in DOMAIN handed :
        LET o == StartOffset + (i - 1) IN
        Unharmed(o) => o \in InRange /\ handed[i] = o

\* When the drainer leaves its loop, was not cancelled and no fetcher failed, it
\* has handed on each record of the range that is neither behind a gap of the log
\* nor behind such a slot: Close comes when records are still in the ring, and the
\* drainer takes them out first.
CompleteAtEnd ==
    drainer \in {"wait", "done"} /\ ~cancelled /\ ~failed
        => \A o \in InRange :
             StartOffset .. o \subseteq Log /\ Unharmed(o)
                 => \E i \in DOMAIN handed : handed[i] = o

\* What PERF-NOTES.md:206-210 promises (Completeness): a catch-up that ends without
\* a failure or a cancellation has handed on every record of the range.
RangeComplete ==
    drainer \in {"wait", "done"} /\ ~cancelled /\ ~failed
        => InRange \subseteq {handed[i] : i \in DOMAIN handed}

\* What parallel_source.go:33-35 and PERF-NOTES.md:199-204 promise: records
\* leave the ring buffer in strict source-offset order.
DrainedInOrder ==
    \A i, j \in DOMAIN handed : i < j => handed[i] < handed[j]

\* Someone is asleep on the condition variable and nobody is left to wake it:
\* the drainer is asleep or has ended, and every fetcher is asleep or has ended.
AsleepForGood ==
    /\ tickets # <<>>
    /\ drainPc = "asleep" \/ drainer = "done"
    /\ \A f \in Fetchers : putPc[f] = "asleep" \/ fetchPc[f] = "done"
    /\ main = "fetchers" => \E f \in Fetchers : fetchPc[f] # "done"
    /\ main # "close"

\* What ring_buffer.go:121 (DrainBatch "blocks until at least one record is
\* available or the context is cancelled") and :175 (Close "signals all waiters to
\* stop") promise: no goroutine stays asleep with nobody left to wake it.
NobodyAsleepForGood == ~AsleepForGood

\* What ring_buffer.go:81 (Put "returns false if the buffer is closed or context
\* is cancelled") promises: once the drainer has left, and with it the only one to
\* free slots and wake fetchers, no Put is still asleep.
CancelFreesPut ==
    cancelled /\ drainer = "done" => \A f \in Fetchers : putPc[f] # "asleep"
=============================================================================
