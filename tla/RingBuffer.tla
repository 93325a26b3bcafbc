----------------------------- MODULE RingBuffer -----------------------------
(***************************************************************************)
(* OrderedRingBuffer (internal/mirror/ring_buffer.go): fetchers Put source *)
(* records into the slot their offset maps to, one drainer takes them out  *)
(* in batches.                                                             *)
(*                                                                         *)
(* A step is one access to memory that another goroutine can see.  slot    *)
(* states and the closed flag are atomics; the record of a slot is a plain *)
(* field, written before the compare-and-swap that publishes it, so two    *)
(* fetchers that share a slot race on it: whoever writes last wins.        *)
(*                                                                         *)
(* sync.Cond is a list of tickets: Wait takes a ticket and then releases   *)
(* the mutex, Signal wakes the oldest ticket, Broadcast wakes all.  Signal *)
(* and Broadcast are called without the mutex, so one may fall between a   *)
(* waiter's test of its condition and its ticket.                          *)
(***************************************************************************)
EXTENDS Integers, Sequences, FiniteSets

CONSTANTS
    Fetchers,     \* goroutines that call Put, a set of natural numbers
    Capacity,     \* slots
    StartOffset,  \* the first offset the drainer expects
    MaxBatch      \* maxBatch of DrainBatch

\* Goroutines: fetchers are numbers from 0 up.
Drainer == -1
NoOne   == -2

Slots == 0 .. Capacity - 1

\* The nil record.
Nil == -1

VARIABLES
    filled,       \* filled[s]: the state of slot s is slotFilled, not slotEmpty
    record,       \* record[s]: offset of the record in slot s, or Nil
    drainOffset,  \* rb.drainOffset
    closed,       \* rb.closed
    holder,       \* the goroutine that holds rb.mu, or NoOne
    tickets,      \* goroutines in the list of rb.cond, oldest first
    cancelled,    \* the context given to Put and DrainBatch is cancelled
    putPc,        \* putPc[f]: where f is in Put
    putOffset,    \* putOffset[f]: the offset argument of Put
    drainPc,      \* where the drainer is in DrainBatch
    rec,          \* the record the drainer has just read
    batch         \* the batch DrainBatch is collecting

ringVars == <<filled, record, drainOffset, closed, holder, tickets, cancelled,
              putPc, putOffset, drainPc, rec, batch>>

PutPcs == {"idle", "load", "write", "cas", "lock", "check", "ticket", "asleep",
           "retest", "rewrite", "store", "signal", "true", "false"}
DrainPcs == {"idle", "lock", "check", "ticket", "asleep", "test", "read",
             "clear", "empty", "advance", "true", "false"}

RingTypeOK ==
    /\ filled \in [Slots -> BOOLEAN]
    /\ record \in [Slots -> Nat \cup {Nil}]
    /\ drainOffset \in Nat
    /\ closed \in BOOLEAN
    /\ holder \in Fetchers \cup {Drainer, NoOne}
    /\ tickets \in Seq(Fetchers \cup {Drainer})
    /\ cancelled \in BOOLEAN
    /\ putPc \in [Fetchers -> PutPcs]
    /\ putOffset \in [Fetchers -> Nat]
    /\ drainPc \in DrainPcs
    /\ rec \in Nat \cup {Nil}
    /\ batch \in Seq(Nat \cup {Nil})

RingInit ==
    /\ filled = [s \in Slots |-> FALSE]
    /\ record = [s \in Slots |-> Nil]
    /\ drainOffset = StartOffset
    /\ closed = FALSE
    /\ holder = NoOne
    /\ tickets = <<>>
    /\ cancelled = FALSE
    /\ putPc = [f \in Fetchers |-> "idle"]
    /\ putOffset = [f \in Fetchers |-> 0]
    /\ drainPc = "idle"
    /\ rec = Nil
    /\ batch = <<>>

slotIndex(offset) == offset % Capacity

(***************************************************************************)
(* rb.cond.  A woken goroutine goes on to take the mutex again.            *)
(***************************************************************************)

Wake(woken) ==
    /\ putPc' = [f \in Fetchers |-> IF f \in woken THEN "lock" ELSE putPc[f]]
    /\ drainPc' = IF Drainer \in woken THEN "lock" ELSE drainPc

Sleeping == {tickets[i] : i \in DOMAIN tickets}

\* Close and CloseWithError: the flag is set, then everyone asleep is woken.
SetClosed ==
    /\ closed' = TRUE
    /\ UNCHANGED <<filled, record, drainOffset, holder, tickets, cancelled,
                   putPc, putOffset, drainPc, rec, batch>>

CloseBroadcast ==
    /\ tickets' = <<>>
    /\ Wake(Sleeping)
    /\ UNCHANGED <<filled, record, drainOffset, closed, holder, cancelled,
                   putOffset, rec, batch>>

(***************************************************************************)
(* Put(ctx, offset, record), called by fetcher f.                          *)
(***************************************************************************)

PutGoto(f, pc) == putPc' = [putPc EXCEPT ![f] = pc]

\* What a step of Put leaves alone, Signal apart.
PutFrame == UNCHANGED <<drainOffset, closed, cancelled, putOffset, drainPc, rec, batch>>

PutCall(f, offset) ==
    /\ putPc[f] = "idle"
    /\ PutGoto(f, "load")
    /\ putOffset' = [putOffset EXCEPT ![f] = offset]
    /\ UNCHANGED <<filled, record, drainOffset, closed, holder, tickets, cancelled,
                   drainPc, rec, batch>>

\* The caller of Put has looked at its result.
PutReturn(f) ==
    /\ putPc[f] \in {"true", "false"}
    /\ PutGoto(f, "idle")
    /\ UNCHANGED <<filled, record, holder, tickets>>
    /\ PutFrame

\* Fast path: is the slot empty?
PutLoad(f) ==
    /\ putPc[f] = "load"
    /\ PutGoto(f, IF filled[slotIndex(putOffset[f])] THEN "lock" ELSE "write")
    /\ UNCHANGED <<filled, record, holder, tickets>>

\* The plain write of the record, on the fast path and on the slow path.
PutWrite(f) ==
    /\ putPc[f] \in {"write", "rewrite"}
    /\ record' = [record EXCEPT ![slotIndex(putOffset[f])] = putOffset[f]]
    /\ PutGoto(f, IF putPc[f] = "write" THEN "cas" ELSE "store")
    /\ UNCHANGED <<filled, holder, tickets>>

\* CompareAndSwap(slotEmpty, slotFilled); a failure falls to the slow path.
PutCas(f) ==
    LET s == slotIndex(putOffset[f]) IN
    /\ putPc[f] = "cas"
    /\ IF filled[s]
       THEN /\ PutGoto(f, "lock")
            /\ UNCHANGED filled
       ELSE /\ filled' = [filled EXCEPT ![s] = TRUE]
            /\ PutGoto(f, "signal")
    /\ UNCHANGED <<record, holder, tickets>>

PutLock(f) ==
    /\ putPc[f] = "lock"
    /\ holder = NoOne
    /\ holder' = f
    /\ PutGoto(f, "check")
    /\ UNCHANGED <<filled, record, tickets>>

\* The condition a blocked Put waits on.
PutMustWait(f) == filled[slotIndex(putOffset[f])] /\ ~closed /\ ~cancelled

PutCheck(f) ==
    /\ putPc[f] = "check"
    /\ IF PutMustWait(f)
       THEN /\ PutGoto(f, "ticket")
            /\ UNCHANGED holder
       ELSE /\ PutGoto(f, "retest")
            /\ holder' = NoOne
    /\ UNCHANGED <<filled, record, tickets>>

\* cond.Wait: take a ticket, release the mutex, sleep.
PutTicket(f) ==
    /\ putPc[f] = "ticket"
    /\ tickets' = Append(tickets, f)
    /\ holder' = NoOne
    /\ PutGoto(f, "asleep")
    /\ UNCHANGED <<filled, record>>

\* After the wait: closed and ctx are read once more, the slot is not.
PutRetest(f) ==
    /\ putPc[f] = "retest"
    /\ PutGoto(f, IF closed \/ cancelled THEN "false" ELSE "rewrite")
    /\ UNCHANGED <<filled, record, holder, tickets>>

PutStore(f) ==
    /\ putPc[f] = "store"
    /\ filled' = [filled EXCEPT ![slotIndex(putOffset[f])] = TRUE]
    /\ PutGoto(f, "signal")
    /\ UNCHANGED <<record, holder, tickets>>

\* cond.Signal wakes the oldest ticket, drainer or fetcher; Put returns true.
PutSignal(f) ==
    /\ putPc[f] = "signal"
    /\ LET woken == IF tickets = <<>> THEN {} ELSE {Head(tickets)} IN
         /\ tickets' = IF tickets = <<>> THEN <<>> ELSE Tail(tickets)
         /\ putPc' = [g \in Fetchers |-> IF g = f THEN "true"
                                         ELSE IF g \in woken THEN "lock" ELSE putPc[g]]
         /\ drainPc' = IF Drainer \in woken THEN "lock" ELSE drainPc
    /\ UNCHANGED <<filled, record, drainOffset, closed, holder, cancelled,
                   putOffset, rec, batch>>

PutStep(f) ==
    \/ /\ \/ PutLoad(f) \/ PutWrite(f) \/ PutCas(f) \/ PutLock(f) \/ PutCheck(f)
          \/ PutTicket(f) \/ PutRetest(f) \/ PutStore(f)
       /\ PutFrame
    \/ PutSignal(f)

(***************************************************************************)
(* DrainBatch(ctx, maxBatch), called by the drainer.                       *)
(***************************************************************************)

\* The slot of the next record of the batch.
NextSlot == slotIndex(drainOffset + Len(batch))

\* What a step of DrainBatch leaves alone.
DrainFrame == UNCHANGED <<closed, cancelled, putOffset>>

DrainCall ==
    /\ drainPc = "idle"
    /\ drainPc' = "lock"
    /\ batch' = <<>>
    /\ UNCHANGED <<filled, record, drainOffset, holder, tickets, putPc, rec>>
    /\ DrainFrame

\* The caller of DrainBatch has taken the batch.
DrainReturn ==
    /\ drainPc \in {"true", "false"}
    /\ drainPc' = "idle"
    /\ UNCHANGED <<filled, record, drainOffset, holder, tickets, putPc, rec, batch>>
    /\ DrainFrame

DrainLock ==
    /\ drainPc = "lock"
    /\ holder = NoOne
    /\ holder' = Drainer
    /\ drainPc' = "check"
    /\ UNCHANGED <<filled, record, drainOffset, tickets, putPc, rec, batch>>

DrainCheck ==
    /\ drainPc = "check"
    /\ IF ~filled[NextSlot] /\ ~closed /\ ~cancelled
       THEN /\ drainPc' = "ticket"
            /\ UNCHANGED holder
       ELSE /\ drainPc' = "test"
            /\ holder' = NoOne
    /\ UNCHANGED <<filled, record, drainOffset, tickets, putPc, rec, batch>>

DrainTicket ==
    /\ drainPc = "ticket"
    /\ tickets' = Append(tickets, Drainer)
    /\ holder' = NoOne
    /\ drainPc' = "asleep"
    /\ UNCHANGED <<filled, record, drainOffset, putPc, rec, batch>>

\* Closed with nothing left at the next offset, or cancelled: (nil, false).
DrainStops_Mutant == closed \/ cancelled
DrainStops == (closed /\ ~filled[NextSlot]) \/ cancelled

DrainTest ==
    /\ drainPc = "test"
    /\ drainPc' = IF DrainStops THEN "false" ELSE "read"
    /\ UNCHANGED <<filled, record, drainOffset, holder, tickets, putPc, rec, batch>>

\* rec := s.record, while the batch has room and the next slot is filled.
DrainRead ==
    /\ drainPc = "read"
    /\ IF Len(batch) < MaxBatch /\ filled[NextSlot]
       THEN /\ rec' = record[NextSlot]
            /\ drainPc' = "clear"
       ELSE /\ drainPc' = "advance"
            /\ UNCHANGED rec
    /\ UNCHANGED <<filled, record, drainOffset, holder, tickets, putPc, batch>>

\* s.record = nil.
DrainClear ==
    /\ drainPc = "clear"
    /\ record' = [record EXCEPT ![NextSlot] = Nil]
    /\ drainPc' = "empty"
    /\ UNCHANGED <<filled, drainOffset, holder, tickets, putPc, rec, batch>>

\* s.state.Store(slotEmpty), and the record joins the batch.
DrainEmpty ==
    /\ drainPc = "empty"
    /\ filled' = [filled EXCEPT ![NextSlot] = FALSE]
    /\ batch' = Append(batch, rec)
    /\ drainPc' = "read"
    /\ UNCHANGED <<record, drainOffset, holder, tickets, putPc, rec>>

\* drainOffset advances and everyone asleep is woken.
DrainAdvance_Mutant ==
    /\ drainPc = "advance"
    /\ drainOffset' = drainOffset + MaxBatch
    /\ tickets' = <<>>
    /\ putPc' = [f \in Fetchers |-> IF f \in Sleeping THEN "lock" ELSE putPc[f]]
    /\ drainPc' = "true"
    /\ UNCHANGED <<filled, record, holder, rec, batch>>
DrainAdvance ==
    /\ drainPc = "advance"
    /\ drainOffset' = drainOffset + Len(batch)
    /\ tickets' = <<>>
    /\ putPc' = [f \in Fetchers |-> IF f \in Sleeping THEN "lock" ELSE putPc[f]]
    /\ drainPc' = "true"
    /\ UNCHANGED <<filled, record, holder, rec, batch>>

DrainStep ==
    /\ \/ DrainLock \/ DrainCheck \/ DrainTicket \/ DrainTest \/ DrainRead
       \/ DrainClear \/ DrainEmpty \/ DrainAdvance
    /\ DrainFrame
=============================================================================
