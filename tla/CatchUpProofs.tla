---------------------------- MODULE CatchUpProofs ----------------------------
(***************************************************************************)
(* Proofs about CatchUp and its ring buffer, for any number of fetchers,   *)
(* any ring and any log: which offsets leave the ring in order, and what a *)
(* catch-up that ends has handed on.                                       *)
(*                                                                         *)
(* Put may write a turn of the ring ahead of the drainer, and the offset   *)
(* whose slot it takes is in clobbered from then on.  As long as the       *)
(* drainer has not passed such an offset (Sound), what is known of every   *)
(* other slot is kept (SlotInv); where everyone is (PlaceInv) is kept      *)
(* whatever the slots hold.                                                *)
(***************************************************************************)
EXTENDS CatchUp, TLAPS

(***************************************************************************)
(* Where the drainer and the fetchers are in the range.                    *)
(***************************************************************************)

\* Fetcher f has put each record of its segment below this offset.
Frontier(f) ==
    IF putPc[f] = "idle" THEN fetchPos[f]
    ELSE IF putPc[f] \in {"signal", "true"} THEN putOffset[f] + 1 ELSE putOffset[f]

Slot(o) == o % RingCap

\* o is a record f was to put, and has.
Published(f, o) ==
    o \in Log /\ SegStart(f) <= o /\ o < SegEnd(f) /\ o < Frontier(f)

\* No Put of f was refused: that happens only after a cancellation or a failure.
NotRefused(f) == fetchPc[f] # "done" \/ (~cancelled /\ ~failed)

\* Slot s holds a record that is still to be drained.
Holding(s) == filled[s] /\ ~(drainPc = "empty" /\ s = Slot(Cursor))

\* The drainer has passed no offset whose slot was written for another record.
Sound == \A c \in clobbered : Cursor <= c

\* Slot s was written for another record than the one the drainer will look for.
Lost(s) == \E c \in clobbered : Slot(c) = s

\* What a step of Put leaves alone outside the ring.
flowVars == <<fetchPc, fetchPos, drainer, handed, pending, stuck, counted, main, failed, panicked>>

(***************************************************************************)
(* The inductive invariant: where everyone is.                             *)
(***************************************************************************)

\* A ticket belongs to someone asleep, and nobody has two.
TicketsAsleep ==
    /\ \A i \in DOMAIN tickets : tickets[i] \in Fetchers => putPc[tickets[i]] = "asleep"
    /\ \A i \in DOMAIN tickets : tickets[i] = Ring!Drainer => drainPc = "asleep"
    /\ \A i, j \in DOMAIN tickets : tickets[i] = tickets[j] => i = j

\* A fetcher stays in its segment, and is in Put when fetchWorker is.
FetchersPlaced ==
    \A f \in Fetchers :
        /\ fetchPc[f] = "put" <=> putPc[f] # "idle"
        /\ SegStart(f) <= fetchPos[f] /\ fetchPos[f] <= SegEnd(f)
        /\ putPc[f] # "idle" => /\ putOffset[f] \in Log
                                /\ fetchPos[f] <= putOffset[f]
                                /\ putOffset[f] < SegEnd(f)

\* drainOffset and the batch follow what was handed to the producer.
DrainerPlaced ==
    /\ drainer = "drain" <=> drainPc # "idle"
    /\ drainOffset = IF drainPc = "true" THEN Base + Len(batch) ELSE Base
    /\ drainPc \in {"lock", "check", "ticket", "asleep", "test", "false"} => batch = <<>>

\* Why the ring is closed, and a Put refused.
ClosedWhy ==
    /\ closed => failed \/ main # "fetchers"
    /\ main # "fetchers" => \A f \in Fetchers : fetchPc[f] = "done"
    /\ \A f \in Fetchers : putPc[f] = "false" => cancelled \/ failed
    /\ \A f \in Fetchers : fetchPc[f] \in {"fail", "broadcast"} => failed

\* A slot is lost for an offset within a turn of the ring from the drainer.
LossIsNear == \A c \in clobbered : c < Cursor + RingCap

PlaceInv ==
    TypeOK /\ TicketsAsleep /\ FetchersPlaced /\ DrainerPlaced /\ ClosedWhy /\ LossIsNear

(***************************************************************************)
(* What is known of the slots that are not lost, while Sound.              *)
(***************************************************************************)

\* What was drained are records of the range that were put.
DrainedWerePut ==
    \A o \in Nat : StartOffset <= o /\ o < Cursor =>
        /\ o \in Log /\ o < EndOffset
        /\ \A f \in Fetchers : SegStart(f) <= o /\ o < SegEnd(f) => Published(f, o)

\* A filled slot holds a record that was put, less than a turn of the ring ahead.
SlotsHold ==
    \A s \in Ring!Slots : Holding(s) /\ ~Lost(s) =>
        /\ record[s] \in Nat /\ Slot(record[s]) = s
        /\ Cursor <= record[s] /\ record[s] < Cursor + RingCap
        /\ \E f \in Fetchers : Published(f, record[s])

\* A record that was put and not drained is in its slot, unless its fetcher was
\* turned away.
PutsKept ==
    \A f \in Fetchers : \A o \in Nat :
        NotRefused(f) /\ Published(f, o) /\ Cursor <= o /\ ~Lost(Slot(o))
        => \/ Holding(Slot(o)) /\ record[Slot(o)] = o
           \/ drainPc = "empty" /\ o = Cursor

\* A fetcher that has written its record and is about to publish it finds the slot
\* empty, with that record in it.
SlotFree ==
    \A f \in Fetchers :
        putPc[f] \in {"cas", "store"} /\ ~Lost(Slot(putOffset[f])) =>
            /\ ~filled[Slot(putOffset[f])] /\ record[Slot(putOffset[f])] = putOffset[f]
            /\ putOffset[f] < Cursor + RingCap

\* The record the drainer is taking is the next one.
TakesNext ==
    ~Lost(Slot(Cursor)) =>
        /\ drainPc \in {"clear", "empty"} => /\ rec = Cursor /\ filled[Slot(Cursor)]
                                             /\ \E f \in Fetchers : Published(f, Cursor)
        /\ drainPc = "clear" => record[Slot(Cursor)] = Cursor
        /\ drainPc = "empty" => record[Slot(Cursor)] = Ring!Nil

SlotInv == DrainedWerePut /\ SlotsHold /\ PutsKept /\ SlotFree /\ TakesNext

(***************************************************************************)
(* What leaves the ring, and the end of a catch-up.                        *)
(***************************************************************************)

\* Up to the first slot lost, what was handed on and what is in the batch are the
\* records of consecutive offsets.
InOrder ==
    /\ \A i \in DOMAIN handed :
         Unharmed(StartOffset + (i - 1))
             => handed[i] = StartOffset + (i - 1) /\ handed[i] \in InRange
    /\ drainPc # "idle" => \A i \in DOMAIN batch :
         Unharmed(Base + (i - 1)) => batch[i] = Base + (i - 1) /\ batch[i] \in InRange

OrderInv == PlaceInv /\ InOrder /\ (Sound => SlotInv)

\* A fetcher that is done has put all of its segment.
FetchersEnd ==
    \A f \in Fetchers :
        fetchPc[f] = "done" /\ ~cancelled /\ ~failed
            => \A o \in Log : o < SegEnd(f) => o < Frontier(f)

\* The drainer never returns an empty batch from an open ring.
BatchNotEmpty ==
    /\ drainPc = "test" => filled[Slot(Cursor)] \/ closed \/ cancelled
    /\ drainPc = "read" /\ batch = <<>> => filled[Slot(Cursor)]
    /\ drainPc \in {"advance", "true"} => batch # <<>>

\* The drainer ends only when the range is drained, or at a gap or a lost slot.
DrainerEnds ==
    (drainPc = "false" \/ drainer \in {"wait", "done"}) /\ ~cancelled /\ ~failed
        => Cursor >= EndOffset \/ Cursor \notin Log \/ ~Unharmed(Cursor)

EndInv == OrderInv /\ FetchersEnd /\ BatchNotEmpty /\ DrainerEnds

(***************************************************************************)
(* Arithmetic of slots and segments.                                       *)
(***************************************************************************)

\* Quotient and remainder.
LEMMA Division ==
    ASSUME NEW n \in Nat \ {0}, NEW a \in Nat
    PROVE  /\ a \div n \in Nat /\ a % n \in 0 .. n - 1
           /\ a = n * (a \div n) + (a % n)
  OBVIOUS

\* A multiple of n that is less than n is at most zero.
LEMMA SmallMultiple ==
    ASSUME NEW n \in Nat \ {0}, NEW k \in Int, n * k < n
    PROVE  k <= 0
  OBVIOUS

\* Offsets less than n apart have different remainders.
LEMMA SameSlot ==
    ASSUME NEW n \in Nat \ {0}, NEW a \in Nat, NEW b \in Nat,
           a <= b, b < a + n, a % n = b % n
    PROVE  a = b
<1> DEFINE k == (b \div n) - (a \div n)
<1>1. /\ a \div n \in Nat /\ a = n * (a \div n) + (a % n) /\ a % n \in 0 .. n - 1
      /\ b \div n \in Nat /\ b = n * (b \div n) + (b % n) /\ b % n \in 0 .. n - 1
  BY Division
<1>2. b - a = n * (b \div n) - n * (a \div n) BY <1>1
<1>3. n * (b \div n) - n * (a \div n) = n * k BY <1>1
<1>4. k \in Int /\ n * k < n /\ n * k = b - a BY <1>1, <1>2, <1>3
<1>5. k <= 0 BY <1>4, SmallMultiple
<1>6. n * k <= 0 BY <1>4, <1>5
<1>7. QED BY <1>4, <1>6

\* Whole turns of the ring lead to the same slot.
LEMMA Turns ==
    ASSUME NEW n \in Nat \ {0}, NEW a \in Nat, NEW t \in Nat
    PROVE  (a + n * t) % n = a % n
<1> DEFINE q == a \div n
           b == a + n * t
           p == b \div n
           k == p - (q + t)
<1>0. n * t \in Nat OBVIOUS
<1>1. /\ q \in Nat /\ a % n \in 0 .. n - 1 /\ a = n * q + (a % n)
      /\ p \in Nat /\ b % n \in 0 .. n - 1 /\ b = n * p + (b % n)
  <2>1. b \in Nat BY <1>0
  <2> HIDE DEF b
  <2>2. QED BY <2>1, Division
<1>2. n * k = n * p - n * q - n * t BY <1>1
<1>3. n * (-k) = n * q + n * t - n * p BY <1>1
<1>4. n * k < n /\ n * (-k) < n /\ k \in Int BY <1>0, <1>1, <1>2, <1>3
<1> HIDE DEF k
<1>5. k <= 0 /\ -k <= 0
  <2>1. k \in Int /\ -k \in Int BY <1>4
  <2>2. QED BY <2>1, <1>4, SmallMultiple
<1>6. n * k = 0
  <2>1. k = 0 BY <1>4, <1>5
  <2>2. QED BY <2>1
<1>7. n * p = n * q + n * t BY <1>0, <1>1, <1>2, <1>6
<1>8. QED BY <1>0, <1>1, <1>7

\* Each slot belongs to an offset of every turn of the ring.
LEMMA SlotInTurn ==
    ASSUME NEW n \in Nat \ {0}, NEW b \in Nat, NEW o \in Nat, b <= o
    PROVE  \E c \in b .. b + n - 1 : c % n = o % n
<1> DEFINE d == o - b
           q == d \div n
           c == b + (d % n)
<1>1. d \in Nat OBVIOUS
<1>2. q \in Nat /\ d % n \in 0 .. n - 1 /\ d = n * q + (d % n) BY <1>1, Division
<1>3. c \in b .. b + n - 1 /\ c \in Nat BY <1>2
<1>4. n * q \in Nat BY <1>2
<1>5. c + n * q = o BY <1>2, <1>4
<1>6. (c + n * q) % n = c % n
  <2> HIDE DEF c, q
  <2>1. QED BY <1>2, <1>3, Turns
<1>7. QED BY <1>3, <1>5, <1>6

\* The parameters of a catch-up, and the segments, which lie in the range.
LEMMA Parameters ==
    /\ TotalRange \in Nat \ {0} /\ RingCap \in Nat \ {0}
    /\ EffectiveWorkers \in Nat \ {0} /\ SegmentSize \in Nat
    /\ EffectiveWorkers * SegmentSize <= TotalRange
<1>1. TotalRange \in Nat \ {0} BY CatchUpAssumption DEF TotalRange
<1>2. RingCap \in Nat \ {0} BY <1>1, CatchUpAssumption DEF RingCap
<1>3. EffectiveWorkers \in Nat \ {0} BY CatchUpAssumption DEF EffectiveWorkers
<1>4. /\ SegmentSize \in Nat /\ TotalRange % EffectiveWorkers \in 0 .. EffectiveWorkers - 1
      /\ TotalRange = EffectiveWorkers * SegmentSize + (TotalRange % EffectiveWorkers)
  BY <1>1, <1>3, Division DEF SegmentSize
<1>5. QED
  <2>1. EffectiveWorkers * SegmentSize \in Nat BY <1>3, <1>4
  <2>2. QED BY <1>1, <1>2, <1>3, <1>4, <2>1

\* Segments of earlier fetchers end where those of later ones begin, or before.
LEMMA SegmentsOrdered ==
    ASSUME NEW f \in Fetchers, NEW g \in Fetchers, f < g
    PROVE  SegEnd(f) <= SegStart(g)
<1>1. f \in Nat /\ g \in Nat /\ f # EffectiveWorkers - 1 /\ SegmentSize \in Nat
  BY Parameters DEF Fetchers
<1>2. f * SegmentSize + SegmentSize = (f + 1) * SegmentSize BY <1>1
<1>3. \A n \in Nat : (f + 1) * n <= g * n BY <1>1
<1>4. (f + 1) * SegmentSize <= g * SegmentSize BY <1>1, <1>3
<1>5. f * SegmentSize \in Nat /\ g * SegmentSize \in Nat BY <1>1
<1>6. SegEnd(f) = StartOffset + f * SegmentSize + SegmentSize BY <1>1 DEF SegEnd, SegStart
<1>7. QED BY <1>2, <1>4, <1>5, <1>6, <1>1, CatchUpAssumption DEF SegStart

\* The segments of planSegments lie within the range.
LEMMA SegmentBounds ==
    ASSUME NEW f \in Fetchers
    PROVE  /\ f \in Nat /\ SegStart(f) \in Nat /\ SegEnd(f) \in Nat
           /\ StartOffset <= SegStart(f) /\ SegStart(f) <= SegEnd(f) /\ SegEnd(f) <= EndOffset
<1>1. f \in Nat /\ f <= EffectiveWorkers - 1 /\ SegStart(f) < EndOffset
  BY Parameters DEF Fetchers, SegStart
<1>2. SegmentSize \in Nat /\ f * SegmentSize \in Nat BY <1>1, Parameters
<1>3. SegStart(f) \in Nat /\ StartOffset <= SegStart(f) BY <1>2, CatchUpAssumption DEF SegStart
<1>4. CASE f = EffectiveWorkers - 1 BY <1>1, <1>3, <1>4, CatchUpAssumption DEF SegEnd
<1>5. CASE f # EffectiveWorkers - 1
  <2>1. SegEnd(f) = StartOffset + f * SegmentSize + SegmentSize BY <1>5 DEF SegEnd, SegStart
  <2>2. f * SegmentSize + SegmentSize = (f + 1) * SegmentSize BY <1>1, <1>2
  <2>3. \A n \in Nat : (f + 1) * n <= EffectiveWorkers * n BY <1>1, Parameters
  <2>4. (f + 1) * SegmentSize <= EffectiveWorkers * SegmentSize BY <1>2, <2>3
  <2>5. (f + 1) * SegmentSize \in Nat /\ EffectiveWorkers * SegmentSize \in Nat
    BY <1>1, <1>2, Parameters
  <2>6. (f + 1) * SegmentSize <= EndOffset - StartOffset
    BY <2>4, <2>5, Parameters, CatchUpAssumption DEF TotalRange
  <2>7. QED BY <1>1, <1>2, <1>3, <2>1, <2>2, <2>5, <2>6, CatchUpAssumption DEF SegStart
<1>6. QED BY <1>4, <1>5

\* No offset is in two segments.
LEMMA SegmentsApart ==
    ASSUME NEW f \in Fetchers, NEW g \in Fetchers, NEW o \in Nat,
           SegStart(f) <= o, o < SegEnd(f), SegStart(g) <= o, o < SegEnd(g)
    PROVE  f = g
  BY SegmentsOrdered, SegmentBounds

\* Each offset of the range is in a segment.
LEMMA SegmentsCover ==
    ASSUME NEW o \in Nat, StartOffset <= o, o < EndOffset
    PROVE  \E f \in Fetchers : SegStart(f) <= o /\ o < SegEnd(f)
<1> DEFINE last == EffectiveWorkers - 1
           n == SegmentSize
           q == (o - StartOffset) \div n
<1>0. last \in Nat /\ n \in Nat /\ o - StartOffset \in Nat /\ last \in 0 .. last
  BY Parameters, CatchUpAssumption
<1>1. CASE SegStart(last) <= o
  <2>1. last \in Fetchers /\ SegEnd(last) = EndOffset
    BY <1>0, <1>1, CatchUpAssumption DEF Fetchers, SegStart, SegEnd
  <2>2. QED BY <1>1, <2>1
<1>2. CASE ~(SegStart(last) <= o)
  <2>1. last * n \in Nat /\ o - StartOffset < last * n
    BY <1>0, <1>2, CatchUpAssumption DEF SegStart
  <2>2. n # 0 BY <1>0, <2>1
  <2>3. /\ q \in Nat /\ (o - StartOffset) % n \in 0 .. n - 1
        /\ o - StartOffset = n * q + ((o - StartOffset) % n)
    BY <1>0, <2>2, Division
  <2> HIDE DEF q, last
  <2>4. n * q <= o - StartOffset /\ o - StartOffset < n * q + n /\ n * q \in Nat
    <3>1. n * q \in Nat BY <1>0, <2>3
    <3>2. QED BY <1>0, <2>3, <3>1
  <2>5. n * q < n * last /\ n * q = q * n
    <3>1. last * n = n * last BY <1>0
    <3>2. QED BY <2>1, <2>4, <3>1, <1>0, <2>3
  <2>6. q < last
    <3>1. SUFFICES ASSUME last <= q PROVE FALSE BY <1>0, <2>3
    <3>2. \A k \in Nat : k * last <= k * q BY <3>1, <1>0, <2>3
    <3>3. n * last <= n * q BY <3>2, <1>0
    <3>4. n * last \in Nat BY <1>0
    <3>5. QED BY <3>3, <3>4, <2>4, <2>5
  <2>7. StartOffset + q * n <= o /\ o < StartOffset + q * n + n
    BY <2>4, <2>5, <1>0, CatchUpAssumption
  <2>8. q \in Fetchers
    <3>1. q \in 0 .. EffectiveWorkers - 1 BY <2>3, <2>6, <1>0 DEF last
    <3>2. q * n \in Nat BY <2>4, <2>5
    <3>3. QED BY <3>1, <3>2, <2>7, CatchUpAssumption DEF Fetchers
  <2>9. SegStart(q) <= o /\ o < SegEnd(q)
    BY <2>6, <2>7, <1>0, <2>3 DEF SegStart, SegEnd, last
  <2>10. QED BY <2>8, <2>9
<1>3. QED BY <1>1, <1>2

\* The slot of an offset.
LEMMA SlotInRing ==
    ASSUME NEW o \in Nat
    PROVE  Ring!slotIndex(o) \in Ring!Slots /\ Ring!slotIndex(o) = Slot(o)
<1>1. RingCap \in Nat \ {0} BY Parameters
<1>2. o % RingCap \in 0 .. RingCap - 1 BY <1>1, Division
<1>3. QED BY <1>2 DEF Ring!slotIndex, Ring!Slots, Slot

(***************************************************************************)
(* Type correctness.                                                       *)
(***************************************************************************)

\* Each step of Put keeps the types.
LEMMA PutStepType ==
    ASSUME TypeOK, NEW f \in Fetchers, Ring!PutStep(f), NoteWrite(f), UNCHANGED flowVars
    PROVE  TypeOK'
<1>a. clobbered' \subseteq Nat
  <2>1. Cursor \in Nat /\ RingCap \in Nat
    BY CatchUpAssumption, Parameters DEF TypeOK, Ring!RingTypeOK, Cursor, Base
  <2>2. Hit(putOffset[f]) \subseteq Nat BY <2>1 DEF Hit
  <2>3. QED BY <2>2 DEF NoteWrite, TypeOK
<1> USE <1>a DEF TypeOK, Ring!RingTypeOK, Ring!PutGoto, Ring!PutFrame, flowVars
<1>0. putOffset[f] \in Nat /\ Ring!slotIndex(putOffset[f]) \in Ring!Slots
  BY SlotInRing
<1>1. CASE Ring!PutLoad(f) /\ Ring!PutFrame BY <1>1 DEF Ring!PutLoad, Ring!PutPcs
<1>2. CASE Ring!PutWrite(f) /\ Ring!PutFrame BY <1>0, <1>2 DEF Ring!PutWrite, Ring!PutPcs
<1>3. CASE Ring!PutCas(f) /\ Ring!PutFrame
  <2>1. putPc' \in [Fetchers -> Ring!PutPcs] BY <1>3 DEF Ring!PutCas, Ring!PutPcs
  <2>2. filled' \in [Ring!Slots -> BOOLEAN] BY <1>0, <1>3 DEF Ring!PutCas
  <2>3. QED BY <1>3, <2>1, <2>2 DEF Ring!PutCas
<1>4. CASE Ring!PutLock(f) /\ Ring!PutFrame BY <1>4 DEF Ring!PutLock, Ring!PutPcs
<1>5. CASE Ring!PutCheck(f) /\ Ring!PutFrame
  <2>1. putPc' \in [Fetchers -> Ring!PutPcs] BY <1>5 DEF Ring!PutCheck, Ring!PutPcs
  <2>2. holder' \in Fetchers \cup {Ring!Drainer, Ring!NoOne} BY <1>5 DEF Ring!PutCheck
  <2>3. QED BY <1>5, <2>1, <2>2 DEF Ring!PutCheck
<1>6. CASE Ring!PutTicket(f) /\ Ring!PutFrame BY <1>6 DEF Ring!PutTicket, Ring!PutPcs
<1>7. CASE Ring!PutRetest(f) /\ Ring!PutFrame BY <1>7 DEF Ring!PutRetest, Ring!PutPcs
<1>8. CASE Ring!PutStore(f) /\ Ring!PutFrame BY <1>0, <1>8 DEF Ring!PutStore, Ring!PutPcs
<1>9. CASE Ring!PutSignal(f)
  <2>1. putPc' \in [Fetchers -> Ring!PutPcs] BY <1>9 DEF Ring!PutSignal, Ring!PutPcs
  <2>2. drainPc' \in Ring!DrainPcs BY <1>9 DEF Ring!PutSignal, Ring!DrainPcs
  <2>3. tickets' \in Seq(Fetchers \cup {Ring!Drainer}) BY <1>9 DEF Ring!PutSignal
  <2>4. QED BY <1>9, <2>1, <2>2, <2>3 DEF Ring!PutSignal
<1>10. QED
  BY <1>1, <1>2, <1>3, <1>4, <1>5, <1>6, <1>7, <1>8, <1>9 DEF Ring!PutStep

\* Each step of DrainBatch keeps the types.
LEMMA DrainStepType ==
    ASSUME TypeOK, Ring!DrainStep, UNCHANGED ownVars
    PROVE  TypeOK'
<1> USE DEF TypeOK, Ring!RingTypeOK, Ring!DrainFrame, ownVars
<1>0. Ring!NextSlot \in Ring!Slots
  <2>1. drainOffset + Len(batch) \in Nat OBVIOUS
  <2>2. QED BY <2>1, SlotInRing DEF Ring!NextSlot
<1>1. CASE Ring!DrainLock /\ Ring!DrainFrame BY <1>1 DEF Ring!DrainLock, Ring!DrainPcs
<1>2. CASE Ring!DrainCheck /\ Ring!DrainFrame BY <1>2 DEF Ring!DrainCheck, Ring!DrainPcs
<1>3. CASE Ring!DrainTicket /\ Ring!DrainFrame BY <1>3 DEF Ring!DrainTicket, Ring!DrainPcs
<1>4. CASE Ring!DrainTest /\ Ring!DrainFrame BY <1>4 DEF Ring!DrainTest, Ring!DrainPcs
<1>5. CASE Ring!DrainRead /\ Ring!DrainFrame BY <1>0, <1>5 DEF Ring!DrainRead, Ring!DrainPcs
<1>6. CASE Ring!DrainClear /\ Ring!DrainFrame BY <1>0, <1>6 DEF Ring!DrainClear, Ring!DrainPcs
<1>7. CASE Ring!DrainEmpty /\ Ring!DrainFrame BY <1>0, <1>7 DEF Ring!DrainEmpty, Ring!DrainPcs
<1>8. CASE Ring!DrainAdvance /\ Ring!DrainFrame
  BY <1>8 DEF Ring!DrainAdvance, Ring!DrainPcs, Ring!PutPcs
<1>9. QED
  BY <1>1, <1>2, <1>3, <1>4, <1>5, <1>6, <1>7, <1>8 DEF Ring!DrainStep

\* Close and CloseWithError keep the types.
LEMMA CloseType ==
    ASSUME Ring!RingTypeOK, Ring!SetClosed \/ Ring!CloseBroadcast
    PROVE  Ring!RingTypeOK'
<1> USE DEF Ring!RingTypeOK
<1>1. CASE Ring!SetClosed BY <1>1 DEF Ring!SetClosed
<1>2. CASE Ring!CloseBroadcast
  BY <1>2 DEF Ring!CloseBroadcast, Ring!Wake, Ring!PutPcs, Ring!DrainPcs
<1>3. QED BY <1>1, <1>2

\* Each step of fetchWorker keeps the types.
LEMMA FetchStepType ==
    ASSUME TypeOK, NEW f \in Fetchers, FetchStep(f)
    PROVE  TypeOK'
<1> USE DEF TypeOK, FetchGoto
<1>1. CASE FetchRecord(f)
  <2>1. PICK o \in Log : IF o >= SegEnd(f)
            THEN /\ FetchGoto(f, "done")
                 /\ UNCHANGED ringVars
            ELSE /\ FetchGoto(f, "put")
                 /\ Ring!PutCall(f, o)
    BY <1>1 DEF FetchRecord
  <2>2. o \in Nat BY CatchUpAssumption
  <2>3. Ring!RingTypeOK'
    BY <2>1, <2>2 DEF Ring!RingTypeOK, Ring!PutCall, Ring!PutGoto, Ring!PutPcs, ringVars
  <2>4. QED BY <1>1, <2>1, <2>3 DEF FetchRecord
<1>2. CASE FetchNext(f)
  <2>1. Ring!RingTypeOK'
    BY <1>2 DEF FetchNext, Ring!RingTypeOK, Ring!PutReturn, Ring!PutGoto, Ring!PutFrame, Ring!PutPcs
  <2>2. fetchPos' \in [Fetchers -> Nat] BY <1>2 DEF FetchNext, Ring!RingTypeOK
  <2>3. fetchPc' \in [Fetchers -> {"poll", "put", "fail", "broadcast", "done"}]
    BY <1>2 DEF FetchNext
  <2>4. QED BY <1>2, <2>1, <2>2, <2>3 DEF FetchNext
<1>3. CASE FetchCancelled(f) BY <1>3 DEF FetchCancelled, Ring!RingTypeOK, ringVars
<1>4. CASE FetchFails(f) BY <1>4 DEF FetchFails, Ring!RingTypeOK, ringVars
<1>5. CASE FetchCloses(f)
  <2>1. Ring!RingTypeOK' BY <1>5, CloseType DEF FetchCloses
  <2>2. QED BY <1>5, <2>1 DEF FetchCloses
<1>6. CASE Ring!PutStep(f) /\ NoteWrite(f) /\ UNCHANGED flowVars BY <1>6, PutStepType
<1>7. QED BY <1>1, <1>2, <1>3, <1>4, <1>5, <1>6 DEF FetchStep, flowVars

\* Each step of drainPartition and of the producer keeps the types.
LEMMA DrainerStepType ==
    ASSUME TypeOK, DrainerStep \/ ProduceSettled \/ ProduceBlocks
    PROVE  TypeOK'
<1> USE DEF TypeOK
<1>1. CASE DrainerTop
  <2>1. CASE UNCHANGED ringVars BY <1>1, <2>1 DEF DrainerTop, Ring!RingTypeOK, ringVars
  <2>2. CASE Ring!DrainCall
    <3>1. batch' \in Seq(Nat \cup {Ring!Nil}) BY <2>2 DEF Ring!DrainCall
    <3>2. Ring!RingTypeOK'
      BY <2>2, <3>1 DEF Ring!RingTypeOK, Ring!DrainCall, Ring!DrainFrame, Ring!DrainPcs
    <3>3. QED BY <1>1, <3>2 DEF DrainerTop
  <2>3. QED BY <1>1, <2>1, <2>2 DEF DrainerTop
<1>2. CASE DrainerBatch
  <2>1. Ring!RingTypeOK'
    BY <1>2 DEF DrainerBatch, Ring!RingTypeOK, Ring!DrainReturn, Ring!DrainFrame, Ring!DrainPcs
  <2>2. batch \in Seq(Nat \cup {Ring!Nil}) BY DEF Ring!RingTypeOK
  <2>3. CASE drainPc = "false" \/ batch = <<>> BY <1>2, <2>1, <2>3 DEF DrainerBatch
  <2>4. CASE ~(drainPc = "false" \/ batch = <<>>)
    <3>1. handed' = handed \o batch /\ pending' = pending + Len(batch)
      BY <1>2, <2>4 DEF DrainerBatch, AddInflight
    <3>2. handed' \in Seq(Nat \cup {Ring!Nil}) /\ Len(handed') = Len(handed) + Len(batch)
      BY <2>2, <3>1
    <3>3. pending' \in 0 .. Len(handed') BY <2>2, <3>1, <3>2
    <3>4. counted' \in BOOLEAN /\ panicked' \in BOOLEAN BY <1>2, <2>4 DEF DrainerBatch
    <3>5. QED BY <1>2, <2>1, <2>4, <3>2, <3>3, <3>4 DEF DrainerBatch
  <2>5. QED BY <2>3, <2>4
<1>3. CASE DrainerProgress BY <1>3 DEF DrainerProgress, Ring!RingTypeOK, ringVars
<1>4. CASE DrainerEnd BY <1>4 DEF DrainerEnd, Ring!RingTypeOK, ringVars
<1>5. CASE Ring!DrainStep /\ UNCHANGED ownVars BY <1>5, DrainStepType
<1>6. CASE ProduceSettled BY <1>6 DEF ProduceSettled, Ring!RingTypeOK, ringVars
<1>7. CASE ProduceBlocks BY <1>7 DEF ProduceBlocks, Ring!RingTypeOK, ringVars
<1>8. QED BY <1>1, <1>2, <1>3, <1>4, <1>5, <1>6, <1>7 DEF DrainerStep

\* No step of a fetcher, of the drainer, of a callback or of Run leaves the types.
LEMMA TypeStep ==
    ASSUME TypeOK, [Next]_vars
    PROVE  TypeOK'
<1>1. CASE Cancel BY <1>1 DEF Cancel, TypeOK, Ring!RingTypeOK, ownVars
<1>2. CASE \E f \in Fetchers : FetchStep(f) BY <1>2, FetchStepType
<1>3. CASE DrainerStep \/ ProduceSettled \/ ProduceBlocks BY <1>3, DrainerStepType
<1>4. CASE MainStep
  <2>1. Ring!RingTypeOK'
    BY <1>4, CloseType DEF MainStep, TypeOK, Ring!RingTypeOK, ringVars
  <2>2. QED BY <1>4, <2>1 DEF MainStep, TypeOK
<1>5. CASE UNCHANGED vars BY <1>5 DEF vars, ringVars, ownVars, TypeOK, Ring!RingTypeOK
<1>6. QED BY <1>1, <1>2, <1>3, <1>4, <1>5 DEF Next

\* A catch-up begins well typed.
LEMMA TypeInit ==
    ASSUME Init
    PROVE  TypeOK
<1>1. \A f \in Fetchers : SegStart(f) \in Nat BY SegmentBounds
<1>2. Ring!RingTypeOK
  <2>1. Ring!Nil \in Nat \cup {Ring!Nil} /\ 0 \in Nat OBVIOUS
  <2>2. /\ tickets \in Seq(Fetchers \cup {Ring!Drainer}) /\ batch \in Seq(Nat \cup {Ring!Nil})
        /\ record \in [Ring!Slots -> Nat \cup {Ring!Nil}] /\ rec \in Nat \cup {Ring!Nil}
    BY <2>1 DEF Init, Ring!RingInit
  <2>3. QED
    BY <2>1, <2>2, CatchUpAssumption
    DEF Init, Ring!RingInit, Ring!RingTypeOK, Ring!PutPcs, Ring!DrainPcs
<1>3. fetchPos \in [Fetchers -> Nat] BY <1>1 DEF Init
<1>4. handed \in Seq(Nat \cup {Ring!Nil}) /\ pending \in 0 .. Len(handed) BY DEF Init
<1>5. QED BY <1>2, <1>3, <1>4 DEF Init, TypeOK

\* The state of a catch-up stays well-typed, for any range, log, number of fetchers,
\* ring and batch size.
THEOREM CatchUpTypeCorrect == Spec => []TypeOK
  BY TypeInit, TypeStep, PTL DEF Spec

(***************************************************************************)
(* Where everyone is.                                                      *)
(***************************************************************************)

\* A fetcher in Put has an offset of its own segment.
LEMMA PutInSegment ==
    ASSUME TypeOK, FetchersPlaced, NEW f \in Fetchers, putPc[f] # "idle"
    PROVE  /\ putOffset[f] \in Nat /\ putOffset[f] \in Log /\ fetchPc[f] = "put"
           /\ SegStart(f) <= putOffset[f] /\ putOffset[f] < SegEnd(f)
           /\ StartOffset <= putOffset[f] /\ putOffset[f] < EndOffset
           /\ Slot(putOffset[f]) \in Ring!Slots
           /\ Ring!slotIndex(putOffset[f]) = Slot(putOffset[f])
<1>1. putOffset[f] \in Nat /\ fetchPos[f] \in Nat BY DEF TypeOK, Ring!RingTypeOK
<1>2. /\ putOffset[f] \in Log /\ fetchPc[f] = "put" /\ putOffset[f] < SegEnd(f)
      /\ SegStart(f) <= fetchPos[f] /\ fetchPos[f] <= putOffset[f]
  BY DEF FetchersPlaced
<1>3. QED BY <1>1, <1>2, SegmentBounds, SlotInRing, CatchUpAssumption

\* The drainer's place.
LEMMA CursorFacts ==
    ASSUME TypeOK, DrainerPlaced
    PROVE  /\ Cursor \in Nat /\ Base \in Nat /\ StartOffset <= Base /\ Base <= Cursor
           /\ Slot(Cursor) \in Ring!Slots
           /\ drainPc \notin {"idle", "true"} => Ring!NextSlot = Slot(Cursor)
<1>1. Len(handed) \in Nat /\ Len(batch) \in Nat BY DEF TypeOK, Ring!RingTypeOK
<1>2. Base \in Nat /\ Cursor \in Nat /\ StartOffset <= Base /\ Base <= Cursor
  BY <1>1, CatchUpAssumption DEF Base, Cursor
<1>3. drainPc \notin {"idle", "true"} => drainOffset + Len(batch) = Cursor
  BY <1>1, <1>2 DEF DrainerPlaced, Cursor
<1>4. QED BY <1>2, <1>3, SlotInRing DEF Ring!NextSlot

\* Tickets are kept when nobody asleep moves.
LEMMA TicketsUntouched ==
    ASSUME TypeOK, TicketsAsleep, UNCHANGED tickets,
           \A f \in Fetchers : putPc[f] = "asleep" => putPc'[f] = "asleep",
           drainPc = "asleep" => drainPc' = "asleep"
    PROVE  TicketsAsleep'
  BY DEF TicketsAsleep

\* The woken: fetchers and drainer whose ticket is in the list.
LEMMA SleepersWake ==
    ASSUME TypeOK, TicketsAsleep
    PROVE  /\ \A g \in Fetchers : g \in Ring!Sleeping => putPc[g] = "asleep"
           /\ Ring!Drainer \in Ring!Sleeping => drainPc = "asleep"
  BY DEF TicketsAsleep, Ring!Sleeping

\* A step of Put moves one fetcher, and wakes at most the oldest ticket.
LEMMA PutStepMoves ==
    ASSUME TypeOK, TicketsAsleep, NEW f \in Fetchers, Ring!PutStep(f)
    PROVE  /\ UNCHANGED <<drainOffset, closed, cancelled, putOffset, rec, batch>>
           /\ drainPc' = drainPc \/ (drainPc = "asleep" /\ drainPc' = "lock")
           /\ putPc[f] \notin {"idle", "asleep", "true", "false"} /\ putPc'[f] # "idle"
           /\ putPc'[f] = "false" => closed \/ cancelled
           /\ \A g \in Fetchers : g # f => \/ putPc'[g] = putPc[g]
                                           \/ putPc[g] = "asleep" /\ putPc'[g] = "lock"
<1>0. putPc \in [Fetchers -> Ring!PutPcs] /\ tickets \in Seq(Fetchers \cup {Ring!Drainer})
  BY DEF TypeOK, Ring!RingTypeOK
<1>1. CASE Ring!PutSignal(f)
  <2> DEFINE woken == IF tickets = <<>> THEN {} ELSE {Head(tickets)}
  <2>1. \A w \in woken : \E i \in DOMAIN tickets : tickets[i] = w BY <1>0
  <2>2. /\ \A g \in Fetchers : g \in woken => putPc[g] = "asleep"
        /\ Ring!Drainer \in woken => drainPc = "asleep"
    BY <2>1 DEF TicketsAsleep
  <2>3. /\ putPc[f] = "signal"
        /\ putPc' = [g \in Fetchers |-> IF g = f THEN "true"
                                        ELSE IF g \in woken THEN "lock" ELSE putPc[g]]
        /\ drainPc' = IF Ring!Drainer \in woken THEN "lock" ELSE drainPc
        /\ UNCHANGED <<drainOffset, closed, cancelled, putOffset, rec, batch>>
    BY <1>1 DEF Ring!PutSignal
  <2> HIDE DEF woken
  <2>4. QED BY <2>2, <2>3
<1>2. CASE Ring!PutFrame /\ ~Ring!PutSignal(f)
  <2> USE DEF Ring!PutGoto
  <2>1. /\ putPc[f] \notin {"idle", "asleep", "true", "false"} /\ putPc'[f] # "idle"
        /\ putPc'[f] = "false" => closed \/ cancelled
        /\ \A g \in Fetchers : g # f => putPc'[g] = putPc[g]
    BY <1>0, <1>2
    DEF Ring!PutStep, Ring!PutLoad, Ring!PutWrite, Ring!PutCas, Ring!PutLock, Ring!PutCheck,
        Ring!PutTicket, Ring!PutRetest, Ring!PutStore
  <2>2. QED BY <1>2, <2>1 DEF Ring!PutFrame
<1>3. QED BY <1>1, <1>2 DEF Ring!PutStep

\* The tickets after a step of Put.
LEMMA PutTickets ==
    ASSUME TypeOK, TicketsAsleep, NEW f \in Fetchers, Ring!PutStep(f)
    PROVE  TicketsAsleep'
<1>0. putPc \in [Fetchers -> Ring!PutPcs] /\ tickets \in Seq(Fetchers \cup {Ring!Drainer})
  BY DEF TypeOK, Ring!RingTypeOK
<1>1. CASE Ring!PutTicket(f) /\ Ring!PutFrame
  <2>1. /\ putPc[f] = "ticket" /\ putPc' = [putPc EXCEPT ![f] = "asleep"]
        /\ tickets' = Append(tickets, f) /\ UNCHANGED drainPc
    BY <1>1 DEF Ring!PutTicket, Ring!PutGoto, Ring!PutFrame
  <2>2. f # Ring!Drainer BY SegmentBounds DEF Ring!Drainer
  <2>3. \A i \in DOMAIN tickets : tickets[i] # f BY <2>1 DEF TicketsAsleep
  <2>4. /\ DOMAIN tickets' = DOMAIN tickets \cup {Len(tickets) + 1}
        /\ tickets'[Len(tickets) + 1] = f
        /\ \A i \in DOMAIN tickets : i # Len(tickets) + 1 /\ tickets'[i] = tickets[i]
    BY <1>0, <2>1
  <2>5. \A g \in Fetchers : putPc[g] = "asleep" => putPc'[g] = "asleep" BY <1>0, <2>1
  <2>6. putPc'[f] = "asleep" BY <1>0, <2>1
  <2>7. QED BY <2>1, <2>2, <2>3, <2>4, <2>5, <2>6 DEF TicketsAsleep
<1>2. CASE Ring!PutSignal(f) /\ tickets = <<>>
  <2>1. tickets' = <<>> BY <1>2 DEF Ring!PutSignal
  <2>2. QED BY <2>1 DEF TicketsAsleep
<1>3. CASE Ring!PutSignal(f) /\ tickets # <<>>
  <2>1. /\ putPc[f] = "signal" /\ tickets' = Tail(tickets)
        /\ putPc' = [g \in Fetchers |-> IF g = f THEN "true"
                                        ELSE IF g \in {Head(tickets)} THEN "lock" ELSE putPc[g]]
        /\ drainPc' = IF Ring!Drainer \in {Head(tickets)} THEN "lock" ELSE drainPc
    BY <1>3 DEF Ring!PutSignal
  <2>2. /\ \A i \in DOMAIN tickets' : i + 1 \in DOMAIN tickets /\ tickets'[i] = tickets[i + 1]
        /\ DOMAIN tickets' \subseteq Nat \ {0}
    BY <1>0, <1>3, <2>1
  <2>3. Head(tickets) = tickets[1] /\ 1 \in DOMAIN tickets BY <1>0, <1>3
  <2>4. \A i \in DOMAIN tickets' : tickets'[i] # Head(tickets)
    BY <2>2, <2>3 DEF TicketsAsleep
  <2>5. \A i \in DOMAIN tickets' : tickets'[i] \in Fetchers => putPc'[tickets'[i]] = "asleep"
    <3>1. SUFFICES ASSUME NEW i \in DOMAIN tickets', NEW g \in Fetchers, tickets'[i] = g
                   PROVE  putPc'[g] = "asleep"
      OBVIOUS
    <3>2. putPc[g] = "asleep" BY <2>2, <3>1 DEF TicketsAsleep
    <3>3. QED BY <2>1, <2>4, <3>1, <3>2
  <2>6. \A i \in DOMAIN tickets' : tickets'[i] = Ring!Drainer => drainPc' = "asleep"
    BY <2>1, <2>2, <2>4 DEF TicketsAsleep
  <2>7. \A i, j \in DOMAIN tickets' : tickets'[i] = tickets'[j] => i = j
    BY <2>2 DEF TicketsAsleep
  <2>8. QED BY <2>5, <2>6, <2>7 DEF TicketsAsleep
<1>4. CASE Ring!PutFrame /\ ~Ring!PutTicket(f) /\ ~Ring!PutSignal(f)
  <2>1. UNCHANGED <<tickets, drainPc>>
    BY <1>4
    DEF Ring!PutStep, Ring!PutLoad, Ring!PutWrite, Ring!PutCas, Ring!PutLock, Ring!PutCheck,
        Ring!PutRetest, Ring!PutStore, Ring!PutFrame
  <2>2. \A g \in Fetchers : putPc[g] = "asleep" => putPc'[g] = "asleep"
    <3>1. /\ putPc[f] # "asleep"
          /\ \A g \in Fetchers : g # f => \/ putPc'[g] = putPc[g]
                                          \/ putPc[g] = "asleep" /\ putPc'[g] = "lock"
      BY PutStepMoves
    <3>2. \A g \in Fetchers : g # f => putPc'[g] = putPc[g]
      BY <1>0, <1>4
      DEF Ring!PutStep, Ring!PutLoad, Ring!PutWrite, Ring!PutCas, Ring!PutLock, Ring!PutCheck,
          Ring!PutRetest, Ring!PutStore, Ring!PutGoto
    <3>3. QED BY <3>1, <3>2
  <2>3. QED BY <2>1, <2>2, TicketsUntouched
<1>5. QED BY <1>1, <1>2, <1>3, <1>4 DEF Ring!PutStep

\* Every step of Put keeps everyone in place.
LEMMA PutPlaces ==
    ASSUME PlaceInv, TypeOK', NEW f \in Fetchers, Ring!PutStep(f), NoteWrite(f),
           UNCHANGED flowVars
    PROVE  PlaceInv' /\ UNCHANGED <<Cursor, Base>>
<1>0. /\ TypeOK /\ TicketsAsleep /\ FetchersPlaced /\ DrainerPlaced /\ ClosedWhy /\ LossIsNear
      /\ UNCHANGED <<fetchPc, fetchPos, drainer, handed, main, failed>>
  BY DEF PlaceInv, flowVars
<1>1. /\ UNCHANGED <<drainOffset, closed, cancelled, putOffset, rec, batch>>
      /\ drainPc' = drainPc \/ (drainPc = "asleep" /\ drainPc' = "lock")
      /\ putPc[f] \notin {"idle", "asleep", "true", "false"} /\ putPc'[f] # "idle"
      /\ putPc'[f] = "false" => closed \/ cancelled
      /\ \A g \in Fetchers : g # f => \/ putPc'[g] = putPc[g]
                                      \/ putPc[g] = "asleep" /\ putPc'[g] = "lock"
  BY <1>0, PutStepMoves
<1>2. UNCHANGED <<Cursor, Base>> BY <1>0, <1>1 DEF Cursor, Base
<1>3. TicketsAsleep' BY <1>0, PutTickets
<1>4. FetchersPlaced'
  <2>1. \A g \in Fetchers : putPc'[g] = "idle" <=> putPc[g] = "idle" BY <1>1
  <2>2. QED BY <1>0, <1>1, <2>1 DEF FetchersPlaced
<1>5. DrainerPlaced' BY <1>0, <1>1, <1>2 DEF DrainerPlaced
<1>6. ClosedWhy'
  <2>1. fetchPc[f] = "put" BY <1>0, <1>1 DEF FetchersPlaced
  <2>2. closed => failed BY <1>0, <2>1 DEF ClosedWhy
  <2>3. \A g \in Fetchers : putPc'[g] = "false" => putPc[g] = "false" \/ g = f BY <1>1
  <2>4. QED BY <1>0, <1>1, <2>2, <2>3 DEF ClosedWhy
<1>7. LossIsNear'
  <2>1. Cursor \in Nat /\ RingCap \in Nat BY <1>0, CursorFacts, Parameters
  <2>2. \A c \in Hit(putOffset[f]) : c < Cursor + RingCap BY <2>1 DEF Hit
  <2>3. \A c \in clobbered' : c \in clobbered \/ c \in Hit(putOffset[f]) BY DEF NoteWrite
  <2>4. QED BY <1>0, <1>2, <2>2, <2>3 DEF LossIsNear
<1>8. QED BY <1>2, <1>3, <1>4, <1>5, <1>6, <1>7 DEF PlaceInv

\* Every step of DrainBatch keeps everyone in place, and moves the cursor by one at most.
LEMMA DrainPlaces ==
    ASSUME PlaceInv, TypeOK', Ring!DrainStep, UNCHANGED ownVars
    PROVE  /\ PlaceInv' /\ UNCHANGED Base
           /\ Cursor' = IF drainPc = "empty" THEN Cursor + 1 ELSE Cursor
<1> USE DEF Ring!DrainFrame
<1>0. /\ TypeOK /\ TicketsAsleep /\ FetchersPlaced /\ DrainerPlaced /\ ClosedWhy /\ LossIsNear
      /\ UNCHANGED <<fetchPc, fetchPos, drainer, handed, main, failed, clobbered>>
      /\ UNCHANGED <<closed, cancelled, putOffset>>
      /\ tickets \in Seq(Fetchers \cup {Ring!Drainer}) /\ batch \in Seq(Nat \cup {Ring!Nil})
  BY DEF PlaceInv, ownVars, Ring!DrainStep, TypeOK, Ring!RingTypeOK
<1>1. Cursor \in Nat /\ Base \in Nat /\ RingCap \in Nat /\ Len(batch) \in Nat
  BY <1>0, CursorFacts, Parameters
<1>2. UNCHANGED Base BY <1>0 DEF Base
<1>3. /\ drainPc # "idle" /\ drainPc' # "idle"
      /\ \/ drainPc = "empty" /\ drainPc' = "read" /\ batch' = Append(batch, rec)
         \/ drainPc # "empty" /\ UNCHANGED batch
      /\ \/ /\ drainPc = "advance" /\ drainPc' = "true"
            /\ drainOffset' = drainOffset + Len(batch)
         \/ drainPc' # "true" /\ drainPc # "true" /\ UNCHANGED drainOffset
      /\ drainPc' \in {"lock", "check", "ticket", "asleep", "test", "false"}
           => drainPc \in {"lock", "check", "ticket", "asleep", "test", "false"}
  BY DEF Ring!DrainStep, Ring!DrainLock, Ring!DrainCheck, Ring!DrainTicket, Ring!DrainTest,
         Ring!DrainRead, Ring!DrainClear, Ring!DrainEmpty, Ring!DrainAdvance
<1>4. Cursor' = IF drainPc = "empty" THEN Cursor + 1 ELSE Cursor
  <2>1. CASE drainPc = "empty"
    <3>1. Len(batch') = Len(batch) + 1 BY <1>0, <1>3, <2>1
    <3>2. QED BY <1>1, <1>2, <1>3, <2>1, <3>1 DEF Cursor
  <2>2. CASE drainPc # "empty" BY <1>2, <1>3, <2>2 DEF Cursor
  <2>3. QED BY <2>1, <2>2
<1>5. LossIsNear' BY <1>0, <1>1, <1>4 DEF LossIsNear, TypeOK
<1>6. DrainerPlaced'
  <2>1. drainOffset' = IF drainPc' = "true" THEN Base' + Len(batch') ELSE Base'
    BY <1>0, <1>1, <1>2, <1>3 DEF DrainerPlaced
  <2>2. QED BY <1>0, <1>3, <2>1 DEF DrainerPlaced
<1>7. \A g \in Fetchers : putPc'[g] = putPc[g] \/ (putPc[g] = "asleep" /\ putPc'[g] = "lock")
  BY <1>0, SleepersWake
  DEF Ring!DrainStep, Ring!DrainLock, Ring!DrainCheck, Ring!DrainTicket, Ring!DrainTest,
      Ring!DrainRead, Ring!DrainClear, Ring!DrainEmpty, Ring!DrainAdvance
<1>8. FetchersPlaced' /\ ClosedWhy'
  <2>1. \A g \in Fetchers : /\ putPc'[g] = "idle" <=> putPc[g] = "idle"
                            /\ putPc'[g] = "false" => putPc[g] = "false"
    BY <1>7
  <2>2. QED BY <1>0, <2>1 DEF FetchersPlaced, ClosedWhy
<1>9. TicketsAsleep'
  <2>1. CASE Ring!DrainTicket
    <3>1. /\ tickets' = Append(tickets, Ring!Drainer) /\ drainPc = "ticket"
          /\ drainPc' = "asleep" /\ UNCHANGED putPc
      BY <2>1 DEF Ring!DrainTicket
    <3>2. Ring!Drainer \notin Fetchers BY SegmentBounds DEF Ring!Drainer
    <3>3. \A i \in DOMAIN tickets : tickets[i] # Ring!Drainer BY <1>0, <3>1 DEF TicketsAsleep
    <3>4. /\ DOMAIN tickets' = DOMAIN tickets \cup {Len(tickets) + 1}
          /\ tickets'[Len(tickets) + 1] = Ring!Drainer
          /\ \A i \in DOMAIN tickets : i # Len(tickets) + 1 /\ tickets'[i] = tickets[i]
      BY <1>0, <3>1
    <3>5. QED BY <1>0, <3>1, <3>2, <3>3, <3>4 DEF TicketsAsleep
  <2>2. CASE Ring!DrainAdvance
    <3>1. tickets' = <<>> BY <2>2 DEF Ring!DrainAdvance
    <3>2. QED BY <3>1 DEF TicketsAsleep
  <2>3. CASE ~Ring!DrainTicket /\ ~Ring!DrainAdvance
    <3>1. UNCHANGED <<tickets, putPc>> /\ drainPc # "asleep"
      BY <2>3
      DEF Ring!DrainStep, Ring!DrainLock, Ring!DrainCheck, Ring!DrainTest, Ring!DrainRead,
          Ring!DrainClear, Ring!DrainEmpty
    <3>2. QED BY <1>0, <3>1, TicketsUntouched
  <2>4. QED BY <2>1, <2>2, <2>3
<1>10. QED BY <1>2, <1>4, <1>5, <1>6, <1>8, <1>9 DEF PlaceInv

\* What a step outside Put and DrainBatch leaves alone: at most, it wakes everyone.
Outside ==
    /\ UNCHANGED <<filled, record, drainOffset, putOffset, rec, batch, fetchPos, handed, clobbered>>
    /\ \/ UNCHANGED <<tickets, putPc, drainPc>>
       \/ tickets' = <<>> /\ Ring!Wake(Ring!Sleeping)
    /\ closed => closed'
    /\ cancelled => cancelled'
    /\ drainer' = "drain" <=> drainer = "drain"
    /\ \A g \in Fetchers : /\ fetchPc'[g] = "put" <=> fetchPc[g] = "put"
                           /\ NotRefused(g)' => NotRefused(g)

\* Such a step keeps everyone in place.
LEMMA OutsidePlaces ==
    ASSUME PlaceInv, TypeOK', ClosedWhy', Outside
    PROVE  /\ PlaceInv' /\ UNCHANGED <<Cursor, Base>>
           /\ drainPc' = drainPc \/ (drainPc = "asleep" /\ drainPc' = "lock")
           /\ \A g \in Fetchers : \/ putPc'[g] = putPc[g]
                                  \/ putPc[g] = "asleep" /\ putPc'[g] = "lock"
<1>0. /\ TypeOK /\ TicketsAsleep /\ FetchersPlaced /\ DrainerPlaced /\ LossIsNear
  BY DEF PlaceInv
<1>1. \A g \in Fetchers : putPc'[g] = putPc[g] \/ (putPc[g] = "asleep" /\ putPc'[g] = "lock")
  BY <1>0, SleepersWake DEF Ring!Wake, Outside
<1>2. drainPc' = drainPc \/ (drainPc = "asleep" /\ drainPc' = "lock")
  BY <1>0, SleepersWake DEF Ring!Wake, Outside
<1>3. UNCHANGED <<Cursor, Base>> BY <1>2 DEF Cursor, Base, Outside
<1>4. FetchersPlaced'
  <2>1. \A g \in Fetchers : putPc'[g] = "idle" <=> putPc[g] = "idle" BY <1>1
  <2>2. QED BY <1>0, <2>1 DEF FetchersPlaced, Outside
<1>5. DrainerPlaced' BY <1>0, <1>2, <1>3 DEF DrainerPlaced, Outside
<1>6. TicketsAsleep' BY <1>0 DEF TicketsAsleep, Outside
<1>7. LossIsNear' BY <1>0, <1>3 DEF LossIsNear, Outside
<1>8. QED BY <1>1, <1>2, <1>3, <1>4, <1>5, <1>6, <1>7 DEF PlaceInv

\* The steps outside Put and DrainBatch: a cancellation, the end or the failure of a
\* fetcher, the drainer's end, the callbacks, and the closing of the ring.
LEMMA OutsideSteps ==
    ASSUME PlaceInv,
           \/ Cancel \/ MainStep \/ ProduceSettled \/ ProduceBlocks \/ UNCHANGED vars
           \/ DrainerProgress \/ DrainerEnd \/ (DrainerTop /\ cancelled)
           \/ \E f \in Fetchers : \/ FetchCancelled(f) \/ FetchFails(f) \/ FetchCloses(f)
                                  \/ FetchRecord(f) /\ fetchPc'[f] = "done"
    PROVE  Outside /\ ClosedWhy'
<1>0. /\ ClosedWhy /\ fetchPc \in [Fetchers -> {"poll", "put", "fail", "broadcast", "done"}]
  BY DEF PlaceInv, TypeOK
<1>1. CASE Cancel \/ UNCHANGED vars
  <2>1. /\ UNCHANGED <<filled, record, drainOffset, closed, tickets, putPc, putOffset, drainPc,
                       rec, batch, fetchPc, fetchPos, drainer, handed, main, failed, clobbered>>
        /\ cancelled => cancelled'
    BY <1>1 DEF Cancel, vars, ringVars, ownVars
  <2>2. ClosedWhy' BY <1>0, <2>1 DEF ClosedWhy
  <2>3. \A g \in Fetchers : NotRefused(g)' => NotRefused(g) BY <2>1 DEF NotRefused
  <2>4. QED BY <2>1, <2>2, <2>3 DEF Outside
<1>2. CASE \/ ProduceSettled \/ ProduceBlocks
           \/ DrainerProgress \/ DrainerEnd \/ (DrainerTop /\ cancelled)
  <2>1. /\ UNCHANGED <<ringVars, fetchPc, fetchPos, handed, main, failed, clobbered>>
        /\ drainer' = "drain" <=> drainer = "drain"
    BY <1>2 DEF DrainerTop, DrainerProgress, DrainerEnd, ProduceSettled, ProduceBlocks
  <2>2. ClosedWhy' BY <1>0, <2>1 DEF ClosedWhy, ringVars
  <2>3. \A g \in Fetchers : NotRefused(g)' => NotRefused(g) BY <2>1 DEF NotRefused, ringVars
  <2>4. QED BY <2>1, <2>2, <2>3 DEF Outside, ringVars
<1>3. CASE MainStep
  <2>1. UNCHANGED <<fetchPc, fetchPos, drainer, handed, failed, clobbered>> BY <1>3 DEF MainStep
  <2>2. CASE (\A f \in Fetchers : fetchPc[f] = "done") /\ Ring!SetClosed /\ main' = "close"
    <3>1. ClosedWhy' BY <1>0, <2>1, <2>2 DEF ClosedWhy, Ring!SetClosed
    <3>2. \A g \in Fetchers : NotRefused(g)' => NotRefused(g)
      BY <2>1, <2>2 DEF NotRefused, Ring!SetClosed
    <3>3. QED BY <2>1, <2>2, <3>1, <3>2 DEF Outside, Ring!SetClosed
  <2>3. CASE main = "close" /\ Ring!CloseBroadcast /\ main' = "drainer"
    <3>1. \A g \in Fetchers : putPc'[g] = "false" => putPc[g] = "false"
      BY <2>3 DEF Ring!CloseBroadcast, Ring!Wake
    <3>2. ClosedWhy' BY <1>0, <2>1, <2>3, <3>1 DEF ClosedWhy, Ring!CloseBroadcast
    <3>3. \A g \in Fetchers : NotRefused(g)' => NotRefused(g)
      BY <2>1, <2>3 DEF NotRefused, Ring!CloseBroadcast
    <3>4. QED BY <2>1, <2>3, <3>2, <3>3 DEF Outside, Ring!CloseBroadcast
  <2>4. CASE main = "drainer" /\ main' = "done" /\ UNCHANGED ringVars
    <3>1. ClosedWhy' BY <1>0, <2>1, <2>4 DEF ClosedWhy, ringVars
    <3>2. \A g \in Fetchers : NotRefused(g)' => NotRefused(g)
      BY <2>1, <2>4 DEF NotRefused, ringVars
    <3>3. QED BY <2>1, <2>4, <3>1, <3>2 DEF Outside, ringVars
  <2>5. QED BY <1>3, <2>2, <2>3, <2>4 DEF MainStep
<1>4. CASE \E f \in Fetchers : \/ FetchCancelled(f) \/ FetchFails(f) \/ FetchCloses(f)
                               \/ FetchRecord(f) /\ fetchPc'[f] = "done"
  <2>1. PICK f \in Fetchers : \/ FetchCancelled(f) \/ FetchFails(f) \/ FetchCloses(f)
                              \/ FetchRecord(f) /\ fetchPc'[f] = "done"
    BY <1>4
  <2> USE DEF FetchGoto
  <2>2. CASE FetchCancelled(f) \/ FetchFails(f) \/ (FetchRecord(f) /\ fetchPc'[f] = "done")
    <3>1. /\ fetchPc[f] = "poll"
          /\ \/ fetchPc' = [fetchPc EXCEPT ![f] = "done"] /\ UNCHANGED failed
             \/ fetchPc' = [fetchPc EXCEPT ![f] = "fail"] /\ failed'
          /\ UNCHANGED <<ringVars, fetchPos, drainer, handed, main, clobbered>>
      BY <1>0, <2>2 DEF FetchCancelled, FetchFails, FetchRecord
    <3>2. ClosedWhy' BY <1>0, <3>1 DEF ClosedWhy, ringVars
    <3>3. \A g \in Fetchers : /\ fetchPc'[g] = "put" <=> fetchPc[g] = "put"
                              /\ NotRefused(g)' => NotRefused(g)
      BY <1>0, <3>1 DEF NotRefused, ringVars
    <3>4. QED BY <3>1, <3>2, <3>3 DEF Outside, ringVars
  <2>3. CASE FetchCloses(f)
    <3>0. UNCHANGED <<fetchPos, drainer, handed, main, failed, clobbered>>
      BY <2>3 DEF FetchCloses
    <3>1. CASE fetchPc[f] = "fail" /\ Ring!SetClosed /\ FetchGoto(f, "broadcast")
      <4>1. ClosedWhy' BY <1>0, <3>0, <3>1 DEF ClosedWhy, Ring!SetClosed
      <4>2. \A g \in Fetchers : /\ fetchPc'[g] = "put" <=> fetchPc[g] = "put"
                                /\ NotRefused(g)' => NotRefused(g)
        BY <1>0, <3>0, <3>1 DEF NotRefused, Ring!SetClosed
      <4>3. QED BY <3>0, <3>1, <4>1, <4>2 DEF Outside, Ring!SetClosed
    <3>2. CASE fetchPc[f] = "broadcast" /\ Ring!CloseBroadcast /\ FetchGoto(f, "done")
      <4>1. \A g \in Fetchers : putPc'[g] = "false" => putPc[g] = "false"
        BY <3>2 DEF Ring!CloseBroadcast, Ring!Wake
      <4>2. ClosedWhy' BY <1>0, <3>0, <3>2, <4>1 DEF ClosedWhy, Ring!CloseBroadcast
      <4>3. \A g \in Fetchers : /\ fetchPc'[g] = "put" <=> fetchPc[g] = "put"
                                /\ NotRefused(g)' => NotRefused(g)
        BY <1>0, <3>0, <3>2 DEF NotRefused, Ring!CloseBroadcast
      <4>4. QED BY <3>0, <3>2, <4>2, <4>3 DEF Outside, Ring!CloseBroadcast
    <3>3. QED BY <2>3, <3>1, <3>2 DEF FetchCloses
  <2>4. QED BY <2>1, <2>2, <2>3
<1>5. QED BY <1>1, <1>2, <1>3, <1>4

\* A fetcher has a record and calls Put.
Calls(f, o) ==
    /\ o \in Log /\ fetchPc[f] = "poll" /\ putPc[f] = "idle"
    /\ fetchPos[f] <= o /\ (\A q \in Log : q >= fetchPos[f] => o <= q) /\ o < SegEnd(f)
    /\ fetchPc' = [fetchPc EXCEPT ![f] = "put"]
    /\ putPc' = [putPc EXCEPT ![f] = "load"]
    /\ putOffset' = [putOffset EXCEPT ![f] = o]
    /\ UNCHANGED <<filled, record, drainOffset, closed, tickets, cancelled, drainPc, rec, batch,
                   fetchPos, drainer, handed, main, failed, clobbered>>

\* A fetcher with a record ends, or calls Put.
LEMMA FetchRecordSteps ==
    ASSUME PlaceInv, NEW f \in Fetchers, FetchRecord(f), fetchPc'[f] # "done"
    PROVE  \E o \in Nat : Calls(f, o)
<1>0. /\ fetchPc \in [Fetchers -> {"poll", "put", "fail", "broadcast", "done"}]
      /\ fetchPos[f] \in Nat /\ SegEnd(f) \in Nat /\ Log \subseteq Nat
  BY SegmentBounds, CatchUpAssumption DEF PlaceInv, TypeOK
<1>1. PICK o \in Log :
          /\ o >= fetchPos[f] /\ \A q \in Log : q >= fetchPos[f] => o <= q
          /\ IF o >= SegEnd(f)
             THEN /\ FetchGoto(f, "done")
                  /\ UNCHANGED ringVars
             ELSE /\ FetchGoto(f, "put")
                  /\ Ring!PutCall(f, o)
  BY DEF FetchRecord
<1>2. ~(o >= SegEnd(f)) BY <1>0, <1>1 DEF FetchGoto
<1>3. o \in Nat /\ o < SegEnd(f) /\ fetchPos[f] <= o BY <1>0, <1>1, <1>2
<1>4. QED
  BY <1>1, <1>2, <1>3 DEF FetchRecord, FetchGoto, Ring!PutCall, Ring!PutGoto, Calls

\* The call of Put keeps everyone in place.
LEMMA CallPlaces ==
    ASSUME PlaceInv, TypeOK', NEW f \in Fetchers, NEW o \in Nat, Calls(f, o)
    PROVE  PlaceInv' /\ UNCHANGED <<Cursor, Base>>
<1> USE DEF Calls
<1>0. /\ TypeOK /\ TicketsAsleep /\ FetchersPlaced /\ DrainerPlaced /\ ClosedWhy /\ LossIsNear
      /\ putPc \in [Fetchers -> Ring!PutPcs] /\ putOffset \in [Fetchers -> Nat]
      /\ fetchPc \in [Fetchers -> {"poll", "put", "fail", "broadcast", "done"}]
  BY DEF PlaceInv, TypeOK, Ring!RingTypeOK
<1>1. UNCHANGED <<Cursor, Base>> BY DEF Cursor, Base
<1>2. \A g \in Fetchers : g # f => /\ putPc'[g] = putPc[g] /\ putOffset'[g] = putOffset[g]
                                   /\ fetchPc'[g] = fetchPc[g]
  BY <1>0
<1>3. putPc'[f] = "load" /\ putOffset'[f] = o /\ fetchPc'[f] = "put" BY <1>0
<1>4. FetchersPlaced' BY <1>0, <1>2, <1>3 DEF FetchersPlaced
<1>5. DrainerPlaced' /\ LossIsNear' BY <1>0, <1>1 DEF DrainerPlaced, LossIsNear
<1>6. ClosedWhy' BY <1>0, <1>2, <1>3 DEF ClosedWhy
<1>7. TicketsAsleep' BY <1>0, <1>2, <1>3, TicketsUntouched
<1>8. QED BY <1>1, <1>4, <1>5, <1>6, <1>7 DEF PlaceInv

\* A fetcher looks at the result of Put: its place afterwards.
LEMMA FetchNextSteps ==
    ASSUME PlaceInv, NEW f \in Fetchers, FetchNext(f)
    PROVE  /\ putPc[f] \in {"true", "false"} /\ putPc'[f] = "idle" /\ fetchPc[f] = "put"
           /\ fetchPos'[f] = putOffset[f] + 1
           /\ fetchPc'[f] = IF putPc[f] = "true" /\ putOffset[f] < SegEnd(f) - 1
                            THEN "poll" ELSE "done"
           /\ \A g \in Fetchers : g # f => /\ putPc'[g] = putPc[g] /\ fetchPos'[g] = fetchPos[g]
                                           /\ fetchPc'[g] = fetchPc[g]
           /\ UNCHANGED <<filled, record, tickets, drainOffset, closed, cancelled, putOffset,
                          drainPc, rec, batch, drainer, handed, main, failed, clobbered>>
<1>0. /\ putPc \in [Fetchers -> Ring!PutPcs] /\ fetchPos \in [Fetchers -> Nat]
      /\ fetchPc \in [Fetchers -> {"poll", "put", "fail", "broadcast", "done"}]
  BY DEF PlaceInv, TypeOK, Ring!RingTypeOK
<1>1. QED BY <1>0 DEF FetchNext, FetchGoto, Ring!PutReturn, Ring!PutGoto, Ring!PutFrame

\* The return of Put keeps everyone in place.
LEMMA NextPlaces ==
    ASSUME PlaceInv, TypeOK', NEW f \in Fetchers, FetchNext(f)
    PROVE  PlaceInv' /\ UNCHANGED <<Cursor, Base>>
<1>0. /\ TypeOK /\ TicketsAsleep /\ FetchersPlaced /\ DrainerPlaced /\ ClosedWhy /\ LossIsNear
  BY DEF PlaceInv
<1>1. /\ putPc[f] \in {"true", "false"} /\ putPc'[f] = "idle" /\ fetchPc[f] = "put"
      /\ fetchPos'[f] = putOffset[f] + 1 /\ fetchPc'[f] \in {"poll", "done"}
      /\ \A g \in Fetchers : g # f => /\ putPc'[g] = putPc[g] /\ fetchPos'[g] = fetchPos[g]
                                      /\ fetchPc'[g] = fetchPc[g]
      /\ UNCHANGED <<tickets, drainOffset, closed, cancelled, putOffset,
                     drainPc, batch, drainer, handed, main, failed, clobbered>>
  BY FetchNextSteps
<1>2. UNCHANGED <<Cursor, Base>> BY <1>1 DEF Cursor, Base
<1>3. FetchersPlaced'
  <2>1. putOffset[f] \in Nat /\ SegStart(f) <= putOffset[f] /\ putOffset[f] < SegEnd(f)
    BY <1>0, <1>1, PutInSegment
  <2>2. SegStart(f) <= putOffset[f] + 1 /\ putOffset[f] + 1 <= SegEnd(f)
    BY <2>1, SegmentBounds
  <2>3. QED BY <1>0, <1>1, <2>2 DEF FetchersPlaced
<1>4. DrainerPlaced' /\ LossIsNear' BY <1>0, <1>1, <1>2 DEF DrainerPlaced, LossIsNear
<1>5. ClosedWhy' BY <1>0, <1>1 DEF ClosedWhy
<1>6. TicketsAsleep' BY <1>0, <1>1, TicketsUntouched
<1>7. QED BY <1>2, <1>3, <1>4, <1>5, <1>6 DEF PlaceInv

\* The call and the return of DrainBatch: the cursor stays where it is.
LEMMA CallerPlaces ==
    ASSUME PlaceInv, TypeOK', (DrainerTop /\ ~cancelled) \/ DrainerBatch
    PROVE  /\ PlaceInv' /\ UNCHANGED Cursor
           /\ drainPc \in {"idle", "true", "false"} /\ drainPc' \in {"idle", "lock"}
           /\ UNCHANGED <<filled, record, tickets, putPc, rec, closed, cancelled,
                          putOffset, fetchPc, fetchPos, main, failed, clobbered>>
<1>0. /\ TypeOK /\ TicketsAsleep /\ FetchersPlaced /\ DrainerPlaced /\ ClosedWhy /\ LossIsNear
      /\ handed \in Seq(Nat \cup {Ring!Nil}) /\ batch \in Seq(Nat \cup {Ring!Nil})
      /\ Base \in Nat
  <2>1. TypeOK /\ TicketsAsleep /\ FetchersPlaced /\ DrainerPlaced /\ ClosedWhy /\ LossIsNear
    BY DEF PlaceInv
  <2>2. handed \in Seq(Nat \cup {Ring!Nil}) /\ batch \in Seq(Nat \cup {Ring!Nil})
    BY <2>1 DEF TypeOK, Ring!RingTypeOK
  <2>3. QED BY <2>1, <2>2, CursorFacts
<1>1. /\ drainPc \in {"idle", "true", "false"} /\ drainPc' \in {"idle", "lock"}
      /\ UNCHANGED <<filled, record, drainOffset, tickets, putPc, rec, closed, cancelled,
                     putOffset, fetchPc, fetchPos, main, failed, clobbered>>
  BY DEF DrainerTop, DrainerBatch, Ring!DrainCall, Ring!DrainReturn, Ring!DrainFrame
<1>2. FetchersPlaced' /\ ClosedWhy' BY <1>0, <1>1 DEF FetchersPlaced, ClosedWhy
<1>3. TicketsAsleep' BY <1>0, <1>1, TicketsUntouched
<1>4. DrainerPlaced' /\ UNCHANGED Cursor
  <2>1. CASE DrainerTop /\ ~cancelled
    <3>1. /\ drainPc = "idle" /\ drainPc' = "lock" /\ batch' = <<>> /\ UNCHANGED handed
          /\ drainer' = "drain"
      BY <2>1 DEF DrainerTop, Ring!DrainCall
    <3>2. UNCHANGED Base /\ Len(batch') = 0 BY <3>1 DEF Base
    <3>3. QED BY <1>0, <1>1, <3>1, <3>2 DEF Cursor, DrainerPlaced
  <2>2. CASE DrainerBatch
    <3>1. /\ drainPc' = "idle" /\ drainPc \in {"true", "false"} /\ drainer' # "drain"
          /\ drainPc = "false" => batch = <<>>
      BY <1>0, <2>2 DEF DrainerBatch, Ring!DrainReturn, DrainerPlaced
    <3>2. Base' = Base + Len(batch)
      <4>1. CASE batch = <<>> BY <1>0, <2>2, <4>1 DEF DrainerBatch, Base
      <4>2. CASE batch # <<>>
        <5>1. handed' = handed \o batch BY <2>2, <3>1, <4>2 DEF DrainerBatch
        <5>2. Len(handed') = Len(handed) + Len(batch) BY <1>0, <5>1
        <5>3. QED BY <1>0, <5>2, CatchUpAssumption DEF Base
      <4>3. QED BY <4>1, <4>2
    <3>3. UNCHANGED Cursor BY <3>1, <3>2 DEF Cursor
    <3>4. drainPc = "false" => Base' = Base
      <4>1. batch = <<>> => Len(batch) = 0 OBVIOUS
      <4>2. QED BY <1>0, <3>1, <3>2, <4>1
    <3>5. DrainerPlaced' BY <1>0, <1>1, <3>1, <3>2, <3>4 DEF DrainerPlaced
    <3>6. QED BY <3>3, <3>5
  <2>3. QED BY <2>1, <2>2
<1>5. LossIsNear' BY <1>0, <1>1, <1>4 DEF LossIsNear
<1>6. QED BY <1>1, <1>2, <1>3, <1>4, <1>5 DEF PlaceInv

\* The kinds of steps.
LEMMA StepKinds ==
    ASSUME PlaceInv, [Next]_vars
    PROVE  \/ Outside /\ ClosedWhy'
           \/ \E f \in Fetchers : \E o \in Nat : Calls(f, o)
           \/ \E f \in Fetchers : FetchNext(f)
           \/ \E f \in Fetchers : Ring!PutStep(f) /\ NoteWrite(f) /\ UNCHANGED flowVars
           \/ Ring!DrainStep /\ UNCHANGED ownVars
           \/ (DrainerTop /\ ~cancelled) \/ DrainerBatch
<1>1. CASE \E f \in Fetchers : FetchRecord(f)
  <2>1. PICK f \in Fetchers : FetchRecord(f) BY <1>1
  <2>2. QED BY <2>1, FetchRecordSteps, OutsideSteps
<1>2. QED BY <1>1, OutsideSteps DEF Next, FetchStep, DrainerStep, flowVars

\* PlaceInv is inductive, whatever the slots hold.
LEMMA PlaceStep ==
    ASSUME PlaceInv, [Next]_vars
    PROVE  PlaceInv'
<1>1. TypeOK' BY TypeStep DEF PlaceInv
<1>2. QED
  BY <1>1, StepKinds, OutsidePlaces, CallPlaces, NextPlaces, PutPlaces, DrainPlaces, CallerPlaces

\* The cursor never goes back, and a lost slot is never found again.
LEMMA SoundBefore ==
    ASSUME PlaceInv, [Next]_vars, Sound'
    PROVE  Sound
<1>1. TypeOK' /\ PlaceInv' BY TypeStep, PlaceStep DEF PlaceInv
<1>2. Cursor \in Nat /\ clobbered \subseteq Nat BY CursorFacts DEF PlaceInv, TypeOK
<1>3. Cursor' \in {Cursor, Cursor + 1}
  BY <1>1, StepKinds, OutsidePlaces, CallPlaces, NextPlaces, PutPlaces, DrainPlaces, CallerPlaces
<1>4. clobbered \subseteq clobbered'
  BY StepKinds, FetchNextSteps, CallerPlaces, <1>1 DEF Outside, Calls, NoteWrite, ownVars
<1>5. QED BY <1>2, <1>3, <1>4 DEF Sound

(***************************************************************************)
(* The slots.                                                              *)
(***************************************************************************)

\* A record about to be put has not been drained.
LEMMA PutIsAhead ==
    ASSUME PlaceInv, DrainedWerePut, NEW f \in Fetchers, putPc[f] \notin {"idle", "signal", "true"}
    PROVE  Cursor <= putOffset[f] /\ ~Published(f, putOffset[f])
<1>1. TypeOK /\ FetchersPlaced /\ DrainerPlaced BY DEF PlaceInv
<1>2. /\ putOffset[f] \in Nat /\ SegStart(f) <= putOffset[f] /\ putOffset[f] < SegEnd(f)
      /\ StartOffset <= putOffset[f]
  BY <1>1, PutInSegment
<1>3. Cursor \in Nat BY <1>1, CursorFacts
<1>4. ~Published(f, putOffset[f]) BY <1>2 DEF Published, Frontier
<1>5. QED BY <1>2, <1>3, <1>4 DEF DrainedWerePut

\* Two offsets less than a turn of the ring ahead that share a slot are the same.
LEMMA OneInTurn ==
    ASSUME NEW a \in Nat, NEW b \in Nat, Cursor \in Nat, Cursor <= a, a < Cursor + RingCap,
           Cursor <= b, b < Cursor + RingCap, Slot(a) = Slot(b)
    PROVE  a = b
<1>1. RingCap \in Nat \ {0} /\ a % RingCap = b % RingCap BY Parameters DEF Slot
<1>2. b < a + RingCap /\ a < b + RingCap BY <1>1
<1>3. CASE a <= b BY <1>1, <1>2, <1>3, SameSlot
<1>4. CASE b <= a BY <1>1, <1>2, <1>4, SameSlot
<1>5. QED BY <1>3, <1>4

\* A record written where it takes no other's slot is less than a turn ahead.
LEMMA HitOrNear ==
    ASSUME NEW o \in Nat, Cursor \in Nat, Cursor <= o, Hit(o) = {}
    PROVE  o < Cursor + RingCap
<1>1. RingCap \in Nat \ {0} BY Parameters
<1>2. PICK c \in Cursor .. Cursor + RingCap - 1 : c % RingCap = o % RingCap
  BY <1>1, SlotInTurn
<1>3. c \notin Hit(o) OBVIOUS
<1>4. c = o BY <1>2, <1>3 DEF Hit, Ring!slotIndex
<1>5. QED BY <1>1, <1>2, <1>4

\* A record written where it takes another's slot loses the slot.
LEMMA HitLoses ==
    ASSUME NEW o \in Nat, NEW c \in Hit(o)
    PROVE  Slot(c) = Slot(o)
  BY DEF Hit, Ring!slotIndex, Slot

\* A step that leaves the slots, the cursor and the record in the drainer's hand alone,
\* and what each fetcher has put and is about to, keeps what is known of the slots.
LEMMA SlotsUntouched ==
    ASSUME PlaceInv, SlotInv, UNCHANGED <<Cursor, filled, record, clobbered>>,
           drainPc' \in {"clear", "empty"} \/ drainPc = "empty" => UNCHANGED <<drainPc, rec>>,
           \A f \in Fetchers : \A o \in Nat :
               /\ Published(f, o) => Published(f, o)'
               /\ NotRefused(f)' /\ Published(f, o)' => NotRefused(f) /\ Published(f, o),
           \A f \in Fetchers : putPc'[f] \in {"cas", "store"}
                                   => putPc'[f] = putPc[f] /\ putOffset'[f] = putOffset[f]
    PROVE  SlotInv'
<1> USE DEF SlotInv
<1>0. \A s : Lost(s)' <=> Lost(s) BY DEF Lost
<1>1. DrainedWerePut' BY DEF DrainedWerePut
<1>2. \A t \in Ring!Slots : Holding(t)' <=> Holding(t) BY DEF Holding
<1>3. SlotsHold' BY <1>0, <1>2 DEF SlotsHold
<1>4. PutsKept'
  <2>1. \A o \in Nat : Slot(o) \in Ring!Slots BY SlotInRing
  <2>2. drainPc = "empty" => drainPc' = "empty" OBVIOUS
  <2>3. QED BY <1>0, <1>2, <2>1, <2>2 DEF PutsKept
<1>5. TakesNext'
  <2>1. Cursor \in Nat BY CursorFacts DEF PlaceInv
  <2>2. QED BY <1>0, <2>1 DEF TakesNext
<1>6. SlotFree' BY <1>0 DEF SlotFree
<1>7. QED BY <1>1, <1>3, <1>4, <1>5, <1>6

\* A step that moves fetchers at most from sleep to the mutex or from Signal to the
\* return of Put.
LEMMA SlotsSame ==
    ASSUME PlaceInv, SlotInv, UNCHANGED <<Cursor, filled, record, clobbered, putOffset, fetchPos>>,
           drainPc' \in {"clear", "empty"} \/ drainPc = "empty" => UNCHANGED <<drainPc, rec>>,
           \A g \in Fetchers :
               /\ \/ putPc'[g] = putPc[g]
                  \/ putPc[g] = "asleep" /\ putPc'[g] = "lock"
                  \/ putPc[g] = "signal" /\ putPc'[g] = "true"
               /\ NotRefused(g)' => NotRefused(g)
    PROVE  SlotInv'
<1>1. \A g \in Fetchers : Frontier(g)' = Frontier(g) BY DEF Frontier
<1>2. \A g \in Fetchers : \A o \in Nat :
        (Published(g, o)' <=> Published(g, o)) /\ (NotRefused(g)' => NotRefused(g))
  BY <1>1 DEF Published
<1>3. QED BY <1>2, SlotsUntouched

\* A fetcher moves on inside Put without touching a slot.
LEMMA PutLooks ==
    ASSUME PlaceInv, SlotInv, NEW f \in Fetchers, Ring!PutFrame, UNCHANGED ownVars,
           \/ Ring!PutLoad(f) \/ Ring!PutLock(f) \/ Ring!PutCheck(f)
           \/ Ring!PutTicket(f) \/ Ring!PutRetest(f)
           \/ Ring!PutCas(f) /\ filled[Ring!slotIndex(putOffset[f])]
    PROVE  SlotInv'
<1> USE DEF Ring!PutFrame
<1>1. putPc \in [Fetchers -> Ring!PutPcs] BY DEF PlaceInv, TypeOK, Ring!RingTypeOK
<1>2. /\ UNCHANGED <<filled, record>>
      /\ putPc[f] \notin {"idle", "signal", "true"}
      /\ putPc'[f] \notin {"idle", "signal", "true", "cas", "store"}
      /\ \A g \in Fetchers : g # f => putPc'[g] = putPc[g]
  BY <1>1
  DEF Ring!PutGoto, Ring!PutLoad, Ring!PutCas, Ring!PutLock, Ring!PutCheck, Ring!PutTicket,
      Ring!PutRetest
<1>3. \A g \in Fetchers : Frontier(g)' = Frontier(g) BY <1>2 DEF Frontier, ownVars
<1>4. UNCHANGED <<Cursor, clobbered>> BY DEF Cursor, Base, ownVars
<1>5. \A g \in Fetchers : \A o \in Nat :
        (Published(g, o)' <=> Published(g, o)) /\ (NotRefused(g)' <=> NotRefused(g))
  BY <1>3 DEF Published, NotRefused, ownVars
<1>6. QED BY <1>2, <1>4, <1>5, SlotsUntouched

\* Nobody else is about to publish a record in a slot that is not lost.
LEMMA PutsApart ==
    ASSUME PlaceInv, SlotInv, NEW f \in Fetchers, NEW g \in Fetchers, f # g,
           putPc[f] \notin {"idle", "signal", "true"}, putOffset[f] < Cursor + RingCap,
           putPc[g] \in {"cas", "store"}, Slot(putOffset[g]) = Slot(putOffset[f])
    PROVE  Lost(Slot(putOffset[f]))
<1>1. SUFFICES ASSUME ~Lost(Slot(putOffset[f])) PROVE FALSE OBVIOUS
<1>2. TypeOK /\ FetchersPlaced /\ DrainerPlaced BY DEF PlaceInv
<1>3. putOffset[g] < Cursor + RingCap BY <1>1 DEF SlotInv, SlotFree
<1>4. Cursor <= putOffset[f] /\ Cursor <= putOffset[g] BY PutIsAhead DEF SlotInv
<1>5. putOffset[f] \in Nat /\ putOffset[g] \in Nat /\ Cursor \in Nat
  BY <1>2, PutInSegment, CursorFacts
<1>6. putOffset[f] = putOffset[g] BY <1>3, <1>4, <1>5, OneInTurn
<1>7. QED BY <1>2, <1>6, PutInSegment, SegmentsApart

\* The slot of a record about to be put, less than a turn ahead, is empty, unless lost.
LEMMA SlotIsEmpty ==
    ASSUME PlaceInv, SlotInv, NEW f \in Fetchers, putPc[f] \notin {"idle", "signal", "true"},
           putOffset[f] < Cursor + RingCap, ~Lost(Slot(putOffset[f]))
    PROVE  ~filled[Slot(putOffset[f])]
<1> DEFINE p == putOffset[f]
           s == Slot(p)
<1>0. TypeOK /\ FetchersPlaced /\ DrainerPlaced BY DEF PlaceInv
<1>1. p \in Nat /\ SegStart(f) <= p /\ p < SegEnd(f) /\ s \in Ring!Slots BY <1>0, PutInSegment
<1>2. Cursor <= p /\ ~Published(f, p) BY PutIsAhead DEF SlotInv
<1>3. Cursor \in Nat /\ RingCap \in Nat \ {0} BY <1>0, CursorFacts, Parameters
<1> HIDE DEF p
<1>4. \A g \in Fetchers : ~Published(g, p)
  BY <1>1, <1>2, SegmentsApart DEF Published
<1>5. CASE Holding(s)
  <2>1. /\ record[s] \in Nat /\ Slot(record[s]) = s
        /\ Cursor <= record[s] /\ record[s] < Cursor + RingCap
        /\ \E g \in Fetchers : Published(g, record[s])
    BY <1>1, <1>5 DEF SlotInv, SlotsHold, p
  <2>2. record[s] = p BY <1>1, <1>2, <1>3, <2>1, OneInTurn DEF p
  <2>3. QED BY <1>4, <2>1, <2>2
<1>6. CASE drainPc = "empty" /\ s = Slot(Cursor)
  <2>1. \E g \in Fetchers : Published(g, Cursor) BY <1>6 DEF SlotInv, TakesNext, p
  <2>2. Cursor = p BY <1>1, <1>2, <1>3, <1>6, OneInTurn DEF p
  <2>3. QED BY <1>4, <2>1, <2>2
<1>7. QED BY <1>5, <1>6 DEF Holding, p

\* The plain write of a record goes to a slot nobody reads, or the slot is lost.
LEMMA PutWrites ==
    ASSUME PlaceInv, SlotInv, NEW f \in Fetchers, Ring!PutWrite(f), Ring!PutFrame,
           NoteWrite(f), UNCHANGED flowVars
    PROVE  SlotInv'
<1> USE DEF Ring!PutGoto, Ring!PutFrame
<1> DEFINE p == putOffset[f]
           s == Slot(p)
           Gone(t) == \E c \in clobbered \cup Hit(p) : Slot(c) = t
<1>0. /\ TypeOK /\ FetchersPlaced /\ DrainerPlaced
      /\ putPc \in [Fetchers -> Ring!PutPcs] /\ record \in [Ring!Slots -> Nat \cup {Ring!Nil}]
  BY DEF PlaceInv, TypeOK, Ring!RingTypeOK
<1>1. /\ putPc[f] \in {"write", "rewrite"} /\ putPc'[f] \in {"cas", "store"}
      /\ \A g \in Fetchers : g # f => putPc'[g] = putPc[g]
      /\ s \in Ring!Slots /\ p \in Nat /\ record' = [record EXCEPT ![s] = p]
      /\ UNCHANGED filled
  BY <1>0, PutInSegment DEF Ring!PutWrite
<1>2. clobbered' = clobbered \cup Hit(p) BY <1>1 DEF NoteWrite
<1>3. \A g \in Fetchers : Frontier(g)' = Frontier(g) BY <1>0, <1>1 DEF Frontier, flowVars
<1>4. UNCHANGED <<Cursor, drainPc, rec, putOffset>> BY DEF Cursor, Base, flowVars
<1>5. \A g \in Fetchers : \A o \in Nat :
        (Published(g, o)' <=> Published(g, o)) /\ (NotRefused(g)' <=> NotRefused(g))
  BY <1>3 DEF Published, NotRefused, flowVars
<1>6. Cursor \in Nat /\ Slot(Cursor) \in Ring!Slots /\ Cursor <= p
  BY <1>0, <1>1, CursorFacts, PutIsAhead DEF SlotInv
<1>7. \A t \in Ring!Slots : (Holding(t)' <=> Holding(t)) /\ (t # s => record'[t] = record[t])
  BY <1>0, <1>1, <1>4 DEF Holding
<1>8. \A t : (Lost(t)' <=> Gone(t)) /\ (Lost(t) => Gone(t)) BY <1>2 DEF Lost, Slot
<1>9. ~Gone(s) => /\ UNCHANGED clobbered /\ ~filled[s] /\ p < Cursor + RingCap
                   /\ record'[s] = p
                   /\ \A g \in Fetchers : g # f /\ putPc[g] \in {"cas", "store"}
                                            => Slot(putOffset[g]) # s
  <2>1. SUFFICES ASSUME ~Gone(s)
                 PROVE  /\ UNCHANGED clobbered /\ ~filled[s] /\ p < Cursor + RingCap
                        /\ record'[s] = p
                        /\ \A g \in Fetchers : g # f /\ putPc[g] \in {"cas", "store"}
                                                 => Slot(putOffset[g]) # s
    OBVIOUS
  <2>2. Hit(p) = {}
    <3>1. SUFFICES ASSUME NEW c \in Hit(p) PROVE FALSE OBVIOUS
    <3>2. Slot(c) = s BY <1>1, <3>1, HitLoses
    <3>3. QED BY <2>1, <3>2
  <2>3. ~Lost(s) BY <1>8, <2>1
  <2>4. p < Cursor + RingCap BY <1>1, <1>6, <2>2, HitOrNear
  <2>5. ~filled[s] BY <1>1, <2>3, <2>4, SlotIsEmpty
  <2>6. \A g \in Fetchers : g # f /\ putPc[g] \in {"cas", "store"} => Slot(putOffset[g]) # s
    BY <1>1, <2>3, <2>4, PutsApart
  <2>7. QED BY <1>0, <1>1, <1>2, <2>2, <2>4, <2>5, <2>6
<1>10. \A o \in Nat : Slot(o) \in Ring!Slots BY SlotInRing
<1>11. DrainedWerePut' BY <1>4, <1>5 DEF SlotInv, DrainedWerePut
<1> HIDE DEF p, s, Gone
<1>12. SlotsHold'
  <2>1. SUFFICES ASSUME NEW t \in Ring!Slots, Holding(t)', ~Gone(t)
                 PROVE  /\ record'[t] \in Nat /\ Slot(record'[t]) = t
                        /\ Cursor <= record'[t] /\ record'[t] < Cursor + RingCap
                        /\ \E g \in Fetchers : Published(g, record'[t])
    BY <1>4, <1>5, <1>8 DEF SlotsHold
  <2>2. t # s BY <1>7, <1>9, <2>1 DEF Holding
  <2>3. QED BY <1>5, <1>7, <1>8, <2>1, <2>2 DEF SlotInv, SlotsHold
<1>13. PutsKept'
  <2>1. SUFFICES ASSUME NEW g \in Fetchers, NEW o \in Nat, NotRefused(g), Published(g, o),
                        Cursor <= o, ~Gone(Slot(o))
                 PROVE  \/ Holding(Slot(o))' /\ record'[Slot(o)] = o
                        \/ drainPc = "empty" /\ o = Cursor
    BY <1>4, <1>5, <1>8 DEF PutsKept, Slot
  <2>2. \/ Holding(Slot(o)) /\ record[Slot(o)] = o
        \/ drainPc = "empty" /\ o = Cursor
    BY <1>8, <2>1 DEF SlotInv, PutsKept
  <2>3. Holding(Slot(o)) => Slot(o) # s BY <1>9, <2>1 DEF Holding
  <2>4. QED BY <1>7, <1>10, <2>2, <2>3
<1>14. TakesNext'
  <2>1. SUFFICES ASSUME ~Gone(Slot(Cursor))
                 PROVE  /\ drainPc \in {"clear", "empty"} =>
                             /\ rec = Cursor /\ filled[Slot(Cursor)]
                             /\ \E g \in Fetchers : Published(g, Cursor)
                        /\ drainPc = "clear" => record'[Slot(Cursor)] = Cursor
                        /\ drainPc = "empty" => record'[Slot(Cursor)] = Ring!Nil
    BY <1>1, <1>4, <1>5, <1>6, <1>8 DEF TakesNext, Slot
  <2>2. ~Lost(Slot(Cursor)) BY <1>8, <2>1
  <2>3. filled[Slot(Cursor)] => Slot(Cursor) # s BY <1>9, <2>1
  <2>4. QED BY <1>6, <1>7, <2>2, <2>3 DEF SlotInv, TakesNext
<1>15. SlotFree'
  <2>1. SUFFICES ASSUME NEW g \in Fetchers, putPc'[g] \in {"cas", "store"},
                        ~Gone(Slot(putOffset[g]))
                 PROVE  /\ ~filled[Slot(putOffset[g])]
                        /\ record'[Slot(putOffset[g])] = putOffset[g]
                        /\ putOffset[g] < Cursor + RingCap
    BY <1>1, <1>4, <1>8 DEF SlotFree, Slot
  <2>2. CASE g = f BY <1>9, <2>1, <2>2 DEF p, s
  <2>3. CASE g # f
    <3>1. putPc[g] \in {"cas", "store"} BY <1>1, <2>1, <2>3
    <3>2. Slot(putOffset[g]) # s BY <1>9, <2>1, <2>3, <3>1
    <3>3. Slot(putOffset[g]) \in Ring!Slots BY <1>0, <3>1, PutInSegment
    <3>4. QED BY <1>7, <1>8, <2>1, <3>1, <3>2, <3>3 DEF SlotInv, SlotFree
  <2>4. QED BY <2>2, <2>3
<1>16. QED BY <1>11, <1>12, <1>13, <1>14, <1>15 DEF SlotInv

\* A slot is filled, by the compare-and-swap or by the store.
LEMMA PutFills ==
    ASSUME PlaceInv, SlotInv, NEW f \in Fetchers, putPc[f] \in {"cas", "store"},
           putPc' = [putPc EXCEPT ![f] = "signal"],
           filled' = [filled EXCEPT ![Slot(putOffset[f])] = TRUE],
           UNCHANGED record, Ring!PutFrame, UNCHANGED ownVars
    PROVE  SlotInv'
<1> USE DEF Ring!PutFrame
<1> DEFINE p == putOffset[f]
           s == Slot(p)
<1>0. /\ TypeOK /\ FetchersPlaced /\ DrainerPlaced
      /\ putPc \in [Fetchers -> Ring!PutPcs] /\ filled \in [Ring!Slots -> BOOLEAN]
  BY DEF PlaceInv, TypeOK, Ring!RingTypeOK
<1>1. /\ s \in Ring!Slots /\ p \in Nat /\ p \in Log /\ SegStart(f) <= p /\ p < SegEnd(f)
  BY <1>0, PutInSegment
<1>2. \A g \in Fetchers : g # f => Frontier(g)' = Frontier(g) BY <1>0 DEF Frontier, ownVars
<1>3. Frontier(f) = p /\ Frontier(f)' = p + 1 BY <1>0 DEF Frontier
<1>4. UNCHANGED <<Cursor, drainPc, rec, putOffset, clobbered>> BY DEF Cursor, Base, ownVars
<1>5. Cursor \in Nat /\ Slot(Cursor) \in Ring!Slots /\ Cursor <= p
  BY <1>0, CursorFacts, PutIsAhead DEF SlotInv
<1>6. \A t : Lost(t)' <=> Lost(t) BY <1>4 DEF Lost
<1>7. ~Lost(s) => /\ ~filled[s] /\ record[s] = p /\ p < Cursor + RingCap
                  /\ \A g \in Fetchers : g # f /\ putPc[g] \in {"cas", "store"}
                                           => Slot(putOffset[g]) # s
  <2>1. SUFFICES ASSUME ~Lost(s)
                 PROVE  /\ ~filled[s] /\ record[s] = p /\ p < Cursor + RingCap
                        /\ \A g \in Fetchers : g # f /\ putPc[g] \in {"cas", "store"}
                                                 => Slot(putOffset[g]) # s
    OBVIOUS
  <2>2. ~filled[s] /\ record[s] = p /\ p < Cursor + RingCap BY <2>1 DEF SlotInv, SlotFree
  <2>3. QED BY <2>1, <2>2, PutsApart
<1>8. \A t \in Ring!Slots : filled'[t] <=> filled[t] \/ t = s BY <1>0, <1>1
<1> HIDE DEF p, s
<1>9. \A g \in Fetchers : \A o \in Nat :
        /\ Published(g, o)' <=> Published(g, o) \/ (g = f /\ o = p)
        /\ NotRefused(g)' <=> NotRefused(g)
  <2>1. \A g \in Fetchers : NotRefused(g)' <=> NotRefused(g) BY DEF NotRefused, ownVars
  <2>2. \A o \in Nat : Published(f, o)' <=> Published(f, o) \/ o = p
    BY <1>1, <1>3 DEF Published
  <2>3. \A g \in Fetchers : g # f => \A o \in Nat : Published(g, o)' <=> Published(g, o)
    BY <1>2 DEF Published
  <2>4. QED BY <2>1, <2>2, <2>3
<1>10. drainPc = "empty" /\ ~Lost(s) => s # Slot(Cursor) BY <1>7 DEF SlotInv, TakesNext
<1>11. \A t \in Ring!Slots : ~Lost(t) => (Holding(t)' <=> Holding(t) \/ t = s)
  BY <1>4, <1>8, <1>10 DEF Holding
<1>12. DrainedWerePut' BY <1>4, <1>9 DEF SlotInv, DrainedWerePut
<1>13. SlotsHold'
  <2>1. SUFFICES ASSUME NEW t \in Ring!Slots, Holding(t)', ~Lost(t)
                 PROVE  /\ record[t] \in Nat /\ Slot(record[t]) = t
                        /\ Cursor <= record[t] /\ record[t] < Cursor + RingCap
                        /\ \E g \in Fetchers : Published(g, record[t])'
    BY <1>4, <1>6 DEF SlotsHold
  <2>2. CASE t = s BY <1>1, <1>5, <1>7, <1>9, <2>1, <2>2 DEF s
  <2>3. CASE t # s BY <1>9, <1>11, <2>1, <2>3 DEF SlotInv, SlotsHold
  <2>4. QED BY <2>2, <2>3
<1>14. PutsKept'
  <2>1. SUFFICES ASSUME NEW g \in Fetchers, NEW o \in Nat, NotRefused(g), Published(g, o)',
                        Cursor <= o, ~Lost(Slot(o))
                 PROVE  \/ Holding(Slot(o))' /\ record[Slot(o)] = o
                        \/ drainPc = "empty" /\ o = Cursor
    BY <1>4, <1>6, <1>9 DEF PutsKept
  <2>2. Slot(o) \in Ring!Slots BY SlotInRing
  <2>3. CASE g = f /\ o = p BY <1>1, <1>7, <1>11, <2>1, <2>3 DEF s
  <2>4. CASE Published(g, o) BY <1>11, <2>1, <2>2, <2>4 DEF SlotInv, PutsKept
  <2>5. QED BY <1>9, <2>1, <2>3, <2>4
<1>15. TakesNext'
  <2>1. filled[Slot(Cursor)] => filled'[Slot(Cursor)] BY <1>5, <1>8
  <2>2. QED BY <2>1, <1>4, <1>5, <1>6, <1>9 DEF SlotInv, TakesNext
<1>16. SlotFree'
  <2>1. SUFFICES ASSUME NEW g \in Fetchers, putPc'[g] \in {"cas", "store"},
                        ~Lost(Slot(putOffset[g]))
                 PROVE  /\ ~filled'[Slot(putOffset[g])]
                        /\ record[Slot(putOffset[g])] = putOffset[g]
                        /\ putOffset[g] < Cursor + RingCap
    BY <1>4, <1>6 DEF SlotFree
  <2>2. g # f /\ putPc[g] \in {"cas", "store"} BY <1>0, <2>1
  <2>3. Slot(putOffset[g]) # s /\ Slot(putOffset[g]) \in Ring!Slots
    BY <1>0, <1>7, <2>1, <2>2, PutInSegment
  <2>4. QED BY <1>8, <2>1, <2>2, <2>3 DEF SlotInv, SlotFree
<1>17. QED BY <1>12, <1>13, <1>14, <1>15, <1>16 DEF SlotInv

\* Every step of Put keeps the slots.
LEMMA PutSlots ==
    ASSUME PlaceInv, PlaceInv', SlotInv, NEW f \in Fetchers, Ring!PutStep(f), NoteWrite(f),
           UNCHANGED flowVars
    PROVE  SlotInv'
<1>0. putPc[f] # "idle" => Ring!slotIndex(putOffset[f]) = Slot(putOffset[f])
  BY PutInSegment DEF PlaceInv
<1>1. CASE Ring!PutFrame /\ Ring!PutWrite(f) BY <1>1, PutWrites
<1>2. ASSUME putPc[f] \notin {"write", "rewrite"} PROVE UNCHANGED ownVars
  BY <1>2 DEF NoteWrite, flowVars, ownVars
<1>3. CASE /\ Ring!PutFrame
           /\ \/ Ring!PutStore(f)
              \/ Ring!PutCas(f) /\ ~filled[Ring!slotIndex(putOffset[f])]
  <2>1. /\ putPc[f] \in {"cas", "store"} /\ UNCHANGED record
        /\ filled' = [filled EXCEPT ![Slot(putOffset[f])] = TRUE]
        /\ putPc' = [putPc EXCEPT ![f] = "signal"]
    BY <1>0, <1>3 DEF Ring!PutCas, Ring!PutStore, Ring!PutGoto
  <2>2. QED BY <1>2, <1>3, <2>1, PutFills
<1>4. CASE /\ Ring!PutFrame
           /\ \/ Ring!PutLoad(f) \/ Ring!PutLock(f) \/ Ring!PutCheck(f)
              \/ Ring!PutTicket(f) \/ Ring!PutRetest(f)
              \/ Ring!PutCas(f) /\ filled[Ring!slotIndex(putOffset[f])]
  <2>1. putPc[f] \notin {"write", "rewrite"}
    BY <1>4 DEF Ring!PutLoad, Ring!PutCas, Ring!PutLock, Ring!PutCheck, Ring!PutTicket,
                Ring!PutRetest
  <2>2. QED BY <1>2, <1>4, <2>1, PutLooks
<1>5. CASE Ring!PutSignal(f)
  <2>1. /\ putPc[f] = "signal" /\ putPc'[f] = "true" /\ UNCHANGED <<filled, record>>
    BY <1>5 DEF Ring!PutSignal
  <2>2. /\ UNCHANGED <<putOffset, rec>>
        /\ drainPc' = drainPc \/ (drainPc = "asleep" /\ drainPc' = "lock")
        /\ \A g \in Fetchers : g # f => \/ putPc'[g] = putPc[g]
                                        \/ putPc[g] = "asleep" /\ putPc'[g] = "lock"
        /\ cancelled' = cancelled
    BY PutStepMoves DEF PlaceInv
  <2>3. UNCHANGED <<Cursor, clobbered, fetchPos>>
    BY <1>2, <2>1, PutPlaces DEF PlaceInv, flowVars, ownVars
  <2>4. \A g \in Fetchers : NotRefused(g)' => NotRefused(g) BY <2>2 DEF NotRefused, flowVars
  <2>5. QED BY <2>1, <2>2, <2>3, <2>4, SlotsSame
<1>6. QED BY <1>1, <1>3, <1>4, <1>5 DEF Ring!PutStep

\* What a step of DrainBatch leaves alone.
LEMMA DrainKeeps ==
    ASSUME PlaceInv, Ring!DrainStep, UNCHANGED ownVars
    PROVE  /\ UNCHANGED <<putOffset, fetchPos, clobbered>>
           /\ \A g \in Fetchers : \/ putPc'[g] = putPc[g]
                                  \/ putPc[g] = "asleep" /\ putPc'[g] = "lock"
           /\ \A t : Lost(t)' <=> Lost(t)
           /\ \A g \in Fetchers : \A o \in Nat :
                (Published(g, o)' <=> Published(g, o)) /\ (NotRefused(g)' <=> NotRefused(g))
<1>1. UNCHANGED <<putOffset, cancelled, fetchPc, fetchPos, failed, clobbered>>
  BY DEF Ring!DrainStep, Ring!DrainFrame, ownVars
<1>2. \A g \in Fetchers : putPc'[g] = putPc[g] \/ (putPc[g] = "asleep" /\ putPc'[g] = "lock")
  BY SleepersWake
  DEF PlaceInv, Ring!DrainStep, Ring!DrainLock, Ring!DrainCheck, Ring!DrainTicket,
      Ring!DrainTest, Ring!DrainRead, Ring!DrainClear, Ring!DrainEmpty, Ring!DrainAdvance
<1>3. \A t : Lost(t)' <=> Lost(t) BY <1>1 DEF Lost
<1>4. \A g \in Fetchers : Frontier(g)' = Frontier(g) BY <1>1, <1>2 DEF Frontier
<1>5. \A g \in Fetchers : \A o \in Nat :
        (Published(g, o)' <=> Published(g, o)) /\ (NotRefused(g)' <=> NotRefused(g))
  BY <1>1, <1>4 DEF Published, NotRefused
<1>6. QED BY <1>1, <1>2, <1>3, <1>5

\* The drainer reads the record it expects, unless the slot is lost.
LEMMA DrainReads ==
    ASSUME PlaceInv, SlotInv, Ring!DrainStep, UNCHANGED ownVars,
           Ring!DrainRead, drainPc' # "advance"
    PROVE  SlotInv'
<1> DEFINE s == Slot(Cursor)
<1>0. TypeOK /\ DrainerPlaced BY DEF PlaceInv
<1>1. Cursor \in Nat /\ s \in Ring!Slots /\ (drainPc = "read" => Ring!NextSlot = s)
  BY <1>0, CursorFacts
<1>2. /\ drainPc = "read" /\ drainPc' = "clear" /\ filled[s] /\ rec' = record[s]
      /\ UNCHANGED <<filled, record, putPc, batch>>
  BY <1>1 DEF Ring!DrainRead
<1>3. UNCHANGED Cursor BY <1>2 DEF Cursor, Base, ownVars
<1>4. /\ UNCHANGED <<putOffset, clobbered>> /\ \A t : Lost(t)' <=> Lost(t)
      /\ \A g \in Fetchers : \A o \in Nat :
           (Published(g, o)' <=> Published(g, o)) /\ (NotRefused(g)' <=> NotRefused(g))
  BY DrainKeeps
<1>5. ~Lost(s) => record[s] = Cursor /\ \E g \in Fetchers : Published(g, Cursor)
  <2>1. SUFFICES ASSUME ~Lost(s)
                 PROVE  record[s] = Cursor /\ \E g \in Fetchers : Published(g, Cursor)
    OBVIOUS
  <2>2. Holding(s) BY <1>2 DEF Holding
  <2>3. /\ record[s] \in Nat /\ Slot(record[s]) = s /\ Cursor <= record[s]
        /\ record[s] < Cursor + RingCap /\ \E g \in Fetchers : Published(g, record[s])
    BY <1>1, <2>1, <2>2 DEF SlotInv, SlotsHold
  <2>4. Cursor % RingCap = record[s] % RingCap BY <2>3 DEF Slot
  <2>5. Cursor = record[s] BY <1>1, <2>3, <2>4, SameSlot, Parameters
  <2>6. QED BY <2>3, <2>5
<1>6. \A t \in Ring!Slots : Holding(t)' <=> Holding(t) BY <1>2 DEF Holding
<1>7. DrainedWerePut' BY <1>3, <1>4 DEF SlotInv, DrainedWerePut
<1>8. SlotsHold' BY <1>2, <1>3, <1>4, <1>6 DEF SlotInv, SlotsHold
<1>9. PutsKept'
  <2>1. \A o \in Nat : Slot(o) \in Ring!Slots BY SlotInRing
  <2>2. QED BY <1>2, <1>3, <1>4, <1>6, <2>1 DEF SlotInv, PutsKept
<1>10. TakesNext' BY <1>1, <1>2, <1>3, <1>4, <1>5 DEF TakesNext
<1>11. SlotFree' BY <1>2, <1>3, <1>4 DEF SlotInv, SlotFree
<1>12. QED BY <1>7, <1>8, <1>9, <1>10, <1>11 DEF SlotInv

\* The drainer clears the slot it has read.
LEMMA DrainClears ==
    ASSUME PlaceInv, SlotInv, Ring!DrainStep, UNCHANGED ownVars, Ring!DrainClear
    PROVE  SlotInv'
<1> DEFINE s == Slot(Cursor)
<1>0. /\ TypeOK /\ DrainerPlaced /\ FetchersPlaced /\ record \in [Ring!Slots -> Nat \cup {Ring!Nil}]
  BY DEF PlaceInv, TypeOK, Ring!RingTypeOK
<1>1. Cursor \in Nat /\ s \in Ring!Slots /\ (drainPc = "clear" => Ring!NextSlot = s)
  BY <1>0, CursorFacts
<1>2. /\ drainPc = "clear" /\ drainPc' = "empty" /\ record' = [record EXCEPT ![s] = Ring!Nil]
      /\ UNCHANGED <<filled, putPc, rec, batch>>
  BY <1>1 DEF Ring!DrainClear
<1>3. UNCHANGED Cursor BY <1>2 DEF Cursor, Base, ownVars
<1>4. /\ UNCHANGED <<putOffset, clobbered>> /\ \A t : Lost(t)' <=> Lost(t)
      /\ \A g \in Fetchers : \A o \in Nat :
           (Published(g, o)' <=> Published(g, o)) /\ (NotRefused(g)' <=> NotRefused(g))
  BY DrainKeeps
<1>5. ~Lost(s) => rec = Cursor /\ filled[s] /\ record[s] = Cursor
  BY <1>2 DEF SlotInv, TakesNext
<1>6. \A t \in Ring!Slots : /\ Holding(t)' <=> Holding(t) /\ t # s
                            /\ t # s => record'[t] = record[t]
  BY <1>0, <1>2, <1>3 DEF Holding
<1>7. DrainedWerePut' BY <1>3, <1>4 DEF SlotInv, DrainedWerePut
<1>8. SlotsHold' BY <1>3, <1>4, <1>6 DEF SlotInv, SlotsHold
<1>9. PutsKept'
  <2>1. SUFFICES ASSUME NEW g \in Fetchers, NEW o \in Nat, NotRefused(g), Published(g, o),
                        Cursor <= o, o # Cursor, ~Lost(Slot(o))
                 PROVE  Holding(Slot(o))' /\ record'[Slot(o)] = o
    BY <1>2, <1>3, <1>4 DEF PutsKept
  <2>2. Slot(o) \in Ring!Slots BY SlotInRing
  <2>3. Holding(Slot(o)) /\ record[Slot(o)] = o BY <1>2, <2>1 DEF SlotInv, PutsKept
  <2>4. QED BY <1>5, <1>6, <2>1, <2>2, <2>3
<1>10. TakesNext'
  <2>1. record'[s] = Ring!Nil BY <1>0, <1>1, <1>2
  <2>2. ~Lost(s) => \E g \in Fetchers : Published(g, Cursor) BY <1>2 DEF SlotInv, TakesNext
  <2>3. QED BY <1>1, <1>2, <1>3, <1>4, <1>5, <2>1, <2>2 DEF TakesNext
<1>11. SlotFree'
  <2>1. SUFFICES ASSUME NEW g \in Fetchers, putPc[g] \in {"cas", "store"},
                        ~Lost(Slot(putOffset[g]))
                 PROVE  record'[Slot(putOffset[g])] = record[Slot(putOffset[g])]
    BY <1>2, <1>3, <1>4 DEF SlotInv, SlotFree
  <2>2. ~filled[Slot(putOffset[g])] /\ Slot(putOffset[g]) \in Ring!Slots
    BY <1>0, <2>1, PutInSegment DEF SlotInv, SlotFree
  <2>3. Slot(putOffset[g]) # s BY <1>5, <2>1, <2>2
  <2>4. QED BY <1>6, <2>2, <2>3
<1>12. QED BY <1>7, <1>8, <1>9, <1>10, <1>11 DEF SlotInv

\* The drainer passes an offset whose slot is not lost.
LEMMA PassesUnharmed ==
    ASSUME PlaceInv, Unharmed(Cursor)
    PROVE  ~Lost(Slot(Cursor))
<1>1. Cursor \in Nat /\ clobbered \subseteq Nat /\ RingCap \in Nat \ {0}
  BY CursorFacts, Parameters DEF PlaceInv, TypeOK
<1>2. SUFFICES ASSUME NEW c \in clobbered, Slot(c) = Slot(Cursor) PROVE FALSE BY DEF Lost
<1>3. Cursor < c /\ c < Cursor + RingCap BY DEF Unharmed, PlaceInv, LossIsNear
<1>4. Cursor = c BY <1>1, <1>2, <1>3, OneInTurn
<1>5. QED BY <1>1, <1>3, <1>4

\* The drainer frees the slot, and the record joins the batch.
LEMMA DrainEmpties ==
    ASSUME PlaceInv, SlotInv, Sound', Ring!DrainStep, UNCHANGED ownVars, Ring!DrainEmpty,
           Cursor' = Cursor + 1
    PROVE  SlotInv'
<1> DEFINE s == Slot(Cursor)
<1>0. /\ TypeOK /\ DrainerPlaced /\ FetchersPlaced /\ filled \in [Ring!Slots -> BOOLEAN]
      /\ clobbered \subseteq Nat
  BY DEF PlaceInv, TypeOK, Ring!RingTypeOK
<1>1. /\ Cursor \in Nat /\ StartOffset <= Cursor
      /\ s \in Ring!Slots /\ (drainPc = "empty" => Ring!NextSlot = s)
  BY <1>0, CursorFacts, CatchUpAssumption
<1>2. /\ drainPc = "empty" /\ drainPc' = "read" /\ filled' = [filled EXCEPT ![s] = FALSE]
      /\ UNCHANGED <<record, putPc, rec>>
  BY <1>1 DEF Ring!DrainEmpty
<1>3. /\ UNCHANGED <<putOffset, clobbered>> /\ \A t : Lost(t)' <=> Lost(t)
      /\ \A g \in Fetchers : \A o \in Nat :
           (Published(g, o)' <=> Published(g, o)) /\ (NotRefused(g)' <=> NotRefused(g))
  BY DrainKeeps
<1>4. ~Lost(s)
  <2>1. Unharmed(Cursor) BY <1>0, <1>1, <1>3 DEF Sound, Unharmed
  <2>2. QED BY <2>1, PassesUnharmed
<1>5. rec = Cursor /\ \E g \in Fetchers : Published(g, Cursor)
  BY <1>2, <1>4 DEF SlotInv, TakesNext
<1> HIDE DEF s
<1>6. \A t \in Ring!Slots : Holding(t)' <=> Holding(t) /\ t # s
  BY <1>0, <1>2 DEF Holding, s
<1>7. DrainedWerePut'
  <2>1. SUFFICES ASSUME NEW o \in Nat, StartOffset <= o, o < Cursor + 1
                 PROVE  /\ o \in Log /\ o < EndOffset
                        /\ \A g \in Fetchers :
                             SegStart(g) <= o /\ o < SegEnd(g) => Published(g, o)
    BY <1>3 DEF DrainedWerePut
  <2>2. CASE o < Cursor BY <2>1, <2>2 DEF SlotInv, DrainedWerePut
  <2>3. CASE o = Cursor
    <3>1. PICK h \in Fetchers : Published(h, o) BY <1>5, <2>3
    <3>2. o \in Log /\ SegStart(h) <= o /\ o < SegEnd(h) BY <3>1 DEF Published
    <3>3. o < EndOffset BY <3>2, SegmentBounds, CatchUpAssumption
    <3>4. QED BY <3>1, <3>2, <3>3, SegmentsApart
  <2>4. QED BY <1>1, <2>1, <2>2, <2>3
<1>8. SlotsHold'
  <2>1. SUFFICES ASSUME NEW t \in Ring!Slots, Holding(t), t # s, ~Lost(t)
                 PROVE  /\ record[t] \in Nat /\ Slot(record[t]) = t
                        /\ Cursor + 1 <= record[t] /\ record[t] < Cursor + 1 + RingCap
                        /\ \E g \in Fetchers : Published(g, record[t])
    BY <1>2, <1>3, <1>6 DEF SlotsHold
  <2>2. /\ record[t] \in Nat /\ Slot(record[t]) = t
        /\ Cursor <= record[t] /\ record[t] < Cursor + RingCap
        /\ \E g \in Fetchers : Published(g, record[t])
    BY <2>1 DEF SlotInv, SlotsHold
  <2>3. record[t] # Cursor BY <2>1, <2>2 DEF s
  <2>4. QED BY <1>1, <2>2, <2>3, Parameters
<1>9. PutsKept'
  <2>1. SUFFICES ASSUME NEW g \in Fetchers, NEW o \in Nat, NotRefused(g), Published(g, o),
                        Cursor + 1 <= o, ~Lost(Slot(o))
                 PROVE  Holding(Slot(o))' /\ record[Slot(o)] = o
    BY <1>2, <1>3 DEF PutsKept
  <2>2. Slot(o) \in Ring!Slots BY SlotInRing
  <2>3. Cursor <= o /\ o # Cursor BY <1>1, <2>1
  <2>4. Holding(Slot(o)) /\ record[Slot(o)] = o BY <2>1, <2>3 DEF SlotInv, PutsKept
  <2>5. Slot(o) # s BY <1>2, <2>4 DEF Holding, s
  <2>6. QED BY <1>6, <2>2, <2>4, <2>5
<1>10. TakesNext' BY <1>2 DEF TakesNext
<1>11. SlotFree'
  <2>1. \A t \in Ring!Slots : ~filled[t] => ~filled'[t] BY <1>0, <1>2
  <2>2. \A g \in Fetchers : putPc[g] # "idle" => /\ Slot(putOffset[g]) \in Ring!Slots
                                                 /\ putOffset[g] \in Nat
    BY <1>0, PutInSegment
  <2>3. RingCap \in Nat BY Parameters
  <2>4. QED BY <1>1, <1>2, <1>3, <2>1, <2>2, <2>3 DEF SlotInv, SlotFree
<1>12. QED BY <1>7, <1>8, <1>9, <1>10, <1>11 DEF SlotInv

\* Every step of DrainBatch keeps the slots, unless it passes a lost one.
LEMMA DrainSlots ==
    ASSUME PlaceInv, PlaceInv', SlotInv, Sound', Ring!DrainStep, UNCHANGED ownVars
    PROVE  SlotInv'
<1>0. Cursor' = IF drainPc = "empty" THEN Cursor + 1 ELSE Cursor BY DrainPlaces DEF PlaceInv
<1>1. CASE Ring!DrainRead /\ drainPc' # "advance" BY <1>1, DrainReads
<1>2. CASE Ring!DrainClear BY <1>2, DrainClears
<1>3. CASE Ring!DrainEmpty
  <2>1. Cursor' = Cursor + 1 BY <1>0, <1>3 DEF Ring!DrainEmpty
  <2>2. QED BY <1>3, <2>1, DrainEmpties
<1>4. CASE \/ Ring!DrainLock \/ Ring!DrainCheck \/ Ring!DrainTicket \/ Ring!DrainTest
           \/ (Ring!DrainRead /\ drainPc' = "advance") \/ Ring!DrainAdvance
  <2>1. /\ drainPc # "empty" /\ drainPc' \notin {"clear", "empty"} /\ UNCHANGED <<filled, record>>
    BY <1>4
    DEF Ring!DrainLock, Ring!DrainCheck, Ring!DrainTicket, Ring!DrainTest, Ring!DrainRead,
        Ring!DrainAdvance
  <2>2. QED BY <1>0, <2>1, DrainKeeps, SlotsSame, SlotInRing
<1>5. QED BY <1>1, <1>2, <1>3, <1>4 DEF Ring!DrainStep

\* A call of Put has put nothing yet.
LEMMA CallSlots ==
    ASSUME PlaceInv, PlaceInv', SlotInv, NEW f \in Fetchers, NEW o \in Nat, Calls(f, o)
    PROVE  SlotInv'
<1> USE DEF Calls
<1>0. /\ putPc \in [Fetchers -> Ring!PutPcs] /\ putOffset \in [Fetchers -> Nat]
      /\ fetchPc \in [Fetchers -> {"poll", "put", "fail", "broadcast", "done"}]
      /\ fetchPos[f] \in Nat
  BY DEF PlaceInv, TypeOK, Ring!RingTypeOK
<1>1. UNCHANGED Cursor BY DEF Cursor, Base
<1>2. \A g \in Fetchers : g # f => /\ Frontier(g)' = Frontier(g) /\ putPc'[g] = putPc[g]
                                   /\ putOffset'[g] = putOffset[g]
  BY <1>0 DEF Frontier
<1>3. Frontier(f) = fetchPos[f] /\ Frontier(f)' = o /\ putPc'[f] = "load" BY <1>0 DEF Frontier
<1>4. \A g \in Fetchers : \A q \in Nat : Published(g, q)' <=> Published(g, q)
  <2>1. \A q \in Nat : Published(f, q)' <=> Published(f, q)
    BY <1>0, <1>3, CatchUpAssumption DEF Published
  <2>2. QED BY <1>2, <2>1 DEF Published
<1>5. \A g \in Fetchers : NotRefused(g)' <=> NotRefused(g) BY <1>0 DEF NotRefused
<1>6. QED BY <1>1, <1>2, <1>3, <1>4, <1>5, SlotsUntouched

\* The return of Put: what was refused does not count as put.
LEMMA NextSlots ==
    ASSUME PlaceInv, PlaceInv', SlotInv, NEW f \in Fetchers, FetchNext(f)
    PROVE  SlotInv'
<1> DEFINE p == putOffset[f]
<1>0. TypeOK /\ FetchersPlaced /\ ClosedWhy BY DEF PlaceInv
<1>1. /\ putPc[f] \in {"true", "false"} /\ putPc'[f] = "idle" /\ fetchPc[f] = "put"
      /\ fetchPos'[f] = p + 1 /\ (putPc[f] = "false" => fetchPc'[f] = "done")
      /\ \A g \in Fetchers : g # f => /\ putPc'[g] = putPc[g] /\ fetchPos'[g] = fetchPos[g]
                                      /\ fetchPc'[g] = fetchPc[g]
      /\ UNCHANGED <<filled, record, cancelled, putOffset, drainPc, rec, failed, clobbered>>
  BY FetchNextSteps
<1>2. UNCHANGED Cursor BY NextPlaces DEF PlaceInv
<1>3. p \in Nat /\ SegStart(f) <= p /\ p < SegEnd(f) BY <1>0, <1>1, PutInSegment
<1>4. \A g \in Fetchers : g # f => Frontier(g)' = Frontier(g) BY <1>1 DEF Frontier
<1>5. /\ Frontier(f)' = p + 1
      /\ Frontier(f) = IF putPc[f] = "true" THEN p + 1 ELSE p
  BY <1>1 DEF Frontier
<1>6. \A g \in Fetchers : NotRefused(g)' => NotRefused(g) BY <1>1 DEF NotRefused
<1>7. putPc[f] = "false" => ~NotRefused(f)' BY <1>0, <1>1 DEF NotRefused, ClosedWhy
<1> HIDE DEF p
<1>8. \A g \in Fetchers : \A o \in Nat :
        /\ Published(g, o) => Published(g, o)'
        /\ NotRefused(g)' /\ Published(g, o)' => Published(g, o)
  <2>1. \A o \in Nat : /\ Published(f, o) => Published(f, o)'
                       /\ NotRefused(f)' /\ Published(f, o)' => Published(f, o)
    BY <1>1, <1>3, <1>5, <1>7 DEF Published
  <2>2. QED BY <1>4, <2>1 DEF Published
<1>9. QED BY <1>1, <1>2, <1>6, <1>8, SlotsUntouched

\* While the drainer passes no lost slot, SlotInv is kept.
LEMMA SlotStep ==
    ASSUME PlaceInv, SlotInv, [Next]_vars, Sound'
    PROVE  SlotInv'
<1>0. PlaceInv' /\ TypeOK' BY PlaceStep DEF PlaceInv
<1>1. CASE Outside /\ ClosedWhy'
  <2>1. /\ UNCHANGED Cursor
        /\ drainPc' = drainPc \/ (drainPc = "asleep" /\ drainPc' = "lock")
        /\ \A g \in Fetchers : \/ putPc'[g] = putPc[g]
                               \/ putPc[g] = "asleep" /\ putPc'[g] = "lock"
    BY <1>0, <1>1, OutsidePlaces
  <2>2. QED BY <1>1, <2>1, SlotsSame DEF Outside
<1>2. CASE (DrainerTop /\ ~cancelled) \/ DrainerBatch
  <2>1. /\ UNCHANGED Cursor
        /\ drainPc \in {"idle", "true", "false"} /\ drainPc' \in {"idle", "lock"}
        /\ UNCHANGED <<filled, record, putPc, rec, cancelled, putOffset, fetchPc, fetchPos,
                       failed, clobbered>>
    BY <1>0, <1>2, CallerPlaces
  <2>2. \A g \in Fetchers : NotRefused(g)' => NotRefused(g) BY <2>1 DEF NotRefused
  <2>3. QED BY <2>1, <2>2, SlotsSame
<1>3. QED BY <1>0, <1>1, <1>2, StepKinds, CallSlots, NextSlots, PutSlots, DrainSlots

(***************************************************************************)
(* The order of the records.                                               *)
(***************************************************************************)

\* A step that leaves the batch and what was handed on alone.
LEMMA OrderUntouched ==
    ASSUME InOrder, UNCHANGED <<batch, handed>>, clobbered \subseteq clobbered',
           drainPc' # "idle" => drainPc # "idle"
    PROVE  InOrder'
<1>1. \A o : Unharmed(o)' => Unharmed(o) BY DEF Unharmed
<1>2. UNCHANGED Base BY DEF Base
<1>3. QED BY <1>1, <1>2 DEF InOrder, InRange

\* The record that joins the batch is the next one of the range, or its slot, or one
\* before it, was lost.
LEMMA TakenInOrder ==
    ASSUME OrderInv, Ring!DrainStep, UNCHANGED ownVars, Ring!DrainEmpty
    PROVE  InOrder'
<1>0. /\ PlaceInv /\ TypeOK /\ DrainerPlaced /\ InOrder
      /\ batch \in Seq(Nat \cup {Ring!Nil}) /\ Len(batch) \in Nat
      /\ clobbered \subseteq Nat
  BY DEF OrderInv, PlaceInv, TypeOK, Ring!RingTypeOK
<1>1. drainPc = "empty" /\ batch' = Append(batch, rec) BY DEF Ring!DrainEmpty
<1>2. Base \in Nat /\ Cursor \in Nat /\ Cursor = Base + Len(batch)
  BY <1>0, <1>1, CursorFacts DEF Cursor
<1>3. UNCHANGED <<handed, clobbered, Base>> BY DEF ownVars, Base
<1>4. \A o : Unharmed(o)' <=> Unharmed(o) BY <1>3 DEF Unharmed
<1>5. Unharmed(Cursor) => rec = Cursor /\ Cursor \in InRange
  <2>1. SUFFICES ASSUME Unharmed(Cursor) PROVE rec = Cursor /\ Cursor \in InRange OBVIOUS
  <2>2. Sound BY <1>0, <1>2, <2>1 DEF Unharmed, Sound
  <2>3. ~Lost(Slot(Cursor)) BY <1>0, <2>1, PassesUnharmed
  <2>4. PICK g \in Fetchers : rec = Cursor /\ Published(g, Cursor)
    BY <1>1, <2>2, <2>3 DEF OrderInv, SlotInv, TakesNext
  <2>5. Cursor \in Log /\ SegStart(g) <= Cursor /\ Cursor < SegEnd(g) BY <2>4 DEF Published
  <2>6. QED BY <1>2, <2>4, <2>5, SegmentBounds, CatchUpAssumption DEF InRange
<1>6. ASSUME NEW i \in DOMAIN batch', Unharmed(Base + (i - 1))
      PROVE  batch'[i] = Base + (i - 1) /\ batch'[i] \in InRange
  <2>1. CASE i \in DOMAIN batch
    <3>1. batch'[i] = batch[i] BY <1>0, <1>1, <2>1
    <3>2. QED BY <1>0, <1>1, <1>6, <2>1, <3>1 DEF InOrder
  <2>2. CASE i = Len(batch) + 1
    <3>1. batch'[i] = rec /\ Base + (i - 1) = Cursor BY <1>0, <1>1, <1>2, <2>2
    <3>2. QED BY <1>5, <1>6, <3>1
  <2>3. QED BY <1>0, <1>1, <1>6, <2>1, <2>2
<1>7. QED BY <1>0, <1>3, <1>4, <1>6 DEF InOrder, InRange

\* The batch is handed to the producer.
LEMMA HandedInOrder ==
    ASSUME OrderInv, DrainerBatch
    PROVE  InOrder'
<1>0. /\ PlaceInv /\ TypeOK /\ DrainerPlaced /\ InOrder
      /\ handed \in Seq(Nat \cup {Ring!Nil}) /\ batch \in Seq(Nat \cup {Ring!Nil})
      /\ StartOffset \in Nat /\ Base = StartOffset + Len(handed)
  BY CatchUpAssumption DEF OrderInv, PlaceInv, TypeOK, Ring!RingTypeOK, Base
<1>1. /\ drainPc \in {"true", "false"} /\ drainPc' = "idle" /\ UNCHANGED <<batch, clobbered>>
      /\ handed' = handed \/ handed' = handed \o batch
  BY DEF DrainerBatch, Ring!DrainReturn
<1>2. \A o : Unharmed(o)' <=> Unharmed(o) BY <1>1 DEF Unharmed
<1>3. ASSUME NEW i \in DOMAIN handed', Unharmed(StartOffset + (i - 1))
      PROVE  handed'[i] = StartOffset + (i - 1) /\ handed'[i] \in InRange
  <2>1. CASE i \in DOMAIN handed
    <3>1. handed'[i] = handed[i]
      <4>1. CASE handed' = handed BY <4>1
      <4>2. CASE handed' = handed \o batch BY <1>0, <2>1, <4>2
      <4>3. QED BY <1>1, <4>1, <4>2
    <3>2. QED BY <1>0, <1>3, <2>1, <3>1 DEF InOrder
  <2>2. CASE i \notin DOMAIN handed
    <3>1. handed' = handed \o batch BY <1>1, <1>3, <2>2
    <3>2. i - Len(handed) \in DOMAIN batch /\ handed'[i] = batch[i - Len(handed)] /\ i \in Nat
      BY <1>0, <1>3, <2>2, <3>1
    <3>3. Base + ((i - Len(handed)) - 1) = StartOffset + (i - 1) BY <1>0, <3>2
    <3>4. QED BY <1>0, <1>1, <1>3, <3>2, <3>3 DEF InOrder
  <2>3. QED BY <2>1, <2>2
<1>4. QED BY <1>1, <1>2, <1>3 DEF InOrder, InRange

\* OrderInv is inductive.
LEMMA OrderStep ==
    ASSUME OrderInv, [Next]_vars
    PROVE  OrderInv'
<1>0. /\ PlaceInv /\ TypeOK /\ TicketsAsleep /\ InOrder /\ PlaceInv' /\ TypeOK' /\ ClosedWhy'
  BY PlaceStep DEF OrderInv, PlaceInv
<1>1. (Sound => SlotInv)'
  <2>1. SUFFICES ASSUME Sound' PROVE SlotInv' OBVIOUS
  <2>2. Sound BY <1>0, <2>1, SoundBefore
  <2>3. QED BY <1>0, <2>1, <2>2, SlotStep DEF OrderInv
<1>2. InOrder'
  <2>1. CASE Outside
    <3>1. drainPc' # "idle" => drainPc # "idle" BY <1>0, <2>1, OutsidePlaces
    <3>2. UNCHANGED <<batch, handed, clobbered>> BY <2>1 DEF Outside
    <3>3. QED BY <1>0, <3>1, <3>2, OrderUntouched
  <2>2. CASE \E f \in Fetchers : \E o \in Nat : Calls(f, o)
    BY <1>0, <2>2, OrderUntouched DEF Calls
  <2>3. CASE \E f \in Fetchers : FetchNext(f)
    BY <1>0, <2>3, FetchNextSteps, OrderUntouched
  <2>4. CASE \E f \in Fetchers : Ring!PutStep(f) /\ NoteWrite(f) /\ UNCHANGED flowVars
    <3>1. PICK f \in Fetchers : Ring!PutStep(f) /\ NoteWrite(f) /\ UNCHANGED flowVars BY <2>4
    <3>2. UNCHANGED batch /\ (drainPc' # "idle" => drainPc # "idle")
      BY <1>0, <3>1, PutStepMoves
    <3>3. UNCHANGED handed /\ clobbered \subseteq clobbered' BY <3>1 DEF flowVars, NoteWrite
    <3>4. QED BY <1>0, <3>2, <3>3, OrderUntouched
  <2>5. CASE Ring!DrainStep /\ UNCHANGED ownVars
    <3>1. CASE Ring!DrainEmpty BY <2>5, <3>1, TakenInOrder
    <3>2. CASE ~Ring!DrainEmpty
      <4>1. UNCHANGED batch /\ drainPc # "idle"
        BY <2>5, <3>2
        DEF Ring!DrainStep, Ring!DrainLock, Ring!DrainCheck, Ring!DrainTicket, Ring!DrainTest,
            Ring!DrainRead, Ring!DrainClear, Ring!DrainAdvance
      <4>2. UNCHANGED <<handed, clobbered>> BY <2>5 DEF ownVars
      <4>3. QED BY <1>0, <4>1, <4>2, OrderUntouched
    <3>3. QED BY <3>1, <3>2
  <2>6. CASE DrainerTop /\ ~cancelled
    <3>1. batch' = <<>> /\ UNCHANGED <<handed, clobbered>>
      BY <2>6 DEF DrainerTop, Ring!DrainCall
    <3>2. DOMAIN batch' = {} BY <3>1
    <3>3. \A o : Unharmed(o)' <=> Unharmed(o) BY <3>1 DEF Unharmed
    <3>4. QED BY <1>0, <3>1, <3>2, <3>3 DEF InOrder, InRange
  <2>7. CASE DrainerBatch BY <2>7, HandedInOrder
  <2>8. QED BY <1>0, <2>1, <2>2, <2>3, <2>4, <2>5, <2>6, <2>7, StepKinds
<1>3. QED BY <1>0, <1>1, <1>2 DEF OrderInv

\* A catch-up begins in order: the ring is empty and each fetcher at its segment.
LEMMA OrderInit ==
    ASSUME Init
    PROVE  OrderInv
<1>0. TypeOK BY TypeInit
<1>1. /\ tickets = <<>> /\ handed = <<>> /\ batch = <<>> /\ drainPc = "idle" /\ clobbered = {}
      /\ drainOffset = StartOffset /\ ~closed /\ main = "fetchers" /\ drainer = "top"
      /\ \A f \in Fetchers : putPc[f] = "idle" /\ fetchPc[f] = "poll" /\ fetchPos[f] = SegStart(f)
      /\ \A s \in Ring!Slots : ~filled[s]
  BY DEF Init, Ring!RingInit
<1>2. Base = StartOffset /\ Cursor = StartOffset
  BY <1>1, CatchUpAssumption DEF Base, Cursor
<1>3. \A f \in Fetchers : Frontier(f) = SegStart(f) BY <1>1 DEF Frontier
<1>4. \A f \in Fetchers : \A o \in Nat : ~Published(f, o)
  BY <1>3, SegmentBounds DEF Published
<1>5. DrainedWerePut BY <1>2, CatchUpAssumption DEF DrainedWerePut
<1>6. SlotsHold /\ PutsKept BY <1>1, <1>4 DEF SlotsHold, PutsKept, Holding
<1>7. FetchersPlaced BY <1>1, SegmentBounds DEF FetchersPlaced
<1>8. TicketsAsleep /\ DrainerPlaced /\ InOrder /\ LossIsNear
  BY <1>1, <1>2 DEF TicketsAsleep, DrainerPlaced, InOrder, LossIsNear
<1>9. ClosedWhy /\ SlotFree /\ TakesNext BY <1>1 DEF ClosedWhy, SlotFree, TakesNext
<1>10. QED BY <1>0, <1>5, <1>6, <1>7, <1>8, <1>9 DEF OrderInv, PlaceInv, SlotInv

\* For any number of fetchers, any range, log, ring and batch size, and whatever fails,
\* is closed or cancelled: up to the first offset whose slot Put wrote for a record a
\* turn of the ring ahead, the drainer hands the producer the record of each offset of
\* the range in turn.
THEOREM OrderIsKept == Spec => []DrainsPrefix
<1>1. Init => OrderInv BY OrderInit
<1>2. OrderInv /\ [Next]_vars => OrderInv' BY OrderStep
<1>3. OrderInv => DrainsPrefix BY DEF OrderInv, InOrder, DrainsPrefix
<1>4. QED BY <1>1, <1>2, <1>3, PTL DEF Spec

(***************************************************************************)
(* Completeness.                                                           *)
(***************************************************************************)

\* A cancellation, a failure and Close are for good.
LEMMA FlagsStay ==
    ASSUME [Next]_vars
    PROVE  (cancelled => cancelled') /\ (failed => failed') /\ (closed => closed')
<1> USE DEF Ring!SetClosed, Ring!CloseBroadcast, Ring!PutFrame, Ring!DrainFrame, ringVars
<1>1. CASE Cancel BY <1>1 DEF Cancel, ownVars
<1>2. CASE \E f \in Fetchers : FetchStep(f)
  <2>1. PICK f \in Fetchers : FetchStep(f) BY <1>2
  <2>2. CASE FetchRecord(f) BY <2>2 DEF FetchRecord, Ring!PutCall
  <2>3. CASE FetchNext(f) BY <2>3 DEF FetchNext, Ring!PutReturn
  <2>4. CASE FetchCancelled(f) \/ FetchFails(f) BY <2>4 DEF FetchCancelled, FetchFails
  <2>5. CASE FetchCloses(f) BY <2>5 DEF FetchCloses
  <2>6. CASE Ring!PutStep(f) /\ UNCHANGED flowVars
    BY <2>6 DEF Ring!PutStep, Ring!PutSignal, flowVars
  <2>7. QED BY <2>1, <2>2, <2>3, <2>4, <2>5, <2>6 DEF FetchStep, flowVars
<1>3. CASE DrainerStep
  <2>1. CASE DrainerTop BY <2>1 DEF DrainerTop, Ring!DrainCall
  <2>2. CASE DrainerBatch BY <2>2 DEF DrainerBatch, Ring!DrainReturn
  <2>3. CASE DrainerProgress \/ DrainerEnd BY <2>3 DEF DrainerProgress, DrainerEnd
  <2>4. CASE Ring!DrainStep /\ UNCHANGED ownVars BY <2>4 DEF Ring!DrainStep, ownVars
  <2>5. QED BY <1>3, <2>1, <2>2, <2>3, <2>4 DEF DrainerStep
<1>4. CASE ProduceSettled \/ ProduceBlocks BY <1>4 DEF ProduceSettled, ProduceBlocks
<1>5. CASE MainStep BY <1>5 DEF MainStep
<1>6. CASE UNCHANGED vars BY <1>6 DEF vars, ownVars
<1>7. QED BY <1>1, <1>2, <1>3, <1>4, <1>5, <1>6 DEF Next

\* A fetcher becomes done after all of its segment, or after a cancellation or a failure.
LEMMA FetchersEndStep ==
    ASSUME PlaceInv, PlaceInv', FetchersEnd, [Next]_vars
    PROVE  FetchersEnd'
<1>0. /\ FetchersPlaced /\ FetchersPlaced' /\ ClosedWhy
      /\ (cancelled => cancelled') /\ (failed => failed')
      /\ fetchPc \in [Fetchers -> {"poll", "put", "fail", "broadcast", "done"}]
      /\ fetchPos \in [Fetchers -> Nat] /\ putPc \in [Fetchers -> Ring!PutPcs]
  BY FlagsStay DEF PlaceInv, TypeOK, Ring!RingTypeOK
<1>1. SUFFICES ASSUME NEW f \in Fetchers, fetchPc'[f] = "done", ~cancelled', ~failed'
               PROVE  \A o \in Log : o < SegEnd(f) => o < fetchPos'[f]
  <2>1. \A f \in Fetchers : fetchPc'[f] = "done" => Frontier(f)' = fetchPos'[f]
    BY <1>0 DEF FetchersPlaced, Frontier
  <2>2. QED BY <1>1, <2>1 DEF FetchersEnd
<1>2. CASE fetchPc[f] = "done" /\ fetchPos'[f] = fetchPos[f]
  <2>1. Frontier(f) = fetchPos[f] BY <1>0, <1>2 DEF FetchersPlaced, Frontier
  <2>2. QED BY <1>0, <1>1, <1>2, <2>1 DEF FetchersEnd
<1>3. CASE UNCHANGED <<fetchPc, fetchPos>> BY <1>1, <1>2, <1>3
<1>4. CASE \E g \in Fetchers : FetchStep(g)
  <2>1. PICK g \in Fetchers : FetchStep(g) BY <1>4
  <2> USE DEF FetchGoto
  <2>2. CASE g # f
    <3>1. fetchPc'[f] = fetchPc[f] /\ fetchPos'[f] = fetchPos[f]
      BY <1>0, <2>1, <2>2
      DEF FetchStep, FetchRecord, FetchNext, FetchCancelled, FetchFails, FetchCloses, ownVars
    <3>2. QED BY <1>1, <1>2, <3>1
  <2>3. CASE FetchRecord(f)
    <3>1. PICK o \in Log : /\ \A q \in Log : q >= fetchPos[f] => o <= q
                           /\ o >= SegEnd(f) \/ FetchGoto(f, "put")
      BY <2>3 DEF FetchRecord
    <3>2. o >= SegEnd(f) /\ UNCHANGED fetchPos BY <1>0, <1>1, <2>3, <3>1 DEF FetchRecord
    <3>3. SegEnd(f) \in Nat /\ fetchPos[f] \in Nat /\ Log \subseteq Nat
      BY <1>0, SegmentBounds, CatchUpAssumption
    <3>4. QED BY <3>1, <3>2, <3>3
  <2>4. CASE FetchNext(f)
    <3> DEFINE p == putOffset[f]
    <3>1. /\ fetchPos' = [fetchPos EXCEPT ![f] = p + 1] /\ UNCHANGED <<cancelled, failed>>
          /\ fetchPc' = [fetchPc EXCEPT ![f] = IF putPc[f] = "true" /\ p < SegEnd(f) - 1
                                               THEN "poll" ELSE "done"]
          /\ putPc[f] \in {"true", "false"}
      BY <2>4 DEF FetchNext, Ring!PutReturn, Ring!PutFrame
    <3>2. putPc[f] # "false" BY <1>0, <1>1, <3>1 DEF ClosedWhy
    <3>3. ~(p < SegEnd(f) - 1) /\ fetchPos'[f] = p + 1 BY <1>0, <1>1, <3>1, <3>2
    <3>4. p \in Nat /\ SegEnd(f) \in Nat /\ Log \subseteq Nat
      BY <3>1, SegmentBounds, CatchUpAssumption DEF PlaceInv, TypeOK, Ring!RingTypeOK
    <3>5. QED BY <3>3, <3>4
  <2>5. CASE FetchCancelled(f) BY <1>0, <1>1, <2>5 DEF FetchCancelled
  <2>6. CASE FetchFails(f) BY <1>1, <2>6 DEF FetchFails
  <2>7. CASE FetchCloses(f)
    <3>1. fetchPc[f] \in {"fail", "broadcast"} BY <2>7 DEF FetchCloses
    <3>2. QED BY <1>0, <1>1, <3>1 DEF ClosedWhy
  <2>8. CASE UNCHANGED flowVars BY <1>3, <2>8 DEF flowVars
  <2>9. QED BY <2>1, <2>2, <2>3, <2>4, <2>5, <2>6, <2>7, <2>8 DEF FetchStep, flowVars
<1>5. CASE Cancel \/ MainStep \/ ProduceSettled \/ ProduceBlocks \/ UNCHANGED vars
  BY <1>3, <1>5 DEF Cancel, MainStep, ProduceSettled, ProduceBlocks, vars, ownVars
<1>6. CASE DrainerStep
  BY <1>3, <1>6 DEF DrainerStep, DrainerTop, DrainerBatch, DrainerProgress, DrainerEnd, ownVars
<1>7. QED BY <1>4, <1>5, <1>6 DEF Next

\* What everyone but the drainer leaves to it.
LEMMA OthersLeaveDrainer ==
    ASSUME PlaceInv,
           \/ Cancel \/ MainStep \/ ProduceSettled \/ ProduceBlocks \/ UNCHANGED vars
           \/ \E f \in Fetchers : FetchStep(f)
    PROVE  /\ UNCHANGED <<batch, handed, drainer>>
           /\ drainPc' = drainPc \/ (drainPc = "asleep" /\ drainPc' = "lock")
           /\ \A t \in Ring!Slots : filled[t] => filled'[t]
<1> USE DEF Ring!SetClosed, Ring!PutFrame, ringVars
<1>0. /\ TypeOK /\ TicketsAsleep /\ tickets \in Seq(Fetchers \cup {Ring!Drainer})
      /\ filled \in [Ring!Slots -> BOOLEAN]
  BY DEF PlaceInv, TypeOK, Ring!RingTypeOK
<1>1. ASSUME Ring!CloseBroadcast
      PROVE  /\ UNCHANGED <<batch, filled>>
             /\ drainPc' = drainPc \/ (drainPc = "asleep" /\ drainPc' = "lock")
  BY <1>0, <1>1, SleepersWake DEF Ring!CloseBroadcast, Ring!Wake
<1>2. CASE Cancel \/ ProduceSettled \/ ProduceBlocks \/ UNCHANGED vars
  BY <1>2 DEF Cancel, ProduceSettled, ProduceBlocks, vars, ownVars
<1>3. CASE MainStep BY <1>1, <1>3 DEF MainStep
<1>4. CASE \E f \in Fetchers : FetchStep(f)
  <2>1. PICK f \in Fetchers : FetchStep(f) BY <1>4
  <2>2. CASE FetchRecord(f) BY <2>2 DEF FetchRecord, Ring!PutCall
  <2>3. CASE FetchNext(f) BY <2>3 DEF FetchNext, Ring!PutReturn
  <2>4. CASE FetchCancelled(f) \/ FetchFails(f) BY <2>4 DEF FetchCancelled, FetchFails
  <2>5. CASE FetchCloses(f) BY <1>1, <2>5 DEF FetchCloses
  <2>6. CASE Ring!PutStep(f) /\ UNCHANGED flowVars
    <3>1. /\ UNCHANGED batch
          /\ drainPc' = drainPc \/ (drainPc = "asleep" /\ drainPc' = "lock")
      BY <1>0, <2>6, PutStepMoves
    <3>2. \A t \in Ring!Slots : filled[t] => filled'[t]
      BY <1>0, <2>6
      DEF Ring!PutStep, Ring!PutLoad, Ring!PutWrite, Ring!PutCas, Ring!PutLock, Ring!PutCheck,
          Ring!PutTicket, Ring!PutRetest, Ring!PutStore, Ring!PutSignal
    <3>3. QED BY <2>6, <3>1, <3>2 DEF flowVars
  <2>7. QED BY <2>1, <2>2, <2>3, <2>4, <2>5, <2>6 DEF FetchStep, flowVars
<1>5. QED BY <1>2, <1>3, <1>4

\* DrainBatch reads only slots it found filled, and returns what it read.
LEMMA BatchNotEmptyStep ==
    ASSUME PlaceInv, BatchNotEmpty, [Next]_vars
    PROVE  BatchNotEmpty'
<1>0. /\ TypeOK /\ DrainerPlaced /\ Cursor \in Nat /\ Slot(Cursor) \in Ring!Slots
      /\ drainPc \notin {"idle", "true"} => Ring!NextSlot = Slot(Cursor)
      /\ (cancelled => cancelled') /\ (closed => closed')
  BY CursorFacts, FlagsStay DEF PlaceInv
<1>1. CASE \/ Cancel \/ MainStep \/ ProduceSettled \/ ProduceBlocks \/ UNCHANGED vars
           \/ \E f \in Fetchers : FetchStep(f)
  <2>1. /\ UNCHANGED <<batch, handed>>
        /\ drainPc' = drainPc \/ (drainPc = "asleep" /\ drainPc' = "lock")
        /\ filled[Slot(Cursor)] => filled'[Slot(Cursor)]
    BY <1>0, <1>1, OthersLeaveDrainer
  <2>2. UNCHANGED Cursor BY <2>1 DEF Cursor, Base
  <2>3. QED BY <1>0, <2>1, <2>2 DEF BatchNotEmpty
<1>2. CASE DrainerTop \/ DrainerBatch \/ DrainerProgress \/ DrainerEnd
  <2>1. CASE drainPc' \in {"idle", "lock"} BY <2>1 DEF BatchNotEmpty
  <2>2. CASE UNCHANGED <<ringVars, handed>>
    <3>1. UNCHANGED Cursor BY <2>2 DEF Cursor, Base, ringVars
    <3>2. QED BY <2>2, <3>1 DEF BatchNotEmpty, ringVars
  <2>3. QED
    BY <1>2, <2>1, <2>2
    DEF DrainerTop, DrainerBatch, DrainerProgress, DrainerEnd, Ring!DrainCall, Ring!DrainReturn
<1>3. CASE Ring!DrainStep /\ UNCHANGED ownVars
  <2>1. CASE Ring!DrainLock \/ Ring!DrainTicket \/ Ring!DrainClear
    <3>1. drainPc' \in {"check", "asleep", "empty"}
      BY <2>1 DEF Ring!DrainLock, Ring!DrainTicket, Ring!DrainClear
    <3>2. QED BY <3>1 DEF BatchNotEmpty
  <2>2. CASE Ring!DrainCheck \/ Ring!DrainTest
    <3>1. /\ UNCHANGED <<filled, batch, handed>> /\ drainPc \in {"check", "test"}
          /\ drainPc' \in {"ticket", "test", "false", "read"}
      BY <1>3, <2>2 DEF Ring!DrainCheck, Ring!DrainTest, ownVars
    <3>2. UNCHANGED Cursor BY <3>1 DEF Cursor, Base
    <3>3. drainPc' = "test" => filled[Slot(Cursor)] \/ closed \/ cancelled
      BY <1>0, <2>2 DEF Ring!DrainCheck, Ring!DrainTest
    <3>4. drainPc' = "read" => filled[Slot(Cursor)]
      BY <1>0, <2>2 DEF Ring!DrainCheck, Ring!DrainTest, Ring!DrainStops, BatchNotEmpty
    <3>5. QED BY <1>0, <3>1, <3>2, <3>3, <3>4 DEF BatchNotEmpty
  <2>3. CASE Ring!DrainRead
    <3>1. /\ drainPc = "read" /\ drainPc' \in {"clear", "advance"} /\ UNCHANGED batch
          /\ drainPc' = "advance" => ~(Len(batch) < MaxBatch /\ filled[Slot(Cursor)])
      BY <1>0, <2>3 DEF Ring!DrainRead
    <3>2. drainPc' = "advance" => batch # <<>>
      <4>1. ASSUME batch = <<>> PROVE Len(batch) < MaxBatch BY <4>1, CatchUpAssumption
      <4>2. QED BY <3>1, <4>1 DEF BatchNotEmpty
    <3>3. QED BY <3>1, <3>2 DEF BatchNotEmpty
  <2>4. CASE Ring!DrainEmpty
    <3>1. drainPc' = "read" /\ batch' = Append(batch, rec) BY <2>4 DEF Ring!DrainEmpty
    <3>2. batch \in Seq(Nat \cup {Ring!Nil}) BY <1>0 DEF TypeOK, Ring!RingTypeOK
    <3>3. batch' # <<>> BY <3>1, <3>2
    <3>4. QED BY <3>1, <3>3 DEF BatchNotEmpty
  <2>5. CASE Ring!DrainAdvance
    BY <2>5 DEF Ring!DrainAdvance, BatchNotEmpty
  <2>6. QED BY <1>3, <2>1, <2>2, <2>3, <2>4, <2>5 DEF Ring!DrainStep
<1>4. QED BY <1>1, <1>2, <1>3 DEF Next, DrainerStep

\* A closed ring whose next slot is empty has nothing to come, but for a gap of the log
\* or a lost slot.
LEMMA ClosedIsDrained ==
    ASSUME OrderInv, FetchersEnd, closed, ~cancelled, ~failed, drainPc # "empty",
           ~filled[Slot(Cursor)]
    PROVE  Cursor >= EndOffset \/ Cursor \notin Log \/ ~Unharmed(Cursor)
<1>0. /\ PlaceInv /\ TypeOK /\ ClosedWhy /\ Cursor \in Nat /\ clobbered \subseteq Nat
      /\ StartOffset <= Cursor /\ StartOffset \in Nat /\ EndOffset \in Nat
  BY CursorFacts, CatchUpAssumption DEF OrderInv, PlaceInv, TypeOK
<1>1. SUFFICES ASSUME Cursor < EndOffset, Cursor \in Log, Unharmed(Cursor) PROVE FALSE BY <1>0
<1>2. Sound BY <1>0, <1>1 DEF Sound, Unharmed
<1>3. PICK f \in Fetchers : SegStart(f) <= Cursor /\ Cursor < SegEnd(f)
  BY <1>0, <1>1, SegmentsCover
<1>4. fetchPc[f] = "done" BY <1>0 DEF ClosedWhy
<1>5. Published(f, Cursor) BY <1>1, <1>3, <1>4 DEF FetchersEnd, Published
<1>6. NotRefused(f) /\ Cursor <= Cursor BY <1>0 DEF NotRefused
<1>7. ~Lost(Slot(Cursor)) BY <1>0, <1>1, PassesUnharmed
<1>8. Holding(Slot(Cursor)) BY <1>0, <1>2, <1>5, <1>6, <1>7 DEF OrderInv, SlotInv, PutsKept
<1>9. QED BY <1>8 DEF Holding

\* A lost slot is never found again.
LEMMA LossStays ==
    ASSUME PlaceInv, [Next]_vars
    PROVE  clobbered \subseteq clobbered'
<1>1. TypeOK' BY TypeStep DEF PlaceInv
<1>2. QED
  BY <1>1, StepKinds, FetchNextSteps, CallerPlaces DEF Outside, Calls, NoteWrite, ownVars

\* The drainer ends when the range is drained, or at a gap or a lost slot.
LEMMA DrainerEndsStep ==
    ASSUME OrderInv, FetchersEnd, BatchNotEmpty, DrainerEnds, [Next]_vars
    PROVE  DrainerEnds'
<1>0. /\ TypeOK /\ DrainerPlaced /\ Cursor \in Nat /\ Slot(Cursor) \in Ring!Slots
      /\ drainPc \notin {"idle", "true"} => Ring!NextSlot = Slot(Cursor)
      /\ (cancelled => cancelled') /\ (failed => failed')
  BY CursorFacts, FlagsStay DEF OrderInv, PlaceInv
<1>a. \A o : ~Unharmed(o) => ~Unharmed(o)' BY LossStays DEF OrderInv, Unharmed
<1>1. CASE \/ Cancel \/ MainStep \/ ProduceSettled \/ ProduceBlocks \/ UNCHANGED vars
           \/ \E f \in Fetchers : FetchStep(f)
  <2>1. /\ UNCHANGED <<batch, handed, drainer>>
        /\ drainPc' = drainPc \/ (drainPc = "asleep" /\ drainPc' = "lock")
    BY <1>1, OthersLeaveDrainer DEF OrderInv
  <2>2. UNCHANGED Cursor BY <2>1 DEF Cursor, Base
  <2>3. QED BY <1>0, <2>1, <2>2, <1>a DEF DrainerEnds
<1>2. CASE DrainerTop
  <2>1. CASE cancelled BY <1>0, <2>1 DEF DrainerEnds
  <2>2. CASE ~cancelled
    <3>1. drainer' = "drain" /\ drainPc' = "lock" BY <1>2, <2>2 DEF DrainerTop, Ring!DrainCall
    <3>2. QED BY <3>1 DEF DrainerEnds
  <2>3. QED BY <2>1, <2>2
<1>3. CASE DrainerBatch
  <2>1. drainPc' = "idle" /\ UNCHANGED <<batch, failed, cancelled>> /\ drainPc \in {"true", "false"}
    BY <1>3 DEF DrainerBatch, Ring!DrainReturn, Ring!DrainFrame
  <2>2. CASE drainPc = "false"
    <3>1. batch = <<>> /\ UNCHANGED handed BY <1>0, <1>3, <2>2 DEF DrainerBatch, DrainerPlaced
    <3>2. UNCHANGED Cursor
      <4>1. Base \in Nat /\ UNCHANGED Base BY <1>0, <3>1, CursorFacts DEF Base
      <4>2. Len(batch) = 0 BY <3>1
      <4>3. QED BY <2>1, <2>2, <4>1, <4>2 DEF Cursor
    <3>3. QED BY <1>a, <2>1, <2>2, <3>2 DEF DrainerEnds
  <2>3. CASE drainPc = "true"
    <3>1. batch # <<>> BY <2>3 DEF BatchNotEmpty
    <3>2. drainer' = "produce" BY <1>3, <2>3, <3>1 DEF DrainerBatch
    <3>3. QED BY <2>1, <3>2 DEF DrainerEnds
  <2>4. QED BY <2>1, <2>2, <2>3
<1>4. CASE DrainerProgress \/ DrainerEnd
  <2>1. /\ UNCHANGED <<ringVars, handed, failed>>
        /\ drainer' \in {"wait", "done"} => drainer \in {"wait", "done"}
    BY <1>4 DEF DrainerProgress, DrainerEnd
  <2>2. UNCHANGED Cursor BY <2>1 DEF Cursor, Base, ringVars
  <2>3. QED BY <1>a, <2>1, <2>2 DEF DrainerEnds, ringVars
<1>5. CASE Ring!DrainStep /\ UNCHANGED ownVars
  <2>1. drainer \notin {"wait", "done"} /\ drainPc # "idle"
    BY <1>0, <1>5
    DEF DrainerPlaced, Ring!DrainStep, Ring!DrainLock, Ring!DrainCheck, Ring!DrainTicket,
        Ring!DrainTest, Ring!DrainRead, Ring!DrainClear, Ring!DrainEmpty, Ring!DrainAdvance
  <2>2. CASE Ring!DrainTest
    <3>1. /\ drainPc = "test" /\ UNCHANGED <<batch, handed, closed, cancelled, failed>>
          /\ drainPc' = "false" => (closed /\ ~filled[Slot(Cursor)]) \/ cancelled
          /\ drainPc' \in {"false", "read"}
      BY <1>0, <1>5, <2>2 DEF Ring!DrainStep, Ring!DrainFrame, Ring!DrainTest, Ring!DrainStops, ownVars
    <3>2. UNCHANGED Cursor BY <3>1 DEF Cursor, Base
    <3>3. UNCHANGED drainer BY <1>5 DEF ownVars
    <3>4. QED BY <1>a, <2>1, <3>1, <3>2, <3>3, ClosedIsDrained DEF DrainerEnds
  <2>3. CASE ~Ring!DrainTest
    <3>1. drainPc' # "false" /\ UNCHANGED drainer
      BY <1>5, <2>3
      DEF Ring!DrainStep, Ring!DrainLock, Ring!DrainCheck, Ring!DrainTicket, Ring!DrainRead,
          Ring!DrainClear, Ring!DrainEmpty, Ring!DrainAdvance, ownVars
    <3>2. QED BY <2>1, <3>1 DEF DrainerEnds
  <2>4. QED BY <2>2, <2>3
<1>6. QED BY <1>1, <1>2, <1>3, <1>4, <1>5 DEF Next, DrainerStep

\* EndInv is inductive.
LEMMA EndStep ==
    ASSUME EndInv, [Next]_vars
    PROVE  EndInv'
<1>1. OrderInv /\ FetchersEnd /\ BatchNotEmpty /\ DrainerEnds /\ PlaceInv
  BY DEF EndInv, OrderInv
<1>2. OrderInv' /\ PlaceInv' BY <1>1, OrderStep, PlaceStep
<1>3. QED
  BY <1>1, <1>2, FetchersEndStep, BatchNotEmptyStep, DrainerEndsStep DEF EndInv

\* A catch-up begins with nobody at its end.
LEMMA EndInit ==
    ASSUME Init
    PROVE  EndInv
<1>1. OrderInv BY OrderInit
<1>2. FetchersEnd /\ BatchNotEmpty /\ DrainerEnds
  BY DEF Init, Ring!RingInit, FetchersEnd, BatchNotEmpty, DrainerEnds
<1>3. QED BY <1>1, <1>2 DEF EndInv

\* When the drainer leaves its loop, it has handed on every record it can reach.
LEMMA EndIsComplete ==
    ASSUME EndInv
    PROVE  CompleteAtEnd
<1>1. SUFFICES ASSUME drainer \in {"wait", "done"}, ~cancelled, ~failed, NEW o \in InRange,
                      StartOffset .. o \subseteq Log, Unharmed(o)
               PROVE  \E i \in DOMAIN handed : handed[i] = o
  BY DEF CompleteAtEnd
<1>2. /\ TypeOK /\ DrainerPlaced /\ InOrder /\ DrainerEnds /\ clobbered \subseteq Nat
      /\ handed \in Seq(Nat \cup {Ring!Nil}) /\ StartOffset \in Nat /\ EndOffset \in Nat
  BY CatchUpAssumption DEF EndInv, OrderInv, PlaceInv, TypeOK
<1>3. o \in Nat /\ StartOffset <= o /\ o < EndOffset BY <1>1, CatchUpAssumption DEF InRange
<1>4. Cursor = StartOffset + Len(handed) /\ Len(handed) \in Nat /\ DOMAIN handed = 1 .. Len(handed)
  BY <1>1, <1>2 DEF DrainerPlaced, Cursor, Base
<1>5. o < Cursor
  <2>1. SUFFICES ASSUME Cursor <= o PROVE FALSE BY <1>2, <1>3, <1>4
  <2>2. Cursor \in Log /\ Cursor < EndOffset BY <1>1, <1>2, <1>3, <1>4, <2>1
  <2>3. Unharmed(Cursor) BY <1>1, <1>2, <1>3, <1>4, <2>1 DEF Unharmed
  <2>4. QED BY <1>1, <1>2, <1>4, <2>2, <2>3 DEF DrainerEnds
<1>6. (o - StartOffset) + 1 \in DOMAIN handed BY <1>2, <1>3, <1>4, <1>5
<1>7. StartOffset + (((o - StartOffset) + 1) - 1) = o BY <1>2, <1>3
<1>8. handed[(o - StartOffset) + 1] = o BY <1>1, <1>2, <1>6, <1>7 DEF InOrder
<1>9. QED BY <1>6, <1>8

\* For any number of fetchers, any range, log, ring and batch size: a drainer that
\* leaves its loop without a cancellation and without a failed fetcher has handed on
\* every record of the range before the first gap of the log and the first lost slot.
THEOREM CatchUpIsComplete == Spec => []CompleteAtEnd
<1>1. Init => EndInv BY EndInit
<1>2. EndInv /\ [Next]_vars => EndInv' BY EndStep
<1>3. EndInv => CompleteAtEnd BY EndIsComplete
<1>4. QED BY <1>1, <1>2, <1>3, PTL DEF Spec
=============================================================================
