------------------------------ MODULE SyncStore ------------------------------
(***************************************************************************)
(* The offset sync store of one topic-partition                            *)
(* (internal/offset/sync_store.go): an array of offset syncs, each the     *)
(* pair of a source offset (up) and the offset of its copy on the target   *)
(* (down), slot 0 the latest, that translates source offsets to target     *)
(* offsets.  The array has one slot per bit of an int64; both are Width    *)
(* here, and the arithmetic of the code wraps at that width.               *)
(*                                                                         *)
(* Operators only: the goroutines that call the store are in OffsetSync.   *)
(***************************************************************************)
EXTENDS Integers

CONSTANT Width   \* bits of an offset, and syncsPerPartition (64)

ASSUME WidthAssumption == Width \in Nat /\ Width >= 2

Slots == 0 .. Width - 1

\* The map has no entry for the partition.
Absent == <<>>

\* Two's complement at Width bits.
Wrap(x) == ((x + 2^(Width - 1)) % (2^Width)) - 2^(Width - 1)

\* "First sync", "upstream rewind" and "during initial read": every slot.
Fill_Mutant(sync) == [i \in 0 .. Width |-> sync]
Fill(sync) == [i \in Slots |-> sync]

\* Slot i keeps its sync: the slot before it, now holding a sync at up, is
\* within the bound of invariant B.  A bound that overflows counts as exceeded.
Keeps_Mutant(old, i, up) ==
    LET bound == Wrap(old[i].up + 2^i) IN
    bound >= 0 /\ up <= bound
Keeps(old, i, up) ==
    LET bound == Wrap(old[i].up + 2^i - 2^(i - 1)) IN
    bound >= 0 /\ up <= bound

\* Normal update: the new sync is propagated up to the first slot that keeps its
\* own, and no further.
Propagate(old, sync) ==
    [i \in Slots |-> IF \A j \in 1 .. i : ~Keeps(old, j, sync.up)
                     THEN sync ELSE old[i]]

\* HandleSync: the array after a sync.
HandleSync_Mutant(old, readToEnd, sync) ==
    IF old = Absent \/ ~readToEnd THEN Fill(sync) ELSE Propagate(old, sync)
HandleSync(old, readToEnd, sync) ==
    IF old = Absent \/ ~readToEnd THEN Fill(sync)
    ELSE IF sync.up < old[0].up THEN Fill(sync)
    ELSE Propagate(old, sync)

\* The first slot, from the latest on, whose sync is not past the offset.
LatestSlot(syncs, up) ==
    CHOOSE i \in Slots : /\ syncs[i].up <= up
                         /\ \A j \in 0 .. i - 1 : syncs[j].up > up

\* TranslateDownstream, when the store is ready; -1: too far in the past.
Translate_Mutant(syncs, up) ==
    IF \A i \in Slots : syncs[i].up > up THEN -1
    ELSE syncs[LatestSlot(syncs, up)].down + 1
Translate(syncs, up) ==
    IF \A i \in Slots : syncs[i].up > up THEN -1
    ELSE LET s == syncs[LatestSlot(syncs, up)] IN
         s.down + (IF s.up < up THEN 1 ELSE 0)
=============================================================================
