----------------------------- MODULE Checkpoint -----------------------------
(***************************************************************************)
(* The checkpoint emitters (internal/mirror/checkpoint.go) on top of the   *)
(* offset syncs: in every round the emitter of a flow fetches the offsets  *)
(* consumer groups have committed on the source cluster, translates them   *)
(* with the flow's sync store, which the Source and the reader go on       *)
(* changing, and produces the pairs to the checkpoints topic of the        *)
(* target, where they outlive the process.                                 *)
(*                                                                         *)
(* One group that the group filter admits, on the partition of OffsetSync. *)
(* It may commit any offset, forward or back, at any time, and the emitter *)
(* may translate one it fetched long before: every round takes any offset, *)
(* and no variable keeps the group's.  The delay between Produce and the   *)
(* write is not modelled: a checkpoint is in its topic at once, or lost.   *)
(***************************************************************************)
EXTENDS OffsetSync

VARIABLE checkpoint   \* checkpoint[f]: {} or the last checkpoint in the topic

vars == <<syncVars, checkpoint>>

\* Type invariant: of the syncs, and that a checkpoint holds true offsets.
TypeOK ==
    /\ SyncTypeOK
    /\ checkpoint \in [Flows ->
           {{}} \cup {{cp} : cp \in [up : 0 .. LogEnd, down : 0 .. MaxTarget]}]

Init ==
    /\ SyncInit
    /\ checkpoint = [f \in Flows |-> {}]

\* The record that is produced to the checkpoints topic.
CheckpointOf_Mutant(up, down) == [up |-> up, down |-> down + 1]
CheckpointOf(up, down) == [up |-> up, down |-> down]

\* emitCheckpoints: with a ready store a fetched offset is translated; one that
\* has no translation, or is too far in the past, is passed over.  The produce
\* may fail, which is only logged: then nothing changes.
EmitCheckpoint(f) ==
    /\ Ready(f)
    /\ \E up \in 0 .. LogEnd :
         LET down == Translate(syncs[f], up) IN
         /\ down >= 0
         /\ checkpoint' = [checkpoint EXCEPT ![f] = {CheckpointOf(up, down)}]
    /\ UNCHANGED syncVars

\* The process dies and a new one starts; the checkpoints stay.
Restart == SyncRestart /\ UNCHANGED checkpoint

Next ==
    \/ \E f \in Flows : SyncStep(f) /\ UNCHANGED checkpoint
    \/ \E f \in Flows : EmitCheckpoint(f)
    \/ Restart

Spec == Init /\ [][Next]_vars

(***************************************************************************)
(* Properties.                                                             *)
(***************************************************************************)

\* README.md:58 ("enables seamless failover"): at any time, the restarts and the
\* copies after its emission included, a group that fails over to the target at
\* the last checkpoint of its topic misses no record.
FailoverMissesNothing ==
    \A f \in Flows : \A cp \in checkpoint[f] : MissesNothing(f, cp.up, cp.down)
=============================================================================
