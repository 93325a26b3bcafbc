----------------------------- MODULE OffsetSync -----------------------------
(***************************************************************************)
(* Offset syncs of one topic-partition of a source cluster from end to     *)
(* end.  The produce callback of the Source gives each acknowledged copy   *)
(* to the sync store of its flow and has some of them written to the       *)
(* offset-syncs topic by goroutines that may overtake each other           *)
(* (offset/sync_writer.go); a new process reads that topic into an empty   *)
(* store (SyncReader.ReadToEnd) before any Source starts, then follows it  *)
(* (SyncReader.Follow), which feeds the store the syncs the process itself *)
(* wrote, again and later.                                                 *)
(*                                                                         *)
(* Flows are the replication flows out of that cluster, each to a target   *)
(* of its own.  They run in one process, and they share the offset-syncs   *)
(* topic: its name (engine.go:353) and the key and value of its records    *)
(* say nothing of the target.                                              *)
(*                                                                         *)
(* The Source is reduced to what it does here: records are copied in       *)
(* order, a restart copies again from the committed offset, and a commit   *)
(* waits for the sync writers.  Produces that fail are the matter of       *)
(* Source.                                                                 *)
(***************************************************************************)
EXTENDS SyncStore, Sequences

CONSTANTS
    Flows,      \* flows out of the source cluster
    LogEnd,     \* bound: source records
    MaxTarget   \* bound: records written to a target, copies included

ASSUME OffsetSyncAssumption ==
    /\ LogEnd \in Nat /\ LogEnd <= 2^(Width - 1)
    /\ MaxTarget \in Nat /\ MaxTarget <= 2^(Width - 1)

VARIABLES
    syncs,      \* syncs[f]: s.syncs[tp] of the flow's store, Absent or the array
    readToEnd,  \* readToEnd[f]: s.readToEnd
    target,     \* target[f]: source offsets in the order written to the target
    nextUp,     \* nextUp[f]: the next source offset the Source copies
    committed,  \* committed[f]: the committed offset of the Source's group
    writing,    \* writing[f]: syncs being written to the offset-syncs topic
    topic,      \* the offset-syncs topic
    readPos     \* readPos[f]: records of it the flow's reader has polled

syncVars == <<syncs, readToEnd, target, nextUp, committed, writing, topic, readPos>>

OffsetSyncs == [up : 0 .. LogEnd - 1, down : 0 .. MaxTarget - 1]

\* Type invariant of the syncs: each array has exactly its slots, filled with
\* true offsets, and no Source has committed past what it handed on.
SyncTypeOK ==
    /\ syncs \in [Flows -> {Absent} \cup [Slots -> OffsetSyncs]]
    /\ readToEnd \in [Flows -> BOOLEAN]
    /\ target \in [Flows -> Seq(0 .. LogEnd - 1)]
    /\ nextUp \in [Flows -> 0 .. LogEnd]
    /\ committed \in [Flows -> 0 .. LogEnd]
    /\ \A f \in Flows : committed[f] <= nextUp[f]
    /\ writing \in [Flows -> SUBSET OffsetSyncs]
    /\ topic \in Seq(OffsetSyncs)
    /\ readPos \in [Flows -> 0 .. Len(topic)]

SyncInit ==
    /\ syncs = [f \in Flows |-> Absent]
    /\ readToEnd = [f \in Flows |-> FALSE]
    /\ target = [f \in Flows |-> <<>>]
    /\ nextUp = [f \in Flows |-> 0]
    /\ committed = [f \in Flows |-> 0]
    /\ writing = [f \in Flows |-> {}]
    /\ topic = <<>>
    /\ readPos = [f \in Flows |-> 0]

\* The store of flow f takes a sync.
Handle(f, sync) == syncs' = [syncs EXCEPT ![f] = HandleSync(@, readToEnd[f], sync)]

\* The callback of an acknowledged record: HandleSync, and for every
\* syncWriteInterval-th of them a goroutine that writes the sync.  The engine
\* starts the Sources when the stores of all flows are read.
Replicate(f) ==
    /\ \A g \in Flows : readToEnd[g]
    /\ nextUp[f] < LogEnd /\ Len(target[f]) < MaxTarget
    /\ LET sync == [up |-> nextUp[f], down |-> Len(target[f])] IN
       /\ Handle(f, sync)
       /\ \/ UNCHANGED writing
          \/ writing' = [writing EXCEPT ![f] = @ \cup {sync}]
    /\ target' = [target EXCEPT ![f] = Append(@, nextUp[f])]
    /\ nextUp' = [nextUp EXCEPT ![f] = @ + 1]
    /\ UNCHANGED <<readToEnd, committed, topic, readPos>>

\* SyncWriter.Write returns: written, or failed and only logged.
Written(f) ==
    /\ \E sync \in writing[f] :
         /\ writing' = [writing EXCEPT ![f] = @ \ {sync}]
         /\ topic' \in {topic, Append(topic, sync)}
    /\ UNCHANGED <<syncs, readToEnd, target, nextUp, committed, readPos>>

\* The Source commits once its callbacks and writers are done.
Commit(f) ==
    /\ writing[f] = {}
    /\ committed' = [committed EXCEPT ![f] = nextUp[f]]
    /\ UNCHANGED <<syncs, readToEnd, target, nextUp, writing, topic, readPos>>

\* ReadToEnd and Follow: the next sync of the topic goes to the store.
ReadSync(f) ==
    /\ readPos[f] < Len(topic)
    /\ Handle(f, topic[readPos[f] + 1])
    /\ readPos' = [readPos EXCEPT ![f] = @ + 1]
    /\ UNCHANGED <<readToEnd, target, nextUp, committed, writing, topic>>

\* The topic is compacted (CreateCompactedTopic), and all syncs of a partition have
\* one key: any but the last may be gone when a reader gets there.
SkipCompacted(f) ==
    /\ readPos[f] + 1 < Len(topic)
    /\ readPos' = [readPos EXCEPT ![f] = @ + 1]
    /\ UNCHANGED <<syncs, readToEnd, target, nextUp, committed, writing, topic>>

\* ReadToEnd ends: at the end of the topic, or at its deadline, when the
\* records of the poll that ran into it are dropped.
MarkReadToEnd(f) ==
    /\ ~readToEnd[f]
    /\ readToEnd' = [readToEnd EXCEPT ![f] = TRUE]
    /\ \E pos \in readPos[f] .. Len(topic) : readPos' = [readPos EXCEPT ![f] = pos]
    /\ UNCHANGED <<syncs, target, nextUp, committed, writing, topic>>

\* The process dies and a new one starts.
SyncRestart ==
    /\ syncs' = [f \in Flows |-> Absent]
    /\ readToEnd' = [f \in Flows |-> FALSE]
    /\ nextUp' = committed
    /\ writing' = [f \in Flows |-> {}]
    /\ readPos' = [f \in Flows |-> 0]
    /\ UNCHANGED <<target, committed, topic>>

SyncStep(f) ==
    \/ Replicate(f) \/ Written(f) \/ Commit(f)
    \/ ReadSync(f) \/ SkipCompacted(f) \/ MarkReadToEnd(f)

\* The store can translate offsets of the partition.
Ready(f) == readToEnd[f] /\ syncs[f] # Absent

(***************************************************************************)
(* Properties.                                                             *)
(***************************************************************************)

\* Invariant B of the store (sync_store.go:93, DESIGN.md:87): the syncs get
\* sparser no faster than the powers of two, over first, replayed, repeated and
\* rewound syncs in any order, also where the bound overflows.
InvariantB ==
    \A f \in Flows : syncs[f] # Absent =>
        \A j \in Slots : \A i \in 0 .. j - 1 :
            syncs[f][i].up <= syncs[f][j].up + 2^j - 2^i

\* Invariant C of the store (DESIGN.md:88): two slots hold the same source offset
\* or offsets at least 2^(i-2) apart, the later slot's being the smaller.
InvariantC ==
    \A f \in Flows : syncs[f] # Absent =>
        \A j \in Slots : \A i \in 0 .. j - 1 :
            \/ syncs[f][i].up = syncs[f][j].up
            \/ syncs[f][i].up >= syncs[f][j].up + (IF i < 2 THEN 1 ELSE 2^(i - 2))

\* A group that has read every record below up and goes on at offset down of the
\* target of flow f misses nothing: every record from up on has a copy at or after
\* that offset, or is still to be copied, and that copy comes after it too.
MissesNothing(f, up, down) ==
    /\ \A o \in up .. nextUp[f] - 1 : \E i \in DOMAIN target[f] : i > down /\ target[f][i] = o
    /\ down <= Len(target[f]) + (IF up > nextUp[f] THEN up - nextUp[f] ELSE 0)

\* What the checkpoints need of TranslateDownstream: a group that moves to the
\* translated offset misses no record, whatever mixture of live, replayed and
\* pre-crash syncs the store holds.
TranslationMissesNothing ==
    \A f \in Flows : Ready(f) => \A up \in 0 .. LogEnd :
        Translate(syncs[f], up) >= 0 => MissesNothing(f, up, Translate(syncs[f], up))

\* What DESIGN.md:86 ("syncs[0] is always the latest", "same invariants" for the
\* Go code) promises: while every sync the store is given is of this process's
\* Source, slot 0 is the sync of the last record that Source had acknowledged.
LatestFirst ==
    \A f \in Flows : Ready(f) /\ target[f] # <<>> /\ nextUp[f] = Len(target[f])
        => syncs[f][0].up = nextUp[f] - 1
=============================================================================
