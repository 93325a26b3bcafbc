-------------------------- MODULE CheckpointProofs --------------------------
(***************************************************************************)
(* Proofs about the offset syncs and the checkpoints made from them, for   *)
(* every width of the arrays, every number of records and copies and, but  *)
(* for the results on failover, every number of flows out of a cluster.    *)
(***************************************************************************)
EXTENDS Checkpoint, SyncStoreProofs, SequenceTheorems

\* The offsets of a sync are natural numbers the store can represent.
LEMMA SyncOffsets ==
    ASSUME NEW s \in OffsetSyncs
    PROVE  /\ s.up \in Nat /\ s.up \in 0 .. LogEnd - 1 /\ s.up \in Representable
           /\ s.down \in Nat /\ s.down \in 0 .. MaxTarget - 1
<1>1. Width - 1 \in Nat
  BY WidthAssumption
<1>2. 2^(Width - 1) \in Nat
  BY <1>1, PowerPositive
<1> QED
  BY <1>2, OffsetSyncAssumption DEF OffsetSyncs, Representable

(***************************************************************************)
(* Types and the spacing of the slots.                                     *)
(***************************************************************************)

\* Each array satisfies B and C on its own account: the inductive invariant.
StoreInv ==
    /\ TypeOK
    /\ \A f \in Flows : syncs[f] # Absent => /\ syncs[f] \in [Slots -> OffsetSyncs]
                                             /\ ArrayB(syncs[f]) /\ ArrayC(syncs[f])

\* A store that takes a sync stays a store.
LEMMA HandleKeeps ==
    ASSUME StoreInv, NEW f \in Flows, NEW sync \in OffsetSyncs, Handle(f, sync)
    PROVE  /\ syncs' \in [Flows -> {Absent} \cup [Slots -> OffsetSyncs]]
           /\ \A g \in Flows : syncs'[g] # Absent => /\ syncs'[g] \in [Slots -> OffsetSyncs]
                                                     /\ ArrayB(syncs'[g]) /\ ArrayC(syncs'[g])
           /\ \A g \in Flows : g # f => syncs'[g] = syncs[g]
           /\ \A i \in Slots : \/ syncs'[f][i] = sync
                               \/ syncs[f] # Absent /\ syncs'[f][i] = syncs[f][i]
<1> DEFINE a == syncs[f]
           b == HandleSync(a, readToEnd[f], sync)
<1>1. syncs' = [syncs EXCEPT ![f] = b]
  BY DEF Handle
<1>2. /\ syncs \in [Flows -> {Absent} \cup [Slots -> OffsetSyncs]]
      /\ readToEnd[f] \in BOOLEAN
  BY DEF StoreInv, TypeOK, SyncTypeOK
<1>3. a = Absent \/ (a \in [Slots -> OffsetSyncs] /\ ArrayB(a) /\ ArrayC(a))
  BY DEF StoreInv
<1> HIDE DEF a
<1>4. b \in [Slots -> OffsetSyncs]
  BY <1>3, HandleSyncType
<1>5. a = Absent \/ (IsArray(a) /\ ArrayB(a) /\ ArrayC(a))
  BY <1>3, SyncOffsets DEF IsArray
<1>6. /\ ArrayB(b) /\ ArrayC(b)
      /\ \A i \in Slots : b[i] = sync \/ (a # Absent /\ b[i] = a[i])
  <2>1. sync.up \in Representable
    BY SyncOffsets
  <2> QED
    BY <1>2, <1>5, <2>1, HandleSyncFacts
<1> HIDE DEF b
<1>7. syncs'[f] = b /\ \A g \in Flows : g # f => syncs'[g] = syncs[g]
  BY <1>1, <1>2
<1>8. syncs' \in [Flows -> {Absent} \cup [Slots -> OffsetSyncs]]
  BY <1>1, <1>2, <1>4
<1> QED
  BY <1>4, <1>6, <1>7, <1>8 DEF StoreInv, a

\* What Replicate does, with its sync named.
LEMMA ReplicateFacts ==
    ASSUME TypeOK, NEW f \in Flows, Replicate(f)
    PROVE  LET sync == [up |-> nextUp[f], down |-> Len(target[f])] IN
           /\ sync \in OffsetSyncs
           /\ Handle(f, sync)
           /\ writing' = writing \/ writing' = [writing EXCEPT ![f] = @ \cup {sync}]
           /\ target' = [target EXCEPT ![f] = Append(@, nextUp[f])]
           /\ nextUp' = [nextUp EXCEPT ![f] = @ + 1]
           /\ UNCHANGED <<readToEnd, committed, topic, readPos>>
           /\ nextUp[f] \in 0 .. LogEnd - 1
           /\ Len(target[f]) \in Nat
<1>1. nextUp[f] \in 0 .. LogEnd /\ target[f] \in Seq(0 .. LogEnd - 1)
  BY DEF TypeOK, SyncTypeOK
<1>2. nextUp[f] < LogEnd /\ Len(target[f]) < MaxTarget
  BY DEF Replicate
<1>3. nextUp[f] \in 0 .. LogEnd - 1 /\ Len(target[f]) \in 0 .. MaxTarget - 1
      /\ Len(target[f]) \in Nat
  BY <1>1, <1>2, OffsetSyncAssumption, LenProperties
<1>4. [up |-> nextUp[f], down |-> Len(target[f])] \in OffsetSyncs
  BY <1>3 DEF OffsetSyncs
<1> QED
  BY <1>3, <1>4 DEF Replicate

\* The syncs of the topic are syncs.
LEMMA TopicSync ==
    ASSUME TypeOK, NEW i \in 1 .. Len(topic)
    PROVE  topic[i] \in OffsetSyncs
<1>1. topic \in Seq(OffsetSyncs)
  BY DEF TypeOK, SyncTypeOK
<1> QED
  BY <1>1, ElementOfSeq

\* A translation of a ready store is an offset of the target, or minus one.
LEMMA TranslationOfSlot ==
    ASSUME StoreInv, NEW f \in Flows, Ready(f), NEW up \in Int, Translate(syncs[f], up) >= 0
    PROVE  \E i \in Slots : /\ syncs[f][i] \in OffsetSyncs
                            /\ syncs[f][i].up <= up
                            /\ Translate(syncs[f], up) = syncs[f][i].down
                                 + (IF syncs[f][i].up < up THEN 1 ELSE 0)
<1> DEFINE a == syncs[f]
<1>1. a \in [Slots -> OffsetSyncs]
  BY DEF StoreInv, Ready
<1> HIDE DEF a
<1>2. IsArray(a)
  BY <1>1, SyncOffsets DEF IsArray
<1>3. ~(\A i \in Slots : a[i].up > up)
  <2> SUFFICES ASSUME \A i \in Slots : a[i].up > up PROVE FALSE
    OBVIOUS
  <2>1. Translate(a, up) = -1
    BY DEF Translate
  <2> QED
    BY <2>1 DEF a
<1>4. PICK i \in Slots : /\ a[i].up <= up
                         /\ Translate(a, up) = a[i].down + (IF a[i].up < up THEN 1 ELSE 0)
  BY <1>2, <1>3, TranslateFacts
<1> QED
  BY <1>1, <1>4 DEF a

\* Every step of a flow keeps the types, and the spacing of every array.
LEMMA StoreFlowStep ==
    ASSUME StoreInv, NEW f \in Flows, SyncStep(f), UNCHANGED checkpoint
    PROVE  StoreInv'
<1>0. TypeOK /\ SyncTypeOK
  BY DEF StoreInv, TypeOK
<1>1. Len(topic) \in Nat /\ topic \in Seq(OffsetSyncs)
  BY <1>0, LenProperties DEF SyncTypeOK
<1>2. CASE Replicate(f)
  <2> DEFINE sync == [up |-> nextUp[f], down |-> Len(target[f])]
  <2>1. /\ sync \in OffsetSyncs /\ Handle(f, sync)
        /\ writing' = writing \/ writing' = [writing EXCEPT ![f] = @ \cup {sync}]
        /\ target' = [target EXCEPT ![f] = Append(@, nextUp[f])]
        /\ nextUp' = [nextUp EXCEPT ![f] = @ + 1]
        /\ UNCHANGED <<readToEnd, committed, topic, readPos>>
        /\ nextUp[f] \in 0 .. LogEnd - 1
    BY <1>0, <1>2, ReplicateFacts
  <2> HIDE DEF sync
  <2>2. /\ syncs' \in [Flows -> {Absent} \cup [Slots -> OffsetSyncs]]
        /\ \A g \in Flows : syncs'[g] # Absent => /\ syncs'[g] \in [Slots -> OffsetSyncs]
                                                  /\ ArrayB(syncs'[g]) /\ ArrayC(syncs'[g])
    BY <2>1, HandleKeeps
  <2>3. target' \in [Flows -> Seq(0 .. LogEnd - 1)]
    <3>1. Append(target[f], nextUp[f]) \in Seq(0 .. LogEnd - 1)
      BY <1>0, <2>1, AppendProperties DEF SyncTypeOK
    <3> QED
      BY <1>0, <2>1, <3>1 DEF SyncTypeOK
  <2>4. nextUp' \in [Flows -> 0 .. LogEnd] /\ \A g \in Flows : committed[g] <= nextUp'[g]
    <3>1. nextUp[f] + 1 \in 0 .. LogEnd
      BY <2>1, OffsetSyncAssumption
    <3>2. \A g \in Flows : nextUp'[g] = IF g = f THEN nextUp[g] + 1 ELSE nextUp[g]
      BY <1>0, <2>1 DEF SyncTypeOK
    <3>3. \A g \in Flows : committed[g] \in Int /\ nextUp[g] \in Int
      BY <1>0, OffsetSyncAssumption DEF SyncTypeOK
    <3> QED
      BY <1>0, <2>1, <3>1, <3>2, <3>3 DEF SyncTypeOK
  <2>5. writing' \in [Flows -> SUBSET OffsetSyncs]
    <3>1. writing \in [Flows -> SUBSET OffsetSyncs]
      BY <1>0 DEF SyncTypeOK
    <3>2. writing[f] \cup {sync} \in SUBSET OffsetSyncs
      BY <2>1, <3>1
    <3> QED
      BY <2>1, <3>1, <3>2
  <2> QED
    BY <1>0, <2>1, <2>2, <2>3, <2>4, <2>5 DEF StoreInv, TypeOK, SyncTypeOK
<1>3. CASE Written(f)
  <2>1. PICK sync \in writing[f] :
          /\ writing' = [writing EXCEPT ![f] = @ \ {sync}]
          /\ topic' \in {topic, Append(topic, sync)}
    BY <1>3 DEF Written
  <2>2. sync \in OffsetSyncs /\ writing' \in [Flows -> SUBSET OffsetSyncs]
    BY <1>0, <2>1 DEF SyncTypeOK
  <2>3. topic' \in Seq(OffsetSyncs) /\ Len(topic') \in Nat /\ Len(topic') >= Len(topic)
    BY <1>1, <2>1, <2>2, AppendProperties, LenProperties
  <2>4. readPos' \in [Flows -> 0 .. Len(topic')]
    BY <1>0, <1>1, <1>3, <2>3 DEF Written, SyncTypeOK
  <2> QED
    BY <1>0, <1>3, <2>2, <2>3, <2>4 DEF Written, StoreInv, TypeOK, SyncTypeOK
<1>4. CASE Commit(f)
  <2>1. /\ committed' \in [Flows -> 0 .. LogEnd]
        /\ \A g \in Flows : committed'[g] <= nextUp[g]
    <3>1. committed' = [committed EXCEPT ![f] = nextUp[f]]
      BY <1>4 DEF Commit
    <3> QED
      BY <1>0, <3>1, OffsetSyncAssumption DEF SyncTypeOK
  <2> QED
    BY <1>0, <1>4, <2>1 DEF Commit, StoreInv, TypeOK, SyncTypeOK
<1>5. CASE ReadSync(f)
  <2>1. readPos[f] + 1 \in 1 .. Len(topic)
    BY <1>0, <1>1, <1>5 DEF ReadSync, SyncTypeOK
  <2>2. topic[readPos[f] + 1] \in OffsetSyncs /\ Handle(f, topic[readPos[f] + 1])
    BY <1>0, <1>5, <2>1, TopicSync DEF ReadSync
  <2>3. /\ syncs' \in [Flows -> {Absent} \cup [Slots -> OffsetSyncs]]
        /\ \A g \in Flows : syncs'[g] # Absent => /\ syncs'[g] \in [Slots -> OffsetSyncs]
                                                  /\ ArrayB(syncs'[g]) /\ ArrayC(syncs'[g])
    BY <2>2, HandleKeeps
  <2>4. readPos' \in [Flows -> 0 .. Len(topic)]
    BY <1>0, <1>1, <1>5, <2>1 DEF ReadSync, SyncTypeOK
  <2> QED
    BY <1>0, <1>5, <2>3, <2>4 DEF ReadSync, StoreInv, TypeOK, SyncTypeOK
<1>6. CASE SkipCompacted(f)
  <2>1. readPos' \in [Flows -> 0 .. Len(topic)]
    BY <1>0, <1>1, <1>6 DEF SkipCompacted, SyncTypeOK
  <2> QED
    BY <1>0, <1>6, <2>1 DEF SkipCompacted, StoreInv, TypeOK, SyncTypeOK
<1>7. CASE MarkReadToEnd(f)
  <2>1. readPos' \in [Flows -> 0 .. Len(topic)]
    BY <1>0, <1>1, <1>7 DEF MarkReadToEnd, SyncTypeOK
  <2>2. readToEnd' \in [Flows -> BOOLEAN]
    BY <1>0, <1>7 DEF MarkReadToEnd, SyncTypeOK
  <2> QED
    BY <1>0, <1>7, <2>1, <2>2 DEF MarkReadToEnd, StoreInv, TypeOK, SyncTypeOK
<1> QED
  BY <1>2, <1>3, <1>4, <1>5, <1>6, <1>7 DEF SyncStep

\* StoreInv is inductive.
LEMMA StoreStep == StoreInv /\ [Next]_vars => StoreInv'
<1> SUFFICES ASSUME StoreInv, [Next]_vars PROVE StoreInv'
  OBVIOUS
<1>0. TypeOK /\ SyncTypeOK
  BY DEF StoreInv, TypeOK
<1>1. ASSUME NEW f \in Flows, SyncStep(f), UNCHANGED checkpoint PROVE StoreInv'
  BY <1>1, StoreFlowStep
<1>2. ASSUME NEW f \in Flows, EmitCheckpoint(f) PROVE StoreInv'
  <2>1. Ready(f) /\ UNCHANGED syncVars
    BY <1>2 DEF EmitCheckpoint
  <2>2. PICK up \in 0 .. LogEnd :
          /\ Translate(syncs[f], up) >= 0
          /\ checkpoint' = [checkpoint EXCEPT
                              ![f] = {CheckpointOf(up, Translate(syncs[f], up))}]
    BY <1>2 DEF EmitCheckpoint
  <2>3. PICK i \in Slots : /\ syncs[f][i] \in OffsetSyncs
                           /\ Translate(syncs[f], up) = syncs[f][i].down
                                + (IF syncs[f][i].up < up THEN 1 ELSE 0)
    BY <2>1, <2>2, TranslationOfSlot
  <2>4. Translate(syncs[f], up) \in 0 .. MaxTarget
    BY <2>3, SyncOffsets, OffsetSyncAssumption
  <2>5. checkpoint' \in [Flows ->
            {{}} \cup {{cp} : cp \in [up : 0 .. LogEnd, down : 0 .. MaxTarget]}]
    <3>1. CheckpointOf(up, Translate(syncs[f], up))
            \in [up : 0 .. LogEnd, down : 0 .. MaxTarget]
      BY <2>4 DEF CheckpointOf
    <3> QED
      BY <1>0, <2>2, <3>1 DEF TypeOK
  <2> QED
    BY <1>0, <2>1, <2>5 DEF StoreInv, TypeOK, SyncTypeOK, syncVars
<1>3. CASE Restart
  <2>1. committed \in [Flows -> 0 .. LogEnd] /\ \A f \in Flows : committed[f] \in Int
    BY <1>0, OffsetSyncAssumption DEF SyncTypeOK
  <2>2. readPos' \in [Flows -> 0 .. Len(topic)]
    BY <1>0, <1>3, LenProperties DEF Restart, SyncRestart, SyncTypeOK
  <2>3. \A f \in Flows : syncs'[f] = Absent
    BY <1>3 DEF Restart, SyncRestart
  <2> QED
    BY <1>0, <1>3, <2>1, <2>2, <2>3 DEF Restart, SyncRestart, StoreInv, TypeOK, SyncTypeOK
<1>4. CASE UNCHANGED vars
  BY <1>0, <1>4 DEF vars, syncVars, StoreInv, TypeOK, SyncTypeOK
<1> QED
  BY <1>1, <1>2, <1>3, <1>4 DEF Next

\* StoreInv holds initially.
LEMMA StoreInit == Init => StoreInv
<1> SUFFICES ASSUME Init PROVE StoreInv
  OBVIOUS
<1>1. <<>> \in Seq(0 .. LogEnd - 1) /\ <<>> \in Seq(OffsetSyncs) /\ Len(<<>>) = 0
  BY EmptySeq
<1>2. 0 \in 0 .. LogEnd
  BY OffsetSyncAssumption
<1>3. readPos \in [Flows -> 0 .. Len(topic)]
  BY <1>1 DEF Init, SyncInit
<1>4. \A f \in Flows : syncs[f] = Absent
  BY DEF Init, SyncInit
<1> QED
  BY <1>1, <1>2, <1>3, <1>4 DEF Init, SyncInit, StoreInv, TypeOK, SyncTypeOK

\* StoreInv holds throughout.
LEMMA AlwaysStoreInv == Spec => []StoreInv
BY StoreInit, StoreStep, PTL DEF Spec

\* The stores, topics and checkpoints are well typed: in particular no array grows
\* a slot too many and no Source commits past what it handed on.
THEOREM CheckpointTypeCorrect == Spec => []TypeOK
<1>1. StoreInv => TypeOK
  BY DEF StoreInv
<1> QED
  BY <1>1, AlwaysStoreInv, PTL

\* Invariant B of DESIGN.md holds of every store, for the 64 slots of the code as
\* for any other number, under any sequence of first, live, replayed, repeated,
\* compacted and rewound syncs, and also where the bound of a slot overflows.
THEOREM SlotsStayNear == Spec => []InvariantB
<1>1. StoreInv => InvariantB
  BY DEF StoreInv, InvariantB, ArrayB
<1> QED
  BY <1>1, AlwaysStoreInv, PTL

\* So does Invariant C: the slots descend, and different ones keep their distance,
\* whatever HandleSync keeps of an array and whatever it fills with the new sync.
THEOREM SlotsStayApart == Spec => []InvariantC
<1>1. StoreInv => InvariantC
  BY DEF StoreInv, InvariantC, ArrayC
<1> QED
  BY <1>1, AlwaysStoreInv, PTL

(***************************************************************************)
(* Failover.                                                               *)
(***************************************************************************)

\* There is one flow out of the cluster.  With two the results below are false
\* (run checkpoint_fanout): a store takes syncs of another target.
OneFlow == \A f, g \in Flows : f = g

\* A sync from which groups can be moved: to the copy it names, if they are to go on
\* with its record, and to the record after it, if they have read that one.
SoundSync(f, s) ==
    /\ s.down < Len(target[f])
    /\ MissesNothing(f, s.up, s.down)
    /\ MissesNothing(f, s.up + 1, s.down + 1)

StoredIsSound ==
    \A f \in Flows : syncs[f] # Absent => \A i \in Slots : SoundSync(f, syncs[f][i])
WritingIsSound == \A f \in Flows : \A s \in writing[f] : SoundSync(f, s)
TopicIsSound   == \A f \in Flows : \A i \in DOMAIN topic : SoundSync(f, topic[i])

\* The inductive invariant of failover: wherever a sync is - in a store, with a
\* writer, in the topic - it is sound, and so is the checkpoint.
FailoverInv ==
    /\ OneFlow
    /\ StoreInv
    /\ StoredIsSound
    /\ WritingIsSound
    /\ TopicIsSound
    /\ FailoverMissesNothing

\* The targets and positions of the flows after a step: as before, one record
\* further, or back at the committed offset.
Moves(f) ==
    \/ target'[f] = target[f] /\ nextUp'[f] = nextUp[f]
    \/ target'[f] = Append(target[f], nextUp[f]) /\ nextUp'[f] = nextUp[f] + 1
    \/ target'[f] = target[f] /\ nextUp'[f] = committed[f]

\* Every step moves every flow in one of these ways.
LEMMA EveryStepMoves ==
    ASSUME TypeOK, [Next]_vars, NEW f \in Flows
    PROVE  Moves(f)
<1>0. SyncTypeOK
  BY DEF TypeOK
<1>1. ASSUME NEW g \in Flows, Replicate(g) PROVE Moves(f)
  BY <1>0, <1>1 DEF Replicate, Moves, SyncTypeOK
<1>2. ASSUME UNCHANGED <<target, nextUp>> PROVE Moves(f)
  BY <1>2 DEF Moves
<1>3. CASE Restart
  BY <1>3 DEF Restart, SyncRestart, Moves
<1>4. ASSUME NEW g \in Flows, SyncStep(g) PROVE Moves(f)
  BY <1>1, <1>2, <1>4 DEF SyncStep, Written, Commit, ReadSync, SkipCompacted, MarkReadToEnd
<1>5. ASSUME NEW g \in Flows, EmitCheckpoint(g) PROVE Moves(f)
  BY <1>2, <1>5 DEF EmitCheckpoint, syncVars
<1>6. CASE UNCHANGED vars
  BY <1>2, <1>6 DEF vars, syncVars
<1> QED
  BY <1>3, <1>4, <1>5, <1>6 DEF Next

\* A position from which nothing is missed stays one, for ever: copies are only
\* added, each record that is new has a copy at the end, and a Source that starts
\* again copies again.
LEMMA MissesNothingStays ==
    ASSUME TypeOK, [Next]_vars, NEW f \in Flows, NEW up \in Nat, NEW down \in Nat,
           MissesNothing(f, up, down)
    PROVE  MissesNothing(f, up, down)'
<1>1. Moves(f)
  BY EveryStepMoves
<1>2. /\ nextUp[f] \in Nat /\ committed[f] \in Nat /\ committed[f] <= nextUp[f]
      /\ target[f] \in Seq(0 .. LogEnd - 1) /\ Len(target[f]) \in Nat
  BY OffsetSyncAssumption, LenProperties DEF TypeOK, SyncTypeOK
<1>3. CASE target'[f] = target[f] /\ nextUp'[f] = nextUp[f]
  BY <1>3 DEF MissesNothing
<1>4. CASE target'[f] = Append(target[f], nextUp[f]) /\ nextUp'[f] = nextUp[f] + 1
  <2> DEFINE n == Len(target[f])
  <2>0. nextUp[f] \in 0 .. LogEnd - 1
    <3>1. nextUp'[f] # nextUp[f]
      BY <1>2, <1>4
    <3>2. CASE \E g \in Flows : Replicate(g)
      <4>1. PICK g \in Flows : Replicate(g)
        BY <3>2
      <4>2. g = f
        BY <3>1, <4>1 DEF Replicate, TypeOK, SyncTypeOK
      <4> QED
        BY <1>2, <4>1, <4>2, OffsetSyncAssumption DEF Replicate
    <3>3. CASE ~\E g \in Flows : Replicate(g)
      <4>1. nextUp' = committed \/ nextUp' = nextUp
        BY <3>3 DEF Next, SyncStep, Written, Commit, ReadSync, SkipCompacted, MarkReadToEnd,
                    EmitCheckpoint, Restart, SyncRestart, vars, syncVars
      <4> QED
        BY <1>2, <1>4, <4>1
    <3> QED
      BY <3>2, <3>3
  <2>1. /\ Len(target'[f]) = n + 1
        /\ \A i \in 1 .. n : target'[f][i] = target[f][i]
        /\ target'[f][n + 1] = nextUp[f]
        /\ DOMAIN target[f] = 1 .. n
        /\ DOMAIN target'[f] = 1 .. n + 1
    BY <1>2, <1>4, <2>0, AppendProperties, LenProperties
  <2>2. down <= n + (IF up > nextUp[f] THEN up - nextUp[f] ELSE 0)
    BY DEF MissesNothing
  <2> HIDE DEF n
  <2>3. n \in Nat
    BY <1>2 DEF n
  <2>4. ASSUME NEW o \in up .. nextUp'[f] - 1
        PROVE  \E i \in DOMAIN target'[f] : i > down /\ target'[f][i] = o
    <3>1. CASE o = nextUp[f]
      <4>1. n + 1 > down
        BY <1>2, <1>4, <2>2, <2>3, <3>1
      <4> QED
        BY <2>1, <2>3, <3>1, <4>1
    <3>2. CASE o # nextUp[f]
      <4>1. o \in up .. nextUp[f] - 1
        BY <1>2, <1>4, <3>2
      <4>2. PICK i \in DOMAIN target[f] : i > down /\ target[f][i] = o
        BY <4>1 DEF MissesNothing
      <4> QED
        BY <2>1, <2>3, <4>2
    <3> QED
      BY <3>1, <3>2
  <2>5. down <= Len(target'[f]) + (IF up > nextUp'[f] THEN up - nextUp'[f] ELSE 0)
    BY <1>2, <1>4, <2>1, <2>2, <2>3
  <2> QED
    BY <2>4, <2>5 DEF MissesNothing
<1>5. CASE target'[f] = target[f] /\ nextUp'[f] = committed[f]
  <2>1. \A o \in up .. nextUp'[f] - 1 : o \in up .. nextUp[f] - 1
    BY <1>2, <1>5
  <2>2. down <= Len(target'[f]) + (IF up > nextUp'[f] THEN up - nextUp'[f] ELSE 0)
    BY <1>2, <1>5 DEF MissesNothing
  <2> QED
    BY <1>5, <2>1, <2>2 DEF MissesNothing
<1> QED
  BY <1>1, <1>3, <1>4, <1>5 DEF Moves

\* A sound sync stays sound.
LEMMA SoundStays ==
    ASSUME TypeOK, [Next]_vars, NEW f \in Flows, NEW s \in OffsetSyncs, SoundSync(f, s)
    PROVE  SoundSync(f, s)'
<1>1. s.up \in Nat /\ s.down \in Nat /\ s.up + 1 \in Nat /\ s.down + 1 \in Nat
  BY SyncOffsets
<1>2. MissesNothing(f, s.up, s.down)' /\ MissesNothing(f, s.up + 1, s.down + 1)'
  BY <1>1, MissesNothingStays DEF SoundSync
<1>3. s.down < Len(target'[f])
  <2>1. target[f] \in Seq(0 .. LogEnd - 1) /\ Len(target[f]) \in Nat
    BY LenProperties DEF TypeOK, SyncTypeOK
  <2>2. Len(target'[f]) = Len(target[f]) \/ Len(target'[f]) = Len(target[f]) + 1
    BY <2>1, EveryStepMoves DEF Moves
  <2> QED
    BY <1>1, <2>1, <2>2 DEF SoundSync
<1> QED
  BY <1>2, <1>3 DEF SoundSync

\* The sync of a record that is copied is sound once the copy is written.
LEMMA NewSyncIsSound ==
    ASSUME TypeOK, NEW f \in Flows, Replicate(f), NEW s \in OffsetSyncs,
           s.up = nextUp[f], s.down = Len(target[f])
    PROVE  SoundSync(f, s)'
<1>1. /\ target' = [target EXCEPT ![f] = Append(@, nextUp[f])]
      /\ nextUp' = [nextUp EXCEPT ![f] = @ + 1]
      /\ s.up \in 0 .. LogEnd - 1
  BY ReplicateFacts
<1>2. target[f] \in Seq(0 .. LogEnd - 1) /\ target \in [Flows -> Seq(0 .. LogEnd - 1)]
      /\ nextUp \in [Flows -> 0 .. LogEnd]
  BY DEF TypeOK, SyncTypeOK
<1>3. target'[f] = Append(target[f], s.up) /\ nextUp'[f] = s.up + 1
  BY <1>1, <1>2
<1>4. /\ Len(target'[f]) = s.down + 1
      /\ target'[f][s.down + 1] = s.up
      /\ DOMAIN target'[f] = 1 .. s.down + 1
  BY <1>1, <1>2, <1>3, AppendProperties, LenProperties
<1>5. s.up \in Nat /\ s.down \in Nat
  BY SyncOffsets
<1>6. MissesNothing(f, s.up, s.down)'
  BY <1>3, <1>4, <1>5 DEF MissesNothing
<1>7. MissesNothing(f, s.up + 1, s.down + 1)'
  BY <1>3, <1>4, <1>5 DEF MissesNothing
<1> QED
  BY <1>4, <1>5, <1>6, <1>7 DEF SoundSync

\* Any translation of a store of sound syncs misses nothing.
LEMMA TranslationIsSound ==
    ASSUME StoreInv, StoredIsSound, NEW f \in Flows, Ready(f), NEW up \in 0 .. LogEnd,
           Translate(syncs[f], up) >= 0
    PROVE  MissesNothing(f, up, Translate(syncs[f], up))
<1>1. up \in Int
  BY OffsetSyncAssumption
<1>2. PICK i \in Slots : /\ syncs[f][i] \in OffsetSyncs
                         /\ syncs[f][i].up <= up
                         /\ Translate(syncs[f], up) = syncs[f][i].down
                              + (IF syncs[f][i].up < up THEN 1 ELSE 0)
  BY <1>1, TranslationOfSlot
<1> DEFINE s == syncs[f][i]
           d == Translate(syncs[f], up)
<1>3. SoundSync(f, s)
  BY DEF StoredIsSound, Ready
<1>4. s.up \in Nat /\ s.down \in Nat /\ s.up <= up
      /\ d = s.down + (IF s.up < up THEN 1 ELSE 0)
  BY <1>2, SyncOffsets
<1>5. Len(target[f]) \in Nat /\ nextUp[f] \in Nat
  BY LenProperties, OffsetSyncAssumption DEF StoreInv, TypeOK, SyncTypeOK
<1> HIDE DEF s, d
<1>6. CASE s.up = up
  <2>1. d = s.down
    BY <1>4, <1>6
  <2> QED
    BY <1>3, <1>6, <2>1 DEF SoundSync, d
<1>7. CASE s.up < up
  <2>1. d = s.down + 1
    BY <1>4, <1>7
  <2>2. \A o \in up .. nextUp[f] - 1 : o \in s.up + 1 .. nextUp[f] - 1
    BY <1>1, <1>4, <1>5, <1>7
  <2>3. \A o \in up .. nextUp[f] - 1 :
          \E j \in DOMAIN target[f] : j > d /\ target[f][j] = o
    BY <1>3, <2>1, <2>2 DEF SoundSync, MissesNothing
  <2>4. d <= Len(target[f]) + (IF up > nextUp[f] THEN up - nextUp[f] ELSE 0)
    BY <1>1, <1>3, <1>4, <1>5, <2>1 DEF SoundSync
  <2>5. MissesNothing(f, up, d)
    BY <2>3, <2>4 DEF MissesNothing
  <2> QED
    BY <2>5 DEF d
<1> QED
  BY <1>1, <1>4, <1>6, <1>7

\* A store that takes a sound sync holds sound syncs.
LEMMA HandleStaysSound ==
    ASSUME FailoverInv, [Next]_vars, NEW f \in Flows, NEW sync \in OffsetSyncs,
           Handle(f, sync), SoundSync(f, sync)'
    PROVE  StoredIsSound'
<1>1. StoreInv /\ TypeOK /\ StoredIsSound
  BY DEF FailoverInv, StoreInv
<1>2. /\ \A g \in Flows : g # f => syncs'[g] = syncs[g]
      /\ \A i \in Slots : \/ syncs'[f][i] = sync
                          \/ syncs[f] # Absent /\ syncs'[f][i] = syncs[f][i]
  BY <1>1, HandleKeeps
<1>3. ASSUME NEW g \in Flows, syncs'[g] # Absent, NEW i \in Slots
      PROVE  SoundSync(g, syncs[g][i])'
  <2>1. CASE g = f /\ syncs'[f][i] = sync
    BY <2>1
  <2>2. CASE syncs[g] # Absent /\ syncs'[g][i] = syncs[g][i]
    <3>1. syncs[g][i] \in OffsetSyncs
      BY <1>1, <2>2 DEF StoreInv
    <3>2. SoundSync(g, syncs[g][i])
      BY <1>1, <2>2 DEF StoredIsSound
    <3>3. PICK t \in OffsetSyncs : t = syncs[g][i]
      BY <3>1
    <3>4. SoundSync(g, t)'
      BY <1>1, <3>2, <3>3, SoundStays
    <3> QED
      BY <2>2, <3>3, <3>4
  <2> QED
    BY <1>2, <1>3, <2>1, <2>2
<1> QED
  BY <1>3 DEF StoredIsSound

\* FailoverInv is inductive.
LEMMA FailoverStep == FailoverInv /\ [Next]_vars => FailoverInv'
<1> SUFFICES ASSUME FailoverInv, [Next]_vars PROVE FailoverInv'
  OBVIOUS
<1>0. /\ OneFlow /\ StoreInv /\ TypeOK /\ SyncTypeOK
      /\ StoredIsSound /\ WritingIsSound /\ TopicIsSound /\ FailoverMissesNothing
  BY DEF FailoverInv, StoreInv, TypeOK
<1>1. StoreInv' /\ TypeOK'
  BY <1>0, StoreStep DEF StoreInv
<1>2. \A f \in Flows : \A s \in OffsetSyncs : SoundSync(f, s) => SoundSync(f, s)'
  BY <1>0, SoundStays
<1>3. ASSUME UNCHANGED checkpoint PROVE FailoverMissesNothing'
  <2> SUFFICES ASSUME NEW f \in Flows, NEW cp \in checkpoint[f]
               PROVE  MissesNothing(f, cp.up, cp.down)'
    BY <1>3 DEF FailoverMissesNothing
  <2>1. cp.up \in Nat /\ cp.down \in Nat
    BY <1>0, OffsetSyncAssumption DEF TypeOK
  <2> QED
    BY <1>0, <2>1, MissesNothingStays DEF FailoverMissesNothing
<1>4. ASSUME UNCHANGED syncs PROVE StoredIsSound'
  <2> SUFFICES ASSUME NEW f \in Flows, syncs[f] # Absent, NEW i \in Slots
               PROVE  SoundSync(f, syncs[f][i])'
    BY <1>4 DEF StoredIsSound
  <2>1. PICK s \in OffsetSyncs : s = syncs[f][i]
    BY <1>0 DEF StoreInv
  <2>2. SoundSync(f, s)'
    BY <1>0, <1>2, <2>1 DEF StoredIsSound
  <2> QED
    BY <1>4, <2>1, <2>2
<1>5. ASSUME \A f \in Flows : \A s \in writing'[f] : s \in writing[f] \/ SoundSync(f, s)'
      PROVE  WritingIsSound'
  <2> SUFFICES ASSUME NEW f \in Flows, NEW s \in writing'[f] PROVE SoundSync(f, s)'
    BY DEF WritingIsSound
  <2>1. s \in OffsetSyncs
    BY <1>1 DEF TypeOK, SyncTypeOK
  <2> QED
    BY <1>0, <1>2, <1>5, <2>1 DEF WritingIsSound
<1>6. ASSUME UNCHANGED topic PROVE TopicIsSound'
  <2> SUFFICES ASSUME NEW f \in Flows, NEW i \in DOMAIN topic PROVE SoundSync(f, topic[i])'
    BY <1>6 DEF TopicIsSound
  <2>1. PICK s \in OffsetSyncs : s = topic[i]
    BY <1>0, ElementOfSeq, LenProperties DEF SyncTypeOK
  <2>2. SoundSync(f, s)'
    BY <1>0, <1>2, <2>1 DEF TopicIsSound
  <2> QED
    BY <1>6, <2>1, <2>2
<1>7. ASSUME NEW f \in Flows, Replicate(f), UNCHANGED checkpoint PROVE FailoverInv'
  <2>1. PICK sync \in OffsetSyncs : sync = [up |-> nextUp[f], down |-> Len(target[f])]
    BY <1>0, <1>7, ReplicateFacts
  <2>2. /\ Handle(f, sync) /\ UNCHANGED topic
        /\ writing' = writing \/ writing' = [writing EXCEPT ![f] = @ \cup {sync}]
    BY <1>0, <1>7, <2>1, ReplicateFacts
  <2>3. SoundSync(f, sync)'
    <3>1. sync.up = nextUp[f] /\ sync.down = Len(target[f])
      BY <2>1
    <3> QED
      BY <1>0, <1>7, <3>1, NewSyncIsSound
  <2>4. StoredIsSound'
    BY <2>2, <2>3, HandleStaysSound
  <2>5. WritingIsSound'
    <3>1. \A g \in Flows : \A s \in writing'[g] : s \in writing[g] \/ SoundSync(g, s)'
      BY <1>0, <2>2, <2>3 DEF SyncTypeOK
    <3> QED
      BY <1>5, <3>1
  <2> QED
    BY <1>0, <1>1, <1>3, <1>6, <1>7, <2>2, <2>4, <2>5 DEF FailoverInv, OneFlow
<1>8. ASSUME NEW f \in Flows, Written(f), UNCHANGED checkpoint PROVE FailoverInv'
  <2>1. PICK sync \in writing[f] :
          /\ writing' = [writing EXCEPT ![f] = @ \ {sync}]
          /\ topic' \in {topic, Append(topic, sync)}
    BY <1>8 DEF Written
  <2>2. UNCHANGED <<syncs, checkpoint>>
    BY <1>8 DEF Written
  <2>3. WritingIsSound'
    BY <1>0, <1>5, <2>1 DEF SyncTypeOK
  <2>4. TopicIsSound'
    <3>1. CASE topic' = topic
      BY <1>6, <3>1
    <3>2. CASE topic' = Append(topic, sync)
      <4>1. sync \in OffsetSyncs
        BY <1>0, <2>1 DEF SyncTypeOK
      <4>2. topic \in Seq(OffsetSyncs) /\ Len(topic) \in Nat /\ DOMAIN topic = 1 .. Len(topic)
        BY <1>0, LenProperties DEF SyncTypeOK
      <4>3. /\ DOMAIN topic' = 1 .. Len(topic) + 1
            /\ \A i \in 1 .. Len(topic) : topic'[i] = topic[i]
            /\ topic'[Len(topic) + 1] = sync
        BY <3>2, <4>1, <4>2, AppendProperties, LenProperties
      <4> SUFFICES ASSUME NEW g \in Flows, NEW i \in DOMAIN topic' PROVE SoundSync(g, topic[i])'
        BY DEF TopicIsSound
      <4>4. PICK s \in OffsetSyncs : s = topic'[i]
        BY <4>1, <4>2, <4>3, ElementOfSeq
      <4>5. SoundSync(g, s)
        <5>1. CASE i = Len(topic) + 1
          BY <1>0, <4>3, <4>4, <5>1 DEF OneFlow, WritingIsSound
        <5>2. CASE i \in 1 .. Len(topic)
          BY <1>0, <4>2, <4>3, <4>4, <5>2 DEF TopicIsSound
        <5> QED
          BY <4>2, <4>3, <5>1, <5>2
      <4>6. SoundSync(g, s)'
        BY <1>2, <4>5
      <4> QED
        BY <4>4, <4>6
    <3> QED
      BY <2>1, <3>1, <3>2
  <2> QED
    BY <1>0, <1>1, <1>3, <1>4, <2>2, <2>3, <2>4 DEF FailoverInv, OneFlow
<1>9. ASSUME NEW f \in Flows, ReadSync(f), UNCHANGED checkpoint PROVE FailoverInv'
  <2>1. readPos[f] + 1 \in 1 .. Len(topic) /\ DOMAIN topic = 1 .. Len(topic)
    BY <1>0, <1>9, LenProperties DEF ReadSync, SyncTypeOK
  <2>2. PICK sync \in OffsetSyncs : sync = topic[readPos[f] + 1]
    BY <1>0, <2>1, TopicSync
  <2>3. Handle(f, sync) /\ UNCHANGED <<writing, topic, checkpoint>>
    BY <1>9, <2>2 DEF ReadSync
  <2>4. SoundSync(f, sync)'
    BY <1>0, <1>2, <2>1, <2>2 DEF TopicIsSound
  <2>5. StoredIsSound'
    BY <2>3, <2>4, HandleStaysSound
  <2> QED
    BY <1>0, <1>1, <1>3, <1>5, <1>6, <2>3, <2>5 DEF FailoverInv, OneFlow
<1>10. ASSUME UNCHANGED <<syncs, writing, topic, checkpoint>> PROVE FailoverInv'
  BY <1>0, <1>1, <1>3, <1>4, <1>5, <1>6, <1>10 DEF FailoverInv, OneFlow
<1>11. ASSUME NEW f \in Flows, EmitCheckpoint(f) PROVE FailoverInv'
  <2>1. Ready(f) /\ UNCHANGED syncVars
    BY <1>11 DEF EmitCheckpoint
  <2>2. PICK up \in 0 .. LogEnd :
          /\ Translate(syncs[f], up) >= 0
          /\ checkpoint' = [checkpoint EXCEPT
                              ![f] = {CheckpointOf(up, Translate(syncs[f], up))}]
    BY <1>11 DEF EmitCheckpoint
  <2>3. MissesNothing(f, up, Translate(syncs[f], up))
    BY <1>0, <2>1, <2>2, TranslationIsSound
  <2>4. \A g \in Flows : \A cp \in checkpoint'[g] : MissesNothing(g, cp.up, cp.down)
    <3> SUFFICES ASSUME NEW g \in Flows, NEW cp \in checkpoint'[g]
                 PROVE  MissesNothing(g, cp.up, cp.down)
      OBVIOUS
    <3>1. CASE g = f
      <4>1. cp = CheckpointOf(up, Translate(syncs[f], up))
        BY <1>0, <2>2, <3>1 DEF TypeOK
      <4> QED
        BY <2>3, <3>1, <4>1 DEF CheckpointOf
    <3>2. CASE g # f
      BY <1>0, <2>2, <3>2 DEF TypeOK, FailoverMissesNothing
    <3> QED
      BY <3>1, <3>2
  <2>5. target' = target /\ nextUp' = nextUp /\ UNCHANGED <<syncs, writing, topic>>
    BY <2>1 DEF syncVars
  <2>6. FailoverMissesNothing'
    BY <2>4, <2>5 DEF FailoverMissesNothing, MissesNothing
  <2> QED
    BY <1>0, <1>1, <1>4, <1>5, <1>6, <2>5, <2>6 DEF FailoverInv, OneFlow
<1>12. CASE Restart
  <2>1. /\ \A f \in Flows : syncs'[f] = Absent /\ writing'[f] = {}
        /\ UNCHANGED <<topic, checkpoint>>
    BY <1>12 DEF Restart, SyncRestart
  <2>2. StoredIsSound'
    BY <2>1 DEF StoredIsSound
  <2>3. WritingIsSound'
    BY <1>5, <2>1
  <2> QED
    BY <1>0, <1>1, <1>3, <1>6, <2>1, <2>2, <2>3 DEF FailoverInv, OneFlow
<1>13. ASSUME NEW f \in Flows, SyncStep(f), UNCHANGED checkpoint PROVE FailoverInv'
  BY <1>7, <1>8, <1>9, <1>10, <1>13 DEF SyncStep, Commit, SkipCompacted, MarkReadToEnd
<1>14. CASE UNCHANGED vars
  BY <1>10, <1>14 DEF vars, syncVars
<1> QED
  BY <1>11, <1>12, <1>13, <1>14 DEF Next

\* FailoverInv holds throughout, of one flow.
LEMMA AlwaysFailoverInv == OneFlow /\ Spec => []FailoverInv
<1>1. OneFlow /\ Init => FailoverInv
  <2> SUFFICES ASSUME OneFlow, Init PROVE FailoverInv
    OBVIOUS
  <2>1. \A f \in Flows : syncs[f] = Absent /\ writing[f] = {} /\ checkpoint[f] = {}
    BY DEF Init, SyncInit
  <2>2. topic = <<>>
    BY DEF Init, SyncInit
  <2>3. TopicIsSound
    BY <2>2 DEF TopicIsSound
  <2> QED
    BY <2>1, <2>3, StoreInit
    DEF FailoverInv, StoredIsSound, WritingIsSound, FailoverMissesNothing
<1> QED
  BY <1>1, FailoverStep, PTL DEF Spec

\* Any translation the store of the one flow out of a cluster gives, from whatever
\* mixture of live, replayed and pre-crash syncs, is an offset from which a group
\* misses no record.  With two flows it is not so (run checkpoint_fanout).
THEOREM TranslationIsSafe == OneFlow /\ Spec => []TranslationMissesNothing
<1>1. FailoverInv => TranslationMissesNothing
  BY TranslationIsSound DEF FailoverInv, TranslationMissesNothing
<1> QED
  BY <1>1, AlwaysFailoverInv, PTL

\* A group that fails over to the last checkpoint of the one flow out of a cluster
\* misses no record, however long ago the checkpoint was emitted and however often
\* the process was restarted since.
THEOREM FailoverIsSafe == OneFlow /\ Spec => []FailoverMissesNothing
<1>1. FailoverInv => FailoverMissesNothing
  BY DEF FailoverInv
<1> QED
  BY <1>1, AlwaysFailoverInv, PTL
=============================================================================
