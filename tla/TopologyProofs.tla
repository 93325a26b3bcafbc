--------------------------- MODULE TopologyProofs ---------------------------
(***************************************************************************)
(* Proofs about Topology, for any number of flows between any clusters and *)
(* any topics of their owners, under the default replication policy.       *)
(***************************************************************************)
EXTENDS Topology, SequenceTheorems, TLAPS

(***************************************************************************)
(* No echo.                                                                *)
(***************************************************************************)

\* What a cluster holds was written there to a topic of its owners, or came from
\* another cluster into a topic that is recognised as a mirror.
OriginsKnown ==
    \A c \in Clusters : \A h \in holds[c] :
        \/ h[2] = c /\ IsUserTopic(c, h[1])
        \/ h[2] # c /\ TopicSource(h[1]) # ""

\* A Source is subscribed to what its discovery let through.
OnlyReplicable == \A f \in Flow : \A t \in subscribed[f] : shouldReplicate(t)

EchoInv ==
    /\ holds \in [Clusters -> SUBSET (Names \X Clusters)]
    /\ subscribed \in [Flow -> SUBSET Names]
    /\ OriginsKnown /\ OnlyReplicable

\* A flow is a pair of different clusters.
LEMMA FlowFacts ==
    ASSUME NEW f \in Flow
    PROVE  /\ f \in [src : STRING, tgt : STRING]
           /\ f.src \in Clusters /\ f.tgt \in Clusters
           /\ f.src # f.tgt /\ f.src # ""
<1>1. PICK i \in DOMAIN Flows : f = Flows[i]
  BY DEF Flow, Range
<1>2. Flows \in Seq([src : STRING, tgt : STRING])
  BY TopologyAssumption
<1>3. f \in [src : STRING, tgt : STRING]
  BY <1>1, <1>2, ElementOfSeq, LenProperties
<1> QED
  BY <1>3, TopologyAssumption DEF Clusters

\* The topics the engine is at belong to one of its flows.
LEMMA AtFlow ==
    ASSUME NEW i \in 1 .. Len(Flows)
    PROVE  Flows[i] \in Flow
<1>1. Flows \in Seq([src : STRING, tgt : STRING])
  BY TopologyAssumption
<1>2. DOMAIN Flows = 1 .. Len(Flows)
  BY <1>1, LenProperties
<1> QED
  BY <1>2 DEF Flow, Range

\* A name is a non-empty sequence of words.
Words == STRING \cup {"mm2-offset-syncs", "internal"}

\* A topic name of the model is a nonempty sequence of words.
LEMMA NamesAreNames == \A t \in Names : t \in Seq(Words) /\ Len(t) > 0
<1>1. \A c \in Clusters : c \in Words
  BY FlowFacts DEF Clusters, Words
<1>2. ASSUME NEW n \in Originals
      PROVE  n \in Seq(Words) /\ Len(n) > 0
  <2>1. CASE n \in {u.name : u \in UserTopics}
    <3>1. n \in Seq(STRING) \ {<<>>}
      BY <2>1, TopologyAssumption
    <3>2. STRING \subseteq Words
      BY DEF Words
    <3>3. n \in Seq(Words) /\ n # <<>>
      BY <3>1, <3>2, SeqMonotonic
    <3> QED
      BY <3>3, EmptySeq, LenProperties
  <2>2. CASE n \in {OffsetSyncsTopic(c) : c \in Clusters}
    <3>1. PICK c \in Clusters : n = <<"mm2-offset-syncs", c, "internal">>
      BY <2>2 DEF OffsetSyncsTopic
    <3>2. "mm2-offset-syncs" \in Words /\ "internal" \in Words
      BY DEF Words
    <3>3. ASSUME NEW x \in Words, NEW y \in Words, NEW z \in Words
          PROVE  <<x, y, z>> \in Seq(Words) /\ Len(<<x, y, z>>) = 3
      OBVIOUS
    <3> QED
      BY <1>1, <3>1, <3>2, <3>3
  <2> QED
    BY <2>1, <2>2 DEF Originals
<1>3. ASSUME NEW k \in 0 .. MaxHops, NEW p \in [1 .. k -> Clusters]
      PROVE  p \in Seq(Words)
  <2>1. p \in [1 .. k -> Words] /\ k \in Nat
    BY <1>1
  <2> QED
    BY <2>1, SeqDef
<1>4. SUFFICES ASSUME NEW t \in Names PROVE t \in Seq(Words) /\ Len(t) > 0
  OBVIOUS
<1> DEFINE Hops == UNION {[1 .. k -> Clusters] : k \in 0 .. MaxHops}
<1>5. Names = {p \o n : p \in Hops, n \in Originals}
  BY DEF Names
<1>6. \A p \in Hops : p \in Seq(Words)
  BY <1>3
<1> HIDE DEF Hops
<1>7. PICK p \in Hops : \E n \in Originals : t = p \o n
  BY <1>5
<1>8. PICK n \in Originals : t = p \o n
  BY <1>7
<1>9. p \in Seq(Words) /\ n \in Seq(Words) /\ Len(n) > 0
  BY <1>2, <1>6
<1> QED
  BY <1>8, <1>9, ConcatProperties, LenProperties

\* A mirror's name is the source cluster followed by the topic's: under the default
\* policy it has a separator and a cluster before it, so it is known for a mirror.
LEMMA MirrorsAreKnown ==
    ASSUME ~Identity, NEW f \in Flow, NEW t \in Names
    PROVE  /\ TopicSource(Remote(f, t)) # ""
           /\ Head(Remote(f, t)) = f.src /\ Tail(Remote(f, t)) = t
<1>1. Remote(f, t) = <<f.src>> \o t
  BY DEF Remote, FormatRemoteTopic
<1>2. t \in Seq(Words) /\ Len(t) > 0 /\ f.src \in Words
  BY NamesAreNames, FlowFacts DEF Words
<1>3. <<f.src>> \in Seq(Words) /\ Len(<<f.src>>) = 1 /\ <<f.src>>[1] = f.src
  BY <1>2
<1>4. Len(<<f.src>> \o t) = 1 + Len(t) /\ (<<f.src>> \o t)[1] = f.src
  BY <1>2, <1>3, ConcatProperties, LenProperties
<1>5. Head(<<f.src>> \o t) = f.src /\ Len(<<f.src>> \o t) > 1
  BY <1>2, <1>4, LenProperties
<1>6. Tail(<<f.src>> \o t) = t
  BY <1>2, <1>3, ConcatProperties, HeadTailProperties, LenProperties, SeqEqual
<1> QED
  BY <1>1, <1>5, <1>6, FlowFacts DEF TopicSource

\* Copying a topic that is not itself a mirror brings no record home.
LEMMA CopyKeepsOrigins ==
    ASSUME ~Identity, EchoInv, NEW f \in Flow, NEW t \in Names,
           Remote(f, t) \in Names, shouldReplicate(t), holds' = Copied(f, t)
    PROVE  holds' \in [Clusters -> SUBSET (Names \X Clusters)] /\ OriginsKnown'
<1>0. f.src \in Clusters /\ f.tgt \in Clusters /\ f.src # f.tgt
  BY FlowFacts
<1>1. holds \in [Clusters -> SUBSET (Names \X Clusters)]
  BY DEF EchoInv
<1>2. \A o \in Clusters : <<t, o>> \in holds[f.src] => o = f.src
  <2>1. TopicSource(t) = ""
    BY DEF shouldReplicate
  <2> QED
    BY <1>0, <2>1 DEF EchoInv, OriginsKnown
<1> DEFINE new == {<<Remote(f, t), o>> : o \in {c \in Clusters : <<t, c>> \in holds[f.src]}}
<1>3. new \subseteq {<<Remote(f, t), f.src>>}
  BY <1>2
<1>4. new \subseteq Names \X Clusters
  <2>1. <<Remote(f, t), f.src>> \in Names \X Clusters
    BY <1>0
  <2> HIDE DEF new
  <2> QED
    BY <1>3, <2>1
<1>5. holds' = [holds EXCEPT ![f.tgt] = @ \cup new]
  BY DEF Copied
<1> HIDE DEF new
<1>6. holds' \in [Clusters -> SUBSET (Names \X Clusters)]
  BY <1>1, <1>4, <1>5
<1>7. ASSUME NEW c \in Clusters, NEW h \in holds'[c]
      PROVE  \/ h[2] = c /\ IsUserTopic(c, h[1])
             \/ h[2] # c /\ TopicSource(h[1]) # ""
  <2>1. CASE h \in holds[c]
    BY <2>1 DEF EchoInv, OriginsKnown
  <2>2. CASE c = f.tgt /\ h \in new
    <3>1. h = <<Remote(f, t), f.src>>
      BY <1>3, <2>2
    <3> QED
      BY <1>0, <2>2, <3>1, MirrorsAreKnown
  <2> QED
    BY <1>1, <1>5, <2>1, <2>2
<1> QED
  BY <1>6, <1>7 DEF OriginsKnown, IsUserTopic

\* A step preserves EchoInv when the catch-up copies nothing.
LEMMA EchoStep ==
    ASSUME ~Identity, ~HighLag, EchoInv, [Next]_vars
    PROVE  EchoInv'
<1>1. ASSUME UNCHANGED <<holds, subscribed>>
      PROVE  EchoInv'
  BY <1>1 DEF EchoInv, OriginsKnown, OnlyReplicable
<1>2. CASE AddPartition \/ ChangeConfig \/ StartEngine \/ Bootstrap \/ CatchUpList \/ CatchUpNext
  BY <1>1, <1>2 DEF AddPartition, ChangeConfig, StartEngine, Bootstrap, CatchUpList,
       CatchUpNext, clusterVars
<1>3. CASE CatchUpTopic
  BY <1>1, <1>3 DEF CatchUpTopic
<1>4. CASE Down
  <2>1. holds' = holds /\ subscribed' = [f \in Flow |-> {}]
    BY <1>4 DEF Down, clusterVars
  <2> QED
    BY <2>1 DEF EchoInv, OriginsKnown, OnlyReplicable
<1>5. ASSUME NEW f \in Flow, ListSource(f) \/ ListTarget(f) \/ ListFails(f)
      PROVE  EchoInv'
  BY <1>1, <1>5 DEF ListSource, ListTarget, ListFails, clusterVars
<1>6. ASSUME NEW f \in Flow, NEW t \in todo[f], NEW ok \in BOOLEAN, RefreshTopic(f, t, ok)
      PROVE  EchoInv'
  BY <1>1, <1>6 DEF RefreshTopic
<1>7. ASSUME NEW f \in Flow, RefreshDone(f)
      PROVE  EchoInv'
  <2>1. holds' = holds /\ subscribed' = [subscribed EXCEPT ![f] = @ \cup Replicable(f)]
    BY <1>7 DEF RefreshDone, clusterVars
  <2>2. \A t \in Replicable(f) : t \in Names /\ shouldReplicate(t)
    BY DEF Replicable
  <2>3. subscribed' \in [Flow -> SUBSET Names]
    BY <2>1, <2>2 DEF EchoInv
  <2>4. \A g \in Flow : \A t \in subscribed'[g] : t \in subscribed[g] \/ t \in Replicable(f)
    BY <2>1 DEF EchoInv
  <2>5. OnlyReplicable'
    BY <2>2, <2>4 DEF EchoInv, OnlyReplicable
  <2> QED
    BY <2>1, <2>3, <2>5 DEF EchoInv, OriginsKnown
<1>8. ASSUME NEW f \in Flow, Replicate(f)
      PROVE  EchoInv'
  <2>1. PICK t \in subscribed[f] : Remote(f, t) \in Names /\ holds' = Copied(f, t)
    BY <1>8 DEF Replicate
  <2>2. t \in Names /\ shouldReplicate(t)
    BY DEF EchoInv, OnlyReplicable
  <2>3. holds' \in [Clusters -> SUBSET (Names \X Clusters)] /\ OriginsKnown'
    BY <2>1, <2>2, CopyKeepsOrigins
  <2> QED
    BY <1>8, <2>3 DEF Replicate, EchoInv, OnlyReplicable
<1>9. CASE UNCHANGED vars
  BY <1>1, <1>9 DEF vars, clusterVars
<1> QED
  BY <1>2, <1>3, <1>4, <1>5, <1>6, <1>7, <1>8, <1>9 DEF Next

\* Under the default policy, as long as the catch-up copies nothing, topic
\* discovery never lets a record come back to the cluster it was written on,
\* whatever cycles the flows form and however stale the lists they act on are.
THEOREM NothingComesHome == ~Identity /\ ~HighLag /\ Spec => []NoEcho
<1> SUFFICES ASSUME ~Identity, ~HighLag PROVE Spec => []NoEcho
  OBVIOUS
<1>1. Init => EchoInv
  <2> SUFFICES ASSUME Init PROVE EchoInv
    OBVIOUS
  <2>1. holds = [c \in Clusters |-> {<<t, c>> : t \in {n \in Names : IsUserTopic(c, n)}}]
    BY DEF Init
  <2>2. holds \in [Clusters -> SUBSET (Names \X Clusters)] /\ OriginsKnown
    <3>1. ASSUME NEW c \in Clusters, NEW h \in holds[c]
          PROVE  h \in Names \X Clusters /\ h[2] = c /\ IsUserTopic(c, h[1])
      <4>1. PICK t \in {n \in Names : IsUserTopic(c, n)} : h = <<t, c>>
        BY <2>1
      <4> QED
        BY <4>1
    <3>2. DOMAIN holds = Clusters /\ \A c \in Clusters : holds[c] \subseteq Names \X Clusters
      BY <2>1, <3>1
    <3> QED
      BY <2>1, <3>1, <3>2 DEF OriginsKnown
  <2>3. subscribed = [f \in Flow |-> {}]
    BY DEF Init
  <2> QED
    BY <2>2, <2>3 DEF EchoInv, OnlyReplicable
<1>2. EchoInv => NoEcho
  BY DEF EchoInv, OriginsKnown, NoEcho
<1>3. EchoInv /\ [Next]_vars => EchoInv'
  BY EchoStep
<1> QED
  BY <1>1, <1>2, <1>3, PTL DEF Spec

(***************************************************************************)
(* Type correctness: partition counts stay below twice the bound.          *)
(*                                                                         *)
(* Discovery adds the partitions of the topic to those its mirror has, not *)
(* the difference, and acts on counts it has listed before.  The sum stays *)
(* bounded because only topics that are no mirrors are handled, and those  *)
(* have at most MaxParts, and because between the listing of a mirror that *)
(* has too few partitions and its enlargement nobody but an owner enlarges *)
(* it.                                                                     *)
(***************************************************************************)

\* A topic that is not known for a mirror.
Original(t) == TopicSource(t) = ""

\* Topics that are no mirrors have at most MaxParts partitions, as listed too.
OriginalsBounded ==
    \A t \in Names : Original(t) =>
        /\ \A c \in Clusters : parts[c][t] <= MaxParts
        /\ \A f \in Flow : srcTopics[f][t] <= MaxParts

\* Discovery works in a running engine only, and on topics that are no mirrors.
DiscoveryRuns ==
    /\ phase # "running" => \A f \in Flow : discovery[f] = "idle"
    /\ \A f \in Flow : \A t \in todo[f] : Remote(f, t) \in Names /\ Original(t)

\* A mirror about to be enlarged has room.
RoomToGrow ==
    \A f \in Flow : discovery[f] = "topics" => \A t \in todo[f] :
        tgtTopics[f][Remote(f, t)] < srcTopics[f][t] /\ tgtTopics[f][Remote(f, t)] # 0
            => parts[f.tgt][Remote(f, t)] <= MaxParts

\* What the catch-up has still to do has mirrors within the bound on names.
PendingNamed ==
    /\ phase # "catch-up" => pending = {}
    /\ \A t \in pending : Remote(Flows[at], t) \in Names

CountsInv ==
    TypeOK /\ OriginalsBounded /\ DiscoveryRuns /\ RoomToGrow /\ PendingNamed

\* One count is changed.
LEMMA ChangeOne ==
    ASSUME NEW A, NEW B, NEW S, NEW count \in [A -> [B -> S]],
           NEW a \in A, NEW b \in B, NEW v \in S
    PROVE  /\ [count EXCEPT ![a][b] = v] \in [A -> [B -> S]]
           /\ [count EXCEPT ![a][b] = v][a][b] = v
           /\ \A x \in A, y \in B : x # a \/ y # b
                => [count EXCEPT ![a][b] = v][x][y] = count[x][y]
<1>1. [count EXCEPT ![a][b] = v] = [count EXCEPT ![a] = [count[a] EXCEPT ![b] = v]]
  OBVIOUS
<1>2. [count[a] EXCEPT ![b] = v] \in [B -> S]
  OBVIOUS
<1>3. \A x \in A : [count EXCEPT ![a] = [count[a] EXCEPT ![b] = v]][x]
                    = IF x = a THEN [count[a] EXCEPT ![b] = v] ELSE count[x]
  OBVIOUS
<1> QED
  BY <1>1, <1>2, <1>3

\* The partition counts after one topic of one cluster has been given n.
OneChanged(c, t, n) ==
    /\ parts' \in [Clusters -> [Names -> 0 .. 2 * MaxParts]]
    /\ parts'[c][t] = n
    /\ \A d \in Clusters, u \in Names : d # c \/ u # t => parts'[d][u] = parts[d][u]

\* CreateTopic and EnsurePartitions change one count or none.
LEMMA CreatedFacts ==
    ASSUME TypeOK, NEW c \in Clusters, NEW t \in Names, NEW n \in 0 .. 2 * MaxParts,
           parts' = Created(c, t, n)
    PROVE  \E m \in 0 .. 2 * MaxParts : OneChanged(c, t, m) /\ (parts[c][t] # 0 => m = parts[c][t])
<1> DEFINE Counts == 0 .. 2 * MaxParts
           m == IF parts[c][t] = 0 THEN n ELSE parts[c][t]
<1>1. parts \in [Clusters -> [Names -> Counts]] /\ m \in Counts
  BY DEF TypeOK
<1>2. parts' = [parts EXCEPT ![c][t] = m]
  BY DEF Created
<1>3. parts[c][t] # 0 => m = parts[c][t]
  OBVIOUS
<1> HIDE DEF m, Counts
<1>4. OneChanged(c, t, m)
  <2>1. /\ parts' \in [Clusters -> [Names -> Counts]]
        /\ parts'[c][t] = m
        /\ \A d \in Clusters, u \in Names : d # c \/ u # t => parts'[d][u] = parts[d][u]
    BY <1>1, <1>2, ChangeOne
  <2> QED
    BY <2>1 DEF OneChanged, Counts
<1> QED
  BY <1>1, <1>3, <1>4 DEF Counts

\* Adding partitions to a topic changes the count of that topic alone.
LEMMA EnlargedFacts ==
    ASSUME TypeOK, NEW c \in Clusters, NEW t \in Names, NEW n \in Nat,
           parts[c][t] + n <= 2 * MaxParts,
           parts' = [parts EXCEPT ![c][t] = @ + n]
    PROVE  OneChanged(c, t, parts[c][t] + n)
<1> DEFINE Counts == 0 .. 2 * MaxParts
           m == parts[c][t] + n
<1>0. parts[c][t] \in 0 .. 2 * MaxParts
  BY DEF TypeOK
<1>1. parts \in [Clusters -> [Names -> Counts]] /\ m \in Counts
  <2>1. parts \in [Clusters -> [Names -> Counts]]
    BY DEF TypeOK
  <2>2. MaxParts \in Nat
    BY TopologyAssumption
  <2>3. m \in Counts
    BY <1>0, <2>2
  <2> QED
    BY <2>1, <2>3
<1>2. parts' = [parts EXCEPT ![c][t] = m]
  OBVIOUS
<1> HIDE DEF m, Counts
<1>3. /\ parts' \in [Clusters -> [Names -> Counts]]
      /\ parts'[c][t] = m
      /\ \A d \in Clusters, u \in Names : d # c \/ u # t => parts'[d][u] = parts[d][u]
  BY <1>1, <1>2, ChangeOne
<1> QED
  BY <1>3 DEF OneChanged, Counts, m

\* Two flows, or two topics of one flow, have different mirrors.
LEMMA MirrorsDiffer ==
    ASSUME ~Identity, NEW f \in Flow, NEW g \in Flow, NEW t \in Names, NEW u \in Names,
           Remote(f, t) = Remote(g, u), f.tgt = g.tgt
    PROVE  f = g /\ t = u
<1>1. f.src = g.src /\ t = u
  BY MirrorsAreKnown
<1>2. f \in [src : STRING, tgt : STRING] /\ g \in [src : STRING, tgt : STRING]
  BY FlowFacts
<1> QED
  BY <1>1, <1>2

\* Originals are names: they are followed through no mirror.
LEMMA OriginalNamed ==
    ASSUME NEW n \in Originals, NEW S, n \in Seq(S)
    PROVE  n \in Names
<1> DEFINE Hops == UNION {[1 .. k -> Clusters] : k \in 0 .. MaxHops}
<1>1. << >> \in Hops
  <2>1. 0 \in 0 .. MaxHops
    <3>1. MaxHops \in Nat
      BY TopologyAssumption
    <3> QED
      BY <3>1
  <2>2. << >> \in [1 .. 0 -> Clusters]
    OBVIOUS
  <2> QED
    BY <2>1, <2>2
<1>2. << >> \o n = n
  BY ConcatEmptySeq
<1>3. Names = {p \o m : p \in Hops, m \in Originals}
  BY DEF Names
<1> HIDE DEF Hops
<1>4. \A p \in Hops, m \in Originals : p \o m \in Names
  BY <1>3
<1>5. << >> \o n \in Names
  BY <1>1, <1>4
<1> QED
  BY <1>2, <1>5

\* The topics the owners create are topics of clusters of the flows.
LEMMA UserTopicNamed ==
    ASSUME NEW u \in UserTopics
    PROVE  u.at \in Clusters /\ u.name \in Names
<1>1. u.at \in Clusters /\ u.name \in Seq(STRING)
  BY TopologyAssumption
<1>2. u.name \in Originals
  BY DEF Originals
<1> QED
  BY <1>1, <1>2, OriginalNamed

\* The topic of the offset syncs of a cluster is a name, and no original.
LEMMA SyncsTopicNamed ==
    ASSUME ~Identity, NEW c \in Clusters
    PROVE  OffsetSyncsTopic(c) \in Names /\ ~Original(OffsetSyncsTopic(c))
<1> DEFINE n == OffsetSyncsTopic(c)
<1>1. n = <<"mm2-offset-syncs", c, "internal">>
  BY DEF OffsetSyncsTopic
<1>2. Len(n) = 3 /\ Head(n) = "mm2-offset-syncs" /\ n \in Seq({"mm2-offset-syncs", c, "internal"})
  BY <1>1
<1>3. n \in Originals
  BY DEF Originals
<1> HIDE DEF n
<1>4. n \in Names
  BY <1>2, <1>3, OriginalNamed
<1>5. TopicSource(n) = Head(n)
  BY <1>2 DEF TopicSource
<1>6. "mm2-offset-syncs" # ""
  OBVIOUS
<1> QED
  BY <1>2, <1>4, <1>5, <1>6 DEF n, Original

\* Copying keeps the type of what the clusters hold.
LEMMA CopyTyped ==
    ASSUME holds \in [Clusters -> SUBSET (Names \X Clusters)], NEW f \in Flow, NEW t \in Names,
           Remote(f, t) \in Names
    PROVE  Copied(f, t) \in [Clusters -> SUBSET (Names \X Clusters)]
<1> DEFINE new == {<<Remote(f, t), o>> : o \in {c \in Clusters : <<t, c>> \in holds[f.src]}}
<1>1. new \subseteq Names \X Clusters
  <2> SUFFICES ASSUME NEW h \in new PROVE h \in Names \X Clusters
    BY Zenon
  <2>1. PICK o \in {c \in Clusters : <<t, c>> \in holds[f.src]} : h = <<Remote(f, t), o>>
    OBVIOUS
  <2> QED
    BY <2>1
<1>2. Copied(f, t) = [holds EXCEPT ![f.tgt] = @ \cup new]
  BY DEF Copied
<1> HIDE DEF new
<1> QED
  BY <1>1, <1>2

\* Going on to the next flow stays within the flows.
LEMMA FlowsNotEmpty == Len(Flows) \in Nat /\ Len(Flows) >= 1 /\ 1 \in 1 .. Len(Flows)
<1>1. Flows \in Seq([src : STRING, tgt : STRING]) /\ Flows # <<>>
  BY TopologyAssumption
<1>2. Len(Flows) \in Nat /\ Len(Flows) # 0
  BY <1>1, EmptySeq, LenProperties
<1> QED
  BY <1>2

\* Going on to the next flow stays within the flows.
LEMMA NextFlowPlace ==
    ASSUME at \in 1 .. Len(Flows), NEW next, NextFlow(next)
    PROVE  at' \in 1 .. Len(Flows) /\ phase' \in {phase, next}
BY FlowsNotEmpty DEF NextFlow

\* A step that leaves the counts, the lists and the discovery alone.
LEMMA CountsAlone ==
    ASSUME CountsInv, TypeOK', PendingNamed', UNCHANGED <<parts, srcTopics, tgtTopics, discovery, todo>>,
           phase # "running" \/ phase' = "running"
    PROVE  CountsInv'
<1>1. OriginalsBounded' /\ RoomToGrow'
  BY DEF CountsInv, OriginalsBounded, RoomToGrow
<1>2. DiscoveryRuns'
  BY DEF CountsInv, DiscoveryRuns
<1> QED
  BY <1>1, <1>2 DEF CountsInv

\* A step that changes one count: one of an original within its bound, and one of a
\* mirror that is about to be enlarged within the same bound.
LEMMA OneCount ==
    ASSUME CountsInv, PendingNamed', NEW c \in Clusters, NEW t \in Names, NEW n \in 0 .. 2 * MaxParts,
           TypeOK', OneChanged(c, t, n), UNCHANGED <<srcTopics, tgtTopics, discovery>>,
           \A f \in Flow : todo'[f] \subseteq todo[f],
           phase # "running" \/ phase' = "running",
           Original(t) => n <= MaxParts,
           \A f \in Flow : discovery[f] = "topics" =>
               \A u \in todo'[f] : f.tgt = c /\ Remote(f, u) = t => n <= MaxParts
    PROVE  CountsInv'
<1>1. OriginalsBounded'
  BY DEF CountsInv, OriginalsBounded, OneChanged
<1>2. DiscoveryRuns'
  BY DEF CountsInv, DiscoveryRuns
<1>3. RoomToGrow'
  <2> SUFFICES ASSUME NEW f \in Flow, discovery[f] = "topics", NEW u \in todo'[f],
                      tgtTopics[f][Remote(f, u)] < srcTopics[f][u],
                      tgtTopics[f][Remote(f, u)] # 0
               PROVE  parts'[f.tgt][Remote(f, u)] <= MaxParts
    BY DEF RoomToGrow, Remote
  <2>1. u \in todo[f] /\ Remote(f, u) \in Names /\ f.tgt \in Clusters
    BY FlowFacts DEF CountsInv, DiscoveryRuns
  <2>2. parts[f.tgt][Remote(f, u)] <= MaxParts
    BY <2>1 DEF CountsInv, RoomToGrow
  <2>3. CASE f.tgt = c /\ Remote(f, u) = t
    BY <2>3 DEF OneChanged
  <2>4. CASE ~(f.tgt = c /\ Remote(f, u) = t)
    BY <2>1, <2>2, <2>4 DEF OneChanged
  <2> QED
    BY <2>3, <2>4
<1> QED
  BY <1>1, <1>2, <1>3 DEF CountsInv

\* A topic of the catch-up.
LEMMA CatchUpTopicKeeps ==
    ASSUME ~Identity, CountsInv, CatchUpTopic
    PROVE  CountsInv'
<1> DEFINE f == Flows[at]
           t == Pick(pending)
           r == Remote(f, t)
<1>0. TypeOK /\ phase = "catch-up"
  BY DEF CountsInv, CatchUpTopic
<1>1. f \in Flow /\ f.src \in Clusters /\ f.tgt \in Clusters
  BY <1>0, AtFlow, FlowFacts DEF TypeOK
<1>2. t \in pending /\ t \in Names /\ r \in Names
  BY <1>0 DEF CatchUpTopic, Pick, CountsInv, PendingNamed, TypeOK
<1>3. /\ pending' = pending \ {t}
      /\ parts' \in {parts} \cup {Created(f.tgt, r, n) : n \in {1, parts[f.src][t]}}
      /\ holds' \in {holds, Copied(f, t)}
      /\ IF pending' = {} THEN NextFlow("running") ELSE UNCHANGED <<at, phase>>
      /\ UNCHANGED <<override, starts, discovery, srcTopics, tgtTopics, todo, subscribed>>
  BY DEF CatchUpTopic, discoveryVars
<1>4. ~Original(r)
  BY <1>1, <1>2, MirrorsAreKnown DEF Original
<1> HIDE DEF f, t, r
<1>5. holds' \in [Clusters -> SUBSET (Names \X Clusters)]
  BY <1>0, <1>1, <1>2, <1>3, CopyTyped DEF TypeOK, r
<1>6. at' \in 1 .. Len(Flows) /\ phase' \in {"catch-up", "running"}
  BY <1>0, <1>3, NextFlowPlace DEF TypeOK
<1>7. PendingNamed'
  <2>1. CASE pending' = {}
    BY <2>1 DEF PendingNamed
  <2>2. CASE pending' # {}
    BY <1>0, <1>3, <2>2 DEF CountsInv, PendingNamed, Remote
  <2> QED
    BY <2>1, <2>2
<1>8. CASE parts' = parts
  <2>1. TypeOK'
    BY <1>0, <1>3, <1>5, <1>6, <1>8 DEF TypeOK
  <2> QED
    BY <1>0, <1>3, <1>7, <1>8, <2>1, CountsAlone
<1>9. CASE \E n \in {1, parts[f.src][t]} : parts' = Created(f.tgt, r, n)
  <2>1. PICK n \in {1, parts[f.src][t]} : parts' = Created(f.tgt, r, n)
    BY <1>9
  <2>2. n \in 0 .. 2 * MaxParts
    <3>1. 1 \in 0 .. 2 * MaxParts
      <4>1. MaxParts \in Nat /\ MaxParts # 0
        BY TopologyAssumption
      <4> QED
        BY <4>1
    <3>2. parts[f.src][t] \in 0 .. 2 * MaxParts
      BY <1>0, <1>1, <1>2 DEF TypeOK
    <3> QED
      BY <3>1, <3>2
  <2>3. PICK m \in 0 .. 2 * MaxParts : OneChanged(f.tgt, r, m)
    BY <1>0, <1>1, <1>2, <2>1, <2>2, CreatedFacts
  <2>4. TypeOK'
    BY <1>0, <1>3, <1>5, <1>6, <2>3 DEF TypeOK, OneChanged
  <2>5. \A g \in Flow : discovery[g] # "topics"
    BY <1>0 DEF CountsInv, DiscoveryRuns
  <2> QED
    BY <1>0, <1>1, <1>2, <1>3, <1>4, <1>7, <2>3, <2>4, <2>5, OneCount
<1> QED
  BY <1>3, <1>8, <1>9

\* A topic of a discovery.
LEMMA RefreshTopicKeeps ==
    ASSUME ~Identity, CountsInv, NEW f \in Flow, NEW t \in todo[f], NEW ok \in BOOLEAN,
           RefreshTopic(f, t, ok)
    PROVE  CountsInv'
<1> DEFINE r == Remote(f, t)
<1>0. TypeOK /\ phase = "running" /\ discovery[f] = "topics"
  BY DEF CountsInv, RefreshTopic
<1>1. f.src \in Clusters /\ f.tgt \in Clusters
  BY FlowFacts
<1>2. t \in Names /\ r \in Names /\ Original(t)
  BY <1>0 DEF CountsInv, DiscoveryRuns, TypeOK
<1>3. /\ todo' = [todo EXCEPT ![f] = @ \ {t}]
      /\ parts' \in {EnsureTarget(f, t), parts}
      /\ override' \in {override, SyncTopicConfigs(f, t)}
      /\ UNCHANGED <<holds, phase, starts, at, pending, discovery, srcTopics, tgtTopics, subscribed>>
  BY DEF RefreshTopic, engineVars
<1>4. ~Original(r)
  BY <1>2, MirrorsAreKnown DEF Original
<1> HIDE DEF r
<1>5. override' \in [Clusters -> SUBSET Names]
  <2>1. [override EXCEPT ![f.tgt] = @ \cup {r}] \in [Clusters -> SUBSET Names]
    BY <1>0, <1>1, <1>2 DEF TypeOK
  <2> QED
    BY <1>0, <1>3, <2>1 DEF SyncTopicConfigs, TypeOK, r
<1>6. /\ todo' \in [Flow -> SUBSET Names] /\ t \notin todo'[f]
      /\ \A g \in Flow : todo'[g] \subseteq todo[g]
  BY <1>0, <1>3 DEF TypeOK
<1>7. PendingNamed'
  BY <1>3 DEF CountsInv, PendingNamed, Remote
\* No topic still to be handled has this mirror.
<1>8. \A g \in Flow : \A u \in todo'[g] : ~(g.tgt = f.tgt /\ Remote(g, u) = r)
  <2> SUFFICES ASSUME NEW g \in Flow, NEW u \in todo'[g], g.tgt = f.tgt, Remote(g, u) = r
               PROVE  FALSE
    OBVIOUS
  <2>1. u \in Names
    BY <1>6
  <2>2. g = f /\ u = t
    <3>1. Remote(f, t) = Remote(g, u)
      BY DEF r
    <3>2. t \in Names
      BY <1>2
    <3> QED
      BY <2>1, <3>1, <3>2, MirrorsDiffer
  <2> QED
    BY <1>6, <2>2
<1>9. CASE parts' = parts
  <2>1. TypeOK'
    BY <1>0, <1>3, <1>5, <1>6, <1>9 DEF TypeOK
  <2>2. OriginalsBounded'
    BY <1>3, <1>9 DEF CountsInv, OriginalsBounded
  <2>3. DiscoveryRuns'
    BY <1>3, <1>6 DEF CountsInv, DiscoveryRuns, Remote
  <2>4. RoomToGrow'
    BY <1>3, <1>6, <1>9 DEF CountsInv, RoomToGrow, Remote
  <2> QED
    BY <1>7, <2>1, <2>2, <2>3, <2>4 DEF CountsInv
<1>10. ASSUME NEW n \in 0 .. 2 * MaxParts, OneChanged(f.tgt, r, n)
       PROVE  CountsInv'
  <2>1. TypeOK'
    BY <1>0, <1>3, <1>5, <1>6, <1>10 DEF TypeOK, OneChanged
  <2>2. \A g \in Flow : discovery[g] = "topics" =>
          \A u \in todo'[g] : g.tgt = f.tgt /\ Remote(g, u) = r => n <= MaxParts
    BY <1>8
  <2>3. Original(r) => n <= MaxParts
    BY <1>4
  <2>4. phase' = "running" /\ UNCHANGED <<srcTopics, tgtTopics, discovery>>
    BY <1>0, <1>3
  <2> QED
    BY <1>1, <1>2, <1>6, <1>7, <1>10, <2>1, <2>2, <2>3, <2>4, OneCount
<1>11. srcTopics[f][t] \in 0 .. 2 * MaxParts /\ tgtTopics[f][r] \in 0 .. 2 * MaxParts
       /\ srcTopics[f][t] <= MaxParts /\ MaxParts \in Nat
  <2>1. MaxParts \in Nat
    BY TopologyAssumption
  <2> QED
    BY <1>0, <1>2, <2>1 DEF TypeOK, CountsInv, OriginalsBounded
<1>12. CASE parts' = Created(f.tgt, r, srcTopics[f][t])
  <2>1. PICK n \in 0 .. 2 * MaxParts : OneChanged(f.tgt, r, n)
    BY <1>0, <1>1, <1>2, <1>11, <1>12, CreatedFacts
  <2> QED
    BY <1>10, <2>1
<1>13. CASE /\ parts' = EnsurePartitions(f.tgt, r, srcTopics[f][t])
            /\ srcTopics[f][t] > tgtTopics[f][r] /\ tgtTopics[f][r] # 0
  <2>1. parts[f.tgt][r] <= MaxParts /\ parts[f.tgt][r] \in 0 .. 2 * MaxParts
    BY <1>0, <1>1, <1>2, <1>11, <1>13 DEF CountsInv, RoomToGrow, TypeOK, r
  <2> DEFINE n == parts[f.tgt][r] + srcTopics[f][t]
  <2>2. n \in 0 .. 2 * MaxParts /\ n <= 2 * MaxParts /\ srcTopics[f][t] \in Nat
    BY <1>11, <2>1
  <2>3. OneChanged(f.tgt, r, n)
    BY <1>0, <1>1, <1>2, <1>13, <2>2, EnlargedFacts DEF EnsurePartitions
  <2> QED
    BY <1>10, <2>2, <2>3
<1> QED
  BY <1>3, <1>9, <1>12, <1>13 DEF EnsureTarget, r

\* What the discovery of a flow lists.
LEMMA ListsKeep ==
    ASSUME ~Identity, CountsInv, NEW f \in Flow,
           ListSource(f) \/ ListTarget(f) \/ ListFails(f) \/ RefreshDone(f)
    PROVE  CountsInv'
<1> DEFINE Lists == [Names -> 0 .. 2 * MaxParts]
<1>0. TypeOK /\ phase = "running" /\ f.src \in Clusters /\ f.tgt \in Clusters
  BY FlowFacts DEF CountsInv, ListSource, ListTarget, ListFails, RefreshDone
<1>1. MaxParts \in Nat
  BY TopologyAssumption
<1>2. NoTopics \in Lists /\ \A t \in Names : NoTopics[t] = 0
  BY <1>1 DEF NoTopics
<1>3. parts[f.src] \in Lists /\ parts[f.tgt] \in Lists
  BY <1>0 DEF TypeOK
<1>4. srcTopics \in [Flow -> Lists] /\ tgtTopics \in [Flow -> Lists]
  BY <1>0 DEF TypeOK
<1> HIDE DEF Lists
<1>5. UNCHANGED <<parts, override, holds, phase, starts, at, pending>>
  BY DEF ListSource, ListTarget, ListFails, RefreshDone, clusterVars, engineVars
<1>6. PendingNamed'
  BY <1>5 DEF CountsInv, PendingNamed, Remote
<1>7. /\ srcTopics' \in [Flow -> Lists]
      /\ \A g \in Flow : srcTopics'[g] \in {srcTopics[g], parts[f.src], NoTopics}
  <2>1. \E l \in {srcTopics[f], parts[f.src], NoTopics} : srcTopics' = [srcTopics EXCEPT ![f] = l]
    BY <1>4 DEF ListSource, ListTarget, ListFails, RefreshDone
  <2> QED
    BY <1>2, <1>3, <1>4, <2>1
<1>8. tgtTopics' \in [Flow -> Lists]
  <2>1. \E l \in {tgtTopics[f], parts[f.tgt], NoTopics} : tgtTopics' = [tgtTopics EXCEPT ![f] = l]
    BY <1>4 DEF ListSource, ListTarget, ListFails, RefreshDone
  <2> QED
    BY <1>2, <1>3, <1>4, <2>1
<1>9. /\ discovery' \in [Flow -> {"idle", "source", "topics"}]
      /\ \A g \in Flow : g # f => discovery'[g] = discovery[g]
      /\ discovery'[f] = "topics" => ListTarget(f)
  <2>1. \E d \in {"idle", "source", "topics"} :
          discovery' = [discovery EXCEPT ![f] = d] /\ (d = "topics" => ListTarget(f))
    BY DEF ListSource, ListTarget, ListFails, RefreshDone
  <2> QED
    BY <1>0, <2>1 DEF TypeOK
<1>10. \A t \in Replicable(f) : t \in Names /\ Original(t)
  BY DEF Replicable, shouldReplicate, Original
<1>11. /\ todo' \in [Flow -> SUBSET Names]
       /\ \A g \in Flow : g # f => todo'[g] = todo[g]
       /\ \A t \in todo'[f] : Remote(f, t) \in Names /\ Original(t)
  <2>1. CASE todo' = todo
    BY <1>0, <2>1 DEF TypeOK, CountsInv, DiscoveryRuns
  <2>2. CASE ListTarget(f)
    <3> DEFINE new == {t \in Replicable(f) : Remote(f, t) \in Names}
    <3>1. todo' = [todo EXCEPT ![f] = new]
      BY <2>2 DEF ListTarget
    <3>2. new \subseteq Names /\ \A t \in new : Remote(f, t) \in Names /\ Original(t)
      BY <1>10
    <3> HIDE DEF new
    <3> QED
      BY <1>0, <3>1, <3>2 DEF TypeOK
  <2> QED
    BY <2>1, <2>2 DEF ListSource, ListFails, RefreshDone
<1>12. subscribed' \in [Flow -> SUBSET Names]
  <2>1. CASE subscribed' = subscribed
    BY <1>0, <2>1 DEF TypeOK
  <2>2. CASE subscribed' = [subscribed EXCEPT ![f] = @ \cup Replicable(f)]
    <3>1. Replicable(f) \subseteq Names
      BY <1>10
    <3> QED
      BY <1>0, <2>2, <3>1 DEF TypeOK
  <2> QED
    BY <2>1, <2>2 DEF ListSource, ListTarget, ListFails, RefreshDone
<1>13. TypeOK'
  BY <1>0, <1>5, <1>7, <1>8, <1>9, <1>11, <1>12 DEF TypeOK, Lists
<1>14. OriginalsBounded'
  <2> SUFFICES ASSUME NEW t \in Names, Original(t)
               PROVE  /\ \A c \in Clusters : parts'[c][t] <= MaxParts
                      /\ \A g \in Flow : srcTopics'[g][t] <= MaxParts
    BY DEF OriginalsBounded
  <2>1. \A c \in Clusters : parts[c][t] <= MaxParts
    BY DEF CountsInv, OriginalsBounded
  <2>2. \A g \in Flow : srcTopics[g][t] <= MaxParts
    BY DEF CountsInv, OriginalsBounded
  <2>3. NoTopics[t] <= MaxParts
    <3>1. 0 <= MaxParts
      BY <1>1
    <3>2. NoTopics[t] = 0
      BY <1>2
    <3> QED
      BY <3>1, <3>2
  <2>4. parts' = parts
    BY <1>5
  <2> QED
    BY <1>0, <1>7, <2>1, <2>2, <2>3, <2>4
<1>15. DiscoveryRuns'
  BY <1>0, <1>5, <1>11 DEF CountsInv, DiscoveryRuns, Remote
<1>16. RoomToGrow'
  <2> SUFFICES ASSUME NEW g \in Flow, discovery'[g] = "topics", NEW t \in todo'[g],
                      tgtTopics'[g][Remote(g, t)] < srcTopics'[g][t],
                      tgtTopics'[g][Remote(g, t)] # 0
               PROVE  parts[g.tgt][Remote(g, t)] <= MaxParts
    BY <1>5 DEF RoomToGrow, Remote
  <2>1. CASE g # f
    <3>1. srcTopics'[g] = srcTopics[g] /\ tgtTopics'[g] = tgtTopics[g]
      BY <1>4, <2>1 DEF ListSource, ListTarget, ListFails, RefreshDone
    <3> QED
      BY <1>9, <1>11, <2>1, <3>1 DEF CountsInv, RoomToGrow
  <2>2. CASE g = f
    <3>1. ListTarget(f)
      BY <1>9, <2>2
    <3>2. tgtTopics'[f] = parts[f.tgt] /\ srcTopics' = srcTopics
      BY <1>4, <3>1 DEF ListTarget
    <3>3. t \in Names /\ Remote(f, t) \in Names /\ Original(t)
      BY <1>11, <2>2
    <3>4. srcTopics[f][t] <= MaxParts
      BY <3>3 DEF CountsInv, OriginalsBounded
    <3>5. srcTopics[f][t] \in 0 .. 2 * MaxParts /\ parts[f.tgt][Remote(f, t)] \in 0 .. 2 * MaxParts
      BY <1>0, <3>3 DEF TypeOK
    <3> QED
      BY <1>1, <2>2, <3>2, <3>4, <3>5
  <2> QED
    BY <2>1, <2>2
<1> QED
  BY <1>6, <1>13, <1>14, <1>15, <1>16 DEF CountsInv

\* A step preserves CountsInv.
LEMMA CountsStep ==
    ASSUME ~Identity, CountsInv, [Next]_vars
    PROVE  CountsInv'
<1>0. TypeOK /\ MaxParts \in Nat
  BY TopologyAssumption DEF CountsInv
<1>1. CASE AddPartition
  <2>1. PICK u \in UserTopics : /\ parts[u.at][u.name] < MaxParts
                                /\ parts' = [parts EXCEPT ![u.at][u.name] = @ + 1]
    BY <1>1 DEF AddPartition
  <2>2. u.at \in Clusters /\ u.name \in Names
    BY UserTopicNamed
  <2>3. /\ UNCHANGED <<override, holds, phase, starts, at, pending, discovery, srcTopics,
                       tgtTopics, todo, subscribed>>
    BY <1>1 DEF AddPartition, engineVars, discoveryVars
  <2> DEFINE n == parts[u.at][u.name] + 1
  <2>4. n \in 0 .. 2 * MaxParts /\ n <= MaxParts /\ parts[u.at][u.name] \in Nat
    BY <1>0, <2>1, <2>2 DEF TypeOK
  <2>5. OneChanged(u.at, u.name, n)
    <3>1. parts[u.at][u.name] + 1 <= 2 * MaxParts /\ 1 \in Nat
      BY <1>0, <2>4
    <3>2. parts' = [parts EXCEPT ![u.at][u.name] = @ + 1]
      BY <2>1
    <3> QED
      BY <1>0, <2>2, <3>1, <3>2, EnlargedFacts
  <2> HIDE DEF n
  <2>6. TypeOK'
    BY <1>0, <2>3, <2>5 DEF TypeOK, OneChanged
  <2>7. PendingNamed'
    BY <2>3 DEF CountsInv, PendingNamed, Remote
  <2> QED
    BY <2>2, <2>3, <2>4, <2>5, <2>6, <2>7, OneCount
<1>2. CASE ChangeConfig
  <2>1. PICK u \in UserTopics :
          override' = [override EXCEPT ![u.at] =
                         IF u.name \in @ THEN @ \ {u.name} ELSE @ \cup {u.name}]
    BY <1>2 DEF ChangeConfig
  <2>2. u.at \in Clusters /\ u.name \in Names
    BY UserTopicNamed
  <2>3. override' \in [Clusters -> SUBSET Names]
    BY <1>0, <2>1, <2>2 DEF TypeOK
  <2>4. /\ UNCHANGED <<parts, holds, phase, starts, at, pending, discovery, srcTopics,
                       tgtTopics, todo, subscribed>>
    BY <1>2 DEF ChangeConfig, engineVars, discoveryVars
  <2>5. TypeOK' /\ PendingNamed'
    BY <1>0, <2>3, <2>4 DEF TypeOK, CountsInv, PendingNamed, Remote
  <2> QED
    BY <2>4, <2>5, CountsAlone
<1>3. CASE StartEngine
  <2>1. /\ UNCHANGED <<parts, override, holds, pending, discovery, srcTopics, tgtTopics, todo,
                       subscribed>>
        /\ phase = "down" /\ phase' = "bootstrap" /\ starts' = starts + 1 /\ at' = 1
        /\ starts < MaxStarts
    BY <1>3 DEF StartEngine, clusterVars, discoveryVars
  <2>2. starts' \in 0 .. MaxStarts
    <3>1. MaxStarts \in Nat
      BY TopologyAssumption
    <3> QED
      BY <1>0, <2>1, <3>1 DEF TypeOK
  <2>3. at' \in 1 .. Len(Flows)
    BY <1>0, <2>1 DEF TypeOK
  <2>4. TypeOK' /\ PendingNamed'
    BY <1>0, <2>1, <2>2, <2>3 DEF TypeOK, CountsInv, PendingNamed
  <2> QED
    BY <2>1, <2>4, CountsAlone
<1>4. CASE Bootstrap
  <2> DEFINE c == Flows[at].src
  <2>1. /\ UNCHANGED <<override, holds, starts, pending, discovery, srcTopics, tgtTopics, todo,
                       subscribed>>
        /\ phase = "bootstrap" /\ NextFlow("catch-up")
        /\ parts' \in {parts, Created(c, OffsetSyncsTopic(c), 1)}
    BY <1>4 DEF Bootstrap, discoveryVars
  <2>2. at' \in 1 .. Len(Flows) /\ phase' \in {"bootstrap", "catch-up"}
    BY <1>0, <2>1, NextFlowPlace DEF TypeOK
  <2>3. PendingNamed'
    BY <2>1 DEF CountsInv, PendingNamed
  <2>4. c \in Clusters /\ OffsetSyncsTopic(c) \in Names /\ ~Original(OffsetSyncsTopic(c))
    BY <1>0, AtFlow, FlowFacts, SyncsTopicNamed DEF TypeOK
  <2> HIDE DEF c
  <2>5. CASE parts' = parts
    <3>1. TypeOK'
      BY <1>0, <2>1, <2>2, <2>5 DEF TypeOK
    <3> QED
      BY <2>1, <2>3, <2>5, <3>1, CountsAlone
  <2>6. CASE parts' = Created(c, OffsetSyncsTopic(c), 1)
    <3>1. 1 \in 0 .. 2 * MaxParts
      <4>1. MaxParts # 0
        BY TopologyAssumption
      <4> QED
        BY <1>0, <4>1
    <3>2. PICK m \in 0 .. 2 * MaxParts : OneChanged(c, OffsetSyncsTopic(c), m)
      BY <1>0, <2>4, <2>6, <3>1, CreatedFacts
    <3>3. TypeOK'
      BY <1>0, <2>1, <2>2, <3>2 DEF TypeOK, OneChanged
    <3>4. \A g \in Flow : discovery[g] # "topics"
      BY <2>1 DEF CountsInv, DiscoveryRuns
    <3> QED
      BY <2>1, <2>3, <2>4, <3>2, <3>3, <3>4, OneCount
  <2> QED
    BY <2>1, <2>5, <2>6
<1>5. CASE CatchUpList
  <2>1. /\ UNCHANGED <<parts, override, holds, phase, starts, at, discovery, srcTopics, tgtTopics,
                       todo, subscribed>>
        /\ phase = "catch-up"
        /\ \A t \in pending' : t \in Names /\ Remote(Flows[at], t) \in Names
    BY <1>5 DEF CatchUpList, clusterVars, discoveryVars
  <2>2. TypeOK'
    BY <1>0, <2>1 DEF TypeOK
  <2>3. PendingNamed'
    BY <2>1 DEF PendingNamed, Remote
  <2> QED
    BY <2>1, <2>2, <2>3, CountsAlone
<1>6. CASE CatchUpNext
  <2>1. /\ UNCHANGED <<parts, override, holds, starts, pending, discovery, srcTopics, tgtTopics,
                       todo, subscribed>>
        /\ phase = "catch-up" /\ pending = {} /\ NextFlow("running")
    BY <1>6 DEF CatchUpNext, clusterVars, discoveryVars
  <2>2. at' \in 1 .. Len(Flows) /\ phase' \in {"catch-up", "running"}
    BY <1>0, <2>1, NextFlowPlace DEF TypeOK
  <2>3. TypeOK' /\ PendingNamed'
    BY <1>0, <2>1, <2>2 DEF TypeOK, PendingNamed
  <2> QED
    BY <2>1, <2>3, CountsAlone
<1>7. CASE CatchUpTopic
  BY <1>7, CatchUpTopicKeeps
<1>8. CASE Down
  <2>1. /\ UNCHANGED <<parts, override, holds, starts>>
        /\ phase' = "down" /\ at' = 1 /\ pending' = {}
        /\ discovery' = [f \in Flow |-> "idle"]
        /\ srcTopics' = [f \in Flow |-> NoTopics] /\ tgtTopics' = [f \in Flow |-> NoTopics]
        /\ todo' = [f \in Flow |-> {}] /\ subscribed' = [f \in Flow |-> {}]
    BY <1>8 DEF Down, clusterVars
  <2>2. NoTopics \in [Names -> 0 .. 2 * MaxParts] /\ \A t \in Names : NoTopics[t] = 0
    BY <1>0 DEF NoTopics
  <2>3. at' \in 1 .. Len(Flows)
    BY <1>0, <2>1 DEF TypeOK
  <2>4. srcTopics' \in [Flow -> [Names -> 0 .. 2 * MaxParts]]
        /\ tgtTopics' \in [Flow -> [Names -> 0 .. 2 * MaxParts]]
    BY <2>1, <2>2
  <2>5. TypeOK'
    BY <1>0, <2>1, <2>3, <2>4 DEF TypeOK
  <2>6. OriginalsBounded'
    <3> SUFFICES ASSUME NEW t \in Names, Original(t)
                 PROVE  /\ \A c \in Clusters : parts'[c][t] <= MaxParts
                        /\ \A f \in Flow : srcTopics'[f][t] <= MaxParts
      BY DEF OriginalsBounded
    <3>1. \A c \in Clusters : parts[c][t] <= MaxParts
      BY DEF CountsInv, OriginalsBounded
    <3>2. \A f \in Flow : srcTopics'[f][t] = 0
      BY <2>1, <2>2
    <3>3. parts' = parts /\ 0 <= MaxParts
      BY <1>0, <2>1
    <3> QED
      BY <3>1, <3>2, <3>3
  <2>7. DiscoveryRuns' /\ RoomToGrow' /\ PendingNamed'
    BY <2>1 DEF DiscoveryRuns, RoomToGrow, PendingNamed
  <2> QED
    BY <2>5, <2>6, <2>7 DEF CountsInv
<1>9. ASSUME NEW f \in Flow, ListSource(f) \/ ListTarget(f) \/ ListFails(f) \/ RefreshDone(f)
      PROVE  CountsInv'
  BY <1>9, ListsKeep
<1>10. ASSUME NEW f \in Flow, NEW t \in todo[f], NEW ok \in BOOLEAN, RefreshTopic(f, t, ok)
       PROVE  CountsInv'
  BY <1>10, RefreshTopicKeeps
<1>11. ASSUME NEW f \in Flow, Replicate(f)
       PROVE  CountsInv'
  <2>1. PICK t \in subscribed[f] : Remote(f, t) \in Names /\ holds' = Copied(f, t)
    BY <1>11 DEF Replicate
  <2>2. UNCHANGED <<parts, override, phase, starts, at, pending, discovery, srcTopics, tgtTopics,
                    todo, subscribed>>
    BY <1>11 DEF Replicate, engineVars, discoveryVars
  <2>3. t \in Names
    BY <1>0 DEF TypeOK
  <2>4. holds' \in [Clusters -> SUBSET (Names \X Clusters)]
    BY <1>0, <2>1, <2>3, CopyTyped DEF TypeOK
  <2>5. TypeOK' /\ PendingNamed'
    BY <1>0, <2>2, <2>4 DEF TypeOK, CountsInv, PendingNamed, Remote
  <2> QED
    BY <2>2, <2>5, CountsAlone
<1>12. CASE UNCHANGED vars
  <2>1. UNCHANGED <<parts, override, holds, phase, starts, at, pending, discovery, srcTopics,
                    tgtTopics, todo, subscribed>>
    BY <1>12 DEF vars, clusterVars, engineVars, discoveryVars
  <2>2. TypeOK' /\ PendingNamed'
    BY <1>0, <2>1 DEF TypeOK, CountsInv, PendingNamed, Remote
  <2> QED
    BY <2>1, <2>2, CountsAlone
<1> QED
  BY <1>1, <1>2, <1>3, <1>4, <1>5, <1>6, <1>7, <1>8, <1>9, <1>10, <1>11, <1>12 DEF Next

\* Under the default policy partition counts stay below twice the bound on the
\* owners' topics: adding to a mirror what its topic has, on counts that are stale,
\* does not add up over the rounds, the restarts and the flows of a cycle.
THEOREM TopologyTypeCorrect == ~Identity /\ Spec => []TypeOK
<1> SUFFICES ASSUME ~Identity PROVE Spec => []TypeOK
  OBVIOUS
<1>1. Init => CountsInv
  <2> SUFFICES ASSUME Init PROVE CountsInv
    OBVIOUS
  <2>0. MaxParts \in Nat /\ MaxParts # 0 /\ MaxStarts \in Nat
    BY TopologyAssumption
  <2>1. 1 \in 1 .. Len(Flows)
    BY FlowsNotEmpty
  <2>2. NoTopics \in [Names -> 0 .. 2 * MaxParts] /\ \A t \in Names : NoTopics[t] = 0
    BY <2>0 DEF NoTopics
  <2>3. /\ parts \in [Clusters -> [Names -> 0 .. 2 * MaxParts]]
        /\ \A c \in Clusters, t \in Names : parts[c][t] <= MaxParts
    BY <2>0 DEF Init
  <2>4. holds \in [Clusters -> SUBSET (Names \X Clusters)]
    BY DEF Init
  <2>5. /\ srcTopics \in [Flow -> [Names -> 0 .. 2 * MaxParts]]
        /\ tgtTopics \in [Flow -> [Names -> 0 .. 2 * MaxParts]]
        /\ \A f \in Flow, t \in Names : srcTopics[f][t] <= MaxParts
    BY <2>0, <2>2 DEF Init
  <2>6. TypeOK
    BY <2>0, <2>1, <2>3, <2>4, <2>5 DEF Init, TypeOK
  <2>7. OriginalsBounded
    BY <2>3, <2>5 DEF OriginalsBounded
  <2>8. DiscoveryRuns /\ RoomToGrow /\ PendingNamed
    BY DEF Init, DiscoveryRuns, RoomToGrow, PendingNamed
  <2> QED
    BY <2>6, <2>7, <2>8 DEF CountsInv
<1>2. CountsInv => TypeOK
  BY DEF CountsInv
<1>3. CountsInv /\ [Next]_vars => CountsInv'
  BY CountsStep
<1> QED
  BY <1>1, <1>2, <1>3, PTL DEF Spec
=============================================================================
