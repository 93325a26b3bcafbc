------------------------------ MODULE Topology ------------------------------
(***************************************************************************)
(* Which topics exist where, and who mirrors them: the start-up phases of  *)
(* the engine (Run of internal/mirror/engine.go) and the topic discovery   *)
(* of every flow (internal/mirror/topic_discovery.go), over clusters whose *)
(* owners add partitions and change configs at any time.                   *)
(*                                                                         *)
(* The discovery of a flow lists both clusters and then works through the  *)
(* topics one by one, on lists that may be stale by then.  Every admin     *)
(* call may fail; one that reports a failure may have taken effect.  Of    *)
(* the records of a topic only their cluster of origin is kept, of its     *)
(* config only whether one property is overridden.                         *)
(***************************************************************************)
EXTENDS Policy, FiniteSets, SequencesExt

CONSTANTS
    Flows,       \* sequence of the enabled replications, [src, tgt]
    UserTopics,  \* topics the owners of the clusters have, [at, name]
    HighLag,     \* partitions may be more than parallelThreshold behind
    MaxParts,    \* bound: partitions of a topic
    MaxHops,     \* bound: names are followed through this many mirrors
    MaxStarts    \* bound: times the engine is started

Flow == Range(Flows)
Clusters == {f.src : f \in Flow} \cup {f.tgt : f \in Flow}

ASSUME TopologyAssumption ==
    /\ Flows \in Seq([src : STRING, tgt : STRING]) /\ Flows # <<>>
    /\ \A f \in Flow : f.src # f.tgt /\ f.src # ""
    /\ UserTopics \subseteq [at : Clusters, name : Seq(STRING) \ {<<>>}]
    /\ HighLag \in BOOLEAN
    /\ MaxParts \in Nat \ {0} /\ MaxHops \in Nat \ {0} /\ MaxStarts \in Nat

\* Names within the bound.
Originals == {u.name : u \in UserTopics} \cup {OffsetSyncsTopic(c) : c \in Clusters}
Names == {p \o n : p \in UNION {[1 .. k -> Clusters] : k \in 0 .. MaxHops},
                   n \in Originals}

VARIABLES
    parts,       \* parts[c][t]: partitions of topic t on c, 0 when there is none
    override,    \* override[c]: topics of c with the property overridden
    holds,       \* holds[c]: pairs of a topic of c and an origin of its records
    phase,       \* "down", "bootstrap", "catch-up" or "running"
    starts,      \* times the engine was started
    at,          \* the replication the engine is at, in Flows
    pending,     \* topics the catch-up has listed and not handled
    discovery,   \* discovery[f]: "idle", "source" or "topics"
    srcTopics,   \* srcTopics[f]: the source topics it listed, as in parts
    tgtTopics,   \* tgtTopics[f]: the target topics it listed
    todo,        \* todo[f]: the replicable topics it has not handled
    subscribed   \* subscribed[f]: subscribedTopics of the flow's Source

clusterVars == <<parts, override, holds>>
engineVars == <<phase, starts, at, pending>>
discoveryVars == <<discovery, srcTopics, tgtTopics, todo>>
vars == <<clusterVars, engineVars, discoveryVars, subscribed>>

NoTopics == [t \in Names |-> 0]

\* Type invariant: partition counts stay below twice the bound, and the engine is
\* always at one of its flows.
TypeOK ==
    /\ parts \in [Clusters -> [Names -> 0 .. 2 * MaxParts]]
    /\ override \in [Clusters -> SUBSET Names]
    /\ holds \in [Clusters -> SUBSET (Names \X Clusters)]
    /\ phase \in {"down", "bootstrap", "catch-up", "running"}
    /\ starts \in 0 .. MaxStarts
    /\ at \in 1 .. Len(Flows)
    /\ pending \subseteq Names
    /\ discovery \in [Flow -> {"idle", "source", "topics"}]
    /\ srcTopics \in [Flow -> [Names -> 0 .. 2 * MaxParts]]
    /\ tgtTopics \in [Flow -> [Names -> 0 .. 2 * MaxParts]]
    /\ todo \in [Flow -> SUBSET Names]
    /\ subscribed \in [Flow -> SUBSET Names]

IsUserTopic(c, t) == [at |-> c, name |-> t] \in UserTopics

Init ==
    /\ parts = [c \in Clusters |-> [t \in Names |-> IF IsUserTopic(c, t) THEN 1 ELSE 0]]
    /\ override = [c \in Clusters |-> {}]
    /\ holds = [c \in Clusters |-> {<<t, c>> : t \in {n \in Names : IsUserTopic(c, n)}}]
    /\ phase = "down"
    /\ starts = 0
    /\ at = 1
    /\ pending = {}
    /\ discovery = [f \in Flow |-> "idle"]
    /\ srcTopics = [f \in Flow |-> NoTopics]
    /\ tgtTopics = [f \in Flow |-> NoTopics]
    /\ todo = [f \in Flow |-> {}]
    /\ subscribed = [f \in Flow |-> {}]

Remote(f, t) == FormatRemoteTopic(f.src, t)

\* Topics are handled in one order, the same every time.
Pick(topics) == CHOOSE t \in topics : TRUE

\* CreateTopic: an existing topic is left as it is (and reported as an error).
Created(c, t, n) == [parts EXCEPT ![c][t] = IF @ = 0 THEN n ELSE @]

\* EnsurePartitions: kadm's CreatePartitions adds n partitions to the topic.
EnsurePartitions(c, t, n) == [parts EXCEPT ![c][t] = @ + n]

\* Records of t are copied to the target of flow f.
Copied(f, t) ==
    [holds EXCEPT ![f.tgt] =
        @ \cup {<<Remote(f, t), o>> : o \in {c \in Clusters : <<t, c>> \in holds[f.src]}}]

(***************************************************************************)
(* The owners of the clusters.                                             *)
(***************************************************************************)

AddPartition ==
    /\ \E u \in UserTopics :
         /\ parts[u.at][u.name] < MaxParts
         /\ parts' = [parts EXCEPT ![u.at][u.name] = @ + 1]
    /\ UNCHANGED <<override, holds, engineVars, discoveryVars, subscribed>>

ChangeConfig ==
    /\ \E u \in UserTopics :
         override' = [override EXCEPT ![u.at] =
                        IF u.name \in @ THEN @ \ {u.name} ELSE @ \cup {u.name}]
    /\ UNCHANGED <<parts, holds, engineVars, discoveryVars, subscribed>>

(***************************************************************************)
(* The engine.                                                             *)
(***************************************************************************)

StartEngine ==
    /\ phase = "down"
    /\ starts < MaxStarts
    /\ phase' = "bootstrap"
    /\ starts' = starts + 1
    /\ at' = 1
    /\ UNCHANGED <<clusterVars, pending, discoveryVars, subscribed>>

\* The engine goes on to the next replication, and after the last to its next
\* phase.
NextFlow_Mutant(next) ==
    IF at <= Len(Flows) THEN at' = at + 1 /\ UNCHANGED phase
                        ELSE at' = 1 /\ phase' = next
NextFlow(next) ==
    IF at < Len(Flows) THEN at' = at + 1 /\ UNCHANGED phase
                       ELSE at' = 1 /\ phase' = next

\* bootstrapOffsetSyncs for one flow, whose offset-syncs topic is created on the
\* source cluster; the result of the creation is ignored.
Bootstrap ==
    /\ phase = "bootstrap"
    /\ LET c == Flows[at].src IN
         parts' \in {parts, Created(c, OffsetSyncsTopic(c), 1)}
    /\ NextFlow("catch-up")
    /\ UNCHANGED <<override, holds, starts, pending, discoveryVars, subscribed>>

\* Phase 2, for one flow: the topics of the source cluster are listed.  Only the
\* ones whose name starts with an underscore or a dot are left out.
CatchUpList ==
    /\ phase = "catch-up"
    /\ pending = {}
    /\ pending' = {t \in Names : parts[Flows[at].src][t] > 0 /\ Remote(Flows[at], t) \in Names}
    /\ pending' # {}
    /\ UNCHANGED <<clusterVars, phase, starts, at, discoveryVars, subscribed>>

\* There is no topic, or they cannot be listed: the flow is skipped.
CatchUpNext ==
    /\ phase = "catch-up"
    /\ pending = {}
    /\ NextFlow("running")
    /\ UNCHANGED <<clusterVars, starts, pending, discoveryVars, subscribed>>

\* One topic of phase 2: its target topic is created, with one partition when
\* the partitions cannot be listed, and its records are copied if it lags.
CatchUpTopic ==
    /\ phase = "catch-up"
    /\ LET f == Flows[at] IN
       /\ pending # {}
       /\ LET t == Pick(pending) IN
         /\ pending' = pending \ {t}
         /\ parts' \in {parts} \cup {Created(f.tgt, Remote(f, t), n) : n \in {1, parts[f.src][t]}}
         /\ holds' \in {holds} \cup (IF HighLag /\ parts'[f.tgt][Remote(f, t)] > 0
                                   THEN {Copied(f, t)} ELSE {})
         /\ IF pending' = {} THEN NextFlow("running") ELSE UNCHANGED <<at, phase>>
    /\ UNCHANGED <<override, starts, discoveryVars, subscribed>>

\* The engine is stopped or dies; topic lists and subscriptions are lost.
Down ==
    /\ phase # "down"
    /\ phase' = "down"
    /\ at' = 1
    /\ pending' = {}
    /\ discovery' = [f \in Flow |-> "idle"]
    /\ srcTopics' = [f \in Flow |-> NoTopics]
    /\ tgtTopics' = [f \in Flow |-> NoTopics]
    /\ todo' = [f \in Flow |-> {}]
    /\ subscribed' = [f \in Flow |-> {}]
    /\ UNCHANGED <<clusterVars, starts>>

(***************************************************************************)
(* The topic discovery of a flow.                                          *)
(***************************************************************************)

\* refresh: the topics of the source are listed ...
ListSource(f) ==
    /\ phase = "running"
    /\ discovery[f] = "idle"
    /\ discovery' = [discovery EXCEPT ![f] = "source"]
    /\ srcTopics' = [srcTopics EXCEPT ![f] = parts[f.src]]
    /\ UNCHANGED <<clusterVars, engineVars, tgtTopics, todo, subscribed>>

Replicable(f) == {t \in Names : srcTopics[f][t] > 0 /\ shouldReplicate(t)}

\* ... then those of the target ...
ListTarget(f) ==
    /\ phase = "running"
    /\ discovery[f] = "source"
    /\ discovery' = [discovery EXCEPT ![f] = "topics"]
    /\ tgtTopics' = [tgtTopics EXCEPT ![f] = parts[f.tgt]]
    /\ todo' = [todo EXCEPT ![f] = {t \in Replicable(f) : Remote(f, t) \in Names}]
    /\ UNCHANGED <<clusterVars, engineVars, srcTopics, subscribed>>

\* (the second list cannot be had: the round is over) ...
ListFails(f) ==
    /\ phase = "running"
    /\ discovery[f] = "source"
    /\ discovery' = [discovery EXCEPT ![f] = "idle"]
    /\ srcTopics' = [srcTopics EXCEPT ![f] = NoTopics]
    /\ UNCHANGED <<clusterVars, engineVars, tgtTopics, todo, subscribed>>

\* The partitions once a topic's mirror is created or, if it was listed with
\* fewer partitions than the topic, has been given more.
EnsureTarget_Mutant(f, t) == Created(f.tgt, Remote(f, t), srcTopics[f][t])
EnsureTarget(f, t) ==
    LET r == Remote(f, t) IN
    IF tgtTopics[f][r] = 0 THEN Created(f.tgt, r, srcTopics[f][t])
    ELSE IF srcTopics[f][t] > tgtTopics[f][r]
         THEN EnsurePartitions(f.tgt, r, srcTopics[f][t])
    ELSE parts

\* Overrides of the source topic are set on the mirror; none is ever reset.
SyncTopicConfigs(f, t) ==
    IF t \in override[f.src] THEN [override EXCEPT ![f.tgt] = @ \cup {Remote(f, t)}]
                             ELSE override

\* ... and the topics are handled one by one.  Unless all goes well (ok), a call
\* may fail, with or without effect.  Only when the mirror could not be created
\* are its configs left alone.
RefreshTopic(f, t, ok) ==
    /\ phase = "running"
    /\ discovery[f] = "topics"
    /\ todo[f] # {} /\ t = Pick(todo[f])
    /\ todo' = [todo EXCEPT ![f] = @ \ {t}]
    /\ parts' \in {EnsureTarget(f, t)} \cup (IF ok THEN {} ELSE {parts})
    /\ override' \in (IF ok THEN {} ELSE {override}) \cup
                     (IF parts'[f.tgt][Remote(f, t)] > 0 THEN {SyncTopicConfigs(f, t)} ELSE {})
    /\ UNCHANGED <<holds, engineVars, discovery, srcTopics, tgtTopics, subscribed>>

\* The Source is told of every replicable topic, whether or not its mirror could
\* be created.
RefreshDone(f) ==
    /\ phase = "running"
    /\ discovery[f] = "topics"
    /\ todo[f] = {}
    /\ subscribed' = [subscribed EXCEPT ![f] = @ \cup Replicable(f)]
    /\ discovery' = [discovery EXCEPT ![f] = "idle"]
    /\ srcTopics' = [srcTopics EXCEPT ![f] = NoTopics]
    /\ tgtTopics' = [tgtTopics EXCEPT ![f] = NoTopics]
    /\ UNCHANGED <<clusterVars, engineVars, todo>>

\* The Source of the flow copies records of a topic it is subscribed to, if the
\* mirror is there to take them.
Replicate(f) ==
    /\ phase = "running"
    /\ \E t \in subscribed[f] :
         /\ Remote(f, t) \in Names
         /\ parts[f.tgt][Remote(f, t)] > 0
         /\ holds' = Copied(f, t)
    /\ UNCHANGED <<parts, override, engineVars, discoveryVars, subscribed>>

Next ==
    \/ AddPartition \/ ChangeConfig
    \/ StartEngine \/ Bootstrap \/ CatchUpList \/ CatchUpNext \/ CatchUpTopic \/ Down
    \/ \E f \in Flow :
         \/ ListSource(f) \/ ListTarget(f) \/ ListFails(f)
         \/ \E t \in todo[f], ok \in BOOLEAN : RefreshTopic(f, t, ok)
         \/ RefreshDone(f)
         \/ Replicate(f)

Spec == Init /\ [][Next]_vars

(***************************************************************************)
(* The refresh ticker keeps firing and a call that is tried again and      *)
(* again succeeds at last.                                                 *)
(***************************************************************************)
FairSpec ==
    /\ Spec
    /\ \A f \in Flow :
         /\ WF_vars(ListSource(f)) /\ SF_vars(ListTarget(f))
         /\ \A u \in UserTopics : SF_vars(RefreshTopic(f, u.name, TRUE))
         /\ WF_vars(RefreshDone(f))

(***************************************************************************)
(* Properties.                                                             *)
(***************************************************************************)

\* Records do not come back to the cluster they were written on under another
\* name ("skip it to avoid re-replicating already-mirrored data",
\* topic_discovery.go:231), whatever two flows of opposite directions do to each
\* other's mirrors.
NoEcho ==
    \A c \in Clusters : \A h \in holds[c] : h[2] = c => IsUserTopic(c, h[1])

\* Records of a topic the blacklist names are on no other cluster ("Blacklist
\* takes precedence", filter/topic.go:16).
FilterRespected ==
    \A f \in Flow : \A u \in UserTopics :
        (u.at = f.src /\ u.name \in Blacklist) =>
            <<Remote(f, u.name), f.src>> \notin holds[f.tgt]

\* A mirror has at most the partitions of its topic ("ensure partition count
\* matches", topic_discovery.go:182), although discovery acts on lists of both
\* clusters that are stale when it uses them.
PartitionsMatch ==
    \A f \in Flow : \A u \in UserTopics :
        u.at = f.src => parts[f.tgt][Remote(f, u.name)] <= parts[f.src][u.name]

\* While the engine stays up each topic to be replicated comes to be subscribed,
\* and its mirror comes to have at least its partitions, however often listing,
\* creating and enlarging fail.
InLine(f, t) ==
    /\ t \in subscribed[f]
    /\ parts[f.tgt][Remote(f, t)] >= parts[f.src][t]

Converges ==
    \A f \in Flow : \A u \in UserTopics :
        (u.at = f.src /\ shouldReplicate(u.name)) =>
            (<>[](phase = "running") => <>[]InLine(f, u.name))

\* While the engine stays up and a topic's config no longer changes, its mirror
\* comes to have the same config ("to bring the target in line with the source",
\* topic_sync.go:18).
ConfigsInLine ==
    \A f \in Flow : \A u \in UserTopics :
        LET same == (u.name \in override[f.src]) = (Remote(f, u.name) \in override[f.tgt]) IN
        (u.at = f.src /\ shouldReplicate(u.name)) =>
            (<>[](phase = "running") /\ <>[][UNCHANGED override[f.src]]_vars => <>[]same)
=============================================================================
