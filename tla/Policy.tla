------------------------------- MODULE Policy -------------------------------
(***************************************************************************)
(* Topic names and the decision whether to replicate a topic: DefaultPolicy *)
(* and IdentityPolicy of internal/policy/replication.go, TopicFilter of     *)
(* internal/filter/topic.go and shouldReplicate of                          *)
(* internal/mirror/topic_discovery.go.                                      *)
(*                                                                         *)
(* A name is the sequence of the parts its separators divide it into.  The *)
(* regular expressions of the filter are the sets of names they match.     *)
(***************************************************************************)
EXTENDS Integers, Sequences

CONSTANTS
    Identity,    \* replication_policy is "identity" and not "default"
    Whitelist,   \* names a whitelist pattern matches; {} stands for no pattern
    Blacklist,   \* names a blacklist pattern matches
    Mm2Words     \* parts of names that begin with "mm2"

ASSUME PolicyAssumption == Identity \in BOOLEAN /\ "mm2-offset-syncs" \in Mm2Words

FormatRemoteTopic(cluster, topic) == IF Identity THEN topic ELSE <<cluster>> \o topic

\* Everything before the first separator, if there is one; nothing to tell a
\* mirror by when names are kept.
TopicSource_Mutant(topic) == ""
TopicSource(topic) == IF Len(topic) > 1 /\ ~Identity THEN Head(topic) ELSE ""

OffsetSyncsTopic(cluster) == <<"mm2-offset-syncs", cluster, "internal">>

IsInternalTopic(topic) ==
    LET n == Len(topic) IN
    /\ n > 1
    /\ topic[n] = "internal"
    /\ topic[1] \in Mm2Words \/ (n > 2 /\ topic[n - 1] = "checkpoints")

IsHeartbeatsTopic(topic) == topic = <<"heartbeats">>

\* TopicFilter.ShouldReplicate; the broker's own topics are never listed here.
FilterAllows(topic) ==
    /\ topic \notin Blacklist
    /\ Whitelist = {} \/ topic \in Whitelist

shouldReplicate(topic) ==
    /\ ~IsInternalTopic(topic)
    /\ ~IsHeartbeatsTopic(topic)
    /\ TopicSource(topic) = ""
    /\ FilterAllows(topic)
=============================================================================
