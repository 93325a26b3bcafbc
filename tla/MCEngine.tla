------------------------------ MODULE MCEngine ------------------------------
(***************************************************************************)
(* Engine for TLC: two clusters and two flows.                             *)
(***************************************************************************)
EXTENDS Engine

\* An entry of configs/minimal.yaml: nothing but the clusters is set.
Minimal(source, target) ==
    [source |-> source, target |-> target, enabled |-> TRUE, exactlyOnce |-> FALSE,
     topicRegexes |-> "ok", groupRegexes |-> "ok", policy |-> "", compression |-> "",
     emitOffsetSyncs |-> "unset", emitHeartbeats |-> "unset", emitCheckpoints |-> "unset",
     refreshInterval |-> 0, heartbeatInterval |-> 0, checkpointInterval |-> 0,
     dlqEnabled |-> FALSE]

File(first, second) == [clusters |-> {"a", "b"}, serverless |-> {}, flows |-> <<first, second>>]

There == Minimal("a", "b")
Back  == Minimal("b", "a")

\* Of a flow: everything on; only the Source and topic discovery.
Only(r) == [r EXCEPT !.emitHeartbeats = "off", !.emitCheckpoints = "off"]
Off(r)  == [r EXCEPT !.enabled = FALSE]

\* One flow with all its parts; two flows, with and without syncs and dead
\* letters; intervals that are not positive; files the process refuses.
DistinctFlows ==
    {File([There EXCEPT !.dlqEnabled = TRUE], Off(Back)),
     File(Off(There), [Back EXCEPT !.emitOffsetSyncs = "off"]),
     File([Only(There) EXCEPT !.dlqEnabled = TRUE], Only(Back)),
     File(Only(There), [Only(Back) EXCEPT !.emitOffsetSyncs = "off", !.dlqEnabled = TRUE]),
     File([There EXCEPT !.heartbeatInterval = -1], Off(Back)),
     File([There EXCEPT !.refreshInterval = -1], Off(Back)),
     File([There EXCEPT !.policy = "other"], Back),
     File(There, [Back EXCEPT !.target = "b"]),
     [File(There, Back) EXCEPT !.serverless = {"b"}]}

\* Two entries for the same pair of clusters, say with different topic filters.
SameFlowTwice == {File(There, There)}
=============================================================================
