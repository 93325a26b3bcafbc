------------------------------- MODULE Config -------------------------------
(***************************************************************************)
(* The configuration (internal/config/config.go): the defaults Parse fills *)
(* in and the tests Validate makes.  Operators only.                       *)
(*                                                                         *)
(* A file is a record of the defined clusters, those of them without       *)
(* bootstrap servers, and the replication entries.                         *)
(* Of an entry only what the engine decides on is kept; a list of regular  *)
(* expressions is reduced to whether all of them compile, an interval to   *)
(* its sign, a *bool to "unset", "on" or "off".                            *)
(***************************************************************************)
EXTENDS Integers, Sequences

Toggles   == {"unset", "on", "off"}
Intervals == {-1, 0, 1}

Entry(clusters) ==
    [source : clusters, target : clusters, enabled : BOOLEAN,
     exactlyOnce : BOOLEAN, topicRegexes : {"ok", "bad"}, groupRegexes : {"ok", "bad"},
     policy : {"", "default", "identity", "other"}, compression : {"", "lz4", "other"},
     emitOffsetSyncs : Toggles, emitHeartbeats : Toggles, emitCheckpoints : Toggles,
     refreshInterval : Intervals, heartbeatInterval : Intervals,
     checkpointInterval : Intervals, dlqEnabled : BOOLEAN]

DefaultOn(toggle) == IF toggle = "unset" THEN "on" ELSE toggle
DefaultInterval(d) == IF d = 0 THEN 1 ELSE d

\* setDefaults for one entry: what is absent or zero is filled in.
SetDefaults(r) ==
    [r EXCEPT !.policy = IF @ = "" THEN "default" ELSE @,
              !.compression = IF @ = "" THEN "lz4" ELSE @,
              !.emitOffsetSyncs = DefaultOn(@),
              !.emitHeartbeats = DefaultOn(@),
              !.emitCheckpoints = DefaultOn(@),
              !.refreshInterval = DefaultInterval(@),
              !.heartbeatInterval = DefaultInterval(@),
              !.checkpointInterval = DefaultInterval(@)]

Parse(file) ==
    [file EXCEPT !.flows = [i \in DOMAIN @ |-> SetDefaults(@[i])]]

\* Validate: entries that are not enabled are not looked at.
Validate(cfg) ==
    /\ cfg.clusters # {} /\ cfg.serverless = {}
    /\ cfg.flows # <<>>
    /\ \A i \in DOMAIN cfg.flows :
         LET r == cfg.flows[i] IN
         r.enabled => /\ r.source \in cfg.clusters
                      /\ r.target \in cfg.clusters
                      /\ r.source # r.target
                      /\ ~r.exactlyOnce
                      /\ r.topicRegexes = "ok"
                      /\ r.compression \in {"", "lz4"}

\* What the constructors that NewEngine calls refuse by themselves.
Constructible(r) == r.policy \in {"default", "identity"} /\ r.groupRegexes = "ok"
=============================================================================
