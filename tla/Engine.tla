------------------------------- MODULE Engine -------------------------------
(***************************************************************************)
(* The life of a process: main.go, and NewEngine, Run, bootstrapOffset-    *)
(* Syncs and Shutdown of internal/mirror/engine.go, over the Start, Stop   *)
(* and loop goroutines of the four components each flow has.               *)
(*                                                                         *)
(* What a component does in a round is the business of other modules       *)
(* (Source, Topology, Checkpoint) and is one step from "idle" to "busy"    *)
(* and one back; here it matters which clients it uses meanwhile.  The     *)
(* catch-up phase between the bootstrap and the Sources leaves nothing     *)
(* behind that this module keeps (Topology has it).                        *)
(*                                                                         *)
(* Flows are the replication entries, numbered as in the file.             *)
(***************************************************************************)
EXTENDS Config

CONSTANTS
    NFlows,     \* entries of every file
    Clusters,   \* names of clusters
    Files,      \* configuration files the process may be started with
    MayCancel   \* the context given to Run may be cancelled (main.go: never)

ASSUME EngineAssumption ==
    /\ NFlows \in Nat \ {0}
    /\ Files \subseteq [clusters : SUBSET Clusters, serverless : SUBSET Clusters,
                       flows : [1 .. NFlows -> Entry(Clusters)]]
    /\ \A file \in Files : file.serverless \subseteq file.clusters
    /\ MayCancel \in BOOLEAN

Flow == 1 .. NFlows
Kinds == {"source", "discovery", "heartbeat", "checkpoint"}

\* The order of the phases of Run, and of Shutdown.
StartOrder == <<"source", "discovery", "heartbeat", "checkpoint">>
StopOrder_Mutant == <<"checkpoint", "heartbeat", "source", "discovery">>
StopOrder == <<"checkpoint", "heartbeat", "discovery", "source">>

VARIABLES
    cfg,        \* the parsed configuration
    main,       \* what the main goroutine is doing
    phase, at,  \* its place in StartOrder or StopOrder, and the flow it is at
    ctx,        \* the context given to Run is cancelled
    running,    \* running[k][f]: the component's running field
    cancelled,  \* cancelled[k][f]: Stop has cancelled the component's context
    loop,       \* loop[k][f]: "none", "starting", "first", "idle", "busy" or "ended"
    inflight,   \* inflight[f]: the Source of f has callbacks or sync writes to come
    ready,      \* ready[f]: the store made for f has been read to the end
    reader,     \* reader[f], writer[f], dlq[f]: "none", "open" or "closed"
    writer,
    dlq,
    wired,      \* wired[f]: {} or the flow whose sync writer the Source of f has
    follow      \* follow[f]: the goroutine of Follow: "none", "polling" or "ended"

mainVars == <<main, phase, at>>
loopVars == <<running, cancelled, loop, inflight>>
syncVars == <<ready, reader, writer, wired, follow>>
vars == <<cfg, mainVars, ctx, loopVars, syncVars, dlq>>

\* Ways a process ends: refused configuration, error of Run, panic of a
\* goroutine, signal nobody listens to, return of Run.
Over == {"rejected", "failed", "panicked", "killed", "exited"}

\* The end of Shutdown, after the Stop of the last component.
Closing == {"closeReaders", "closeWriters", "closeLetters", "closeServer"}

Enabled == {f \in Flow : cfg.flows[f].enabled}

\* Type invariant: the main goroutine stays within its phases and flows, and only
\* enabled flows have components.
TypeOK ==
    /\ main \in Over \cup Closing \cup {"load", "bootstrap", "start", "wait", "stop"}
    /\ phase \in 1 .. 4 /\ at \in Flow
    /\ ctx \in BOOLEAN
    /\ running \in [Kinds -> [Flow -> BOOLEAN]]
    /\ cancelled \in [Kinds -> [Flow -> BOOLEAN]]
    /\ loop \in [Kinds -> [Flow -> {"none", "starting", "first", "idle", "busy", "ended"}]]
    /\ inflight \in [Flow -> BOOLEAN]
    /\ ready \in [Flow -> BOOLEAN]
    /\ {reader, writer, dlq} \subseteq [Flow -> {"none", "open", "closed"}]
    /\ wired \in [Flow -> {{}} \cup {{f} : f \in Flow}]
    /\ follow \in [Flow -> {"none", "polling", "ended"}]
    /\ \A k \in Kinds, f \in Flow : running[k][f] => f \in Enabled /\ loop[k][f] # "none"

Init ==
    /\ \E file \in Files : cfg = Parse(file)
    /\ main = "load" /\ phase = 1 /\ at = 1
    /\ ctx = FALSE
    /\ running = [k \in Kinds |-> [f \in Flow |-> FALSE]]
    /\ cancelled = [k \in Kinds |-> [f \in Flow |-> FALSE]]
    /\ loop = [k \in Kinds |-> [f \in Flow |-> "none"]]
    /\ inflight = [f \in Flow |-> FALSE]
    /\ ready = [f \in Flow |-> FALSE]
    /\ reader = [f \in Flow |-> "none"]
    /\ writer = reader
    /\ dlq = reader
    /\ wired = [f \in Flow |-> {}]
    /\ follow = [f \in Flow |-> "none"]

(***************************************************************************)
(* Start-up.                                                               *)
(***************************************************************************)

\* main.go and NewEngine: validate, then build every component; only the dead
\* letter queues open a client, which may fail.
NewEngine ==
    /\ main = "load"
    /\ LET lettered == {f \in Enabled : cfg.flows[f].dlqEnabled} IN
       IF Validate(cfg) /\ \A f \in Enabled : Constructible(cfg.flows[f])
       THEN \/ /\ main' = "bootstrap"
               /\ dlq' = [f \in Flow |-> IF f \in lettered THEN "open" ELSE "none"]
            \/ lettered # {} /\ main' = "failed" /\ UNCHANGED dlq
       ELSE main' = "rejected" /\ UNCHANGED dlq
    /\ UNCHANGED <<cfg, phase, at, ctx, loopVars, syncVars>>

\* The flow whose store and Source the maps of the engine hold under the key
\* "source->target" of flow f: the last one built with that key.
Registered_Mutant(f) == CHOOSE g \in Enabled : \A h \in Enabled : h <= g
Registered(f) ==
    LET same == {g \in Enabled : /\ cfg.flows[g].source = cfg.flows[f].source
                                 /\ cfg.flows[g].target = cfg.flows[f].target}
    IN  CHOOSE g \in same : \A h \in same : h <= g

\* The next flow of the loop over the flows, or what follows the loop.
NextFlow(after) ==
    IF at < NFlows
    THEN at' = at + 1 /\ UNCHANGED <<main, phase>>
    ELSE at' = 1 /\ phase' = 1 /\ main' = after

\* The same in a loop over the flows for each of the four components.
NextInPhase_Mutant(after) ==
    IF at <= NFlows
    THEN at' = at + 1 /\ UNCHANGED <<main, phase>>
    ELSE at' = 1 /\ phase' = phase + 1 /\ UNCHANGED main
NextInPhase(after) ==
    IF at = NFlows /\ phase < 4
    THEN at' = 1 /\ phase' = phase + 1 /\ UNCHANGED main
    ELSE NextFlow(after)

\* Run returns an error, and main exits the process.
Fail == main' = "failed" /\ UNCHANGED <<phase, at>>

\* bootstrapOffsetSyncs: a flow that is disabled or emits no syncs is skipped.
BootstrapSkip ==
    /\ main = "bootstrap"
    /\ at \notin Enabled \/ cfg.flows[at].emitOffsetSyncs = "off"
    /\ NextFlow("start")
    /\ UNCHANGED <<cfg, ctx, loopVars, syncVars, dlq>>

\* The admin client and the reader are created.
BootstrapReader ==
    /\ main = "bootstrap"
    /\ at \in Enabled /\ cfg.flows[at].emitOffsetSyncs = "on"
    /\ reader[at] = "none"
    /\ \/ Fail /\ UNCHANGED reader
       \/ reader' = [reader EXCEPT ![at] = "open"] /\ UNCHANGED mainVars
    /\ UNCHANGED <<cfg, ctx, loopVars, ready, writer, wired, follow, dlq>>

\* ReadToEnd: at its end or its deadline the store is ready and Follow goes on.
BootstrapRead ==
    /\ main = "bootstrap"
    /\ reader[at] = "open" /\ follow[at] = "none"
    /\ IF ctx
       THEN /\ reader' = [reader EXCEPT ![at] = "closed"]
            /\ Fail
            /\ UNCHANGED <<ready, follow>>
       ELSE /\ ready' = [ready EXCEPT ![Registered(at)] = TRUE]
            /\ follow' = [follow EXCEPT ![at] = "polling"]
            /\ UNCHANGED <<mainVars, reader>>
    /\ UNCHANGED <<cfg, ctx, loopVars, writer, wired, dlq>>

\* The writer is created and given to the Source.
BootstrapWriter ==
    /\ main = "bootstrap"
    /\ follow[at] # "none" /\ writer[at] = "none"
    /\ \/ Fail /\ UNCHANGED <<writer, wired>>
       \/ /\ writer' = [writer EXCEPT ![at] = "open"]
          /\ wired' = [wired EXCEPT ![Registered(at)] = {at}]
          /\ NextFlow("start")
    /\ UNCHANGED <<cfg, ctx, loopVars, ready, reader, follow, dlq>>

\* Emission that is switched off: Start returns without starting anything.
SwitchedOff(k, f) ==
    \/ k = "heartbeat" /\ cfg.flows[f].emitHeartbeats = "off"
    \/ k = "checkpoint" /\ cfg.flows[f].emitCheckpoints = "off"

\* Start of the next component.  Topic discovery opens no client and cannot fail.
StartComponent ==
    /\ main = "start"
    /\ LET k == StartOrder[phase] IN
       IF at \notin Enabled \/ SwitchedOff(k, at)
       THEN NextInPhase("wait") /\ UNCHANGED <<running, loop>>
       ELSE \/ k # "discovery" /\ Fail /\ UNCHANGED <<running, loop>>
            \/ /\ running' = [running EXCEPT ![k][at] = TRUE]
               /\ loop' = [loop EXCEPT ![k][at] = "starting"]
               /\ NextInPhase("wait")
    /\ UNCHANGED <<cfg, ctx, cancelled, inflight, syncVars, dlq>>

\* A signal before signal.Notify ends the process.
EarlySignal ==
    /\ main \in {"load", "bootstrap", "start"}
    /\ main' = "killed"
    /\ UNCHANGED <<cfg, phase, at, ctx, loopVars, syncVars, dlq>>

\* The caller cancels the context, from which all others are derived.
CancelContext ==
    /\ MayCancel
    /\ main \notin Over \cup {"load"}
    /\ ~ctx
    /\ ctx' = TRUE
    /\ UNCHANGED <<cfg, mainVars, loopVars, syncVars, dlq>>

(***************************************************************************)
(* The goroutines of the components.                                       *)
(***************************************************************************)

\* time.NewTicker panics unless the interval is positive.
Interval(k, f) ==
    CASE k = "discovery"  -> cfg.flows[f].refreshInterval
      [] k = "heartbeat"  -> cfg.flows[f].heartbeatInterval
      [] k = "checkpoint" -> cfg.flows[f].checkpointInterval
      [] k = "source"     -> 1

ToTicker(k, f) ==
    IF Interval(k, f) > 0
    THEN loop' = [loop EXCEPT ![k][f] = "idle"] /\ UNCHANGED main
    ELSE main' = "panicked" /\ UNCHANGED loop

\* What a goroutine of a component leaves alone, as long as the process lives.
Elsewhere == main \notin Over /\ UNCHANGED <<cfg, phase, at, ctx, syncVars, dlq>>

\* The goroutine begins: discovery refreshes at once, the emitters make a ticker.
LoopBegins(k, f) ==
    /\ loop[k][f] = "starting"
    /\ IF k = "discovery"
       THEN loop' = [loop EXCEPT ![k][f] = "first"] /\ UNCHANGED main
       ELSE ToTicker(k, f)
    /\ UNCHANGED <<running, cancelled, inflight>>
    /\ Elsewhere

ContextDone(k, f) == ctx \/ cancelled[k][f]

\* A round begins.  Between a tick and a cancelled context select chooses at
\* random; the Source looks at its context first.
RoundBegins(k, f) ==
    /\ loop[k][f] = "idle"
    /\ k = "source" => ~ContextDone(k, f)
    /\ loop' = [loop EXCEPT ![k][f] = "busy"]
    /\ UNCHANGED <<main, running, cancelled, inflight>>
    /\ Elsewhere

\* A round ends; one of the Source may leave produces in flight.
RoundEnds(k, f) ==
    /\ \/ loop[k][f] = "first" /\ ToTicker(k, f)
       \/ loop[k][f] = "busy" /\ loop' = [loop EXCEPT ![k][f] = "idle"] /\ UNCHANGED main
    /\ \/ UNCHANGED inflight
       \/ k = "source" /\ inflight' = [inflight EXCEPT ![f] = TRUE]
    /\ UNCHANGED <<running, cancelled>>
    /\ Elsewhere

\* The goroutine sees its context cancelled and ends.
LoopEnds(k, f) ==
    /\ loop[k][f] = "idle"
    /\ ContextDone(k, f)
    /\ loop' = [loop EXCEPT ![k][f] = "ended"]
    /\ UNCHANGED <<main, running, cancelled, inflight>>
    /\ Elsewhere

\* The last callback and the last sync write of a Source end.
Settle(f) ==
    /\ inflight[f]
    /\ inflight' = [inflight EXCEPT ![f] = FALSE]
    /\ UNCHANGED <<main, running, cancelled, loop>>
    /\ Elsewhere

ComponentStep(k, f) ==
    LoopBegins(k, f) \/ RoundBegins(k, f) \/ RoundEnds(k, f) \/ LoopEnds(k, f)

\* Follow returns when the context of Run is cancelled, and only then.
FollowEnds(f) ==
    /\ main \notin Over
    /\ follow[f] = "polling" /\ ctx
    /\ follow' = [follow EXCEPT ![f] = "ended"]
    /\ UNCHANGED <<cfg, mainVars, ctx, loopVars, ready, reader, writer, wired, dlq>>

(***************************************************************************)
(* Shutdown.                                                               *)
(***************************************************************************)

\* Run gets a signal or sees its context cancelled (the select at its end).
Shutdown ==
    /\ main = "wait"
    /\ main' = "stop"
    /\ UNCHANGED <<cfg, phase, at, ctx, loopVars, syncVars, dlq>>

\* Stop of a component that is not running returns at once.
StopSkip ==
    /\ main = "stop"
    /\ ~running[StopOrder[phase]][at]
    /\ NextInPhase("closeReaders")
    /\ UNCHANGED <<cfg, ctx, loopVars, syncVars, dlq>>

\* Stop cancels the context of the component.
Cancels_Mutant(k, f) == UNCHANGED cancelled
Cancels(k, f) == cancelled' = [cancelled EXCEPT ![k][f] = TRUE]
StopCancel ==
    /\ main = "stop"
    /\ running[StopOrder[phase]][at]
    /\ ~cancelled[StopOrder[phase]][at]
    /\ Cancels(StopOrder[phase], at)
    /\ UNCHANGED <<cfg, mainVars, ctx, running, loop, inflight, syncVars, dlq>>

\* wg.Wait(), and for the Source inflight.Wait().
Waited_Mutant(k, f) == loop[k][f] = "ended"
Waited(k, f) == loop[k][f] = "ended" /\ (k = "source" => ~inflight[f])

\* Stop closes the component's clients; the Source closes its dead letters too.
StopClose ==
    /\ main = "stop"
    /\ LET k == StopOrder[phase] IN
       /\ running[k][at] /\ cancelled[k][at]
       /\ Waited(k, at)
       /\ running' = [running EXCEPT ![k][at] = FALSE]
       /\ dlq' = [dlq EXCEPT ![at] = IF k = "source" /\ @ = "open" THEN "closed" ELSE @]
    /\ NextInPhase("closeReaders")
    /\ UNCHANGED <<cfg, ctx, cancelled, loop, inflight, syncVars>>

Closed(client) == [f \in Flow |-> IF client[f] = "open" THEN "closed" ELSE client[f]]

\* The offset-sync readers are closed, then the writers, then the dead letter
\* queues.  The followers go on meanwhile.
CloseReaders ==
    /\ main = "closeReaders" /\ main' = "closeWriters"
    /\ reader' = Closed(reader)
    /\ UNCHANGED <<cfg, phase, at, ctx, loopVars, ready, writer, wired, follow, dlq>>

CloseWriters ==
    /\ main = "closeWriters" /\ main' = "closeLetters"
    /\ writer' = Closed(writer)
    /\ UNCHANGED <<cfg, phase, at, ctx, loopVars, ready, reader, wired, follow, dlq>>

CloseLetters ==
    /\ main = "closeLetters" /\ main' = "closeServer"
    /\ dlq' = Closed(dlq)
    /\ UNCHANGED <<cfg, phase, at, ctx, loopVars, syncVars>>

\* The HTTP server shuts down, within five seconds, and Run returns.
CloseServer ==
    /\ main = "closeServer" /\ main' = "exited"
    /\ UNCHANGED <<cfg, phase, at, ctx, loopVars, syncVars, dlq>>

MainStep ==
    \/ NewEngine \/ BootstrapSkip \/ BootstrapReader \/ BootstrapRead \/ BootstrapWriter
    \/ StartComponent \/ StopSkip \/ StopCancel \/ StopClose
    \/ CloseReaders \/ CloseWriters \/ CloseLetters \/ CloseServer

Next ==
    \/ MainStep \/ EarlySignal \/ CancelContext \/ Shutdown
    \/ \E k \in Kinds, f \in Flow : ComponentStep(k, f)
    \/ \E f \in Flow : Settle(f) \/ FollowEnds(f)

\* The main goroutine runs; a round of topic discovery or of an emitter ends, since
\* its calls take the context Stop has cancelled; and a select that finds its
\* context cancelled again and again takes that branch in the end, since it chooses
\* at random.  It is enough to ask this of the component Stop waits for: the main
\* goroutine moves on finitely often.  Nothing is asked of a round of the Source or
\* of what it has in flight, which may never end (Source_hang.cfg), nor of signals
\* and of components nobody waits for.
Fairness ==
    LET k == StopOrder[phase] IN
    /\ WF_vars(MainStep)
    /\ WF_vars(LoopBegins(k, at) \/ (k # "source" /\ RoundEnds(k, at)))
    /\ SF_vars(LoopEnds(k, at))

Spec == Init /\ [][Next]_vars /\ Fairness

(***************************************************************************)
(* Properties.                                                             *)
(***************************************************************************)

\* /readyz: every store in the engine's map is ready.
Readyz == \A f \in Enabled : ready[Registered(f)]

\* The order of Run and of Shutdown and the waits in the Stop methods: no component
\* and no callback of one uses a client that is already closed.  A busy component
\* has its own clients, a busy discovery also the consumer of its Source, and what a
\* Source has in flight can still reach its producer, its sync writer and its dead
\* letter queue.  A follower polls an open consumer too, up to the end of Shutdown,
\* where nobody waits for it (FollowersEnd).
ComponentsUseOpenClients ==
    main \notin Over =>
        \A f \in Flow :
            /\ \A k \in Kinds : loop[k][f] \in {"first", "busy"} => running[k][f]
            /\ loop["discovery"][f] \in {"first", "busy"} => running["source"][f]
            /\ inflight[f] => /\ running["source"][f]
                              /\ \A w \in wired[f] : writer[w] = "open"
                              /\ dlq[f] # "closed"
            /\ follow[f] = "polling" => reader[f] = "open" \/ main \in Closing

\* The comment at engine.go:329-330: when the Sources start, the Source of every
\* flow that emits offset syncs has a sync writer of its own flow and a store
\* that was read to the end; readyz is then ok if all flows emit syncs.
StartedIsWired ==
    main \in {"start", "wait", "stop"} =>
        /\ \A f \in Enabled : cfg.flows[f].emitOffsetSyncs = "on"
               => ready[f] /\ wired[f] = {f} /\ writer[f] = "open"
        /\ (\A f \in Enabled : cfg.flows[f].emitOffsetSyncs = "on") => Readyz

\* When Run returns without an error, each component that was started has ended,
\* with its callbacks, and each client the engine keeps is closed.  It says nothing
\* of the followers (FollowersEnd), nor of a process that is killed or fails.
QuietAtExit ==
    main = "exited" =>
        /\ \A k \in Kinds, f \in Flow : ~running[k][f] /\ loop[k][f] \in {"none", "ended"}
        /\ \A f \in Flow : ~inflight[f]
        /\ \A f \in Flow : "open" \notin {reader[f], writer[f], dlq[f]}

\* A shutdown that does not end waits in the Stop of a Source, for a round or for
\* produces that do not end; nothing else in it can hang.
OnlySourcesHoldShutdown ==
    <>[](main \in Closing \cup {"stop"}) =>
        <>[](/\ main = "stop" /\ StopOrder[phase] = "source"
             /\ loop["source"][at] = "busy" \/ inflight[at])

\* What main.go:67 ("configuration is valid") says of a file that Validate
\* accepts: the engine can be built from it and does not panic.
ValidConfigRuns ==
    Validate(cfg) => main \notin {"rejected", "panicked"}

\* What README.md:129 makes of readyz for the deployment: a process that has
\* started everything becomes ready.
StartedIsReady == main = "wait" => Readyz

\* What sync_reader.go:117-118 says of Follow: it ends with the engine, it does not
\* go on polling a consumer that is closed.
FollowersEnd == \A f \in Flow : reader[f] = "closed" => follow[f] # "polling"
=============================================================================
