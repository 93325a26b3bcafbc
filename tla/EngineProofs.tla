---------------------------- MODULE EngineProofs ----------------------------
(***************************************************************************)
(* Proofs about Engine, for any number of flows and any set of files.      *)
(***************************************************************************)
EXTENDS Engine, TLAPS

\* The place of a component in the order of Shutdown.
StopTurn == [checkpoint |-> 1, heartbeat |-> 2, discovery |-> 3, source |-> 4]

\* Shutdown has come past the component k of flow f.
Passed(k, f) == StopTurn[k] < phase \/ (StopTurn[k] = phase /\ f < at)

(***************************************************************************)
(* The inductive invariant of a life of the process: who runs while whom   *)
(* it needs runs, and how far Run and Shutdown have come.                  *)
(***************************************************************************)

\* A goroutine that has not ended belongs to a component that runs.
LiveRuns ==
    \A k \in Kinds, f \in Flow :
        loop[k][f] \in {"starting", "first", "idle", "busy"} => running[k][f]

\* Topic discovery, and what is in flight, need the Source of their flow.
DiscoveryFed == \A f \in Flow : running["discovery"][f] => running["source"][f]
InflightFed  == \A f \in Flow : inflight[f] => running["source"][f]

\* Up to the closing of the writers, one that a Source has is open, and so are the
\* dead letters of a Source that runs; before Shutdown no dead letter queue is
\* closed at all.
WritersOpen ==
    main \notin Over \cup Closing =>
        \A f \in Flow : \A w \in wired[f] : writer[w] = "open"
LettersOpen ==
    /\ main # "exited" => \A f \in Flow : running["source"][f] => dlq[f] # "closed"
    /\ main \in {"load", "bootstrap", "start", "wait"} => \A f \in Flow : dlq[f] # "closed"
\* Run has started the Sources it has come past, and before any other component.
SourcesStarted ==
    main = "start" =>
        \A f \in Enabled : phase > 1 \/ f < at => running["source"][f]

\* Shutdown begins at the first component of the first flow, and has stopped what
\* it has come past.
StopsInOrder ==
    /\ main = "wait" => phase = 1 /\ at = 1
    /\ main = "stop" => \A k \in Kinds, f \in Flow : Passed(k, f) => ~running[k][f]
    /\ main \in Closing \cup {"exited"} => \A k \in Kinds, f \in Flow : ~running[k][f]

\* What Shutdown has closed so far, and everything when Run has returned.
ClosedInOrder ==
    \A f \in Flow :
        /\ main \in {"closeWriters", "closeLetters", "closeServer", "exited"} => reader[f] # "open"
        /\ main \in {"closeLetters", "closeServer", "exited"} => writer[f] # "open"
        /\ main \in {"closeServer", "exited"} => dlq[f] # "open"

LifeInv ==
    /\ TypeOK
    /\ LiveRuns /\ DiscoveryFed /\ InflightFed
    /\ WritersOpen /\ LettersOpen
    /\ SourcesStarted /\ StopsInOrder /\ ClosedInOrder

\* Apart from that: up to the closing of the readers, a follower has an open one.
ReadersOpen ==
    main \notin Over \cup Closing =>
        \A f \in Flow : follow[f] = "polling" => reader[f] = "open"

(***************************************************************************)
(* The inductive invariant of the bootstrap, when no two enabled entries   *)
(* name the same pair of clusters.                                         *)
(***************************************************************************)

\* No pair of clusters is named by two enabled entries of a file.
OneFlowPerPair ==
    \A file \in Files : \A f, g \in Flow :
        /\ file.flows[f].enabled /\ file.flows[g].enabled
        /\ file.flows[f].source = file.flows[g].source
        /\ file.flows[f].target = file.flows[g].target
        => f = g

\* The same of the configuration in use: the engine's maps keep the flows apart.
KeysDiffer == \A f \in Enabled : Registered(f) = f

\* The reader, the store and the writer of a flow come one after the other, and
\* the flows of the bootstrap that Run has come past have all three.
Emits(f) == f \in Enabled /\ cfg.flows[f].emitOffsetSyncs = "on"
Wired(f) == ready[f] /\ wired[f] = {f} /\ writer[f] = "open"

BootstrapInOrder ==
    /\ main = "load" => at = 1
    /\ \A f \in Flow : reader[f] # "none" => f \in Enabled
    /\ \A f \in Flow : follow[f] # "none" => reader[f] # "none" /\ ready[f]
    /\ main = "bootstrap" => \A f \in Flow : f < at /\ Emits(f) => Wired(f)
    /\ main \in {"start", "wait", "stop"} => \A f \in Flow : Emits(f) => Wired(f)

WiredInv == TypeOK /\ KeysDiffer /\ BootstrapInOrder

(***************************************************************************)
(* Type correctness.                                                       *)
(***************************************************************************)

\* A component's field is set without touching another's.
LEMMA SetOne ==
    ASSUME NEW A, NEW B, NEW S, NEW field \in [A -> [B -> S]],
           NEW a \in A, NEW b \in B, NEW v \in S
    PROVE  /\ [field EXCEPT ![a][b] = v] \in [A -> [B -> S]]
           /\ [field EXCEPT ![a][b] = v][a][b] = v
           /\ \A x \in A, y \in B : x # a \/ y # b
                => [field EXCEPT ![a][b] = v][x][y] = field[x][y]
<1>1. [field EXCEPT ![a][b] = v] = [field EXCEPT ![a] = [field[a] EXCEPT ![b] = v]]
  OBVIOUS
<1>2. [field[a] EXCEPT ![b] = v] \in [B -> S]
  OBVIOUS
<1>3. \A x \in A : [field EXCEPT ![a] = [field[a] EXCEPT ![b] = v]][x]
                    = IF x = a THEN [field[a] EXCEPT ![b] = v] ELSE field[x]
  OBVIOUS
<1> QED
  BY <1>1, <1>2, <1>3

\* The configuration is read once.
LEMMA ConfigFixed ==
    ASSUME [Next]_vars
    PROVE  cfg' = cfg /\ Enabled' = Enabled
<1>1. cfg' = cfg
  BY DEF Next, MainStep, NewEngine, BootstrapSkip, BootstrapReader, BootstrapRead,
       BootstrapWriter, StartComponent, StopSkip, StopCancel, StopClose, CloseReaders,
       CloseWriters, CloseLetters, CloseServer,
       EarlySignal, CancelContext, Shutdown, ComponentStep, LoopBegins, RoundBegins,
       RoundEnds, LoopEnds, Settle, FollowEnds, Elsewhere, vars
<1> QED
  BY <1>1 DEF Enabled

\* Going on to the next flow stays within the flows and the phases.
LEMMA NextFlowPlace ==
    ASSUME at \in Flow, phase \in 1 .. 4, NEW after, NextFlow(after)
    PROVE  at' \in Flow /\ phase' \in 1 .. 4 /\ main' \in {main, after}
BY EngineAssumption DEF NextFlow, Flow

\* Going on to the next flow stays within the phases and the flows.
LEMMA NextInPhasePlace ==
    ASSUME at \in Flow, phase \in 1 .. 4, NEW after, NextInPhase(after)
    PROVE  at' \in Flow /\ phase' \in 1 .. 4 /\ main' \in {main, after}
BY EngineAssumption DEF NextInPhase, NextFlow, Flow

\* A process begins well typed.
LEMMA InitType ==
    ASSUME Init
    PROVE  TypeOK
<1>1. main = "load" /\ phase \in 1 .. 4 /\ at \in Flow /\ ctx \in BOOLEAN
  <2>1. 1 \in Flow
    BY EngineAssumption DEF Flow
  <2>2. main = "load" /\ phase = 1 /\ at = 1
    BY DEF Init
  <2>3. ctx \in BOOLEAN
    BY DEF Init
  <2> QED
    BY <2>1, <2>2, <2>3
<1>2. /\ running \in [Kinds -> [Flow -> BOOLEAN]]
      /\ cancelled \in [Kinds -> [Flow -> BOOLEAN]]
      /\ \A k \in Kinds, f \in Flow : ~running[k][f]
  BY DEF Init
<1>3. loop \in [Kinds -> [Flow -> {"none", "starting", "first", "idle", "busy", "ended"}]]
  BY DEF Init
<1>4. inflight \in [Flow -> BOOLEAN] /\ ready \in [Flow -> BOOLEAN]
  BY DEF Init
<1>5. {reader, writer, dlq} \subseteq [Flow -> {"none", "open", "closed"}]
  BY DEF Init
<1>6. /\ wired \in [Flow -> {{}} \cup {{f} : f \in Flow}]
      /\ follow \in [Flow -> {"none", "polling", "ended"}]
  BY DEF Init
<1> QED
  BY <1>1, <1>2, <1>3, <1>4, <1>5, <1>6 DEF TypeOK

\* What a step of a goroutine of a component does: at most its own loop, what is
\* in flight, and a panic.
LEMMA GoroutineEffect ==
    ASSUME TypeOK, NEW k \in Kinds, NEW f \in Flow, ComponentStep(k, f) \/ Settle(f)
    PROVE  /\ main \notin Over /\ main' \in {main, "panicked"}
           /\ UNCHANGED <<cfg, phase, at, ctx, running, cancelled, syncVars, dlq>>
           /\ \/ loop' = loop
              \/ \E l \in {"first", "idle", "busy", "ended"} :
                   /\ loop[k][f] \in {"starting", "first", "idle", "busy"}
                   /\ loop' = [loop EXCEPT ![k][f] = l]
           /\ \/ inflight' = inflight
              \/ inflight' = [inflight EXCEPT ![f] = FALSE]
              \/ k = "source" /\ loop[k][f] \in {"first", "busy"}
                              /\ inflight' = [inflight EXCEPT ![f] = TRUE]
<1>1. CASE LoopBegins(k, f)
  BY <1>1 DEF LoopBegins, ToTicker, Elsewhere
<1>2. CASE RoundBegins(k, f)
  BY <1>2 DEF RoundBegins, Elsewhere
<1>3. CASE RoundEnds(k, f)
  BY <1>3 DEF RoundEnds, ToTicker, Elsewhere
<1>4. CASE LoopEnds(k, f)
  BY <1>4 DEF LoopEnds, Elsewhere
<1>5. CASE Settle(f)
  BY <1>5 DEF Settle, Elsewhere
<1> QED
  BY <1>1, <1>2, <1>3, <1>4, <1>5 DEF ComponentStep

\* A step preserves TypeOK.
LEMMA TypeStep ==
    ASSUME TypeOK, [Next]_vars
    PROVE  TypeOK'
<1>0. cfg' = cfg /\ Enabled' = Enabled
  BY ConfigFixed
<1>1. CASE NewEngine
  BY <1>0, <1>1 DEF NewEngine, loopVars, syncVars, TypeOK, Over
<1>2. CASE BootstrapSkip
  BY <1>0, <1>2, NextFlowPlace DEF BootstrapSkip, loopVars, syncVars, TypeOK
<1>3. CASE BootstrapReader
  BY <1>0, <1>3 DEF BootstrapReader, Fail, mainVars, loopVars, TypeOK, Over
<1>4. CASE BootstrapRead
  <2>1. at' = at /\ phase' = phase /\ main' \in {main, "failed"}
    BY <1>4 DEF BootstrapRead, Fail, mainVars
  <2>2. reader' \in [Flow -> {"none", "open", "closed"}]
    <3>1. reader' = reader \/ reader' = [reader EXCEPT ![at] = "closed"]
      BY <1>4 DEF BootstrapRead
    <3> QED
      BY <3>1 DEF TypeOK
  <2>3. ready' \in [Flow -> BOOLEAN]
    BY <1>4 DEF BootstrapRead, TypeOK
  <2>4. follow' \in [Flow -> {"none", "polling", "ended"}]
    BY <1>4 DEF BootstrapRead, TypeOK
  <2>5. main' \in Over \cup Closing \cup {"load", "bootstrap", "start", "wait", "stop"}
    BY <2>1 DEF TypeOK, Over
  <2> QED
    BY <1>0, <1>4, <2>1, <2>2, <2>3, <2>4, <2>5 DEF BootstrapRead, loopVars, TypeOK
<1>5. CASE BootstrapWriter
  <2>1. at' \in Flow /\ phase' \in 1 .. 4 /\ main' \in {main, "start", "failed"}
    BY <1>5, NextFlowPlace DEF BootstrapWriter, Fail, TypeOK
  <2>2. writer' \in [Flow -> {"none", "open", "closed"}]
    BY <1>5 DEF BootstrapWriter, TypeOK
  <2>3. wired' \in [Flow -> {{}} \cup {{f} : f \in Flow}]
    <3> DEFINE S == {{}} \cup {{f} : f \in Flow}
    <3>1. {at} \in S /\ wired \in [Flow -> S]
      BY DEF TypeOK
    <3> HIDE DEF S
    <3>2. wired' \in [Flow -> S]
      BY <1>5, <3>1 DEF BootstrapWriter
    <3> QED
      BY <3>2 DEF S
  <2> QED
    BY <1>0, <1>5, <2>1, <2>2, <2>3 DEF BootstrapWriter, loopVars, TypeOK, Over
<1>6. CASE StartComponent
  <2>1. at' \in Flow /\ phase' \in 1 .. 4 /\ main' \in {main, "wait", "failed"}
    BY <1>6, NextInPhasePlace DEF StartComponent, Fail, TypeOK
  <2>2. CASE UNCHANGED <<running, loop>>
    BY <1>0, <1>6, <2>1, <2>2 DEF StartComponent, syncVars, TypeOK, Over
  <2>3. CASE /\ running' = [running EXCEPT ![StartOrder[phase]][at] = TRUE]
             /\ loop' = [loop EXCEPT ![StartOrder[phase]][at] = "starting"]
             /\ at \in Enabled
    <3>1. StartOrder[phase] \in Kinds
      BY DEF TypeOK, StartOrder, Kinds
    <3> DEFINE k == StartOrder[phase]
    <3> HIDE DEF k
    <3>2. running' \in [Kinds -> [Flow -> BOOLEAN]]
      BY <2>3 DEF TypeOK
    <3>3. loop' \in [Kinds -> [Flow -> {"none", "starting", "first", "idle", "busy", "ended"}]]
      BY <2>3 DEF TypeOK
    <3>4. \A j \in Kinds, f \in Flow : running'[j][f] => f \in Enabled /\ loop'[j][f] # "none"
      <4> TAKE j \in Kinds, f \in Flow
      <4>1. CASE j = StartOrder[phase] /\ f = at
        BY <2>3, <3>1, <4>1 DEF TypeOK
      <4>2. CASE ~(j = StartOrder[phase] /\ f = at)
        <5>1. running'[j][f] = running[j][f] /\ loop'[j][f] = loop[j][f]
          BY <2>3, <4>2 DEF TypeOK
        <5> QED
          BY <5>1 DEF TypeOK
      <4> QED
        BY <4>1, <4>2
    <3> QED
      BY <1>0, <1>6, <2>1, <3>2, <3>3, <3>4 DEF StartComponent, syncVars, TypeOK, Over
  <2> QED
    BY <1>6, <2>2, <2>3 DEF StartComponent
<1>7. CASE EarlySignal \/ CancelContext \/ Shutdown
  BY <1>0, <1>7 DEF EarlySignal, CancelContext, Shutdown, mainVars, loopVars, syncVars,
                    TypeOK, Over
<1>8. ASSUME NEW k \in Kinds, NEW f \in Flow, ComponentStep(k, f) \/ Settle(f)
      PROVE  TypeOK'
  <2>1. /\ main' \in {main, "panicked"}
        /\ UNCHANGED <<cfg, phase, at, ctx, running, cancelled, syncVars, dlq>>
    BY <1>8, GoroutineEffect
  <2>2. inflight' \in [Flow -> BOOLEAN]
    <3>1. \/ inflight' = inflight
          \/ inflight' = [inflight EXCEPT ![f] = FALSE]
          \/ inflight' = [inflight EXCEPT ![f] = TRUE]
      BY <1>8, GoroutineEffect
    <3> QED
      BY <3>1 DEF TypeOK
  <2> DEFINE States == {"none", "starting", "first", "idle", "busy", "ended"}
  <2>3. PICK l \in {"first", "idle", "busy", "ended"} :
          loop' = loop \/ loop' = [loop EXCEPT ![k][f] = l]
    <3>1. \/ loop' = loop
          \/ \E l \in {"first", "idle", "busy", "ended"} : loop' = [loop EXCEPT ![k][f] = l]
      BY <1>8, GoroutineEffect
    <3> QED
      BY <3>1
  <2>4. loop \in [Kinds -> [Flow -> States]] /\ l \in States
    BY <2>3 DEF TypeOK
  <2> HIDE DEF States
  <2>5. /\ [loop EXCEPT ![k][f] = l] \in [Kinds -> [Flow -> States]]
        /\ [loop EXCEPT ![k][f] = l][k][f] = l
        /\ \A x \in Kinds, y \in Flow : x # k \/ y # f
               => [loop EXCEPT ![k][f] = l][x][y] = loop[x][y]
    BY <1>8, <2>4, SetOne
  <2>6. loop' \in [Kinds -> [Flow -> States]]
    BY <2>3, <2>4, <2>5
  <2>7. \A j \in Kinds, g \in Flow : loop[j][g] # "none" => loop'[j][g] # "none"
    <3> TAKE j \in Kinds, g \in Flow
    <3>1. loop'[j][g] = loop[j][g] \/ loop'[j][g] = l
      BY <2>3, <2>5
    <3> QED
      BY <2>3, <3>1
  <2> USE DEF States
  <2> QED
    BY <1>0, <2>1, <2>2, <2>6, <2>7 DEF TypeOK, syncVars, Over
<1>9. CASE \E f \in Flow : FollowEnds(f)
  BY <1>0, <1>9 DEF FollowEnds, mainVars, loopVars, TypeOK
<1>10. CASE StopSkip
  BY <1>0, <1>10, NextInPhasePlace DEF StopSkip, loopVars, syncVars, TypeOK, Closing
<1>11. CASE StopCancel
  BY <1>0, <1>11 DEF StopCancel, Cancels, mainVars, syncVars, TypeOK
<1>12. CASE StopClose
  <2>1. at' \in Flow /\ phase' \in 1 .. 4 /\ main' \in {main, "closeReaders"}
    BY <1>12, NextInPhasePlace DEF StopClose, TypeOK
  <2>2. dlq' \in [Flow -> {"none", "open", "closed"}]
    BY <1>12 DEF StopClose, TypeOK
  <2>3. running' \in [Kinds -> [Flow -> BOOLEAN]]
    BY <1>12 DEF StopClose, TypeOK
  <2>4. \A k \in Kinds, f \in Flow : running'[k][f] => running[k][f]
    BY <1>12 DEF StopClose, TypeOK
  <2> QED
    BY <1>0, <1>12, <2>1, <2>2, <2>3, <2>4 DEF StopClose, syncVars, TypeOK, Closing
<1>13. CASE CloseReaders \/ CloseWriters \/ CloseLetters \/ CloseServer
  <2>1. ASSUME NEW client, client \in [Flow -> {"none", "open", "closed"}]
        PROVE  Closed(client) \in [Flow -> {"none", "open", "closed"}]
    BY <2>1 DEF Closed
  <2>2. /\ main' \in Closing \cup {"exited"}
        /\ reader' \in {reader, Closed(reader)}
        /\ writer' \in {writer, Closed(writer)}
        /\ dlq' \in {dlq, Closed(dlq)}
        /\ UNCHANGED <<cfg, phase, at, ctx, loopVars, ready, wired, follow>>
    BY <1>13 DEF CloseReaders, CloseWriters, CloseLetters, CloseServer, Closing, syncVars
  <2>3. /\ reader' \in [Flow -> {"none", "open", "closed"}]
        /\ writer' \in [Flow -> {"none", "open", "closed"}]
        /\ dlq' \in [Flow -> {"none", "open", "closed"}]
    BY <2>1, <2>2 DEF TypeOK
  <2> QED
    BY <1>0, <2>2, <2>3 DEF loopVars, TypeOK, Over
<1>14. CASE UNCHANGED vars
  BY <1>0, <1>14 DEF vars, mainVars, loopVars, syncVars, TypeOK
<1> QED
  BY <1>1, <1>2, <1>3, <1>4, <1>5, <1>6, <1>7, <1>8, <1>9, <1>10, <1>11, <1>12, <1>13, <1>14
  DEF Next, MainStep, Kinds

(***************************************************************************)
(* A step preserves LifeInv.                                               *)
(***************************************************************************)

\* A step that starts and stops nothing, leaves the loops and the clients and what
\* is in flight alone, and goes on within Run, or ends the process.
LEMMA QuietStep ==
    ASSUME LifeInv, TypeOK', Enabled' = Enabled,
           UNCHANGED <<running, loop, inflight, dlq, writer, wired>>,
           \/ main' \in {"rejected", "failed", "panicked", "killed"} /\ main # "exited"
           \/ main' \in {main, "bootstrap"} /\ main \in {"load", "bootstrap"}
           \/ main' = main /\ phase' = phase /\ at' = at /\ reader' = reader
    PROVE  LifeInv'
<1>1. LiveRuns' /\ DiscoveryFed' /\ InflightFed'
  BY DEF LifeInv, LiveRuns, DiscoveryFed, InflightFed
<1>2. WritersOpen' /\ LettersOpen'
  BY DEF LifeInv, WritersOpen, LettersOpen, Over, Closing
<1>3. SourcesStarted'
  BY DEF LifeInv, SourcesStarted
<1>4. StopsInOrder'
  <2>1. CASE main' \in {"rejected", "failed", "panicked", "killed", "load", "bootstrap"}
    BY <2>1 DEF StopsInOrder, Closing
  <2>2. CASE main' = main /\ phase' = phase /\ at' = at
    BY <2>2 DEF LifeInv, StopsInOrder, Passed
  <2> QED
    BY <2>1, <2>2
<1>5. ClosedInOrder'
  BY DEF LifeInv, ClosedInOrder
<1> QED
  BY <1>1, <1>2, <1>3, <1>4, <1>5 DEF LifeInv

\* The goroutines of the components.
LEMMA GoroutineKeeps ==
    ASSUME LifeInv, TypeOK', Enabled' = Enabled, NEW k \in Kinds, NEW f \in Flow,
           ComponentStep(k, f) \/ Settle(f)
    PROVE  LifeInv'
<1>0. TypeOK
  BY DEF LifeInv
<1>1. /\ main \notin Over /\ main' \in {main, "panicked"}
      /\ UNCHANGED <<cfg, phase, at, ctx, running, cancelled, syncVars, dlq>>
  BY <1>0, GoroutineEffect
<1>2. LiveRuns'
  <2>1. CASE loop' = loop
    BY <1>1, <2>1 DEF LifeInv, LiveRuns
  <2>2. CASE \E l \in {"first", "idle", "busy", "ended"} :
               /\ loop[k][f] \in {"starting", "first", "idle", "busy"}
               /\ loop' = [loop EXCEPT ![k][f] = l]
    <3> DEFINE States == {"none", "starting", "first", "idle", "busy", "ended"}
    <3>1. PICK l \in {"first", "idle", "busy", "ended"} :
            loop' = [loop EXCEPT ![k][f] = l]
      BY <2>2
    <3>2. loop \in [Kinds -> [Flow -> States]] /\ l \in States
      BY <1>0 DEF TypeOK
    <3> HIDE DEF States
    <3>3. \A x \in Kinds, y \in Flow : x # k \/ y # f => loop'[x][y] = loop[x][y]
      BY <3>1, <3>2, SetOne
    <3>4. running[k][f]
      BY <2>2 DEF LifeInv, LiveRuns
    <3> QED
      BY <1>1, <3>3, <3>4 DEF LifeInv, LiveRuns
  <2> QED
    BY <1>0, <2>1, <2>2, GoroutineEffect
<1>3. DiscoveryFed'
  BY <1>1 DEF LifeInv, DiscoveryFed
<1>4. InflightFed'
  <2>1. CASE inflight' = inflight
    BY <1>1, <2>1 DEF LifeInv, InflightFed
  <2>2. CASE inflight' = [inflight EXCEPT ![f] = FALSE]
    BY <1>0, <1>1, <2>2 DEF LifeInv, InflightFed, TypeOK
  <2>3. CASE /\ k = "source" /\ loop[k][f] \in {"first", "busy"}
             /\ inflight' = [inflight EXCEPT ![f] = TRUE]
    <3>1. running["source"][f]
      BY <2>3 DEF LifeInv, LiveRuns
    <3>2. \A g \in Flow : g # f => inflight'[g] = inflight[g]
      BY <1>0, <2>3 DEF TypeOK
    <3> QED
      BY <1>1, <3>1, <3>2 DEF LifeInv, InflightFed
  <2> QED
    BY <1>0, <2>1, <2>2, <2>3, GoroutineEffect
<1>5. WritersOpen' /\ LettersOpen'
  BY <1>1 DEF LifeInv, WritersOpen, LettersOpen, syncVars, Over, Closing
<1>6. SourcesStarted'
  BY <1>1 DEF LifeInv, SourcesStarted
<1>7. StopsInOrder'
  BY <1>1 DEF LifeInv, StopsInOrder, Passed, Closing
<1>8. ClosedInOrder'
  BY <1>1 DEF LifeInv, ClosedInOrder, syncVars, Over
<1> QED
  BY <1>2, <1>3, <1>4, <1>5, <1>6, <1>7, <1>8 DEF LifeInv

\* The start of a component: discovery is started after every Source.
LEMMA StartKeeps ==
    ASSUME LifeInv, TypeOK', Enabled' = Enabled, StartComponent
    PROVE  LifeInv'
<1> DEFINE k == StartOrder[phase]
           States == {"none", "starting", "first", "idle", "busy", "ended"}
<1>0. TypeOK /\ main = "start" /\ phase \in 1 .. 4 /\ at \in Flow
  BY DEF LifeInv, StartComponent, TypeOK
<1>1. k \in Kinds /\ (k = "source" <=> phase = 1)
  BY <1>0 DEF StartOrder, Kinds
<1>2. UNCHANGED <<cfg, ctx, cancelled, inflight, ready, reader, writer, wired, follow, dlq>>
  BY DEF StartComponent, syncVars
<1> HIDE DEF k
<1>3. CASE main' = "failed" /\ UNCHANGED <<running, loop>>
  BY <1>0, <1>2, <1>3, QuietStep
<1>4. CASE NextInPhase("wait") /\ ~(main' = "failed" /\ UNCHANGED <<running, loop>>)
  <2>1. /\ \A j \in Kinds, g \in Flow : running[j][g] => running'[j][g]
        /\ \A j \in Kinds, g \in Flow :
              running'[j][g] => running[j][g] \/ (j = k /\ g = at /\ at \in Enabled)
        /\ \A j \in Kinds, g \in Flow : loop'[j][g] = loop[j][g] \/ running'[j][g]
        /\ k = "source" /\ at \in Enabled => running'["source"][at]
    <3>1. CASE UNCHANGED <<running, loop>> /\ (at \notin Enabled \/ SwitchedOff(k, at))
      BY <1>1, <3>1 DEF SwitchedOff
    <3>2. CASE /\ running' = [running EXCEPT ![k][at] = TRUE]
               /\ loop' = [loop EXCEPT ![k][at] = "starting"]
               /\ at \in Enabled
      <4>1. /\ running \in [Kinds -> [Flow -> BOOLEAN]]
            /\ loop \in [Kinds -> [Flow -> States]] /\ "starting" \in States
        BY <1>0 DEF TypeOK
      <4> HIDE DEF States
      <4>2. /\ running'[k][at] = TRUE
            /\ \A x \in Kinds, y \in Flow : x # k \/ y # at => running'[x][y] = running[x][y]
        <5>1. running'[k] = [running[k] EXCEPT ![at] = TRUE]
          BY <1>1, <3>2, <4>1
        <5>2. \A x \in Kinds : x # k => running'[x] = running[x]
          BY <3>2, <4>1
        <5>3. running[k] \in [Flow -> BOOLEAN]
          BY <1>1, <4>1
        <5>4. running'[k][at] = TRUE /\ \A y \in Flow : y # at => running'[k][y] = running[k][y]
          BY <1>0, <5>1, <5>3
        <5> QED
          BY <5>2, <5>4
      <4>3. \A x \in Kinds, y \in Flow : x # k \/ y # at => loop'[x][y] = loop[x][y]
        BY <1>0, <1>1, <3>2, <4>1, SetOne
      <4>4. running'[k][at]
        BY <4>2
      <4>5. ASSUME NEW j \in Kinds, NEW g \in Flow
            PROVE  /\ running[j][g] => running'[j][g]
                   /\ running'[j][g] => running[j][g] \/ (j = k /\ g = at /\ at \in Enabled)
                   /\ loop'[j][g] = loop[j][g] \/ running'[j][g]
        <5>1. CASE j = k /\ g = at
          BY <3>2, <4>4, <5>1
        <5>2. CASE j # k \/ g # at
          BY <4>2, <4>3, <5>2
        <5> QED
          BY <5>1, <5>2
      <4> QED
        BY <4>4, <4>5
    <3> QED
      BY <1>4, <3>1, <3>2 DEF StartComponent, Fail, k
  <2>2. LiveRuns'
    BY <2>1 DEF LifeInv, LiveRuns
  <2>3. InflightFed'
    BY <1>2, <2>1 DEF LifeInv, InflightFed, Kinds
  <2>4. DiscoveryFed'
    <3> SUFFICES ASSUME NEW f \in Flow, running'["discovery"][f]
                 PROVE  running'["source"][f]
      BY DEF DiscoveryFed
    <3>1. CASE running["discovery"][f]
      BY <2>1, <3>1 DEF LifeInv, DiscoveryFed, Kinds
    <3>2. CASE k = "discovery" /\ f = at /\ at \in Enabled
      <4>1. phase > 1
        BY <1>0, <1>1, <3>2
      <4>2. running["source"][f]
        BY <1>0, <3>2, <4>1 DEF LifeInv, SourcesStarted
      <4> QED
        BY <2>1, <4>2 DEF Kinds
    <3> QED
      BY <2>1, <3>1, <3>2 DEF Kinds
  <2>5. main' \in {"start", "wait"}
    BY <1>0, <1>4, NextInPhasePlace
  <2>6. WritersOpen' /\ LettersOpen'
    BY <1>0, <1>2, <2>5 DEF LifeInv, WritersOpen, LettersOpen, Closing, Over
  <2>7. SourcesStarted'
    <3> SUFFICES ASSUME main' = "start", NEW f \in Enabled, phase' > 1 \/ f < at'
                 PROVE  running'["source"][f]
      BY DEF SourcesStarted
    <3>0. f \in Flow /\ f \in Int /\ at \in Int
      BY <1>0 DEF Enabled, Flow
    <3>1. CASE phase > 1 \/ f < at
      BY <1>0, <2>1, <3>0, <3>1 DEF LifeInv, SourcesStarted, Kinds
    <3>2. CASE phase = 1 /\ ~(f < at)
      <4>1. f = at
        BY <1>0, <1>4, <3>0, <3>2, EngineAssumption DEF NextInPhase, NextFlow, Flow
      <4> QED
        BY <1>1, <2>1, <3>2, <4>1
    <3> QED
      BY <1>0, <3>1, <3>2
  <2>8. StopsInOrder'
    <3>1. main' = "wait" => phase' = 1 /\ at' = 1
      BY <1>0, <1>4 DEF NextInPhase, NextFlow
    <3> QED
      BY <2>5, <3>1 DEF StopsInOrder, Closing
  <2>9. ClosedInOrder'
    BY <2>5 DEF ClosedInOrder
  <2> QED
    BY <2>2, <2>3, <2>4, <2>6, <2>7, <2>8, <2>9 DEF LifeInv
<1> QED
  BY <1>3, <1>4 DEF StartComponent, Fail

\* Going on within Shutdown keeps to its order, once the component it is at does
\* not run.
LEMMA ShutdownOrder ==
    ASSUME TypeOK, StopsInOrder, main = "stop", NextInPhase("closeReaders"),
           \A k \in Kinds, f \in Flow : running'[k][f] => running[k][f],
           ~running'[StopOrder[phase]][at]
    PROVE  StopsInOrder' /\ main' \in {"stop", "closeReaders"}
<1>1. phase \in 1 .. 4 /\ at \in Flow /\ at \in 1 .. NFlows
  BY DEF TypeOK, Flow
<1>2. \A k \in Kinds : StopTurn[k] \in 1 .. 4 /\ (StopTurn[k] = phase => k = StopOrder[phase])
  BY <1>1 DEF Kinds, StopTurn, StopOrder
<1>3. \A k \in Kinds, f \in Flow : Passed(k, f) => ~running'[k][f]
  BY DEF StopsInOrder
<1>4. \A k \in Kinds : StopTurn[k] = phase => ~running'[k][at]
  BY <1>2
<1>5. main' \in {"stop", "closeReaders"}
  BY <1>1, NextInPhasePlace
<1>6. ASSUME NEW k \in Kinds, NEW f \in Flow,
             main' = "closeReaders" \/ (StopTurn[k] < phase' \/ (StopTurn[k] = phase' /\ f < at'))
      PROVE  ~running'[k][f]
  <2>1. StopTurn[k] \in 1 .. 4 /\ f \in 1 .. NFlows
    BY <1>2 DEF Flow
  <2>2. Passed(k, f) \/ (StopTurn[k] = phase /\ f = at)
    BY <1>1, <1>6, <2>1, EngineAssumption DEF NextInPhase, NextFlow, Passed
  <2> QED
    BY <1>3, <1>4, <2>2
<1> QED
  BY <1>5, <1>6 DEF StopsInOrder, Passed

\* Stop of a component that does not run.
LEMMA StopSkipKeeps ==
    ASSUME LifeInv, TypeOK', Enabled' = Enabled, StopSkip
    PROVE  LifeInv'
<1>1. /\ UNCHANGED <<running, loop, inflight, dlq, reader, writer, wired>>
      /\ main = "stop" /\ NextInPhase("closeReaders") /\ ~running[StopOrder[phase]][at]
  BY DEF StopSkip, loopVars, syncVars
<1>2. StopsInOrder' /\ main' \in {"stop", "closeReaders"}
  BY <1>1, ShutdownOrder DEF LifeInv
<1>3. LiveRuns' /\ DiscoveryFed' /\ InflightFed'
  BY <1>1 DEF LifeInv, LiveRuns, DiscoveryFed, InflightFed
<1>4. WritersOpen' /\ LettersOpen' /\ SourcesStarted' /\ ClosedInOrder'
  BY <1>1, <1>2 DEF LifeInv, WritersOpen, LettersOpen, SourcesStarted, ClosedInOrder, Closing
<1> QED
  BY <1>2, <1>3, <1>4 DEF LifeInv

\* Stop of a component that runs: its goroutine has ended, and when it is a Source
\* nothing is in flight and the topic discovery of the flow is already stopped.
LEMMA StopCloseKeeps ==
    ASSUME LifeInv, TypeOK', Enabled' = Enabled, StopClose
    PROVE  LifeInv'
<1> DEFINE k == StopOrder[phase]
<1>0. TypeOK /\ main = "stop" /\ phase \in 1 .. 4 /\ at \in Flow
  BY DEF LifeInv, StopClose, TypeOK
<1>1. k \in Kinds /\ (k = "source" => phase = 4)
  BY <1>0 DEF StopOrder, Kinds
<1>2. /\ UNCHANGED <<loop, inflight, reader, writer, wired>>
      /\ NextInPhase("closeReaders") /\ loop[k][at] = "ended" /\ (k = "source" => ~inflight[at])
      /\ running' = [running EXCEPT ![k][at] = FALSE]
      /\ dlq' = [dlq EXCEPT ![at] = IF k = "source" /\ @ = "open" THEN "closed" ELSE @]
  BY DEF StopClose, syncVars, Waited
<1> HIDE DEF k
<1>3. /\ ~running'[k][at]
      /\ \A j \in Kinds, g \in Flow : j # k \/ g # at => running'[j][g] = running[j][g]
  <2>1. running'[k] = [running[k] EXCEPT ![at] = FALSE]
    BY <1>0, <1>1, <1>2 DEF TypeOK
  <2>2. \A x \in Kinds : x # k => running'[x] = running[x]
    BY <1>0, <1>2 DEF TypeOK
  <2>3. running[k] \in [Flow -> BOOLEAN]
    BY <1>0, <1>1 DEF TypeOK
  <2>4. ~running'[k][at] /\ \A y \in Flow : y # at => running'[k][y] = running[k][y]
    BY <1>0, <2>1, <2>3
  <2> QED
    BY <2>2, <2>4
<1>4. \A j \in Kinds, g \in Flow : running'[j][g] => running[j][g]
  BY <1>3
<1>5. StopsInOrder' /\ main' \in {"stop", "closeReaders"}
  BY <1>0, <1>2, <1>3, <1>4, ShutdownOrder DEF LifeInv, k
<1>6. LiveRuns'
  <2> SUFFICES ASSUME NEW j \in Kinds, NEW g \in Flow,
                      loop[j][g] \in {"starting", "first", "idle", "busy"}
               PROVE  running'[j][g]
    BY <1>2 DEF LiveRuns
  <2>1. j # k \/ g # at
    BY <1>2
  <2> QED
    BY <1>3, <2>1 DEF LifeInv, LiveRuns
<1>7. InflightFed'
  <2> SUFFICES ASSUME NEW g \in Flow, inflight[g] PROVE running'["source"][g]
    BY <1>2 DEF InflightFed
  <2>1. "source" # k \/ g # at
    BY <1>2
  <2> QED
    BY <1>3, <2>1 DEF LifeInv, InflightFed, Kinds
<1>8. DiscoveryFed'
  <2> SUFFICES ASSUME NEW g \in Flow, running'["discovery"][g] PROVE running'["source"][g]
    BY DEF DiscoveryFed
  <2>1. running["discovery"][g] /\ running["source"][g]
    BY <1>4 DEF LifeInv, DiscoveryFed, Kinds
  <2>2. k # "source"
    <3> SUFFICES ASSUME k = "source" PROVE FALSE
      OBVIOUS
    <3>1. Passed("discovery", g)
      BY <1>1 DEF Passed, StopTurn
    <3> QED
      BY <1>0, <2>1, <3>1 DEF LifeInv, StopsInOrder, Kinds
  <2> QED
    BY <1>3, <2>1, <2>2 DEF Kinds
<1>9. LettersOpen'
  <2> SUFFICES ASSUME NEW g \in Flow, running'["source"][g] PROVE dlq'[g] # "closed"
    BY <1>5 DEF LettersOpen
  <2>1. dlq[g] # "closed"
    BY <1>0, <1>4 DEF LifeInv, LettersOpen, Kinds
  <2>2. dlq \in [Flow -> {"none", "open", "closed"}]
    BY <1>0 DEF TypeOK
  <2>3. CASE g # at
    BY <1>2, <2>1, <2>2, <2>3
  <2>4. CASE g = at
    <3>1. k # "source"
      BY <1>3, <2>4
    <3> QED
      BY <1>2, <2>1, <2>2, <2>4, <3>1
  <2> QED
    BY <2>3, <2>4
<1>10. WritersOpen' /\ SourcesStarted' /\ ClosedInOrder'
  BY <1>0, <1>2, <1>5 DEF LifeInv, WritersOpen, SourcesStarted, ClosedInOrder, Closing
<1> QED
  BY <1>5, <1>6, <1>7, <1>8, <1>9, <1>10 DEF LifeInv

\* A step of the bootstrap that keeps or leaves it, with every writer it wires open.
LEMMA BootstrapKeeps ==
    ASSUME LifeInv, TypeOK', Enabled' = Enabled, main = "bootstrap", NextFlow("start"),
           UNCHANGED <<running, loop, inflight, dlq>>,
           \A f \in Flow : \A w \in wired'[f] : writer'[w] = "open"
    PROVE  LifeInv'
<1>1. main' = "bootstrap" \/ (main' = "start" /\ phase' = 1 /\ at' = 1)
  BY DEF NextFlow
<1>2. LiveRuns' /\ DiscoveryFed' /\ InflightFed'
  BY DEF LifeInv, LiveRuns, DiscoveryFed, InflightFed
<1>3. WritersOpen' /\ LettersOpen' /\ StopsInOrder' /\ ClosedInOrder'
  BY <1>1 DEF LifeInv, WritersOpen, LettersOpen, StopsInOrder, ClosedInOrder, Closing
<1>4. SourcesStarted'
  BY <1>1 DEF SourcesStarted, Enabled, Flow
<1> QED
  BY <1>2, <1>3, <1>4 DEF LifeInv

\* A step preserves LifeInv.
LEMMA LifeStep ==
    ASSUME LifeInv, [Next]_vars
    PROVE  LifeInv'
<1>0. TypeOK /\ TypeOK' /\ Enabled' = Enabled
  BY ConfigFixed, TypeStep DEF LifeInv
<1>1. CASE NewEngine
  <2>1. CASE dlq' = dlq
    BY <1>0, <1>1, <2>1, QuietStep DEF NewEngine, loopVars, syncVars
  <2>2. CASE main' = "bootstrap" /\ \A f \in Flow : dlq'[f] # "closed"
    BY <1>0, <1>1, <2>2 DEF NewEngine, loopVars, syncVars, LifeInv, LiveRuns, DiscoveryFed,
         InflightFed, WritersOpen, LettersOpen, SourcesStarted, StopsInOrder, ClosedInOrder,
         Closing, Over
  <2> QED
    BY <1>1, <2>1, <2>2 DEF NewEngine
<1>2. CASE BootstrapSkip
  BY <1>0, <1>2, BootstrapKeeps DEF BootstrapSkip, loopVars, syncVars, LifeInv, WritersOpen,
                                Closing, Over
<1>3. CASE BootstrapReader
  BY <1>0, <1>3, QuietStep DEF BootstrapReader, Fail, mainVars, loopVars
<1>4. CASE BootstrapRead
  BY <1>0, <1>4, QuietStep DEF BootstrapRead, Fail, mainVars, loopVars
<1>5. CASE BootstrapWriter
  <2>1. CASE main' = "failed" /\ UNCHANGED <<writer, wired>>
    BY <1>0, <1>5, <2>1, QuietStep DEF BootstrapWriter, loopVars
  <2>2. CASE NextFlow("start") /\ main' # "failed"
    <3>1. \A f \in Flow : \A w \in wired'[f] : writer'[w] = "open"
      <4>1. /\ writer' = [writer EXCEPT ![at] = "open"]
            /\ wired' = [wired EXCEPT ![Registered(at)] = {at}]
            /\ writer \in [Flow -> {"none", "open", "closed"}] /\ at \in Flow
        BY <1>0, <1>5, <2>2 DEF BootstrapWriter, Fail, TypeOK
      <4>2. \A f \in Flow : \A w \in wired[f] : w \in Flow /\ writer[w] = "open"
        BY <1>0, <1>5 DEF BootstrapWriter, LifeInv, WritersOpen, TypeOK, Closing, Over
      <4>3. \A f \in Flow : wired'[f] = wired[f] \/ wired'[f] = {at}
        BY <1>0, <4>1 DEF TypeOK
      <4> QED
        BY <4>1, <4>2, <4>3
    <3> QED
      BY <1>0, <1>5, <2>2, <3>1, BootstrapKeeps DEF BootstrapWriter, loopVars
  <2> QED
    BY <1>5, <2>1, <2>2 DEF BootstrapWriter, Fail, NextFlow
<1>6. CASE StartComponent
  BY <1>0, <1>6, StartKeeps
<1>7. CASE EarlySignal
  BY <1>0, <1>7, QuietStep DEF EarlySignal, loopVars, syncVars
<1>8. CASE CancelContext
  BY <1>0, <1>8, QuietStep DEF CancelContext, mainVars, loopVars, syncVars
<1>9. CASE Shutdown
  <2>1. /\ main = "wait" /\ main' = "stop" /\ phase' = phase /\ at' = at
        /\ UNCHANGED <<running, loop, inflight, dlq, reader, writer, wired>>
    BY <1>9 DEF Shutdown, loopVars, syncVars
  <2>2. \A k \in Kinds, f \in Flow : ~(Passed(k, f)')
    BY <2>1 DEF LifeInv, StopsInOrder, Passed, StopTurn, Kinds, Flow
  <2>3. LiveRuns' /\ DiscoveryFed' /\ InflightFed'
    BY <2>1 DEF LifeInv, LiveRuns, DiscoveryFed, InflightFed
  <2>4. WritersOpen' /\ LettersOpen' /\ SourcesStarted' /\ ClosedInOrder'
    BY <2>1 DEF LifeInv, WritersOpen, LettersOpen, SourcesStarted, ClosedInOrder, Closing, Over
  <2> QED
    BY <1>0, <2>1, <2>2, <2>3, <2>4 DEF LifeInv, StopsInOrder, Closing
<1>10. ASSUME NEW k \in Kinds, NEW f \in Flow, ComponentStep(k, f) \/ Settle(f)
       PROVE  LifeInv'
  BY <1>0, <1>10, GoroutineKeeps
<1>11. CASE \E f \in Flow : FollowEnds(f)
  BY <1>0, <1>11, QuietStep DEF FollowEnds, mainVars, loopVars
<1>12. CASE StopSkip
  BY <1>0, <1>12, StopSkipKeeps
<1>13. CASE StopCancel
  BY <1>0, <1>13, QuietStep DEF StopCancel, Cancels, mainVars, syncVars
<1>14. CASE StopClose
  BY <1>0, <1>14, StopCloseKeeps
<1>15. CASE CloseReaders \/ CloseWriters \/ CloseLetters \/ CloseServer
  <2>1. /\ main \in Closing /\ main' \in Closing \cup {"exited"}
        /\ UNCHANGED <<running, loop, inflight>>
    BY <1>15 DEF CloseReaders, CloseWriters, CloseLetters, CloseServer, Closing, loopVars
  <2>2. ClosedInOrder'
    BY <1>15 DEF CloseReaders, CloseWriters, CloseLetters, CloseServer, Closed, syncVars,
                 LifeInv, ClosedInOrder
  <2>3. LiveRuns' /\ DiscoveryFed' /\ InflightFed'
    BY <2>1 DEF LifeInv, LiveRuns, DiscoveryFed, InflightFed
  <2>4. WritersOpen' /\ SourcesStarted' /\ StopsInOrder'
    BY <2>1 DEF LifeInv, WritersOpen, SourcesStarted, StopsInOrder, Closing, Over
  <2>5. LettersOpen'
    BY <2>1 DEF LifeInv, LettersOpen, StopsInOrder, Closing, Kinds
  <2> QED
    BY <1>0, <2>2, <2>3, <2>4, <2>5 DEF LifeInv
<1>16. CASE UNCHANGED vars
  BY <1>0, <1>16, QuietStep DEF vars, mainVars, loopVars, syncVars
<1> QED
  BY <1>1, <1>2, <1>3, <1>4, <1>5, <1>6, <1>7, <1>8, <1>9, <1>10, <1>11, <1>12, <1>13, <1>14,
     <1>15, <1>16
  DEF Next, MainStep, Kinds

\* LifeInv holds throughout.
LEMMA AlwaysLifeInv == Spec => []LifeInv
<1>1. Init => LifeInv
  <2> SUFFICES ASSUME Init PROVE LifeInv
    OBVIOUS
  <2>1. TypeOK
    BY InitType
  <2>2. main = "load" /\ \A k \in Kinds, f \in Flow : ~running[k][f] /\ loop[k][f] = "none"
    BY DEF Init
  <2>3. \A f \in Flow : ~inflight[f] /\ dlq[f] # "closed" /\ wired[f] = {}
    BY DEF Init
  <2> QED
    BY <2>1, <2>2, <2>3 DEF LifeInv, LiveRuns, DiscoveryFed, InflightFed, WritersOpen,
         LettersOpen, SourcesStarted, StopsInOrder, ClosedInOrder, Kinds
<1> QED
  BY <1>1, LifeStep, PTL DEF Spec

\* The main goroutine stays within its phases and flows, and only components of
\* enabled flows, once started, run.
THEOREM EngineTypeCorrect == Spec => []TypeOK
<1>1. LifeInv => TypeOK
  BY DEF LifeInv
<1> QED
  BY <1>1, AlwaysLifeInv, PTL

\* A step preserves ReadersOpen: readers are closed at the end of Shutdown, and
\* where the bootstrap fails.
LEMMA ReadersStep ==
    ASSUME TypeOK, ReadersOpen, [Next]_vars
    PROVE  ReadersOpen'
<1>0. reader \in [Flow -> {"none", "open", "closed"}]
      /\ follow \in [Flow -> {"none", "polling", "ended"}]
  BY DEF TypeOK
<1>1. CASE /\ UNCHANGED <<reader, follow>>
           /\ main' \in Over \cup Closing \/ main \notin Over \cup Closing
  BY <1>1 DEF ReadersOpen
<1>2. CASE NewEngine \/ BootstrapSkip \/ BootstrapWriter
  BY <1>1, <1>2 DEF NewEngine, BootstrapSkip, BootstrapWriter, syncVars, Over, Closing
<1>3. CASE BootstrapReader
  BY <1>0, <1>3 DEF BootstrapReader, Fail, mainVars, ReadersOpen, Over, Closing
<1>4. CASE BootstrapRead
  <2>1. CASE ctx
    BY <1>4, <2>1 DEF BootstrapRead, Fail, ReadersOpen, Over
  <2>2. CASE ~ctx
    BY <1>0, <1>4, <2>2 DEF BootstrapRead, mainVars, ReadersOpen
  <2> QED
    BY <2>1, <2>2
<1>5. CASE StartComponent \/ StopSkip \/ StopCancel \/ StopClose
  BY <1>1, <1>5 DEF StartComponent, StopSkip, StopCancel, StopClose, syncVars, Over, Closing
<1>6. CASE EarlySignal \/ CancelContext \/ Shutdown
  BY <1>1, <1>6 DEF EarlySignal, CancelContext, Shutdown, mainVars, syncVars, Over, Closing,
                  ReadersOpen
<1>7. ASSUME NEW k \in Kinds, NEW f \in Flow, ComponentStep(k, f) \/ Settle(f)
      PROVE  ReadersOpen'
  <2>1. main' \in {main, "panicked"} /\ UNCHANGED <<reader, follow>>
    BY <1>7, GoroutineEffect DEF syncVars
  <2> QED
    BY <2>1 DEF ReadersOpen, Over
<1>8. CASE \E f \in Flow : FollowEnds(f)
  BY <1>0, <1>8 DEF FollowEnds, mainVars, ReadersOpen
<1>9. CASE CloseReaders \/ CloseWriters \/ CloseLetters \/ CloseServer
  BY <1>9 DEF CloseReaders, CloseWriters, CloseLetters, CloseServer, ReadersOpen, Over, Closing
<1>10. CASE UNCHANGED vars
  BY <1>10 DEF vars, mainVars, syncVars, ReadersOpen
<1> QED
  BY <1>2, <1>3, <1>4, <1>5, <1>6, <1>7, <1>8, <1>9, <1>10 DEF Next, MainStep, Kinds

\* The order of Run, the order of Shutdown and the waits in the Stop methods keep
\* every component and its callbacks from a client that is already closed, and the
\* followers too until Shutdown closes their readers, however many flows there are
\* and however their rounds, callbacks and cancellations interleave.
THEOREM ShutdownIsSafe == Spec => []ComponentsUseOpenClients
<1>1. LifeInv /\ ReadersOpen => ComponentsUseOpenClients
  <2> SUFFICES ASSUME LifeInv, ReadersOpen, main \notin Over, NEW f \in Flow
               PROVE  /\ \A k \in Kinds : loop[k][f] \in {"first", "busy"} => running[k][f]
                      /\ loop["discovery"][f] \in {"first", "busy"} => running["source"][f]
                      /\ inflight[f] => /\ running["source"][f]
                                        /\ \A w \in wired[f] : writer[w] = "open"
                                        /\ dlq[f] # "closed"
                      /\ follow[f] = "polling" => reader[f] = "open" \/ main \in Closing
    BY DEF ComponentsUseOpenClients
  <2>1. \A k \in Kinds : loop[k][f] \in {"first", "busy"} => running[k][f]
    BY DEF LifeInv, LiveRuns
  <2>2. loop["discovery"][f] \in {"first", "busy"} => running["source"][f]
    BY <2>1 DEF LifeInv, DiscoveryFed, Kinds
  <2>3. inflight[f] => running["source"][f] /\ main \notin Closing
    BY DEF LifeInv, InflightFed, StopsInOrder, Kinds
  <2>4. inflight[f] => dlq[f] # "closed" /\ \A w \in wired[f] : writer[w] = "open"
    BY <2>3 DEF LifeInv, WritersOpen, LettersOpen, Over
  <2>5. follow[f] = "polling" => reader[f] = "open" \/ main \in Closing
    BY DEF ReadersOpen
  <2> QED
    BY <2>1, <2>2, <2>3, <2>4, <2>5
<1>2. Init => ReadersOpen
  BY DEF Init, ReadersOpen
<1>3. LifeInv /\ ReadersOpen /\ [Next]_vars => ReadersOpen'
  BY ReadersStep DEF LifeInv
<1> QED
  BY <1>1, <1>2, <1>3, AlwaysLifeInv, PTL DEF Spec

\* When Run has returned, each component that was started has ended, with its
\* callbacks, and each client the engine keeps is closed.
THEOREM ExitIsQuiet == Spec => []QuietAtExit
<1>1. LifeInv => QuietAtExit
  <2> SUFFICES ASSUME LifeInv, main = "exited"
               PROVE  /\ \A k \in Kinds, f \in Flow :
                            ~running[k][f] /\ loop[k][f] \in {"none", "ended"}
                      /\ \A f \in Flow : ~inflight[f]
                      /\ \A f \in Flow : "open" \notin {reader[f], writer[f], dlq[f]}
    BY DEF QuietAtExit
  <2>1. \A k \in Kinds, f \in Flow : ~running[k][f]
    BY DEF LifeInv, StopsInOrder
  <2>2. \A k \in Kinds, f \in Flow : loop[k][f] \in {"none", "ended"}
    BY <2>1 DEF LifeInv, LiveRuns, TypeOK
  <2>3. \A f \in Flow : ~inflight[f]
    BY <2>1 DEF LifeInv, InflightFed, Kinds
  <2> QED
    BY <2>1, <2>2, <2>3 DEF LifeInv, ClosedInOrder
<1> QED
  BY <1>1, AlwaysLifeInv, PTL

(***************************************************************************)
(* The bootstrap wires every flow.                                         *)
(***************************************************************************)

\* Parse keeps the clusters of an entry and whether it is enabled.
LEMMA ParseKeeps ==
    ASSUME NEW file \in Files, NEW f \in Flow
    PROVE  /\ Parse(file).flows[f].enabled = file.flows[f].enabled
           /\ Parse(file).flows[f].source = file.flows[f].source
           /\ Parse(file).flows[f].target = file.flows[f].target
<1>1. file \in [clusters : SUBSET Clusters, serverless : SUBSET Clusters,
                flows : [Flow -> Entry(Clusters)]]
  BY EngineAssumption DEF Flow
<1>2. Parse(file).flows = [i \in Flow |-> SetDefaults(file.flows[i])]
  BY <1>1 DEF Parse
<1>3. file.flows[f] \in Entry(Clusters)
  BY <1>1
<1>4. ASSUME NEW r \in Entry(Clusters)
      PROVE  /\ SetDefaults(r).enabled = r.enabled
             /\ SetDefaults(r).source = r.source
             /\ SetDefaults(r).target = r.target
  BY DEF SetDefaults, Entry
<1> QED
  BY <1>2, <1>3, <1>4

\* So the engine's maps, keyed by the pair of clusters, keep the flows apart when
\* the entries of the file do.
LEMMA KeysDifferInit ==
    ASSUME OneFlowPerPair, Init
    PROVE  KeysDiffer
<1>1. PICK file \in Files : cfg = Parse(file)
  BY DEF Init
<1>2. SUFFICES ASSUME NEW f \in Enabled PROVE Registered(f) = f
  BY DEF KeysDiffer
<1> DEFINE same == {g \in Enabled : /\ cfg.flows[g].source = cfg.flows[f].source
                                    /\ cfg.flows[g].target = cfg.flows[f].target}
<1>3. f \in Flow /\ \A g \in Enabled : g \in Flow /\ cfg.flows[g].enabled
  BY DEF Enabled
<1>4. \A g \in same : g = f
  BY <1>1, <1>3, ParseKeeps DEF OneFlowPerPair
<1>5. f \in same /\ f <= f
  BY <1>3 DEF Flow
<1>6. same = {f}
  BY <1>4, <1>5
<1>7. Registered(f) = CHOOSE g \in same : \A h \in same : h <= g
  BY DEF Registered
<1> HIDE DEF same
<1> QED
  BY <1>5, <1>6, <1>7

\* A step preserves WiredInv.
LEMMA WiredStep ==
    ASSUME WiredInv, [Next]_vars
    PROVE  WiredInv'
<1>0. TypeOK /\ TypeOK' /\ cfg' = cfg /\ Enabled' = Enabled
  BY ConfigFixed, TypeStep DEF WiredInv
<1>1. KeysDiffer'
  BY <1>0 DEF WiredInv, KeysDiffer, Registered
<1>2. \A f \in Flow : Emits(f)' = Emits(f)
  BY <1>0 DEF Emits
<1>3. at \in Flow /\ at \in 1 .. NFlows /\ NFlows \in Nat
  BY <1>0, EngineAssumption DEF TypeOK, Flow
<1> SUFFICES BootstrapInOrder'
  BY <1>0, <1>1 DEF WiredInv
\* Steps that leave what the bootstrap made alone and do not go on in it.
<1>4. ASSUME UNCHANGED syncVars,
             \/ main' \in Over
             \/ main' = main /\ at' = at
             \/ main = "load" /\ main' = "bootstrap" /\ at' = at
             \/ /\ main \in {"start", "wait", "stop"}
                /\ main' \in {"start", "wait", "stop", "closeReaders"}
      PROVE  BootstrapInOrder'
  <2>1. \A f \in Flow : Wired(f)' = Wired(f)
    BY <1>4 DEF Wired, syncVars
  <2>2. \A f \in Flow : ~(f < 1)
    BY DEF Flow
  <2> QED
    BY <1>0, <1>2, <1>4, <2>1, <2>2 DEF WiredInv, BootstrapInOrder, syncVars, Over
\* Steps that go on to the next flow, the one they are at being wired if it emits.
<1>5. ASSUME main = "bootstrap", NextFlow("start"), reader' = reader, follow' = follow,
             ready' = ready, \A f \in Flow : f = at /\ Emits(f) => Wired(f)',
             \A f \in Flow : f < at /\ Wired(f) => Wired(f)'
      PROVE  BootstrapInOrder'
  <2>1. \A f \in Flow : f < at /\ Emits(f) => Wired(f)'
    BY <1>5 DEF WiredInv, BootstrapInOrder
  <2>2. CASE at < NFlows
    <3>1. main' = "bootstrap" /\ at' = at + 1
      BY <1>5, <2>2 DEF NextFlow
    <3>2. \A f \in Flow : f < at' => f < at \/ f = at
      BY <1>3, <3>1 DEF Flow
    <3> QED
      BY <1>0, <1>2, <1>5, <2>1, <3>1, <3>2 DEF WiredInv, BootstrapInOrder
  <2>3. CASE ~(at < NFlows)
    <3>1. main' = "start"
      BY <1>5, <2>3 DEF NextFlow
    <3>2. \A f \in Flow : f < at \/ f = at
      BY <1>3, <2>3 DEF Flow
    <3> QED
      BY <1>0, <1>2, <1>5, <2>1, <3>1, <3>2 DEF WiredInv, BootstrapInOrder
  <2> QED
    BY <2>2, <2>3
<1>6. CASE NewEngine
  BY <1>4, <1>6 DEF NewEngine, Over
<1>7. CASE BootstrapSkip
  <2>1. ~Emits(at)
    BY <1>7 DEF BootstrapSkip, Emits
  <2> QED
    BY <1>5, <1>7, <2>1 DEF BootstrapSkip, Wired, syncVars
<1>8. CASE BootstrapReader
  <2>1. \A f \in Flow : reader'[f] # "none" => f \in Enabled
    BY <1>0, <1>8 DEF BootstrapReader, TypeOK, WiredInv, BootstrapInOrder
  <2>2. \A f \in Flow : reader[f] # "none" => reader'[f] # "none"
    BY <1>0, <1>8 DEF BootstrapReader, TypeOK
  <2>3. \A f \in Flow : Wired(f)' = Wired(f)
    BY <1>8 DEF BootstrapReader, Wired
  <2>4. main' = "failed" \/ (main' = "bootstrap" /\ at' = at)
    BY <1>8 DEF BootstrapReader, Fail, mainVars
  <2> QED
    BY <1>0, <1>2, <1>8, <2>1, <2>2, <2>3, <2>4 DEF BootstrapReader, WiredInv, BootstrapInOrder
<1>9. CASE BootstrapRead
  <2>1. at \in Enabled /\ Registered(at) = at
    BY <1>3, <1>9 DEF BootstrapRead, WiredInv, BootstrapInOrder, KeysDiffer
  <2>2. CASE ctx
    <3>1. main' = "failed" /\ reader' = [reader EXCEPT ![at] = "closed"]
          /\ UNCHANGED <<ready, follow>>
      BY <1>9, <2>2 DEF BootstrapRead, Fail
    <3>2. \A f \in Flow : reader'[f] # "none" <=> reader[f] # "none"
      BY <1>0, <1>9, <3>1 DEF BootstrapRead, TypeOK
    <3> QED
      BY <1>0, <3>1, <3>2 DEF WiredInv, BootstrapInOrder
  <2>3. CASE ~ctx
    <3>1. /\ ready' = [ready EXCEPT ![at] = TRUE]
          /\ follow' = [follow EXCEPT ![at] = "polling"]
          /\ UNCHANGED <<main, at, reader, writer, wired>>
      BY <1>9, <2>1, <2>3 DEF BootstrapRead, mainVars
    <3>2. \A f \in Flow : (ready[f] => ready'[f]) /\ (f = at => ready'[f])
      BY <1>0, <3>1 DEF TypeOK
    <3>3. \A f \in Flow : follow'[f] # "none" => follow[f] # "none" \/ f = at
      BY <1>0, <3>1 DEF TypeOK
    <3>4. \A f \in Flow : Wired(f) => Wired(f)'
      BY <3>1, <3>2 DEF Wired
    <3> QED
      BY <1>0, <1>2, <1>9, <3>1, <3>2, <3>3, <3>4 DEF BootstrapRead, WiredInv, BootstrapInOrder
  <2> QED
    BY <2>2, <2>3
<1>10. CASE BootstrapWriter
  <2>1. at \in Enabled /\ Registered(at) = at /\ ready[at]
    BY <1>3, <1>10 DEF BootstrapWriter, WiredInv, BootstrapInOrder, KeysDiffer
  <2>2. CASE main' = "failed" /\ UNCHANGED <<writer, wired>>
    BY <1>4, <1>10, <2>2 DEF BootstrapWriter, Over, syncVars
  <2>3. CASE NextFlow("start") /\ writer' = [writer EXCEPT ![at] = "open"]
             /\ wired' = [wired EXCEPT ![at] = {at}]
    <3>1. wired'[at] = {at} /\ writer'[at] = "open"
      BY <1>0, <1>3, <2>3 DEF TypeOK
    <3>2. \A f \in Flow : f < at => wired'[f] = wired[f] /\ writer'[f] = writer[f]
      BY <1>0, <1>3, <2>3 DEF TypeOK, Flow
    <3>3. \A f \in Flow : f < at /\ Wired(f) => Wired(f)'
      BY <1>10, <3>2 DEF BootstrapWriter, Wired
    <3>4. \A f \in Flow : f = at => Wired(f)'
      BY <1>10, <2>1, <3>1 DEF BootstrapWriter, Wired
    <3> QED
      BY <1>5, <1>10, <2>3, <3>3, <3>4 DEF BootstrapWriter
  <2> QED
    BY <1>10, <2>1, <2>2, <2>3 DEF BootstrapWriter, Fail
<1>11. CASE StartComponent
  <2>1. main = "start" /\ main' \in {"start", "wait", "failed"}
    BY <1>0, <1>11, NextInPhasePlace DEF StartComponent, Fail, TypeOK
  <2> QED
    BY <1>4, <1>11, <2>1 DEF StartComponent, Over
<1>12. CASE EarlySignal \/ CancelContext \/ Shutdown
  BY <1>4, <1>12 DEF EarlySignal, CancelContext, Shutdown, mainVars, Over
<1>13. ASSUME NEW k \in Kinds, NEW f \in Flow, ComponentStep(k, f) \/ Settle(f)
       PROVE  BootstrapInOrder'
  BY <1>0, <1>4, <1>13, GoroutineEffect DEF Over
<1>14. CASE \E f \in Flow : FollowEnds(f)
  <2>1. \A f \in Flow : follow'[f] # "none" => follow[f] # "none"
    BY <1>0, <1>14 DEF FollowEnds, TypeOK
  <2>2. UNCHANGED <<main, at, reader, ready, writer, wired>>
    BY <1>14 DEF FollowEnds, mainVars
  <2>3. \A f \in Flow : Wired(f)' = Wired(f)
    BY <2>2 DEF Wired
  <2> QED
    BY <1>0, <1>2, <2>1, <2>2, <2>3 DEF WiredInv, BootstrapInOrder
<1>15. CASE StopSkip \/ StopClose
  <2>1. main = "stop" /\ main' \in {"stop", "closeReaders"} /\ UNCHANGED syncVars
    BY <1>0, <1>15, NextInPhasePlace DEF StopSkip, StopClose, TypeOK
  <2> QED
    BY <1>4, <2>1
<1>16. CASE StopCancel
  BY <1>4, <1>16 DEF StopCancel, mainVars
<1>17. CASE CloseReaders \/ CloseWriters \/ CloseLetters \/ CloseServer
  <2>1. \A f \in Flow : reader'[f] # "none" <=> reader[f] # "none"
    BY <1>17 DEF CloseReaders, CloseWriters, CloseLetters, CloseServer, Closed, syncVars
  <2> QED
    BY <1>0, <1>17, <2>1 DEF CloseReaders, CloseWriters, CloseLetters, CloseServer, syncVars,
                             WiredInv, BootstrapInOrder
<1>18. CASE UNCHANGED vars
  BY <1>4, <1>18 DEF vars, mainVars
<1> QED
  BY <1>6, <1>7, <1>8, <1>9, <1>10, <1>11, <1>12, <1>13, <1>14, <1>15, <1>16, <1>17, <1>18
  DEF Next, MainStep, Kinds

\* When no pair of clusters is named by two enabled entries, the Sources start
\* with a store that was read to the end and with the sync writer of their own
\* flow, and readyz is ok when all flows emit syncs.
THEOREM SourcesAreWired == OneFlowPerPair /\ Spec => []StartedIsWired
<1>1. OneFlowPerPair /\ Init => WiredInv
  <2> SUFFICES ASSUME OneFlowPerPair, Init PROVE WiredInv
    OBVIOUS
  <2>1. TypeOK
    BY InitType
  <2>2. BootstrapInOrder
    BY DEF Init, BootstrapInOrder, Over
  <2> QED
    BY <2>1, <2>2, KeysDifferInit DEF WiredInv
<1>2. WiredInv => StartedIsWired
  BY DEF WiredInv, BootstrapInOrder, KeysDiffer, StartedIsWired, Readyz, Emits, Wired, Enabled
<1> QED
  BY <1>1, <1>2, WiredStep, PTL DEF Spec
=============================================================================
