------------------------------- MODULE Source -------------------------------
(***************************************************************************)
(* The replicator of one flow (internal/mirror/source.go): a consumer that *)
(* polls the source cluster, a producer that copies every record to the    *)
(* target cluster asynchronously, the produce callback that retries, dead- *)
(* letters and counts failures, the periodic offset commit, and Stop.      *)
(*                                                                         *)
(* A record is named by <<p, o>>: source partition p, source offset o.     *)
(* The contents of a record play no part in any decision and are dropped.  *)
(*                                                                         *)
(* franz-go (the client library) is external.  What is used of it:         *)
(*   - records of one partition reach the broker, and their promises are   *)
(*     called, in the order they were handed to Produce;                   *)
(*   - a promise called with an error does not say whether the broker      *)
(*     wrote the record;                                                   *)
(*   - promises are called one at a time (SerialPromises = TRUE), so a     *)
(*     promise that blocks keeps every later promise of that client back.  *)
(*     SerialPromises = FALSE lets promises run concurrently, as the retry *)
(*     code assumes: every behaviour of TRUE and more.  It is for safety   *)
(*     properties only; whatever has to happen is checked with TRUE.       *)
(***************************************************************************)
EXTENDS Integers, Sequences, FiniteSets

CONSTANTS
    Partitions,      \* source partitions of the flow
    LogEnd,          \* records per source partition (offsets 0 .. LogEnd-1)
    MaxPoll,         \* records of a partition one poll returns at most
    CommitBatch,     \* cfg.OffsetCommitBatch
    SyncInterval,    \* cfg.OffsetSyncInterval
    MaxRetries,      \* retryCfg.MaxRetries (negative: the loop never runs)
    DLQEnabled,      \* cfg.DLQEnabled
    MetricLabels,    \* labels gomm2_records_replicated_total is declared with
    SerialPromises,  \* promises of a client run one at a time
    MaxStarts        \* bound: times a process is started

ASSUME SourceAssumption ==
    /\ IsFiniteSet(Partitions)
    /\ LogEnd \in Nat
    /\ MaxPoll \in Nat \ {0}
    /\ CommitBatch \in Nat \ {0}
    /\ SyncInterval \in Nat \ {0}
    /\ MaxRetries \in Int
    /\ DLQEnabled \in BOOLEAN
    /\ MetricLabels \in Nat
    /\ SerialPromises \in BOOLEAN
    /\ MaxStarts \in Nat

\* Both flushes pass source, target, topic and partition.
LabelsPassed == 4

Offsets == 0 .. LogEnd - 1
Records == Partitions \X Offsets
Syncs   == [part : Partitions, up : Offsets, down : Nat]
NoSync  == [part |-> "none"]

\* A record in the producer: its result is unknown ("sent") until the broker
\* or the client settles it; "at" is the target offset of a record acked.
Entries == [off : Offsets, retry : BOOLEAN,
            res : {"sent", "ok", "err"}, at : Nat]

VARIABLES
    \* --- the clusters, which survive the process
    committed,     \* committed[p]: committed offset of the consumer group
    target,        \* target[p]: source offsets in the order written to the target
    deadLetters,   \* records in the DLQ topic
    syncTopic,     \* offset syncs in the offset-syncs topic
    \* --- the process
    proc,          \* "down", "up", "panicked" or "stopped"
    starts,        \* times a process was started
    subscribed,    \* s.subscribedTopics
    loop,          \* where replicationLoop is
    position,      \* position[p]: next offset the consumer returns
    sinceCommit,   \* recordsSinceCommit
    counted,       \* localRecCounts is not empty
    cancelled,     \* the context of the loop is cancelled
    produceErrors, \* s.produceErrors
    inflight,      \* records whose callback has not called s.inflight.Done
    syncWrites,    \* syncs being written by a goroutine that holds s.inflight
    sinceSync,     \* recordsSinceSync % syncWriteInterval
    lastSync,      \* lastSync[p]: the sync last given to syncStore.HandleSync
    buffer,        \* buffer[p]: records in the producer, in produce order
    retrying,      \* retrying[r]: "no", "waiting" (for a promise) or "backoff"
    attempt,       \* attempt[r]: attempt number of Retry
    dlqPending,    \* records in the DLQ producer
    \* --- history
    gaveUp         \* records whose retries failed since they were last consumed

clusterVars == <<committed, target, deadLetters, syncTopic>>
loopVars    == <<loop, position, sinceCommit, counted>>
prodVars    == <<produceErrors, inflight, syncWrites, sinceSync, lastSync,
                 buffer, retrying, attempt, dlqPending, gaveUp>>
procVars    == <<proc, starts, subscribed, cancelled>>
vars        == <<clusterVars, procVars, loopVars, prodVars>>

\* Type invariant: committed offsets and positions stay within the log, the sync
\* counter below its interval, and queues hold entries of records.
TypeOK ==
    /\ committed \in [Partitions -> 0 .. LogEnd]
    /\ target \in [Partitions -> Seq(Offsets)]
    /\ deadLetters \subseteq Records
    /\ syncTopic \subseteq Syncs
    /\ proc \in {"down", "up", "panicked", "stopped"}
    /\ starts \in 0 .. MaxStarts
    /\ subscribed \subseteq Partitions
    /\ loop \in {"select", "poll", "flush", "drain", "commit", "exited"}
    /\ position \in [Partitions -> 0 .. LogEnd]
    /\ sinceCommit \in Nat
    /\ counted \in BOOLEAN
    /\ cancelled \in BOOLEAN
    /\ produceErrors \in Nat
    /\ inflight \subseteq Records
    /\ syncWrites \subseteq Syncs
    /\ sinceSync \in 0 .. SyncInterval - 1
    /\ lastSync \in [Partitions -> Syncs \cup {NoSync}]
    /\ buffer \in [Partitions -> Seq(Entries)]
    /\ retrying \in [Records -> {"no", "waiting", "backoff"}]
    /\ attempt \in [Records -> Nat]
    /\ dlqPending \subseteq Records
    /\ gaveUp \subseteq Records

Init ==
    /\ committed = [p \in Partitions |-> 0]
    /\ target = [p \in Partitions |-> <<>>]
    /\ deadLetters = {}
    /\ syncTopic = {}
    /\ proc = "down"
    /\ starts = 0
    /\ subscribed = {}
    /\ loop = "select"
    /\ position = committed
    /\ sinceCommit = 0
    /\ counted = FALSE
    /\ cancelled = FALSE
    /\ produceErrors = 0
    /\ inflight = {}
    /\ syncWrites = {}
    /\ sinceSync = 0
    /\ lastSync = [p \in Partitions |-> NoSync]
    /\ buffer = [p \in Partitions |-> <<>>]
    /\ retrying = [r \in Records |-> "no"]
    /\ attempt = [r \in Records |-> 0]
    /\ dlqPending = {}
    /\ gaveUp = {}

(***************************************************************************)
(* The life of the process.                                                *)
(***************************************************************************)

\* Where the consumer of a new process starts: at the group's committed offset,
\* at the start of the partition when the group has none.
ResumeOffset_Mutant == [p \in Partitions |-> 0]
ResumeOffset == committed

\* Start, in a new process: fresh memory, and a consumer at ResumeOffset.
Start ==
    /\ proc # "up"
    /\ starts < MaxStarts
    /\ proc' = "up"
    /\ starts' = starts + 1
    /\ subscribed' = {}
    /\ loop' = "select"
    /\ position' = ResumeOffset
    /\ sinceCommit' = 0
    /\ counted' = FALSE
    /\ cancelled' = FALSE
    /\ produceErrors' = 0
    /\ inflight' = {}
    /\ syncWrites' = {}
    /\ sinceSync' = 0
    /\ lastSync' = [p \in Partitions |-> NoSync]
    /\ buffer' = [p \in Partitions |-> <<>>]
    /\ retrying' = [r \in Records |-> "no"]
    /\ attempt' = [r \in Records |-> 0]
    /\ dlqPending' = {}
    /\ gaveUp' = {r \in gaveUp : r[2] < committed[r[1]]}
    /\ UNCHANGED clusterVars

\* The process is killed.
Crash ==
    /\ proc = "up"
    /\ proc' = "down"
    /\ UNCHANGED <<clusterVars, starts, subscribed, cancelled, loopVars, prodVars>>

\* UpdateTopics, called by topic discovery.  It waits for s.mu, which Stop holds.
UpdateTopics ==
    /\ proc = "up"
    /\ ~cancelled
    /\ \E new \in SUBSET (Partitions \ subscribed) :
         /\ new # {}
         /\ subscribed' = subscribed \cup new
    /\ UNCHANGED <<clusterVars, proc, starts, cancelled, loopVars, prodVars>>

(***************************************************************************)
(* replicationLoop.                                                        *)
(***************************************************************************)

\* WithLabelValues panics unless it gets as many values as there are labels.
FlushPanics == MetricLabels # LabelsPassed

\* The select at the top of the loop; on the way out the deferred flush runs.
Select ==
    /\ proc = "up"
    /\ loop = "select"
    /\ IF ~cancelled
       THEN /\ loop' = "poll"
            /\ UNCHANGED <<proc, counted>>
       ELSE IF counted /\ FlushPanics
            THEN /\ proc' = "panicked"
                 /\ UNCHANGED <<loop, counted>>
            ELSE /\ loop' = "exited"
                 /\ counted' = FALSE
                 /\ UNCHANGED proc
    /\ UNCHANGED <<clusterVars, starts, subscribed, cancelled,
                   position, sinceCommit, prodVars>>

\* A poll that returns no record: a timeout, fetch errors, a cancelled context.
PollNothing ==
    /\ proc = "up"
    /\ loop = "poll"
    /\ loop' = "select"
    /\ UNCHANGED <<clusterVars, procVars, position, sinceCommit, counted, prodVars>>

\* The records a poll that moves the consumer to next hands to the producer.
Polled(next) == {r \in Records : position[r[1]] <= r[2] /\ r[2] < next[r[1]]}

NewEntry(o, isRetry) == [off |-> o, retry |-> isRetry, res |-> "sent", at |-> 0]

\* What such a poll hands to the producer of partition p, in order.
Batch_Mutant(p, next) ==
    [i \in 1 .. next[p] - position[p] |-> NewEntry(next[p] - i, FALSE)]
Batch(p, next) ==
    [i \in 1 .. next[p] - position[p] |-> NewEntry(position[p] + i - 1, FALSE)]

\* A poll that returns records, all of them handed to the producer.
PollAndProduce ==
    /\ proc = "up"
    /\ loop = "poll"
    /\ \E next \in [Partitions -> 0 .. LogEnd] :
         /\ next # position
         /\ \A p \in Partitions :
              /\ next[p] \in position[p] .. position[p] + MaxPoll
              /\ p \notin subscribed => next[p] = position[p]
         /\ position' = next
         /\ inflight' = inflight \cup Polled(next)
         /\ buffer' = [p \in Partitions |-> buffer[p] \o Batch(p, next)]
         /\ sinceCommit' = sinceCommit + Cardinality(Polled(next))
    /\ counted' = TRUE
    /\ loop' = "flush"
    /\ UNCHANGED <<clusterVars, procVars, produceErrors, syncWrites, sinceSync,
                   lastSync, retrying, attempt, dlqPending, gaveUp>>

\* After a batch: the metric flush when its timer is due, then the test
\* whether a commit is due (by count, or by the commit timer).
FlushAndCheck ==
    /\ proc = "up"
    /\ loop = "flush"
    /\ \E flushDue \in BOOLEAN, timerDue \in BOOLEAN :
         IF flushDue /\ FlushPanics
         THEN /\ proc' = "panicked"
              /\ UNCHANGED <<loop, counted>>
         ELSE /\ counted' = (counted /\ ~flushDue)
              /\ loop' = IF sinceCommit >= CommitBatch \/ timerDue
                         THEN "drain" ELSE "select"
              /\ UNCHANGED proc
    /\ UNCHANGED <<clusterVars, starts, subscribed, cancelled,
                   position, sinceCommit, prodVars>>

\* s.inflight.Wait() returns.
Drained_Mutant == syncWrites = {}
Drained == inflight = {} /\ syncWrites = {}

\* The wait before a commit, and the swap that decides whether to commit.
DrainAndSwap ==
    /\ proc = "up"
    /\ loop = "drain"
    /\ Drained
    /\ produceErrors' = 0
    /\ loop' = IF produceErrors > 0 THEN "select" ELSE "commit"
    /\ UNCHANGED <<clusterVars, procVars, position, sinceCommit, counted, inflight,
                   syncWrites, sinceSync, lastSync, buffer, retrying, attempt,
                   dlqPending, gaveUp>>

\* CommitUncommittedOffsets covers everything polled.  When it returns an
\* error the broker may have stored the offsets all the same.
Commit ==
    /\ proc = "up"
    /\ loop = "commit"
    /\ loop' = "select"
    /\ \/ /\ committed' = position
          /\ sinceCommit' = 0
       \/ /\ committed' \in {committed, position}
          /\ UNCHANGED sinceCommit
    /\ UNCHANGED <<target, deadLetters, syncTopic, procVars, position, counted, prodVars>>

(***************************************************************************)
(* The producer and the target broker (external).                          *)
(***************************************************************************)

\* i is the oldest record of p in the producer that has no result yet.
Unsettled(p, i) ==
    /\ i \in DOMAIN buffer[p]
    /\ buffer[p][i].res = "sent"
    /\ \A j \in 1 .. i - 1 : buffer[p][j].res # "sent"

\* Entry i of a producer queue gets its result.
Settle(queue, i, res, at) == [queue EXCEPT ![i] = [@ EXCEPT !.res = res, !.at = at]]

\* The broker writes the record; its acknowledgement arrives, or is lost and
\* the client reports an error.
BrokerWrite(p, i) ==
    /\ Unsettled(p, i)
    /\ target' = [target EXCEPT ![p] = Append(@, buffer[p][i].off)]
    /\ \E res \in {"ok", "err"} :
         buffer' = [buffer EXCEPT ![p] = Settle(@, i, res, Len(target[p]))]

\* The record is not written: rejected, timed out or its context cancelled.
BrokerReject(p, i) ==
    /\ Unsettled(p, i)
    /\ buffer' = [buffer EXCEPT ![p] = Settle(@, i, "err", 0)]
    /\ UNCHANGED target

Broker ==
    /\ proc = "up"
    /\ \E p \in Partitions : \E i \in DOMAIN buffer[p] :
         BrokerWrite(p, i) \/ BrokerReject(p, i)
    /\ UNCHANGED <<committed, deadLetters, syncTopic, procVars, loopVars,
                   produceErrors, inflight, syncWrites, sinceSync, lastSync,
                   retrying, attempt, dlqPending, gaveUp>>

(***************************************************************************)
(* The produce callback, Retry and the DLQ.                                *)
(***************************************************************************)

\* A promise can be called: with serial promises, none is blocked in Retry.
PromiseFree == SerialPromises => \A r \in Records : retrying[r] = "no"

\* syncStore.HandleSync puts the sync it is given in slot 0, always.
HandleSync_Mutant(p, e) ==
    lastSync' = [lastSync EXCEPT ![p] = [part |-> p, up |-> e.off, down |-> e.at + 1]]
HandleSync(p, e) ==
    lastSync' = [lastSync EXCEPT ![p] = [part |-> p, up |-> e.off, down |-> e.at]]

\* Every SyncInterval-th acknowledged record has its sync written by a goroutine.
CountSync_Mutant(p, e) ==
    /\ sinceSync' = sinceSync + 1
    /\ syncWrites' = syncWrites \cup {[part |-> p, up |-> e.off, down |-> e.at]}
CountSync(p, e) ==
    IF sinceSync + 1 = SyncInterval
    THEN /\ sinceSync' = 0
         /\ syncWrites' = syncWrites \cup {[part |-> p, up |-> e.off, down |-> e.at]}
    ELSE /\ sinceSync' = sinceSync + 1
         /\ UNCHANGED syncWrites

\* Retry returned an error: count it, dead-letter the record, return.
GiveUp_Mutant(r) ==
    /\ produceErrors' = produceErrors + 1
    /\ gaveUp' = gaveUp \cup {r}
    /\ dlqPending' = IF DLQEnabled THEN dlqPending \cup {r} ELSE dlqPending
    /\ inflight' = inflight
    /\ retrying' = [retrying EXCEPT ![r] = "no"]
GiveUp(r) ==
    /\ produceErrors' = produceErrors + 1
    /\ gaveUp' = gaveUp \cup {r}
    /\ dlqPending' = IF DLQEnabled THEN dlqPending \cup {r} ELSE dlqPending
    /\ inflight' = inflight \ {r}
    /\ retrying' = [retrying EXCEPT ![r] = "no"]

\* The promise of a first attempt without an error.
Acked_Mutant(p) ==
    LET e == Head(buffer[p]) IN
    /\ ~e.retry /\ e.res = "ok"
    /\ buffer' = [buffer EXCEPT ![p] = Tail(@)]
    /\ HandleSync(p, e)
    /\ CountSync(p, e)
    /\ UNCHANGED <<produceErrors, inflight, retrying, attempt, dlqPending, gaveUp>>
Acked(p) ==
    LET e == Head(buffer[p]) IN
    /\ ~e.retry /\ e.res = "ok"
    /\ buffer' = [buffer EXCEPT ![p] = Tail(@)]
    /\ HandleSync(p, e)
    /\ CountSync(p, e)
    /\ inflight' = inflight \ {<<p, e.off>>}
    /\ UNCHANGED <<produceErrors, retrying, attempt, dlqPending, gaveUp>>

\* The promise of a first attempt with an error: Retry produces the record
\* again and blocks on its promise, unless it returns at once.
FirstFailed(p) ==
    LET e == Head(buffer[p])
        r == <<p, e.off>> IN
    /\ ~e.retry /\ e.res = "err"
    /\ IF cancelled \/ MaxRetries < 0
       THEN /\ buffer' = [buffer EXCEPT ![p] = Tail(@)]
            /\ GiveUp(r)
            /\ UNCHANGED attempt
       ELSE /\ buffer' = [buffer EXCEPT ![p] = Append(Tail(@), NewEntry(e.off, TRUE))]
            /\ retrying' = [retrying EXCEPT ![r] = "waiting"]
            /\ attempt' = [attempt EXCEPT ![r] = 0]
            /\ UNCHANGED <<produceErrors, gaveUp, dlqPending, inflight>>
    /\ UNCHANGED <<syncWrites, sinceSync, lastSync>>

\* The promise of a retry without an error: Retry returns nil.
RetryAcked(p) ==
    LET e == Head(buffer[p])
        r == <<p, e.off>> IN
    /\ e.retry /\ e.res = "ok"
    /\ buffer' = [buffer EXCEPT ![p] = Tail(@)]
    /\ HandleSync(p, e)
    /\ inflight' = inflight \ {r}
    /\ retrying' = [retrying EXCEPT ![r] = "no"]
    /\ UNCHANGED <<produceErrors, syncWrites, sinceSync, attempt, dlqPending, gaveUp>>

\* The promise of a retry with an error: the last attempt, or a backoff.
RetryFailed(p) ==
    LET e == Head(buffer[p])
        r == <<p, e.off>> IN
    /\ e.retry /\ e.res = "err"
    /\ buffer' = [buffer EXCEPT ![p] = Tail(@)]
    /\ IF attempt[r] >= MaxRetries
       THEN GiveUp(r)
       ELSE /\ retrying' = [retrying EXCEPT ![r] = "backoff"]
            /\ UNCHANGED <<produceErrors, gaveUp, dlqPending, inflight>>
    /\ UNCHANGED <<syncWrites, sinceSync, lastSync, attempt>>

Promise ==
    /\ proc = "up"
    /\ PromiseFree
    /\ \E p \in Partitions :
         /\ buffer[p] # <<>>
         /\ Acked(p) \/ FirstFailed(p) \/ RetryAcked(p) \/ RetryFailed(p)
    /\ UNCHANGED <<clusterVars, procVars, loopVars>>

\* The end of a backoff: give up when the context is cancelled, else try again.
Backoff ==
    /\ proc = "up"
    /\ \E r \in Records :
         /\ retrying[r] = "backoff"
         /\ IF cancelled
            THEN /\ GiveUp(r)
                 /\ UNCHANGED <<buffer, attempt>>
            ELSE /\ buffer' = [buffer EXCEPT ![r[1]] = Append(@, NewEntry(r[2], TRUE))]
                 /\ attempt' = [attempt EXCEPT ![r] = @ + 1]
                 /\ retrying' = [retrying EXCEPT ![r] = "waiting"]
                 /\ UNCHANGED <<produceErrors, gaveUp, dlqPending, inflight>>
    /\ UNCHANGED <<clusterVars, procVars, loopVars, syncWrites, sinceSync, lastSync>>

\* A goroutine that writes an offset sync ends; the write may have failed.
SyncWritten ==
    /\ proc = "up"
    /\ \E s \in syncWrites :
         /\ syncWrites' = syncWrites \ {s}
         /\ syncTopic' \in {syncTopic, syncTopic \cup {s}}
    /\ UNCHANGED <<committed, target, deadLetters, procVars, loopVars, produceErrors,
                   inflight, sinceSync, lastSync, buffer, retrying, attempt,
                   dlqPending, gaveUp>>

\* A record leaves the DLQ producer: written, or failed and only logged.
DLQProduced ==
    /\ proc = "up"
    /\ \E r \in dlqPending :
         /\ dlqPending' = dlqPending \ {r}
         /\ deadLetters' \in {deadLetters, deadLetters \cup {r}}
    /\ UNCHANGED <<committed, target, syncTopic, procVars, loopVars, produceErrors,
                   inflight, syncWrites, sinceSync, lastSync, buffer, retrying,
                   attempt, gaveUp>>

(***************************************************************************)
(* Stop.                                                                   *)
(***************************************************************************)

\* Stop takes s.mu and cancels the context.
StopBegin ==
    /\ proc = "up"
    /\ ~cancelled
    /\ cancelled' = TRUE
    /\ UNCHANGED <<clusterVars, proc, starts, subscribed, loopVars, prodVars>>

\* The loop has ended and nothing is in flight: the final commit, unless an
\* error is counted (it may fail), then the clients and the DLQ are closed.
StopEnd ==
    /\ proc = "up"
    /\ cancelled
    /\ loop = "exited"
    /\ Drained
    /\ committed' \in IF produceErrors = 0 THEN {committed, position} ELSE {committed}
    /\ dlqPending' = {}
    /\ proc' = "stopped"
    /\ UNCHANGED <<target, deadLetters, syncTopic, starts, subscribed, cancelled, loopVars,
                   produceErrors, inflight, syncWrites, sinceSync, lastSync, buffer,
                   retrying, attempt, gaveUp>>

Next ==
    \/ Start \/ Crash \/ UpdateTopics
    \/ Select \/ PollNothing \/ PollAndProduce \/ FlushAndCheck
    \/ DrainAndSwap \/ Commit
    \/ Broker \/ Promise \/ Backoff \/ SyncWritten \/ DLQProduced
    \/ StopBegin \/ StopEnd

Spec == Init /\ [][Next]_vars

\* The goroutines of a live process keep running, a record given to the producer
\* is settled (acknowledged or failed by its delivery timeout), every timer fires.
\* Polls that find records available again and again return some (strong: a
\* poll may come back empty any number of times).  Nothing says that the process
\* is started or stopped, or that a commit or a write succeeds.
Fairness ==
    /\ WF_vars(Select) /\ WF_vars(FlushAndCheck) /\ WF_vars(DrainAndSwap)
    /\ WF_vars(Commit) /\ WF_vars(PollNothing) /\ SF_vars(PollAndProduce)
    /\ WF_vars(Broker) /\ WF_vars(Promise) /\ WF_vars(Backoff)
    /\ WF_vars(SyncWritten) /\ WF_vars(UpdateTopics) /\ WF_vars(StopEnd)

FairSpec == Spec /\ Fairness

(***************************************************************************)
(* Properties.                                                             *)
(***************************************************************************)

\* Source record <<p, o>> has a copy on the target.
OnTarget(p, o) == \E i \in DOMAIN target[p] : target[p][i] = o

\* replicationLoop and Stop commit only after inflight.Wait(): whatever crashes,
\* lost acknowledgements and retries come in between, an offset below the
\* committed one was copied to the target or given up by Retry - it is never
\* merely in flight.
CommittedIsSettled ==
    \A p \in Partitions : \A o \in 0 .. committed[p] - 1 :
        OnTarget(p, o) \/ <<p, o>> \in gaveUp

\* The records that a promise or a backoff will still call inflight.Done for.
Owed ==
    (UNION {{<<p, buffer[p][i].off>> : i \in DOMAIN buffer[p]} : p \in Partitions})
        \cup {r \in Records : retrying[r] = "backoff"}

\* s.inflight counts exactly the records that are owed a Done, and no record is
\* owed two (the WaitGroup would panic on the second, or let a drain pass early).
InflightIsExact ==
    proc = "up" =>
        /\ inflight = Owed
        /\ \A p \in Partitions : \A i, j \in DOMAIN buffer[p] :
             /\ buffer[p][i].off = buffer[p][j].off => i = j
             /\ retrying[<<p, buffer[p][i].off>>] =
                    IF buffer[p][i].retry THEN "waiting" ELSE "no"

\* Every offset sync the callback gives to the sync store or has written to the
\* offset-syncs topic names a copy of exactly that source record: retries,
\* duplicates and restarts never pair an upstream offset with another's copy.
SyncsPointAtCopies ==
    \A s \in syncTopic \cup syncWrites \cup {lastSync[p] : p \in Partitions} :
        s # NoSync => /\ s.down + 1 \in DOMAIN target[s.part]
                      /\ target[s.part][s.down + 1] = s.up

\* The committed offset of the group never moves back: not by a commit whose
\* answer was lost, nor by the final commit of Stop, nor after a restart.
CommitsAdvance ==
    [][\A p \in Partitions : committed'[p] >= committed[p]]_vars

\* Order on the target, as far as the callbacks keep it: in a process that starts
\* on an empty target, a record overtakes another of its partition only when the
\* other one failed and Retry is producing it again (source.go:404).
ReorderedOnlyByRetries ==
    [][\A p \in Partitions :
         LET o == target'[p][Len(target'[p])] IN
         /\ starts = 1 /\ Len(target'[p]) > Len(target[p])
         /\ ~OnTarget(p, o)
         /\ \E i \in DOMAIN target[p] : target[p][i] > o
         => retrying[<<p, o>>] = "waiting"]_vars

\* The refinement: copied are the records with a copy on the target.
Abstract == INSTANCE Mirror WITH
    copied <- {r \in Records : OnTarget(r[1], r[2])},
    givenUp <- gaveUp

\* The replicator implements the abstract mirror: each of its steps copies or
\* gives up a record, advances the committed offsets over settled records,
\* restarts, or changes none of these.
ImplementsMirror == Abstract!Spec

\* What README.md:52 ("at-least-once delivery") and the comment at
\* source.go:494-496 promise: a record that failed is not committed over, it is
\* consumed again after a restart.
AtLeastOnce ==
    \A p \in Partitions : \A o \in 0 .. committed[p] - 1 : OnTarget(p, o)

\* What README.md:52 ("preserves message ordering") promises: the first copies
\* of two records of a partition are in source order.
OrderPreserved ==
    \A p \in Partitions : \A j \in DOMAIN target[p] : \A i \in 1 .. j - 1 :
        target[p][j] < target[p][i] => \E k \in 1 .. i - 1 : target[p][k] = target[p][j]

\* The metric flushes of replicationLoop do not bring the process down.
NoPanic == proc # "panicked"

\* What REVIEW-REPORT.md:150 says of Stop: it waits for what is in flight and
\* returns, unless the process dies first.
StopCompletes == cancelled ~> proc # "up"

\* A callback has called Retry and waits for the promise of the second attempt.
WaitsInRetry == \E r \in Records : retrying[r] = "waiting"

\* Stop cancels the loop, waits for it and for the callbacks, commits and returns.
\* The wait of a callback in Retry (source.go:403-417) is the only thing that can
\* hold it for good: neither the loop's own drain, nor a sync writer, a dead letter
\* or a callback with an error does.
OnlyRetryHoldsStop == <>[](proc = "up" /\ cancelled) => <>[]WaitsInRetry

\* A process that is neither stopped nor killed copies or gives up every record,
\* unless a callback waits in Retry for good: the drains and commits between the
\* polls never hold the loop by themselves.
OnlyRetryHoldsRecords ==
    <>[](proc = "up" /\ ~cancelled)
        => \/ <>(\A r \in Records : OnTarget(r[1], r[2]) \/ r \in gaveUp)
           \/ <>[]WaitsInRetry
=============================================================================
