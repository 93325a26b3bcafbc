# TLA+ models of gomm2

gomm2 mirrors topics from one Kafka cluster to another. These modules model its
concurrent core: the replicator, the parallel catch-up and its ring buffer, the
offset-sync machinery and the checkpoints made from it, the circuit breaker, topic
discovery, and the life of the whole process from its configuration to its exit. TLC
checks them on small instances; TLAPS proves the safety properties of all of them for
every instance. `PROJECT.json` names, for each definition, the source lines it stands
for.

## Inventory

| Component | State | Operations | Talks to | What is hard | What makes it correct |
|---|---|---|---|---|---|
| Source (`mirror/source.go`) | consumer position, error counter, in-flight WaitGroup, batch counters | Start, poll and produce, produce callback, drain, commit, UpdateTopics, Stop | source and target clusters, Retry, DLQ, SyncStore, SyncWriter, TopicDiscovery | asynchronous callbacks, retries from callbacks, crash between copy and commit, Stop against the loop | nothing is committed that is still in flight; commits advance; syncs name true copies; Stop ends unless a callback is stuck in Retry |
| Retry, CircuitBreaker (`mirror/retry.go`) | attempt; state, failures, successes, last failure | Retry, Allow, RecordSuccess, RecordFailure, Reset, State | callers | results that arrive in a later state than their call | counters agree with the state; open ends |
| OrderedRingBuffer (`mirror/ring_buffer.go`) | slots, drain offset, closed, condition variable | Put, DrainBatch, Close, CloseWithError | fetchers, drainer | lock-free fast path, broadcasts without the mutex, shared slots | records leave in order and none is lost as long as no fetcher runs a turn ahead of the drainer; nobody asleep for good |
| ParallelSource (`mirror/parallel_source.go`) | segments, in-flight count, failure flag | fetch workers, drainer, completion | RingBuffer, both clusters | fetcher failure, cancellation, a log with gaps | a normal end means the whole range was handed on, under the same condition |
| DLQ (`mirror/dlq.go`) | producer, closed | Send, Close | target cluster | fire and forget | a dead letter is sent before its record counts as handled |
| SyncStore (`offset/sync_store.go`) | 64 syncs per partition, readToEnd | HandleSync, MarkReadToEnd, TranslateDownstream | Source, SyncReader, Checkpoint | replays, rewinds, overflow of the spacing bound | spacing invariants; a translation skips no record |
| SyncReader, SyncWriter (`offset/sync_*.go`) | position in the offset-syncs topic | ReadToEnd, Follow, Write | SyncStore, source cluster | writers that overtake each other, a read that times out | as above, across restarts |
| TopicDiscovery (`mirror/topic_discovery.go`) | two topic lists | refresh | both clusters, Source | stale lists, admin calls that fail half done | every replicable topic is mirrored, nothing is mirrored back |
| Engine (`mirror/engine.go`), command (`cmd/gomm2`) | components by flow, sync stores and Sources by key, readers, writers, DLQs | NewEngine, Run (bootstrap, catch-up, start), readyz, Shutdown | everything | several flows over the same clusters, restarts, signals and failures half way through the start-up, the order of the shutdown | phases agree on what is to be replicated; each Source is wired to its own flow; components use open clients only; a shutdown ends unless a Source does not |
| Policy, filter (`policy/`, `filter/`) | none | naming and selection rules | TopicDiscovery, Engine | prefixes that accumulate | cycles are recognised |
| Admin client (`admin/`) | none | create, enlarge, list, sync configs | both clusters | partial failure | the target follows the source |
| Checkpoint (`mirror/checkpoint.go`) | none but its clients; what it emits outlives the process | Start, emitCheckpoints, Stop | SyncStore, both clusters | a store that is rewound or shared, checkpoints used long after they were made | a group that fails over misses nothing |
| Heartbeat (`mirror/heartbeat.go`) | none but its client | Start, emitHeartbeat, Stop | target cluster | Stop against a ticker | as for the engine |
| Configuration (`config/`) | the parsed file | Parse (defaults), Validate | main, engine | values Validate lets through | a valid file can be run |
| Metrics, client options, record types | none that another component reads | - | - | - | - |

The engine starts one Source, one discovery, one heartbeat and one checkpoint
emitter per flow. Discovery tells the Source what to subscribe to
(`UpdateTopics`); the Source's produce callback feeds the sync store directly and
the offset-syncs topic through writer goroutines; the reader fills the store from
that topic at start-up and goes on following it; the checkpoint emitter translates
group offsets with the store. The catch-up runs before the Sources start.

## Modules

| Module | Models |
|---|---|
| `Source` | one flow's replicator, its produce callback and retries, DLQ, sync writers, commits, Stop, crash and restart |
| `Mirror` | the abstract specification: records are copied or given up, committed offsets advance over those only |
| `SourceProofs` | types, commits of `Source`, with proofs |
| `ProducerProofs` | in-flight records, syncs, order of `Source`, and its refinement of `Mirror`, with proofs |
| `RingBuffer` | Put, DrainBatch, Close; one step per atomic operation, lock, wait or broadcast |
| `CatchUp` | the catch-up of one partition: fetchers, drainer, callbacks and closer over `RingBuffer` |
| `CatchUpProofs` | order and completeness of the catch-up, with proofs |
| `SyncStore` | the array of syncs as pure operators: HandleSync, TranslateDownstream |
| `SyncStoreProofs` | lemmas about these operators |
| `OffsetSync` | stores, writers and readers of the flows out of one cluster over the topic they share, composed with reduced Sources, across restarts |
| `Checkpoint` | the checkpoint emitters on top of `OffsetSync` |
| `CheckpointProofs` | invariants of the stores, safety of translations and of failover, with proofs |
| `CircuitBreaker` | the breaker and the goroutines in RetryWithCircuitBreaker |
| `CircuitBreakerProofs` | its counters, with proofs |
| `Policy` | topic names, cycle detection, filters |
| `Topology` | the engine's start-up and the discoveries of all flows over the topics of the clusters |
| `TopologyProofs` | no echo, partition counts, with proofs |
| `Config` | defaults and validation of a configuration file, as pure operators |
| `Engine` | main, NewEngine, Run, readyz and Shutdown over the loops of all components, signals and cancellation |
| `EngineProofs` | shutdown, exit and wiring, with proofs |
| `MCSource`, `MCCatchUp`, `MCTopology`, `MCEngine` | definitions for TLC: symmetry, logs, flows, files |

Operators named `..._Mutant` are faulty variants of the definition that follows
them. No specification uses them; they show that a property notices the fault.

### How the models correspond to the code

**Source.** A record is the pair of its partition and its offset. `loop` is where
`replicationLoop` is: at the select, in PollFetches, in the metrics flush, in
`inflight.Wait`, in the commit. A poll and the Produce calls for its records are
one step, because a callback that runs between two Produce calls of a batch
commutes with the rest of them. `buffer[p]` is the producer's queue for a
partition; `Broker` settles entries in order (written; failed but written; failed),
`Promise` runs the callback of the head of a queue. Retry in the callback is the
entry's second life: the record is appended again, the callback waits for that
promise (`retrying = "waiting"`) or sleeps between attempts (`"backoff"`).
`inflight` is the WaitGroup as the set of records that hold it. `gaveUp` is a
history variable: records whose retries failed, kept until they are consumed again.
Two constants describe what the code is run with. `SerialPromises`: franz-go calls
the promises of a client one at a time. `MetricLabels`: the labels the counters are
declared with, 3 in the code, where 4 values are passed, so that a flush after a
poll panics. A panic leaves the clusters as a crash does, so 3 labels only cut
behaviours short: `source_safety` and `source_live` set 4 to see past the panic, and
show their properties of more behaviours than the program has. `source_safety` takes
promises that need not be serial for the same reason. Whatever is shown to go wrong
(`source_loss`, `source_hang`, `Source_panic.cfg`) uses the code's 3, and the proofs
hold for any number and for both kinds of promises.

**RingBuffer and CatchUp.** `putPc` and `drainPc` are the program counters of Put
and DrainBatch; `tickets` is the condition variable's list of waiters: Wait takes a
ticket and releases the mutex in one step, a broadcast empties the list, and a
woken goroutine takes the mutex again. Loads, stores and compare-and-swaps are
steps of their own, so that every interleaving of the lock-free path is covered.
The offset put into a slot is the record. Put does not compare its offset with the
drainer's, so a fetcher may run a turn of the ring or more ahead of the drainer and
write the slot of an earlier offset; the engine's catch-up has at least two workers and
a range larger than the ring, so this happens in the configurations that are run.
`clobbered` is a history variable: the offsets within a turn of the drainer whose slot
was written for another record. The properties of the order and of completeness speak
of the offsets before the first of these.

**SyncStore.** `Width` stands for 64: the array has `Width` slots and arithmetic
wraps at `Width` bits, so that overflow of the bound is reached with small numbers.
DESIGN.md states invariant C without the case that two slots hold the same sync,
which is the normal case of a fresh array; `InvariantC` adds that case.

**OffsetSync and Checkpoint.** The flows out of one source cluster, each to its own
target, over one partition. Every flow has its store, reader, Source and target; the
offset-syncs topic is one, as `engine.go:353` names it after the source alone. The
Source is reduced to copying in order, committing once the writers are done, and
copying again from the committed offset after a restart. `MarkReadToEnd` may skip
records: ReadToEnd drops those of the poll that meets its deadline. `ReadSync` is
the loop of ReadToEnd before it and of Follow after it. The topic is compacted and all
syncs of a partition have one key, so `SkipCompacted` lets a reader miss any sync but
the last. A consumer group may have
committed any offset when the emitter fetches it, and may commit another before the
emitter translates: `EmitCheckpoint` therefore takes any offset, and no variable
keeps the group's. A checkpoint is in its topic at once; the delay of its produce is
not modelled. `MissesNothing` says what a failover needs: each record from the
group's offset on has a copy at or after the translated offset, or is still to come.

**Config and Engine.** `Parse` fills in the defaults of an entry and `Validate` tests
it; of an interval only its sign is kept, of a list of regular expressions whether
they compile. `main` is where the main goroutine is; `phase` and `at` are its place
in the loops of Run and Shutdown over components and flows. Each of the four
components of a flow has its `running` field, the context Stop cancels, and a loop
goroutine that is starting, in the first refresh of a discovery, idle in its select,
busy in a round, or ended. What a round does is in the other modules. A Source may
leave produces in flight after a round. `Registered(f)` is the flow that owns the
entry for f's key in the engine's maps. A step that creates a client may fail, and
then Run returns an error and main exits. Before `signal.Notify` a signal kills the
process; afterwards it starts Shutdown. The end of Shutdown is four steps: readers,
writers and dead letter queues are closed, then the HTTP server, and Run returns. main never cancels the context of Run, but
Run is written for callers that do, and so `MayCancel` is a constant. The catch-up
phase and what the bootstrap creates on the clusters are in `Topology`.

**CircuitBreaker.** A method is one step (it holds the mutex); the protected
function runs between Admitted and Succeeded or Failed. No caller in the repository
uses RetryWithCircuitBreaker yet: both sources create a breaker and call Retry.

**Policy and Topology.** A topic name is the sequence of its parts between separators;
`Identity` chooses IdentityPolicy, which keeps names and so cannot tell a mirror;
`Mm2Words` are the parts that begin with mm2, which internal topics are told by. A
topic is its partition count, one config bit and the set of clusters its records
were written on. Discovery lists the source, lists the target, then works through
the topics; owners add partitions and change configs in between. A call that
reports an error may have taken effect. Topics are taken in one fixed order, as
in the code, which sorts them. `EnsurePartitions` adds the count it is given,
because kadm's `CreatePartitions(ctx, add, topics...)` does.

## Runs

Passing runs:

| Run | Shows | Distinct states |
|---|---|---|
| `source_safety` | two processes in a row, one partition, two records: an offset below the committed one is copied or given up; the in-flight count is exact; syncs name copies of their own record; commits advance; a record overtakes another only while that one is retried; `Source` implements `Mirror` | 2.24 million |
| `source_live` | two partitions, a dead letter queue, serial promises: a Stop that does not return, and a record that stays unsettled in a process left alone, wait for a callback that waits in Retry, and for nothing else | 211,073 |
| `catchup` | ring of 3, range of 5, two fetchers: the records of the range are handed on in order, and all of them at a normal end, up to the first offset whose slot a fetcher a turn ahead has written | 2.07 million |
| `checkpoint` | one flow: invariants B and C of DESIGN.md hold; no translated offset, and no checkpoint emitted before any number of copies and restarts, skips a record, the offset-syncs topic being compacted at any time | 3.58 million |
| `engine` | nine files, two flows: every Source that emits syncs has its own writer and a store that was read; no component and no callback uses a closed client; after a return of Run each component has ended and each client the engine keeps is closed; a shutdown that does not end waits for a round or a produce of a Source | 156,460 |
| `breaker` | counters agree with the state; an open breaker ends | 13,826 |
| `topology` | two flows in opposite directions, no catch-up traffic: nothing is mirrored back, and topics and partitions converge in spite of failing calls | 100,340 |

Runs that end in a counterexample, each against a sentence of the repository
(quoted under "findings" in `PROJECT.json`):

| Run | What happens |
|---|---|
| `source_loss` | max_retries is negative, so Retry returns at once; a record fails, the batch that sees it swaps the error counter to zero and skips its commit, and the commit of the next batch covers the failed record |
| `source_hang` | the callback of a failed record waits in Retry for a promise of its own client, which is called only after that callback returns; Stop never returns |
| `catchup_alias` | with a ring smaller than the range the second fetcher fills the slot of an offset of the first, and its record is handed on first |
| `checkpoint_fanout` | two flows out of one cluster: the reader of the second feeds its store a sync of the first, whose offset belongs to another target; the second's checkpoint points past a record |
| `topology_echo` | phase 2 copies a mirror back to its origin, one prefix deeper |

### Further configurations

These are kept beside the runs, to be started by hand (`tlc -config <file> <module>`).
`Source_asis.cfg` (37,662 states) passes, the core of `source_safety` with two
partitions, dead letters, serial promises and the label count of the code, and so does
`Topology_identity.cfg` (2,692 states), one flow with IdentityPolicy. The others end in
a counterexample:

| Configuration, module | What happens | Said otherwise at |
|---|---|---|
| `Source_order.cfg`, `MCSource` | the first of two records is rejected, the second is written, the retry of the first lands after it | README.md:52 "preserves message ordering" |
| `Source_panic.cfg`, `MCSource` | the first flush of the metrics panics: source.go:475 passes four label values to counters metrics.go:35-46 declares with three | README.md:119 |
| `CatchUp_asleep.cfg`, `MCCatchUp` | Close (or a Put on the fast path) broadcasts between a waiter's test and its Wait | ring_buffer.go:175 "Close signals all waiters to stop" |
| `CatchUp_cancel.cfg`, `MCCatchUp` | after a cancellation the drainer leaves and a fetcher sleeps in Put for ever | ring_buffer.go:81 "Returns false if the buffer is closed or context is cancelled" |
| `CatchUp_gap.cfg`, `MCCatchUp` | an offset is missing in the log; at Close the drainer ends at the gap, and the catch-up ends normally without the records behind it | PERF-NOTES.md:206-210, Completeness |
| `Checkpoint_latest.cfg`, `Checkpoint` | Follow hands the store a sync the process wrote itself, after a newer one: the store is rewound | DESIGN.md:86 "syncs[0] is always the latest" |
| `Engine_twice.cfg`, `MCEngine` | two entries for the same clusters have one key; the first Source gets no writer and its store is never read | engine.go:329-330 "each flow's SyncWriter is wired to the corresponding Source" |
| `Engine_valid.cfg`, `MCEngine` | a file Validate accepts is refused by NewEngine (an unknown policy) or panics in a ticker (a negative interval) | main.go:67 "configuration is valid" |
| `Engine_ready.cfg`, `MCEngine` | a flow with emit_offset_syncs = false keeps readyz at 503 for good | README.md:129, deploy/kubernetes/deployment.yaml:76 |
| `Engine_follow.cfg`, `MCEngine` | after a signal Follow goes on polling the consumer that Shutdown has closed, until the process exits | sync_reader.go:117 "It returns when the context is cancelled" |
| `CircuitBreaker_probe.cfg`, `CircuitBreaker` | two callers pass the half-open breaker | retry.go:94 "a single probe is allowed" |
| `CircuitBreaker_stale.cfg`, `CircuitBreaker` | a success from before the trip counts as a probe | retry.go:122 |
| `Topology_filter.cfg`, `MCTopology` | phase 2 copies a blacklisted topic | filter/topic.go:16 "Blacklist takes precedence" |
| `Topology_partitions.cfg`, `MCTopology` | a mirror with 1 partition of a topic with 2 is given 2 more | topic_discovery.go:182 "ensure partition count matches" |
| `Topology_configs.cfg`, `MCTopology` | an override is synced, unset on the source, and stays on the mirror | topic_sync.go:18-19 "bring the target in line with the source" |

### Bounds

The proofs do away with these bounds for the safety properties; for liveness and for
the counterexamples they are what was explored.

- `Source`: two records and one or two partitions are enough for a record to be
  overtaken by its successor, for a batch to be half acknowledged and for a commit
  to cover part of the log. Two starts let a second process resume from each
  commit the first can leave. One retry gives every path of Retry: succeed at once,
  at the second attempt, give up, be cancelled before, between and after; `source_loss`
  takes -1, which configuration files may hold. Two partitions in `source_live` let the
  callback of one block the records of the other.
- `CatchUp`: five offsets in two segments and a ring of 3 make the fetchers share
  slots, with each other and from one turn of the ring to the next; batches of up to 2
  leave a batch cut short by an empty slot. The proportions are the engine's: a ring of
  16384 and a range above 100000. Both fetchers may fail and the context may be
  cancelled at any moment.
- `Checkpoint`: with 4 bits the bound of the highest slot overflows; four records
  and five target offsets leave room to copy again, rewind and replay after a
  restart, in every order of the writers, and for a checkpoint that is older than
  the restart. `checkpoint_fanout` needs no more than two records.
- `Engine`: two flows are the least that can be confused. Of the nine files one has
  a flow with all components, two have two flows, with and without syncs and dead
  letters, two have a negative interval, and three are refused. Both flows with all
  eight components add interleavings of loops that share nothing.
- `CircuitBreaker`: three callers give two late results besides a probe.
- `Topology`: names are followed through two mirrors, the first echo; further hops
  repeat it. MaxParts = 2 lets a topic grow once.

Deadlock checking is off for `Source`, `CatchUp` and `Engine`, whose processes end.

### Fairness

- `Source`: weak fairness for every step of the loop, the callback, backoff, the
  sync writers and Stop: goroutines that are runnable run. Weak fairness for
  `Broker`: franz-go settles every record, by an answer or by its delivery timeout.
  Strong fairness for `PollAndProduce`: a poll may come back empty any number of
  times, but not for ever while there are records. None for `Crash`, `StopBegin`.
- `Engine`: the main goroutine goes on; of the component Stop waits for, the goroutine
  begins, a round of topic discovery or of an emitter ends, because its calls take the
  context Stop has cancelled (weak fairness), and a select that finds the context
  cancelled again and again chooses that branch in the end (strong fairness: Go chooses
  at random among ready cases, and a tick may be ready each time). None for a round of
  the Source or for its produces, which need not end (`source_hang`), nor for signals,
  cancellations and new rounds. `OnlySourcesHoldShutdown` says that this is the one
  place where a shutdown can stay.
- `CircuitBreaker`: time passes, protected functions return, callers keep calling.
- `Topology`: the ticker of discovery fires again and again (weak fairness for its
  steps), and a call that is tried infinitely often succeeds at last (strong
  fairness for `ListTarget` and for each topic's successful `RefreshTopic`).
  None for the owners, `StartEngine` and `Down`; `Converges` is about an engine that
  stays up.

With the client's serial promises neither "Stop returns" nor "each record is settled" is
true of the code: `source_hang` is the counterexample. `source_live` therefore shows, with
the same promises, that the wait in Retry is the only cause.

## Proofs

TLAPS proves every safety property of the passing runs, invariants, action properties
and the refinement, for every value of the constants. Each proof module states its
inductive invariant at its head, and has one lemma per action and one step per
conjunct the action can disturb. The assumptions are those of the modules
(`SourceAssumption`, `CatchUpAssumption`, ...): which constants are numbers, which are
positive, that a flow joins two different clusters. Some results have a further
hypothesis, because the code does not have the property otherwise (the theorems on the
catch-up have none: their properties name the exceptions):

| Hypothesis | Theorems | Shown to be needed by |
|---|---|---|
| `OneFlow`: one flow out of a source cluster | `TranslationIsSafe`, `FailoverIsSafe` | run `checkpoint_fanout` |
| `OneFlowPerPair`: no two enabled entries for the same clusters | `SourcesAreWired` | `Engine_twice.cfg` |
| `~HighLag`: the catch-up copies nothing | `NothingComesHome` | run `topology_echo` |

The two theorems on `Topology` also take the default policy (`~Identity`):
IdentityPolicy keeps no origin in a name, and replication.go:93 warns of its cycles.

### Replicator: `SourceProofs`, `ProducerProofs`

`TypeCorrect`, `CommitsAreSettled` (`CommittedIsSettled`), `CommitsOnlyAdvance`
(`CommitsAdvance`). `CommittedIsSettled` is not inductive: a commit jumps to the
consumer's position, and nothing in the property says what lies below that. The
inductive invariant `SettledInv` adds

- `NeverBehind`: the position is at or after the committed offset, so a commit
  never moves back (this is `CommitsAdvance`);
- `ConsumedIsHandled`: each record below the position is copied, given up or in
  flight;
- `AckedIsCopied`: a queue entry settled as written has a copy on the target, so
  that removing a record from `inflight` on success leaves it copied;
- `QuietAtCommit`: when the loop is about to commit nothing is in flight, since
  `inflight.Wait` has returned and only the loop itself adds to it.

At a commit the last two leave "copied or given up" for everything below the
position.

`InflightExact` (`InflightIsExact`) rests on `ProducerInv`: each queue is orderly (a
record is in it once, below the position, a first attempt behind the first attempts
before it, a retry only of a record whose callback waits), and `inflight` is what the
queues hold and what backs off. Without the order a record could be polled that is
counted already.

`SyncsAreTrue` (`SyncsPointAtCopies`) needs that an acknowledgement carries the offset
of the copy it is about (`AckedAtCopy`), and that the target only grows.

`RefinesMirror` (`ImplementsMirror`): `Mirror` lets a record be given up only while it
is not committed. So the invariant `MirrorInv` joins `SettledInv` and `ProducerInv`
with `InflightUncommitted`: what is in flight is not committed. Each action then maps to
one abstract step or to a stutter.

`OnlyRetriesReorder` (`ReorderedOnlyByRetries`): in the first process the first attempts
the broker has not settled are ahead of everything on the target (`FirstsAhead`).

### Catch-up: `CatchUpProofs`

`CatchUpTypeCorrect`, `OrderIsKept` (`DrainsPrefix`), `CatchUpIsComplete`
(`CompleteAtEnd`), at the grain of single atomic operations, for any range, log, ring and
number of fetchers: nothing is assumed of who shares a slot. The proofs say what running a turn
ahead of the drainer can do and what it cannot. As long as the drainer has passed no
clobbered offset (`Sound`) the ring works as it should for the slots that are not lost
(`Lost`), and that is all the properties need. `OrderInv` has three parts:

- `PlaceInv`, which holds always: where each goroutine is (`FetchersPlaced`,
  `DrainerPlaced`), why the ring is closed (`ClosedWhy`), that nobody is woken who does
  not sleep (`TicketsAsleep`), and that what is clobbered is less than a turn ahead
  of the drainer (`LossIsNear`);
- `SlotInv`, while `Sound`, for slots that are not lost. `SlotsHold`: a filled slot holds
  a record that was put, less than one turn ahead of the drainer; `PutsKept`: a
  record put and not yet drained is in its slot; together they say that the slot the
  drainer looks at holds the next offset or nothing. `SlotFree`: a fetcher between its
  test and its store finds the slot empty, although it holds no lock on the fast path:
  another fetcher that filled it would be a turn apart, and one of the two would have
  clobbered it. `TakesNext`: the record the drainer has read is the next one;
- `InOrder`: what was handed on and what is in the batch is in order up to the first
  clobbered offset.

`EndInv` adds that a fetcher that is done has put its segment (`FetchersEnd`), that the
drainer takes no empty batch from an open ring (`BatchNotEmpty`) and leaves only when
the range is drained up to a gap or a clobbered offset (`DrainerEnds`). The lemmas on
slots and on the segments (they are ordered, apart and cover the range) come
first. `EndInv` was checked with TLC on the instance of run `catchup` before.

### Offset syncs and checkpoints: `SyncStoreProofs`, `CheckpointProofs`

`SyncStoreProofs` has the lemmas on the operators: powers of two (the prover does not
know that 2^(n+1) is twice 2^n, so it is derived from the number of subsets of an
interval), the wrap-around of a bound, what `HandleSync` keeps and fills, that it preserves B and C, what `TranslateDownstream`
returns. `CheckpointProofs` lifts them to the system: `CheckpointTypeCorrect`,
`SlotsStayNear` (`InvariantB`), `SlotsStayApart` (`InvariantC`), for arrays of any width.

`TranslationIsSafe` and `FailoverIsSafe` say that a group misses nothing. That holds of
a translation only because of the syncs it is made of, so `FailoverInv` says it of every
sync wherever it is: in a store, with a writer, in the topic, for the record it names
and for the one after (`SoundSync`). The heart is `MissesNothingStays`: an offset from
which nothing is missed remains one, since copies are only added and a Source that
starts again copies again. Hence neither the order of the writers, nor rewinds, nor
compaction, nor the age of a checkpoint matters.

### Engine: `EngineProofs`

`EngineTypeCorrect`, `ShutdownIsSafe` (`ComponentsUseOpenClients`), `ExitIsQuiet`
(`QuietAtExit`) for any files and number of flows. `LifeInv` relates the place of the
main goroutine (`main`, `phase`, `at`) to what runs: components Shutdown has come past
do not run (`StopsInOrder`), a discovery and records in flight have a running Source
(`DiscoveryFed`, `InflightFed`), and writers and dead letter queues of running Sources
are open (`WritersOpen`, `LettersOpen`). `ReadersOpen` says the same of the readers of
the followers, up to the end of Shutdown; nobody waits for a follower, and after the
closing of the readers it polls a closed one (`Engine_follow.cfg`).

`SourcesAreWired` (`StartedIsWired`): `WiredInv` says that the engine's maps keep the
flows apart (`KeysDiffer`) and that the flows the bootstrap has come past have their
reader, their store and their writer.

### Circuit breaker: `CircuitBreakerProofs`

`BreakerTypeCorrect`, `ClosedMeansFewFailures` (`ClosedBelowThreshold`),
`SuccessesAreProbes` (`SuccessesOnlyHalfOpen`), for any number of callers; the three
together are inductive.

### Topology: `TopologyProofs`

`NothingComesHome` (`NoEcho`): what a cluster holds was written there to a topic of its
owners, or came from elsewhere into a topic whose name shows it (`OriginsKnown`), and
Sources are subscribed to topics that are no mirrors (`OnlyReplicable`).
`TopologyTypeCorrect`: its content is that partition counts stay within twice
`MaxParts`, although discovery adds to a mirror all the partitions of its topic, on
stale lists. `CountsInv` says that between the list that shows a mirror too small and
its enlargement nobody but an owner enlarges it (`RoomToGrow`).

### Only model-checked

- Liveness: `OnlyRetryHoldsStop`, `OnlyRetryHoldsRecords`, `OnlySourcesHoldShutdown`,
  `OpenEnds`, `Converges`. The
  prover handles neither fairness nor ENABLED.
- The violation runs and the further configurations: they are counterexamples.
- What a recursive definition computes for every input: the prover cannot do induction
  over data. Where numbers are involved the proofs take a least counterexample instead
  (`LeastNatural`).

## Not modelled

- The HTTP server (but the readyz condition), client options, the binary encodings
  of syncs, checkpoints and heartbeats, the YAML syntax, SASL and TLS: conversions
  and output without state of their own.
- The config property filter; groups other than the one the group filter admits.
- A second Start of the same Source object; a source log with gaps in `Source` (it
  is in `CatchUp`); malformed records in the offset-syncs topic, which the reader
  skips.
- Failed produces in `OffsetSync`; there `SyncsPointAtCopies` of `Source` applies. The
  sync of a retried record has an older source offset and a later target offset than
  its successors, and would make translations skip them. The code as it is never gets
  there: the promise of the retry is not called while the callback waits for it
  (`source_hang`). Who mends that wait has to mend the sync too.
- In `CatchUp`, what Retry and the dead letter queue do with a failed record: its
  callback ends or blocks. Catching up several partitions at once: they share only
  the producer.
- The commits of the catch-up: it makes none, so the Source replicates the range
  again. Topology keeps no count of copies. For the same reason it does not show
  the cycles IdentityPolicy causes in both directions, which replication.go:93
  warns of.
- Dead letter queues nothing refers to any more: the one NewSource opens before the
  engine sets another, and the one of each catch-up.

## Plan

Done, in this order: `Source` with `Mirror` and its proofs, `RingBuffer` with
`CatchUp`, `SyncStore` with `OffsetSync`, `CircuitBreaker`, `Policy` with
`Topology`, `Checkpoint`, `Config` with `Engine`.

Then the proofs, in the order `CircuitBreaker`, `SyncStore`, `Checkpoint`, the rest of
`Source`, `Engine`, `Topology`, `CatchUp`.

Next:

1. Mutual exclusion in the ring buffer, and that nobody sleeps through a wake-up on the
   paths that hold the mutex, as invariants a run checks and a theorem states.
2. Lemmas about `Policy` and `Config`: which names the cycle test recognises after any
   number of hops, what Validate guarantees to NewEngine.
