# X-Plore: TLA+ specifications of the danmu system

X-Plore (`src/danmu`) is a real-time danmu (bullet comment) service in Go, in two
forms: a **monolith** (`monolith/`: one server process, Redis between servers,
Kafka to a ClickHouse consumer) and a **distributed** system (`distributed/`:
`comet` gateways hold WebSocket connections, `logic` writes to Kafka, `job` reads
Kafka and pushes to every comet, etcd for discovery), with an `ops` console for
load experiments. This directory holds TLA+ modules of the parts where state is
shared between goroutines, processes or restarts, TLC configurations that check
them, and TLAPS proofs. `PROJECT.json` maps every definition to the lines it
models.

## 1. Inventory

| Component (source) | State | Operations | What is hard | Modules |
|---|---|---|---|---|
| Connection kernel (`distributed/core/hub.go`, `connkernel.go`, `client.go`) | three sharded indexes with O(1) counters and a reverse table; per connection ctx, closeOnce, closeInfo, socket | AddClient, RemoveClient, CloseRoom, KickClient, Close, ReadPump, WritePump | each index has its own lock, so AddClient and RemoveClient of one connection interleave; three goroutines may remove one connection | ConnKernel, Presence |
| Comet uplink and fan-out (`comet/main.go`, `PushChannel`, send queues) | uplinkCh, workers, sendCh per connection | onUplink, handleUplink, PushRoom, PushChannel, pumps | full queues, workers reorder, a call that was given up and runs afterwards, a stale snapshot of subscribers | CometUplink |
| Discovery (`distributed/etcdreg`, job's `cometPool`) | etcd keys and leases, the pool | Register, KeepAlive, Watch, apply | crash and restart under an old lease, ambiguous Put, list/watch gap | Discovery |
| Job pipeline (`distributed/logic`, `distributed/job`) | Kafka offset, msgCh, room batches, calls in flight | OnMessage, ReadMessage, flush, pushRoom, drain | commit-on-read, deadlines against late execution, hanging comets, shutdown | JobPipeline |
| Token buckets (`core/ratelimit.go`, `server/ratelimit.go`) | one packed word | Allow | CAS retry, 32-bit clock wrap | TokenBucket |
| Storage consumer (`monolith/consumer`) | group offset, batch, pending, ClickHouse rows | fetch, flush, commit, drain | insert/commit not atomic, poison records, cancelled ctx in the last commit | StorageConsumer |
| Monolith room (`server/hub.go`, `client.go`, `worker.go`, `msgidset.go`, `roomhist.go`, `redis.go`) | msgQueue, idempotence set, room map, sequence counter, history ring | readPump, worker flush, Hub.Run, replay, CloseRoom, KickClient, handleIncoming | replay against live stream, register/unregister on two channels, ring reuse after TTL, several locks per flush | MonoRoom, HistRing |
| Monolith moderation (`api.go`, `bans.go`, `slowmode.go`, `redis.go`) | bans, intervals and clients per server, the control channel | kick, ban, close, slow mode, handshake | ban check against registration, handlers and the subscription loop of one server run concurrently, control messages lost between servers | Moderation |
| Word bank (`wordbank.go`) | list in memory, file | Set, Remove, saveFile, loadFile | save outside the lock, truncate before write, saves during the load | WordBank |
| Experiment manager (`ops/experiment_manager.go`, `run.go`, `loadtest.go`, `serverproc.go`, store) | active slot, session, child process, files | Start, Stop, finishRun, restart | claim of the slot, copies of an experiment written by two goroutines, stop between repetitions, crash | ExperimentManager |
| Sweep manager (`ops/sweep_manager.go`, `sweep.go`, store) | active sweep, units, rows, report | Start, Stop, runSweep, plan, ranking, gate | an experiment manager others use refuses its starts, failed saves, stop, resume | SweepManager, SweepReport, CrossRegime |
| Collector (`ops/collector.go`) | previous samples, snapshot, event ring, Kafka offsets | pollOnce, kafkaOnce | counters that restart, instances that vanish, two loops at their own pace | Collector |
| Traces (`core/trace.go`, `ops/trace.go`) | ring per node, bounded store | Record, Recent, traceOnce | eviction while hops of one pass still arrive | TraceStore |
| Analysis (`ops/stat.go`, `aggregate.go`, `compare.go`, `evidence.go`) | stored experiments | aggregate, compare, derive claims | missing metrics, few repetitions, two views of one experiment, a bounded listing, claims derived from all experiments at once | Analysis, CrossRegime |
| Load generator (`monolith/loadtest/main.go`) | counters, delivery tracker, clock | dial, send, read, reset after warm-up | reset against readers, deliveries that overtake one another, read deadline, sequence gaps | LoadTest |
| Filters, tokens, HTTP edges, generated code, tools | none shared | string functions, SQL, wiring | - | not modelled |

Interactions: comet calls logic (gRPC), logic writes Kafka, job reads Kafka and
calls every comet in its pool, the pool follows etcd; inside comet, handlers,
pumps and administrators share the kernel. In the monolith, readPumps feed
msgQueue, workers number, store and broadcast, the Redis loop does the same for
danmu of other servers, and the workers' Kafka copy feeds the storage consumer.
The ops console starts the load generator as a child process, the sweep manager
drives the experiment manager, the analysis reads what they stored, and the
collector and the trace loop read every node. The full list with status is in
`PROJECT.json` ("components"); what is hard to test is listed there, line by
line, under "hazards", with the properties that would catch it.

## 2. Modules

### ConnKernel, Presence, MCConnKernel, ConnKernelProofs

`ConnKernel` models one comet's connection plane. Every goroutine that runs hub
code is an actor with a program counter: the handler of a connection
(`<<"h", c>>`), its ReadPump and WritePump (`"r"`, `"w"`), and callers of
CloseRoom/KickClient (`"a"`). Every critical section is one step. `conns`,
`sess`, `chans`, `member` are the indexes, `connCount`, `userCount`,
`deviceCount`, `channelCount` the counters; `once`, `closeInfo`, `cancelled`,
`sock`, `sent` are the Client's closing state. AddClient is AddClientBegin,
(EachNext, RemoveClient steps, Close steps)*, ConnManAdd, SessionsAdd,
SubscribeChan, SubscribeMember, SpawnPumps; RemoveClient is ConnManRemove,
SessionsRemove, RemoveConnSnapshot, UnsubscribeChan, UnsubscribeMember, with its
early return when the connection is gone. Constant `ConnectionPolicy` is the
`-policy` flag. CloseRoom and KickClient are exported by the hub and used by its
tests; the gateway's API does not call them yet.

`Presence` is the abstract specification: an atomic registry in which a
connection comes online once, leaves once and never returns, with an exact
count of online users. `PresenceRefinement` says ConnKernel implements it with
`status` read off the session index.

### Discovery, MCDiscovery (proofs in GatewayProofs)

KeepAlive/Register of each instance (grant, put, serve, revoke, back off),
leases that lapse, calls that fail or fail after taking effect, stop, exit,
crash, restart; Watch of the job (list, open the watch, re-list per response)
and `cometPool.apply`. etcd is external: a key belongs to the lease of its last
Put.

### JobPipeline, MCJobPipeline, JobPipelineProofs

OnMessage's asynchronous retrying writer, the job's reader goroutine (commit on
read), msgCh, per-room batches, the flush window, pushRoom with one call per
comet and a deadline, calls that run after their caller gave up, pool changes,
shutdown drain, crash and restart.

### StorageConsumer, MCStorageConsumer, StorageConsumerProofs

The fetch goroutine, msgCh, batch and pending, flush on size, ticker and
shutdown, poison records, insert that fails or succeeds unheard, commits that
fail (always, once ctx is cancelled), crash and restart. A Kafka commit is an
offset, so committing a record commits all before it.

### HistRing, MonoRoom, MCMonoRoom, MonoRoomProofs

`HistRing` is the ring buffer of `histRoom` as operators: slice reuse after
reset, head, count, TTL. `MonoRoom` is one room of one server. Ingest: MarkSeen,
Enqueue (with the ack), QueueFull, Expire. Workers: Receive, FlushTimer,
SeeCtxDone, Drained; a flush is Number (per message), GetOrCreate, AppendBatch,
then for the normal and the high round SnapshotRoom and SendTo per client. The
Redis loop `Sub` enters the same path through HandleIncoming and AdoptRoomSeq.
Viewers: Connect, Exit, AddClient and RemoveClient (Hub.Run takes register and
unregister in any order), ReplayLookup and ReplayFrom (two critical sections).
CloseRoom is five steps (map, sequence, history, idempotence, closing), because
workers and joins run between them. A histRoom removed from the map stays in
`rings` for the goroutines that still hold it.

Numbering is one step although the code loads the counter and adds to it in two:
an addition to a counter that CloseRoom has just deleted has the same effect as
one made just before the deletion. handleReconnect's giving up after 500 ms is a
behaviour in which ReplayLookup is never taken.

### CometUplink, TokenBucket, WordBank, Moderation, MCGateways, GatewayProofs

`CometUplink`: OnUplink puts a danmu into the bounded queue or drops and counts
it; workers take it and call OnMessage or, in a comet that stands alone,
broadcast themselves. A call may fail, or be given up after three seconds while
logic has not got to it (OnMessageTimeout): the worker goes on, and since logic
never looks at the caller's deadline it may publish the danmu later
(OnMessageLate), behind the member's next one, or never. A call that is answered
late but executed in time is OnMessage. PushRoom
and the stand-alone broadcast take a snapshot of the subscribers and send to
each queue without waiting, while members read, leave or are slow. After
CometStop the queue is not drained, as in the code.

`TokenBucket`: AllowLoad, AllowRefused, AllowCompute, AllowSwap and AllowRetry
of concurrent callers on the packed word, whose stored time wraps.

`WordBank`: Set and Remove under the lock, then SaveCopy, SaveOpen (which
truncates) and SaveWrite outside of it; LoadFile and LoadEntry at start-up,
every entry of which saves again; crashes anywhere.

`Moderation`: the steps of an admin's request on its own server, the control
channel with lost publications and missed messages, HandleCtrl on the other
servers, and handshakes that check the ban, upgrade and register in separate
steps. The HTTP handlers of a server (constant `Handlers`) and its subscription
loop are actors of their own, so two requests of one server, and a request and a
message of the control channel, interleave step by step.

### ExperimentManager, SweepReport, CrossRegime, SweepManager, MCOps, OpsProofs

`ExperimentManager`: HTTP callers execute Start and Stop, loop goroutines wait
for a child and run finishRun. Every critical section, Load and Save is a step,
and an experiment between Load and Save is the goroutine's own copy, so that
lost updates are possible where the code allows them. The child, the controlled
server, failing launches and the end of the process are included.

`SweepReport` (validation, the cartesian plan) and `CrossRegime` (ranking,
domination, gate) hold the pure half of sweeps as operators; Analysis uses
CrossRegime, too. `SweepManager` runs the plan: one goroutine creates, starts and
polls one experiment per unit, records its row and ends with the report. It sees
the experiment manager as ExperimentManager describes it (one session at a time,
every session ends), which other users may occupy or stop. While another
experiment is active a start is refused at once and the unit is recorded as
failed; the runner never waits for the slot.

### Collector, TraceStore, Analysis, LoadTest, MCLab, LabProofs

`Collector`: PollList, one probe per instance in any order (answered, failed,
without statistics), PollPublish with rates, health and events; the Kafka loop
lists offsets and fetches the committed one in two steps while the topic moves.
`TraceStore`: spans recorded in the nodes' rings, concurrent fetches of one
pass, eviction. `Analysis`: create, start and finalize experiments; statistics,
comparison and all claims are operators over the store, the derived ones
included (repeatability, tail of hot rooms, dependence on the regime, dominance,
delivery accounting). DeriveDominance is a set of statuses, because the order of
a Go map decides which of two equally good configurations is ranked first. What
a metric measured is a function on the positions of the repetitions that have
it, the median is the k-th smallest value (or the mean of two), and every value
is multiplied by the constant `Scale`: with 6, means and medians of up to three
values are whole; what does not divide is rounded down. `LoadTest`: dial, sender
and reader of each connection, the warm-up reset between reading a frame and
tracking it, the read deadline, cancellation. Of the monolith it has what the
accounting depends on: a worker numbers a message and hands it to the
connections with room in their queue; several workers do so at once, the write
pump has a lane for high priority, and messages of other servers keep the number
they were given there (PeerDelivers), so `wire` is a set and a frame holds any
of it in any order.

## 3. Runs

| Run | Checks | Shows |
|---|---|---|
| ConnKernelAdmin | TypeOK, CountersExact, NoGhostSession, ReverseTableAgrees, CloseFrameHonest | default policy, two connections of one user in one room, an administrator, expiry and shutdown |
| ConnKernelSingle | EvictsEarlier, PresenceRefinement, CloseDrains | single-device policy, fair scheduling: eviction, refinement of Presence, both pumps end |
| ConnKernelGhost (violation) | NoGhostSubscription | an eviction between sessions.Add and Subscribe leaves a subscription for ever |
| Discovery | DirectoryCurrent, RegistryConverges | a serving instance keeps its key; an idle watcher's pool is exact unless a list failed or a change fell in the gap; the registry ends up right |
| JobPipeline | OnceOrDropped, StopDrains, PushInOrder, EventuallyPushed | two rooms, producer retries, crashes, failed commits, late and failed calls, pool changes, a stop |
| StorageConsumer | CommittedUnlessOvertaken, RowsExplained, EventuallyStored | two partitions, one poison record, crashes, failed commits, failed and ambiguous inserts, a stop |
| StorageConsumerPoison (violation) | CommittedIsStored | the poison commit passes records that are only in the batch |
| MonoRoomIngest | AckedOnce, StopDrains, EventuallyBroadcast | two readers, retries, expiry of the window, a one-slot queue, shutdown |
| MonoRoomReplay | StreamUnbroken, LeavesUnlessOvertaken | worker and Redis loop against a viewer that connects twice, kick, room close, TTL |
| Gateways | UplinkAccounted, BucketBound, WordsSurvive, BannedStaysOut, ServersAgree | danmu up and out through full queues; racing callers across the clock's wrap; word bank through overlapping saves and crashes; kicks, bans and slow mode on two servers with lost control messages |
| Ops | StoreTruthful, StopSticks, RowIsOwn, ReportSound, KeepsCompleted, RunEnds, SweepEnds | two experiments, two callers, failing launches, a crash; a sweep of two configurations in two regimes, stopped and resumed, whose starts are refused while another user's experiment is active |
| Lab | ConsoleTruthful, HopsJoined, CompareSound, DeliveryAccounted, OutageKeepsInstances, ClaimsKept | collector over restarting and vanishing instances; traces evicted while fetched; comparisons and claims over a growing store; delivery accounting across the warm-up reset, with messages that overtake one another |

Some properties are conjunctions of parts that are defined and explained next to
them: OnceOrDropped is AtMostOnce and NothingVanishes; RowsExplained is
NothingDropped and DuplicatesExplained; AckedOnce is AckedUnlessDropped and
BroadcastOnce; StreamUnbroken is NoReplayGap, NoDeafViewer and RingIsRecent;
DirectoryCurrent is RegistrationStands and PoolCurrent; UplinkAccounted is
PublishedOnceInOrder and FanoutAccounted; StoreTruthful is RunningIsOwned,
ResultIsOwn, CompletedMeansAll and ServerMatches; ConsoleTruthful is
NothingInvented and EventsTell. Every passing property has a mutant in
`PROJECT.json`: a plausible bug in one definition with which TLC refutes it. The
type invariants of the modules other than ConnKernel are not listed in a
configuration; they hold in the same instances.

**One component at a time.** MCGateways, MCOps and MCLab each hold several
components that share no state. A variable `focus`, chosen in the initial
state, says which one moves, so a run explores the sum of their state spaces
and not the product. What one component assumes of another (the sweep manager
of the experiment manager, the comet of the job) is part of its own module.

**Bounds.** ConnKernel: two connections are what an index entry, a counter or an
eviction can be contended by at a time; they share user, room and channel and
differ in device, so every "last one out" decision is reached; the theorems cover
any number. Discovery: two instances, one fault, one stop. JobPipeline: two
danmu of different rooms, each possibly written twice, so that order within a
room matters; msgCh of one slot; one comet; two faults. StorageConsumer: two
partitions of two records, so that a commit can pass a record of its partition
and leave the other partition's; capacity 1 and batch 2 fill both buffers.
MonoRoomIngest: queue of one slot, so QueueFull happens; batch 2, so a partial
batch exists; three sends of a msg_id and one expiry. MonoRoomReplay: ring of
two entries that begins empty or wrapped (three older danmu), one local and one
remote danmu whose seq may collide; at most three of connections, admin calls,
expiries and remote danmu together (`FewEvents`), in every combination.

Gateways: two members, two workers and queues of one slot, so that both queues
overflow and two danmu of one sender race; a clock that runs to more than twice
its wrap; two words, two admins, three changes and two crashes or failed writes;
two servers with two handlers each and their subscription loops, two handshakes,
two admin requests, one lost control message.
Ops: two experiments of two repetitions, one of which wants a configured server,
two callers, three calls, one fault and one crash; behaviours in which two
Starts collided (`collided`) are followed for two calls without other faults,
because the properties promise nothing about longer ones. The sweep has four
units, whose outcomes include an infeasible configuration and one that improves
on the default, so that the gate both opens and stays shut. Lab: two instances,
counters that reach 1 between two of three polls, an event ring of one, a trace
store of two for four messages on two nodes, a store that lists three of four
experiments in two regimes, so that a third row can take dominance away and a
fourth experiment pushes the first out of the listing; a room of two connections
and three numbers, frames of up to two messages and one message of another
server, where the reset can fall between any two steps. `Few`, a conjunct of the
steps, bounds the choices that multiply: of three experiments the failing ones
are not followed, and once the room has numbers one connection at a time reads.
The permutations of connections and of trace nodes are a symmetry: no definition
tells them apart, and the run has no liveness property.

`MaxFaults`, `MaxStops`, `MaxSends` and the like bound what the environment may
do and are conjuncts of the guards. Runs with bounds end, so deadlock is checked
only in ConnKernel, where `Terminated` marks the states in which all actors are
done.

**Fairness.** ConnKernel: weak fairness of every goroutine's own steps, none of
the peer, the administrator or the session clock. StorageConsumer: weak fairness
of loops and restart; strong for the ticker and for an insert, because a select
with a ready ticker takes it in the end and ClickHouse does not reject for ever.
JobPipeline: weak fairness of the two goroutines and of each call's deadline,
strong for the flush timer; no comet owes an answer. Discovery: weak fairness of
the loops and of the lapse of a lease nobody renews; stops, crashes and restarts
owe nothing. MonoRoom: weak fairness of a worker's flush (its sends never wait),
of receiving and of the timer. Ops (`OpsSpec`): weak fairness of every
goroutine's next step, the end of a load test included, which has a duration
(`FairSpec`), of the sweep's goroutine and of the end of its experiment
(`SweepFairness`); callers and crashes owe nothing. Gateways and Lab check
safety only.

## 4. Proofs

Every theorem below holds for every value of the constants that meets the named
assumptions; TLC evaluates those assumptions in the runs. The proof of `Spec =>
[]P` is `Init => Inv`, `Inv /\ [Next]_vars => Inv'` with one lemma or step per
action, and `Inv => P`. Each `Inv` stands at the end of the component's module,
as a conjunction of named parts; TLC checked it on the component's instances
before it was proved.

**DataLemmas** holds what the proofs share about channels, batches and logs
(Append, Head, Tail, concatenation and the elements of the results), about least
and greatest elements of sets of numbers, and about remainders and products. The
installed provers cannot use an induction theorem with an operator parameter;
AllNumbers states induction with a set instead (a set with 0 and all successors
has every number), and the proofs about the ring's PushAll, the cartesian plan,
the sums and the load generator's OnSeqs apply it to the set of numbers up to
which their claim holds.

**ConnKernelProofs** (ClientsAssumption: finitely many connections;
IdentityAssumption: user and room are functions of the connection;
PolicyAssumption: one of the two policies):

- TypeCorrect, CountersCorrect: the work is in KeysAdd and KeysRemove: adding or
  removing one element of a finite set changes the number of distinct keys by one
  exactly when no other element has its key, which is what "last one out" tests.
- NoGhostSessionHolds. NoGhostSession speaks of finished connections only;
  `SessionInv` adds where pumps may be (PumpControl), that only published
  connections are indexed, snapshot or removed (OnlyPublished), and that registry
  and session index differ only inside AddClient and RemoveClient.
- EvictsEarlierHolds, from EvictionPending: what was registered before is gone,
  or in the evicting handler's hand or snapshot.
- ReverseTableHolds, from SoleRemover (of all callers of RemoveClient one passes
  the registry) and TablesFollow (nobody unsubscribes before Subscribe is
  complete, or twice).
- CloseFrameHolds, from CloseOrder: whoever cancels has stored a code or closed
  the socket.
- PresenceImplemented: `Spec => Presence!Spec`. Presence has no fairness, so this
  is the whole refinement: initial states map to initial states, SessionsAdd and
  SessionsRemove to coming online and leaving, every other step to a stutter. It
  needs CountersExact for the count of users, and SessionInv so that nobody comes
  online twice.

**GatewayProofs**

- BucketBoundHolds (TokenBucketAssumption: natural rate and capacity, a positive
  unit and clock wrap). `TokenInv`: the word's time is that of the last grant,
  less than a wrap ago, and a call under way has loaded a word less than a wrap
  old. A successful CAS on an equal word then acts on what the call computed. The
  clock's step carries what `ratelimit.go:15` takes for granted: grants and calls
  are less than half a wrap (24.8 days) apart.
- WordsSurviveHolds (WordBankAssumption: markers are not values). `SaveInv`: a
  copy lacks only changes whose own save is still to come, the list together with
  what is still to be loaded is complete, and the file holds the list but for the
  saves under way.
- BannedStaysOutHolds, ServersAgreeHolds. A ban comes right before its kick in
  any request or log (InOrder), so whoever got in under a ban is kicked next by
  some handler or by the subscription loop (BanGuards); `AgreeInv`: only the last
  setting is on its way, and what a server lacks is with one of its actors, still
  to be published or unread in the channel.
- UplinkAccountedHolds (CometUplinkAssumption: finitely many members). `UplinkInv`:
  queue, workers, given-up calls and topic together hold each member's danmu in
  order, but for pairs of which one was taken while the other was with a worker
  or in a given-up call; a dropped one is nowhere else, a fan-out happens once,
  and what it has reached, missed and counted adds up.
- DiscoveryTypeCorrect, DirectoryCurrentHolds (DiscoveryAssumption).
  `DirectoryInv`: an instance works only with a lease etcd granted to it, and
  since the last list every change of the registry has left an unread response or
  is recorded as unseen.

**JobPipelineProofs** (PipelineAssumption): PipelineTypeCorrect, OnceOrDroppedHolds,
PushInOrderHolds, StopDrainsHolds. `OnceInv`: a record is committed before it is
anywhere, so no later process reads it (CommittedFirst), what is ahead in the
pipeline has the lower offsets, a comet gets each record in one call, and a comet
that answered in time has only the call under way. OwedKept, for the drain: what
was buffered at ctx.Done is still buffered or pushed.

**StorageConsumerProofs** (BoundsAssumption): ConsumerTypeCorrect,
CommittedUnlessOvertakenHolds, RowsExplainedHolds. `ConsumerInv`: hand, msgCh and
pending hold each partition in order, and what a process has fetched is stored or
held. RowsPaid charges every row of a record beyond the first to a crash, a
failed commit, an ambiguous insert or a stop.

**MonoRoomProofs** (RoomAssumption, HistMaxAssumption: a ring of at least one
entry; danmu from other servers are numbered):

- AckedOnceHolds, from `IngestInv`: what MsgIDSet knows has had its turn at the
  queue, and the copies queued or on their way are those MarkSeen let through.
- StopDrainsHolds, from LeavesDrained; LeavesUnlessOvertakenHolds, from
  `ConnInv`: every connection the hub holds or will hold runs, is queued to
  leave, or was overtaken.
- RingIsRecentHolds, from `RingInv`. PushStep says what one push does to what
  ReplayFrom walks over, PushAllRecent what a whole batch does; the invariant
  adds that every slot lies in the slice, that the oldest one moves only once the
  ring is full, and that a batch is numbered in full before it is kept, because
  AppendBatch skips unnumbered messages.
- StreamUnbrokenHolds, from RingInv, ConnInv and `JoinInv`. NoReplayGap is about
  completed broadcasts; NothingMissed carries it: a connection that has replayed
  has, or a pusher on its way will give it, everything ever kept that is not
  excused, and while it replays from a histRoom the map has given up, everything
  the new one holds. The order in flush (history first, then broadcast) is what
  makes it inductive.

**OpsProofs** (ExperimentManagerAssumption; SweepAssumption: the lists of the
request are lists, the marks for "no sweep" and "no experiment" are none, and an
experiment that ran ends in a final status):

- StoreTruthfulHolds, StopSticksHolds, KeepsCompletedHolds (an action property).
  `ExpInv`: unless two Starts collided, one goroutine at a time is between the
  check of Start and the end of the run, its copy of the experiment fits the
  stored record at every label (CopyFits), and it does not begin a stopped one
  anew; unless the process ended, a record that nobody holds is not running.
  `collided` is the code's own race (the check and the claim of the slot are two
  critical sections), not an assumption of the proof.
- RowIsOwnHolds, ReportSoundHolds. `SweepInv`: the unit in the goroutine's hand
  is still to be done and has its experiment, and what is about to be recorded is
  how that experiment ended or was interrupted (RunnerOwn); an experiment the
  manager runs is stored as running and known to its unit (ExperimentsOwn); a key
  has one row, which shows a unit that is done, and every such unit has one
  (RowsOwn). The report's part is about pickBest, the domination and the gate
  for any table of rows: the best of a regime is one of its own rows and nothing
  is ranked before it, and GO takes feasible best rows that are not all of one
  configuration.
- UnitsApart: in a request that names no regime twice, configuration and regime
  tell every unit of the plan from all others, so no two units share a row.

**LabProofs** (TraceAssumption; LoadAssumption: finitely many connections;
AnalysisAssumption: measured values are natural numbers or missing, a positive
scale and latency floor; the collector needs none):

- HopsJoinedHolds, from `TraceInv`: a message is listed once, exactly when some
  span of it was seen, and what a goroutine of the pass fetched it has added or
  is about to.
- ConsoleTruthfulHolds, OutageKeepsHolds, from `CollectorInv`: a sample never
  exceeds what was counted since an earlier one, and a poll knows the instances
  of the snapshot before it.
- DeliveryAccountedHolds, from `LoadInv`, which assumes no order of what arrives:
  a tracker has counted the numbers that came in turn since the reset, that is
  ahead of all before them, and stands at the greatest; the total observed is the
  number of pairs of connection and such number, and the total missing is that of
  the holes each connection has reported, which are those between its counted
  numbers except while it is between its two counters.
- CompareSoundHolds, from `LabInv`: what is compared is an experiment whose
  aggregate was computed from its own repetitions, so missing metrics are missing
  on both levels and every median is a number. The rest is about the operators:
  swapping the experiments mirrors every verdict (ProductOrder), and a relative
  difference cut off at an integer keeps the order that the conclusion and the
  row of one metric were judged by (TruncationOrder).
- ClaimsKeptHolds (an action property), one lemma for each part of ClaimsStand:
  an experiment that stays listed stays what it was, so a claim that counts
  support falls only when all of it has gone; repeatability, the tail of hot
  rooms and the dependence on regimes change only for an experiment that came or
  left and is one of those they are about. For dominance the lemmas are about
  CrossRegime: if no row that stood for its configuration left, and none came
  that is among the best of its regime or replaces one of them, every regime has
  the best rows it had, and with them the same reports.
- MedianSplits: at least half of the values do not exceed the median and at least
  half are not below it, for any number of values.

**What proving changed in the model.** Overlapping arms of CASE, which TLC
resolves to the first and TLA+ does not, in DeriveExperimentStatus and EvalHealth
became disjoint. NoReplayGap as first stated took two broadcasts of one danmu
under one number (possible after CloseRoom has reset the counter) for one; a
danmu that is being broadcast once more is now left out until it is done.
PushAll and OnSeqs are recursive functions, like the loops they model.
DeliveryAccounted counts pairs of connection and message instead of summing over
connections, and LoadTest, SweepReport and Analysis say with sets, functions and
order statistics what folds and sorting said before. ReportSound as first stated
took two configurations never to share a label; it now says that the last row
of a label stands for it. CompareSound's claim about latency was limited to the
metrics the conclusion looks at: the code has rows for p50 and the maximum too,
and applyAggregateComparison reads p90 and p99 only, so a conclusion "better"
says nothing about those rows.

**Only model-checked.** Liveness, which is out of the prover's reach: CloseDrains,
RegistryConverges, EventuallyPushed, EventuallyStored, EventuallyBroadcast,
RunEnds, SweepEnds. And the two violations, which are counterexamples. Every
invariant and every action property of the passing runs is stated by a theorem.

## 5. Where code and documentation disagree

Shown by a run that TLC refutes:

1. ConnKernelGhost: ghost subscription after an eviction during AddClient
   (`core/hub.go:118` "removes from all three indexes").
2. StorageConsumerPoison: a poison commit overtakes unstored records
   (`consumer/main.go:77`, "the offset is committed only after ClickHouse has the
   row").

Stated as a definition that no configuration lists; added as an INVARIANT (or,
for PoolConverges, a PROPERTY) to the named run's cfg, TLC refutes it:

| Definition | Run | What the code does | What is said |
|---|---|---|---|
| ConnKernel.OneConnectionPerUser | ConnKernelSingle | two overlapping AddClient calls of a user both stay | `core/hub.go:26` |
| Discovery.PoolConverges | Discovery | a change between the first list and the watch is never seen, without any fault | `etcdreg.go:155` |
| MonoRoom.AckedIsQueued | MonoRoomIngest | a retry of a danmu that the full queue refused is acknowledged and never broadcast (`client.go:159`) | `client.go:187`, `monolith/README.md:467` |
| ExperimentManager.RestartRetriesAll | Ops | a resumed Start runs the first open repetition and then only those never attempted (`:597`); other failed ones wait for one more Start each | `experiment_manager.go:342` |
| SweepManager.StopIsHeeded | Ops | a Stop between the creation and the start of a unit's experiment finds nothing to stop; the experiment goes on after the sweep is stored as stopped | `sweep_manager.go:119` |
| TraceStore.MissingMeansAbsent | Lab | a trace evicted and met again in one pass loses the hops that were joined before | `ops/trace.go:28` |
| Analysis.VerifiedWhileStored | Lab | only the newest experiments are listed, so an older supporting one stops counting | `evidence.go:13` |
| Analysis.DominanceDetermined | Lab | with two equally good configurations in a regime the order of a map decides whether dominance is verified | `evidence.go:363` |
| LoadTest.MissingIsLost | Lab | a delivery overtaken by a later number is counted as missing although it was received | `distributed/BENCHMARKING.md:54` |
| LoadTest.LongRunSurvives | Lab | the read deadline (`:729`) is moved by pongs only, and the client sends no ping | `loadtest/main.go:731` |

Seen while modelling, without a definition of their own:

- logic closes its etcd client before the deferred Revoke can run
  (`logic/main.go:206`), so an orderly exit leaves its key to the lease; a watch
  channel that etcd closes ends Watch for good (`etcdreg.go:165`).
- In the monolith an unregister handled before its register leaves a connection
  in the room for ever (`hub.go:125`; LeavesUnlessOvertaken names this case).
- Sweeps: while another experiment is active every remaining unit is refused and
  recorded as failed at once, so one foreign experiment ends the sweep as
  completed with failed rows; after Stop and Start it may be the sweep's own
  experiment, still stopping. A unit whose wait a Stop cut short is marked done
  with whatever status was last polled (`sweep_manager.go:244`), so a resumed
  sweep does not run it again; a row's Best flag is never taken back
  (`sweep.go:67`); the limit on total runs is announced (`sweep.go:17`) and not
  enforced; condition C of the gate is announced as a variance test
  (`sweep.go:653`) and tests feasibility. Validate (`sweep.go:129`) accepts a
  regime named twice: its units share one row and are ranked twice (the premise
  of UnitsApart). Of rows with the same label the last stands for it in the
  search for domination.
- Collector: cometRates does not look at the HTTP status of `/metrics`, so an
  error page is read as counters at zero (the `blank` case of NothingInvented).
- Analysis: rows of rates compare means and the conclusion medians; `cpu_pct` has
  no direction; the test for different windows cannot be reached; repeatability
  reads only the experiment with most repetitions; hot-room tail latency is
  reported as CODE VERIFIED when the data contradict the claim; dominance, once
  verified, falls when an experiment of a further regime is stored in which
  another configuration is best (`evidence.go:286`); starting a
  completed experiment again erases the evidence it gave; the p50 and maximum
  latency rows may be worse under a conclusion "likely improvement".
- Uplink: a call of OnMessage that was given up may publish behind the same
  member's next danmu (`comet/main.go:157`), also with a single worker.
- Load generator: `observed_deliveries` alone is stored as expected deliveries
  (`experiment_manager.go:867`), where `experiment.go:142` says observed and
  missing. Loss at the head or the tail of a connection's window cannot
  be seen from sequence gaps; SIGINT during the warm-up waits for readers up to
  their deadline; reauthLoop and the sender write to one connection concurrently.

## 6. Not modelled

- Filters, tokens, JWT, message types, word matching and masking: pure functions
  over strings, covered by unit tests.
- Metrics, gauges, HTTP decoding, SQL reads, process wiring, the room listing and
  the resource tables: nothing is kept between two requests.
- The persistence producer of the monolith only counts its failures.
- The ops API and the web UI delegate to the managers whose entry points are
  modelled; the mock, command-line tools, the epoll prototype (wired into neither
  server) and generated gRPC code are left out.
- Of modelled components: reauth and session renewal, the write pump's merging
  and priorities, the Kafka copy of the workers and other rooms in MonoRoom,
  SlowMode.Allow, the balancer over logic instances, latency histograms,
  standard deviations and bootstrap intervals (floating point), presets, exports
  and the wording of reports.

## 7. Plan

The model covers the parts that keep state; every safety property a passing run
checks is proved for all values of the constants. What remains, in this order:

1. Liveness as theorems, once a prover for ENABLED and fairness is at hand; the
   invariants proved here (OnceInv, ConsumerInv, IngestInv, ExpInv, SweepInv) are
   what the leads-to arguments would rest on.
2. The composition of SweepManager and ExperimentManager: SweepManager states
   what it assumes of the experiment manager inside its own module; a refinement
   would show that ExperimentManager provides it.
3. The read deadline of the load generator (`loadtest/main.go:729`): a property
   once the client sends pings; today LongRunSurvives is refuted.
4. Reauthentication and session renewal of the monolith, SlowMode.Allow and the
   balancer over logic instances.
