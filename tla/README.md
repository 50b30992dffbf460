# Verification of LABIOS

LABIOS turns the I/O calls of applications into *labels*, small records of an
operation, a file range and a place to answer to. A dispatcher collects labels
into batches, merges and orders them, and sends them to worker processes, which
perform them on their own storage volume. Redis (or Dragonfly) holds staged
data and the catalog, NATS carries the labels, and a manager with an elastic
orchestrator keeps the worker fleet at the right size.

This directory holds TLA+ modules translated from that code, TLC configurations
that check them on small instances, and TLAPS proofs of their central
invariants. `PROJECT.json` lists every component, run, mutant, hazard, finding
and theorem, and maps each definition to the source lines it stands for.

## Inventory

| Component | State it keeps | Operations | Interacts through |
|---|---|---|---|
| Label manager (`label_manager.cpp`) | pending replies of a call | publish_write, publish_read, wait, wait_read | stages in Redis, publishes on NATS, reply inboxes |
| Dispatcher (`labios-dispatcher.cpp`) | batch buffer, cached worker list, fanout threads | collect, answer OBSERVE, shuffle, route reads directly, route supertasks, route independent labels, schedule in the catalog, fan replies out, refresh workers | NATS subjects of the workers, Redis, manager queries |
| Shuffler (`shuffler.cpp`) | none | aggregate, detect_dependencies, build_supertasks, read locality | called on each batch |
| Worker (`labios-worker.cpp`) | files of its volume, suspension flag | label handler, supertask loop, execute_write, execute_read, score thread, resume | NATS queue, Redis, manager |
| Catalog (`catalog_manager.cpp`) | status of labels, locations of files | create, set_status, schedule_batch, set_location, get_location | Redis hashes and sorted sets |
| Content manager (`content_manager.cpp`) | staged blobs; small-I/O cache per descriptor | stage, retrieve, remove; cache_write, cache_read, flush, timer | Redis; flush callback into the adapter |
| Manager (`labios-manager.cpp`, `worker_manager.cpp`) | worker registry, suspension timers | register, deregister, score update, queries | one NATS thread per subject |
| Orchestrator (`elastic/`) | pressure, cooldown, commissioned containers | evaluate_once: resume, commission, decommission | registry, Docker, resume commands |
| Channels (`channel.cpp`) | sequence counter, subscribers, two flags | publish, subscribe, unsubscribe, drain, destroy | Redis keys, NATS subject |
| POSIX adapter (`posix_adapter.cpp`, `fd_table.cpp`) | descriptor table, position of each file | open, close, read, write, lseek, fsync, dup, dup2, stat, unlink, rename, ftruncate | cache, label manager, file metadata in the catalog |
| Interception driver (`posix_intercept.cpp`) | the session | libc wrappers, session set-up with retries, teardown at exit | adapter, flush timer |
| Workspaces (`workspace.cpp`) | value, versions, metadata and index in Redis; access list | put, get, del, destroy, grant, revoke, registry | Redis, shared with other processes |
| Label ids (`label.cpp`) | last millisecond and sequence | generate_label_id | every publisher |
| Labels as data (`label.cpp`) | what client, dispatcher and worker note on them | mark_label_*, serialize, deserialize | NATS messages |
| Solvers (`solver/`) | cursor of round robin | assign under four policies | dispatcher, worker list |
| Continuations, SDS, backends, C API, MCP | see `PROJECT.json` | | |

What is hard in it:

* **Concurrency without transactions.** Dispatcher, workers, fanout threads and
  clients update the same Redis keys, one command at a time. The dispatcher
  records locations before the data exists and catalog status after a worker
  may have finished.
* **NATS keeps nothing.** A label sent to a worker that has gone is lost
  silently; only the client's timeout notices.
* **Merging changes identity.** A merged write has one id, one blob and one
  reply inbox for several clients, and must still store and answer each once.
* **Partial failure.** A supertask stops at its first failing child.
* **Two steps where one is meant.** The flush timer takes regions out of the
  cache and publishes them after the lock is gone; an id generator claims a
  millisecond and then resets its counter; a put takes a version and then
  stores the value; the catalog reads a size and then writes it.
* **Stale views.** The cached worker list, recorded locations, and the registry
  snapshots the orchestrator decides on are all old when they are used.

What makes each part correct: labels are stored and answered at most once and
"complete" is never said of data no worker has put (pipeline); every label of a
batch survives shuffling exactly once and conflicting labels never race
(shuffler); the registry contains exactly the workers it should, decommissioning
is final and never passes `min_workers` (manager and orchestrator); a subscriber
sees every message of a channel once and nothing is left behind (channels); a
written byte is always in the cache, in somebody's hands or stored, and a read
returns the last one (cache and adapter); a version that was returned can be read
back (workspaces); ids are unique (label ids); everyone after the client reads
the label the client wrote (encoding); labels go to available workers, better
ones first (solvers).

## Modules

| Module | Stands for |
|---|---|
| `Shuffler` | The shuffler's functions as operators: merging, conflicts, supertasks. No state. |
| `ShuffleBatch` | `Shuffler::shuffle` on one arbitrary batch, phase by phase, with what a batch must look like afterwards. |
| `LabelFlow` | The pipeline: clients, dispatcher, fanout threads, workers, catalog, warehouse, worker list. Uses `Shuffler`. |
| `LabelService` | What a client may rely on; the abstract specification `LabelFlow` implements. |
| `LabelFlowHistory` | `LabelFlow` with what clients knew and what reads returned, for the stale-read question. |
| `Elastic` | Manager registry, NATS handlers, orchestrator, and the worker side of both. |
| `Channel` | One channel object: its callers' threads and the NATS threads that deliver. |
| `ContentCache` | The small-I/O cache of a descriptor as operators: write, read, flush. |
| `PosixAdapter` | The adapter's calls step by step, the descriptor table, file metadata, the flush timer. Extends `ContentCache`. |
| `Intercept` | The driver over `PosixAdapter`: session set-up, routing, stdio, teardown. |
| `Workspace` | One key of a workspace under several processes, one Redis command at a time. |
| `Snowflake` | The label id generator, one atomic operation at a time. |
| `LabelRecord` | The fields of a label, what each component notes on it, and the encoding, as operators. |
| `Solvers` | Scores, intent profiles and the four policies as operators. |
| `Scheduling` | A label from client to worker and back with all that is written on it, the registry and its score buckets. Extends `Solvers` and `LabelRecord`. |
| `ShufflerProofs`, `ShuffleBatchProofs`, `LabelFlowProofs`, `ChannelProofs`, `WorkspaceProofs`, `PosixProofs`, `SchedulingProofs` | Theorems, of the modules they are named for (`PosixProofs` of `PosixAdapter`, under `Intercept`). |
| `ServiceProofs` | Theorems of `Elastic` and of `Snowflake`. |
| `MC*` | Constants for TLC. |

### LabelFlow

A label is an id and a request (type, file, range). Ids are given out in order of
publication, as the snowflake generator does. The *data* of a write is the id of
its label, so a blob is the set of ids whose bytes it holds and a file maps each
byte to the id that wrote it. A *unit* is what the shuffler returns: the set of
ids merged into one label.

| Code | Actions |
|---|---|
| `LabelManager::publish_*`, `wait*` | `Publish`, `Receive`, `ReplyTimeout` |
| batch thread: collect, OBSERVE, shuffle, resume of a suspended fleet | `DropBatch`, `CollectBatch`, `Requery` |
| `g_cached_workers` refresh thread | `RefreshWorkers` |
| routing phases A, B, C and `schedule_batch` | `RouteDirect`, `ScheduleDirect`, `RouteSupertask`, `RouteIndependent`, `NoWorkerFor`, `ScheduleIndependent` |
| reply fanout thread | `FanOut`, `FanOutTimeout` |
| worker's label handler | `Take`, `NextChild`, `PerformWrite`, `PerformRead`, `PerformFails`, `Settle`, `Answer`, `CloseComposite` |
| worker life cycle and score thread | `Start`, `Stop`, `Crash`, `Suspend`, `Report`, `Resume` |

Each Redis or NATS effect that another actor can see in between is a step of its
own. A publish is one step because nobody knows the label before it is sent;
`execute_write` is one step because its blob and its volume are this worker's
alone while it holds `worker_mu`, and what it does to the catalog comes last. The order in which the units of a phase
are routed is arbitrary, as it comes out of hash maps. Solvers are any choice
among the available workers. Not in this module: pipelines, URI destinations,
continuations, and a crash of the dispatcher.

### Elastic

Each subject of the manager has a thread of its own, so messages of one subject
keep their order and messages of different subjects do not. The score handler
copies an entry in one step and writes it back in another (`CopyScore`,
`WriteScore`); the orchestrator reads the registry in several (`ReadIdle`,
`ReadSuspended`, `Decide*`) and then acts (`Commission`, `Forget`,
`DeregisterTarget`, `StopContainer`). Time is reduced to "the timeout has
passed" (`TimeoutPasses`, `CooldownPasses`). A resume by the dispatcher is part of
`WorkerWakes`. The tiered evaluation, which no service calls, is not modelled.

### Channel

Each method is cut where another thread can get in: at every atomic, at every
section under `mu_`, at every Redis or NATS call. `publish` is `PublishAdmitted`
(flags and backpressure), `PublishClaims` (`fetch_add`), `PublishStages`,
`PublishNotifies`, or `PublishThrows`; `subscribe` is `SubscribeChecks`,
`SubscribeInserts`, `SubscribeCounts`, `SubscribeOpens`; then `Unsubscribe`,
`DrainStarts`, `DrainLooks`, `DestroyMarks`, `DestroyClears`, `DestroyCleans`. Every
NATS subscription has its own queue and thread (`Handler*`), and a callback may
throw. The flags and the counter are tested in one step because neither ever goes
back; scan and deletion of the keys are one because only one thread deletes.

### ContentCache, PosixAdapter, Intercept

| Code | Definitions |
|---|---|
| `cache_write`, `cache_read`, `flush_locked`, `flush_all` | operators of the same names, `TakeAll` |
| `do_write`, `do_read` | `DoWrite`, `WriteReturn`, `DoRead`, `ReadLabel` |
| `close`, `dup`, `dup2`, `fclose` | `Close`, `CloseFlush`, `CloseEvict`, `Dup`, `Dup2`, `Dup2Duplicate`, `Fclose` |
| `flush_and_publish`, timer callback, flush at exit | `Publish`, `TrackRead`, `TrackResize`, one region after the other |
| `lseek`, `stat`, `unlink`, `rename`, `ftruncate` | `Lseek`, `populate_stat`, `Unlink`, `Rename`, `Ftruncate` |
| `init_session`, `labios_intercept_fini` | `SessionUp`, `SessionFails`, `Fini`, `Teardown` |

All bytes of write *w* are the number *w*, so that a region, a file and a reply
tell which write each byte is from. A call holds its `FileState` lock from first
to last step; closing takes none, the timer takes none, and these are the
interleavings the module is about. The pipeline is taken at its best: a label
takes effect when it is published, except that a bounded number of labels is
refused, fails, or is stored and answered too late. Descriptor numbers are
reused as the kernel does, lowest first. `torn` and `loose` remember the files to
which the code itself breaks the promise (a failed label, a reused descriptor
number, a size set by hand), and the properties speak of the others. An empty
read past the stored bytes returns "nobody's byte", 0. In the runs the writes at one
offset never become shorter, because `cache_write` then drops the tail (a finding).

### Workspace

A value is the number of the put that wrote it. Each process has its own lock
and access list, so `mu_` orders the threads of one process only, and processes
interleave command by command. Expiry, and commands that throw half way
(`Error`), are actions. The two fields of the metadata that do not depend on each
other are set in one step, and so are the copies that `del` deletes in its loop.

### Snowflake

An id is a millisecond and a number; the node id is constant. `Claim` is the
compare-and-swap, `Reset` the store after it, `FetchAdd` the other branch, `Spin` the wait
for the next millisecond. The clock is `steady_clock` and does not go back.

### Solvers, LabelRecord, Scheduling

Fractions are integers: normalised variables in tenths, weights in hundredths.
Where the code leaves the choice open (a random number, `std::sort` among equal
scores), an operator is the set of what it may return. `serialize_label` keeps the
fields the code writes and `deserialize_label` puts the schema's default in place of
the others, which for the type of a label differs from that of `LabelData`.
`Scheduling` takes one label at a time through `create_label`, `publish`, `ReceiveLabel`,
`Shuffle`, `ScheduleLabel` or `ScheduleByLocality`, `ExecuteLabel`, `FinishLabel` and
`ReceiveCompletion`, while workers register, report and leave. `SolveBatch` gives the
solvers batches of several labels, for which they are written; the dispatcher
asks them for one label at a time. The worker list is in the order `SetToSeq` takes,
one of those the hash map may have; the proofs use nothing of it.

## Runs

| Run | Question | Instance |
|---|---|---|
| `flow_merge` | Are merged, ordered and failing labels stored and answered truthfully? | 3 labels, 2 workers, 2 bytes, 1 backend failure |
| `flow_fleet` | Does that survive workers that crash, stop, start, suspend, and timeouts? | 2 labels of any type, 2 disturbances |
| `flow_live` | Is every label answered? | 3 labels, fairness, no aggregation |
| `shuffle` | Is every batch shuffled without loss, and conflicts kept together? | every batch of 4 out of 12 labels of two files |
| `elastic` | Is the registry right whatever the interleaving? | 1 static and 1 elastic worker, 2 exits, crashes or restarts |
| `channel` | Do concurrent publishers, subscribers, drain and destroy leave a channel sound? | 2 threads, `max_pending` 1, 2 subscribers, up to 2 NATS subscriptions |
| `posix` | Do the bytes an application writes survive cache, timer, close and exit? | 1 file, 2 descriptors, 1 thread and the timer, 2 writes, 1 failing label |
| `workspace` | Is a key sound under several processes? | 3 threads in 2 processes, 2 applications (one thread calls for the owner, two for the other), 2 puts, 1 failing command, expiry |
| `ids` | Are ids unique and does every call return? | 2 threads, 2 numbers per millisecond, 3 ids each |
| `scheduling` | Does a label keep its contents and history, and go to the right worker? | 3 workers, 4 policies, 2 kinds of label, batches of 4 and 51 |
| `flow_stale`, `posix_stale` | Disagreements of code and documentation, below | as small as shows it |

The bounds: two bytes are enough for writes that merge, that overlap and that do
neither; three labels are the least for a merged write that conflicts with a
read, or a supertask of three; two workers let labels of one file part; one
failure or two disturbances hit every step of a handler. Batches of four hold
two merged pairs, or a pair with a conflict on either side. With one elastic
worker every step of commissioning and decommissioning interleaves with the
handlers; `MaxCommissions` is the number of ids, beyond which creating the
container fails as Docker may at any time. In `channel`, `max_pending` is the real
bound on messages: two threads get two in, and `MaxMessages` is one above that so
that a wrong test would show. Threads are interchangeable, hence the symmetry.
In `posix`, `label_min_size` is 2, so that one-byte writes are cached, two of them
fill the cache and a two-byte write bypasses it; two descriptors are the least for
dup, dup2 and reuse of a number; one thread suffices because the calls on a file
are serialised and the timer is the concurrent party. Two processes, one of them
with two threads, have every pair of actors a workspace distinguishes. Two
numbers per millisecond instead of 4096 let two threads run out of them. A batch of 51
is the first that the constraint solver spreads over two workers.

Not among the runs, but kept beside them, are configurations whose
counterexamples belong to a finding: `MCFlowStatus.cfg` and `MCFlowFanout.cfg`
(with `MCLabelFlow`), `MCShuffleOrder.cfg` (`MCShuffleBatch`), `MCElasticResume.cfg`
(`Elastic`), `MCChannelServed.cfg` (`MCChannel`), `MCIdsUnique.cfg` (`MCSnowflake`).

Properties worth a word:

* `ImplementsService`: the refinement. Every client gets at most one answer,
  every payload is stored at most once, and a write is answered complete only
  after it was stored, merged writes and children of supertasks included.
* `BlobPresent`: no label is executed twice; the second execution would find an
  empty blob and truncate the file.
* `PayloadKept`: until a worker has stored a payload it is in the warehouse,
  whatever crashed or timed out.
* `CatalogTruthful`, `LocationBacked`: what the catalog says of labels and files.
* `QuietMeansAnswered` and `AnsweredOrAbandoned`: nothing is forgotten. They hold
  without aggregation; `MCFlowFanout.cfg` shows why it must be off.
* `HazardsTogether`, `SinglesInOrder`, `MergeIsExact`, `ExactlyOnce`,
  `SupertasksNeeded`: what a shuffled batch looks like.
* `RemovedStaysOut`, `TimerIsSuspension`, `RegistryComplete`, `MinimumKept`: the
  registry and the orchestrator under every interleaving of their threads.
* `BackpressureBounded`, `DrainCompletes`, `DataArrives`, `OrderedPerPublisher`: a
  channel passes its limit by less than one message per thread, never stays
  drained and alive, and delivers data, once, in order, while one NATS
  subscription is open. A second one (subscribe, unsubscribe, subscribe) delivers
  everything twice; the property says so by its condition.

* `NothingVanishes`: the latest bytes of a file are stored, cached, or in the
  hands of a thread that will publish them, in every state. `EventuallyStored`
  adds that the timer gets them out even if the application falls silent.
* `CacheBounded`, `SizeTracksStore`: the cache's byte count and the size in the
  catalog follow the data.
* `VersionsKept`, `KeyConsistent`, `NoEmptyGet`, `AccessHeld`: a workspace key; each
  states which overlap of two processes it excepts, and those do break it.
* `AscendUnlessRaced`, `CallReturns`: ids; the race that is excepted gives duplicates.
* `OriginKept`, `TrailComplete`, `BestAvailable`, `RoundRobinFair`, `BucketsCurrent`:
  what a label carries, and where it goes.

Each property has a mutant in `PROJECT.json`: a plausible slip in the code that
breaks it. The mutated forms stand next to the originals, marked "Seeded fault".

**Fairness.** `FairSpec` assumes that the batch thread, each fanout thread and
each worker's handler continue when they can; these are plain threads of running
processes. Nothing is assumed of clients, failures or the fleet. `ElasticFairSpec`
assumes the same of the manager's handlers and the elastic thread. In `Intercept` the
flush thread and a thread inside a call keep running (a wait for a label ends with
an answer or after `reply_timeout_ms`), and a process that has begun to exit ends;
nothing makes the application call anything. In `Snowflake` time goes on and the
scheduler runs every thread.

## Where the code and its documentation disagree

Two runs show such a disagreement:

* `flow_stale`: location entries of earlier writers stay in the sorted set, so a
  later read may be sent to a worker whose bytes were replaced elsewhere.
* `posix_stale`: the flush timer has taken a write out of the cache and not yet
  published it; a read finds it nowhere and returns the bytes before it.

Counterexample configurations show these:

* `MCFlowStatus.cfg`: `schedule_batch` runs after the labels were published and sets
  "scheduled" over a status that is already complete or error.
* `MCFlowFanout.cfg`: a merged write that lands in a supertask is executed with
  its first chunk only and answered to its first client only.
* `MCShuffleOrder.cfg`: a merged write runs at the place of its first chunk by
  offset, so a read issued between two merged writes is on the wrong side of one.
* `MCElasticResume.cfg`: a resume the orchestrator decides on is sent only when the
  manager stops, since `run()` loops until then.
* `MCChannelServed.cfg`: two threads that subscribe at once may both count two
  subscribers, and no NATS subscription is opened.
* `MCIdsUnique.cfg`: a thread draws a number between another's claim of a
  millisecond and its reset of the counter, and both get the same id.

The rest, which reading the code decides, is under `findings`: dependency granularity,
tier awareness and atomic supertasks; a driver whose session fails does not fall back for
the call that found out; the drain at teardown finds no session; a shorter write replaces a
longer cached region; MinMax gives a label to a worker without profit and ignores
weight profiles; workers within a score bucket are not sorted.

## Proofs

`ServiceProofs` proves in its first part, for any sets of workers and any bounds, that
`ElasticSpec` keeps `ElasticInv`, and from it the four properties the run
checks. None of these is inductive by itself:

* `RemovedStaysOut` needs to know that no registration of a removed worker is on
  its way, and that a removed id is never booted again (`RemovedAreElastic`,
  `ElasticKnown`).
* `RegistryComplete` needs the cause of every pending deregistration
  (`DeregistrationCause`): the worker left, or was decommissioned.
* `MinimumKept` needs that between the decision and `DeregisterTarget` the
  registry still has room (`RoomToShrink`): the count is older than the act, but
  only the orchestrator and workers that leave make it smaller.
* `TimerIsSuspension` needs the shape of the timer of a worker that is not
  suspended (`TimerShape`).

`LabelFlowProofs` proves `FlowTypeCorrect`, `Spec => []TypeOK`. `TypeOK` alone is
not inductive: the id and the range of a unit are chosen out of it, so every unit
that is routed, packed, queued or executed must be non-empty (`Filled`,
`FilledMessages`, `FilledHandlers`, together `FlowInv`). Lemmas say that the
shuffler returns non-empty units and supertasks of non-empty units
(`AggregateFilled`, `SupertasksFilled`), and that a location that is not 0 is a
worker (`LocationTyped`).

The module goes on from there to what the pipeline does with a label and
with its payload: `BlobPresent`, `MergedIsWhole`, `PackPresent`, `CatalogTruthful`,
`PayloadKept` and the refinement `ImplementsService`, for any number of labels,
workers and files. All of them rest on one invariant, `PlaceInv`, of four parts:

* `Somewhere`: there are four functions that give, for every label, the place it is
  in (`at`: unpublished, buffer, one of the three kinds of routed units, queue, the
  children before a handler, the handler, done), the worker (`on`), the merged unit (`unit`) and the
  composite (`team`) it travels with, such that what each variable holds is what
  the functions say (`Placed`). The code has no such function; that one exists is
  why no label is executed twice and no two messages share a label. The proof of
  a step names the new functions.
* `Apart`: two messages in one queue carry different labels.
* `Truthful`: until it is stored the payload of a write is under exactly one key of the
  warehouse (`PayloadOnce`); what a handler has noted, what a
  fanout thread is to send and what the catalog says is only "complete" if the
  payload was stored.
* `FlowInv`, for the shape of the units.

None of the six properties is inductive: `PayloadKept`, for one, fails as soon
as two units may hold the same label. The lemmas about the shuffler say that
its precedence is a strict order, that runs are disjoint and that every label of a
batch comes out in exactly one unit and one supertask (`RunsDisjoint`,
`UnitsDisjoint`, `UnitsCover`, `SupertasksDisjoint` of `ShufflerProofs`). They are
what makes the step from buffer to routed units go through. The refinement maps `Publish` to `Open`,
`PerformWrite` to `Apply` of the labels in the blob, `FanOut`, `Answer` and the
batch thread's reply to OBSERVE to `Reply`, and every other step to a stutter; it
needs `Truthful` to know that a reply "complete" is allowed.

Its last part is about the undisturbed pipeline (`Undisturbed`: no worker left, nothing
timed out, nobody was told "error"). A disturbance is never undone (`UndisturbedBefore`), so a step
that ends undisturbed began so, and then nothing is dropped (`NothingDropped`): what a worker was
sent it holds until it has answered for it without an error. A handler that failed cannot go
unnoticed (`ErrorIsTold`), and for this every merged unit that travels on its own must have its fanout
thread (`FanoutWaits`). From this follow

* `LocationBacked` (`LocationsAreBacked`), with the files of performed writes (`FilesWritten`), for
  writes of at least one byte: the model knows no empty files.
* `QuietMeansAnswered` (`RestMeansAnswered`), with an account of every waiting label (`Accounted`:
  it is in the buffer, on a route or held by a worker), the state of the fleet (`FleetReady`) and the
  order of the routing phases (`RouteOrder`). It assumes at least one worker, since a batch without any is
  dropped silently, and no aggregation: with it the property is false, which the run
  of `MCFlowFanout.cfg` shows.

`ShufflerProofs` holds what the operators of `Shuffler` guarantee, for any finite batch:
a non-empty finite set of labels has a first and a last one in the shuffler's order
(`FirstLabel`, `LastLabel`, along strict inclusion), runs of writes are disjoint and cover the
merged labels (`RunsDisjoint`, `RunsCover`), a byte of a run is held by exactly one of its
labels (`RunHolds`, `RunOnce`, `RunFull`), the labels of a unit are of one file and one type
(`UnitAlike`), and units and supertasks are disjoint. `ShuffleBatchProofs` takes from them the
five properties the runs of `ShuffleBatch` check. Its invariant `ShuffleInv` only says what each
phase has computed; the work is in the lemmas. `NothingSerializedInVain` assumes per-file
granularity: the per-application grouping compares ranges of different files, and then
the property is false.

`WorkspaceProofs` proves `VersionsKept`, `KeyConsistent`, `NoEmptyGet` and
`AccessHeld` from `WsInv`: who holds which lock (`Locks`, mutual exclusion
inside a process), what an overlap of two processes is (`Overlaps`), which version
each key holds while its put, del or expiry is half way (`Versions`, `Key`).

The second part of `ServiceProofs` proves `AscendUnlessRaced` of `Snowflake` from `IdInv`. While no draw has
fallen between a claim and its reset, the thread that claimed the millisecond is
alone (`Claimed`), and otherwise `last_ms` and the counter lie above every id
drawn in that millisecond (`Counted`).

`ChannelProofs` proves the four channel properties, for
any number of threads, messages and subscribers. `BackpressureBounded` needs the
threads between test and claim counted in (`ClaimsBounded`). `DrainCompletes` needs
that while a drained, empty channel lives, some thread is on its way to destroy it
(`DrainPending`). `DataArrives` needs the data followed from the publisher through
the queue and the handler (`StagedFirst`) and that only a destroyed channel is cleaned
(`CleanersMarked`). `OrderedPerPublisher` needs, for the one subscription that is open,
that the numbers of one author ascend from what a subscriber has, over what the
handler holds and the queue holds, to what the author is about to announce.

`PosixProofs` proves the four invariants of the `posix` run, for any number of files, descriptors,
threads, sizes and writes. No action is treated twice: `StepDoes` shows once that every step of the
model has one of a few *effects* (`Effects`: a call opens, closes, collects a cache, puts a region out,
reads the size, writes the size, returns, ...), and the invariants are shown for the effects.

* `PosixTypeOK` and `CacheBounded` (`PosixTypes`, `CachesBounded`) follow from `TypeInv`
  (`TypeCorrect`): a `FileState` counts the descriptors that lead to it (`RefInv`), the regions of every
  cache are sound and sum up to its byte counter (`CachesInv`), and every call is at a step its
  code has (`CallsInv`).
* `SizeTracksStore` (`SizeCorrect`) needs who is between reading the size and setting it, and what
  he has read (`SizeInv`): `track_write` is two commands, and the size is right because on a file that is
  not `torn` nobody else is there at the same time.
* `NothingVanishes` (`NothingLost`) needs that every byte that is owed is in a cache or in the list
  of a call (`OwedInv`), and that the cache of a descriptor belongs to the file the descriptor leads to, through
  close, reuse of the number and exit (`PathInv`); otherwise a flush would publish under
  another path. It is proved under one hypothesis on the constants, `OneLength`: writes that are cached at
  one offset have one length. The code does not ensure this of an application, and without it the property
  is false: `cache_write` replaces the region at an offset as a whole, and a shorter write
  loses the tail of a longer one (`content_manager.cpp:96`, one of the findings). Applications that write
  records of one size meet it, and so does the run.

What the cache's sums, its regions in order and the concatenated lists return is shown by
lemmas on their loops, by removing one element from a finite set at a time (`SubsetInduction`).

`SchedulingProofs` proves the five properties of `Scheduling`, for any workers, traits,
weights, label parameters and batch sizes.

* `BucketsCurrent` (`BucketsFollowScores`) needs that `scores_` is what the profile makes of the
  registry, for that is where `remove_from_buckets` looks the old bucket up (`RegistryInv`).
* `RoundRobinFair` (`RoundRobinIsFair`) fails for an arbitrary cursor and arbitrary counts. The
  invariant `Walk` says more: from the cursor on, round the pool, the counts grow, and the last exceeds
  the first by at most one. Serving the worker at the cursor and advancing it keeps this
  (`Serve`), so every batch does (`ServeBatch`); `Tally` subtracts the least count, which changes no
  difference (`LevelPool`), and a cursor left over from a longer list starts at 0.
* `OriginKept` (`OriginIsKept`) needs that no label of the pipeline has a part that the encoding
  drops: a continuation of kind None, a routing without worker and policy, an aggregation
  without children (`Sound`). For such labels decoding undoes encoding (`RoundTrip`).
* `TrailComplete` (`TrailIsComplete`) needs what a label has been given by each stage (`HopsInv`, `TimesInv`,
  `MarksInv`) and that the completion on the wire tells the outcome (`Told`).
* `BestAvailable` (`BestIsAvailable`) needs that the last plan is one the policy may make for the
  dispatcher's list (`PlanInv`), and that scores are numbers, for which every worker in registry and list
  must be as it was reported (`ReportedInv`). The rest is about the solvers. The counts of a pool add up to
  the batch (`CountsAddUp`). The constraint solver goes round its best workers, and the
  label of a later position has one of an earlier position in its round (`Rounds`). MinMax walks the
  workers from the best down: the rounded shares fall with the profit (`ShareFalls`), what is left to take
  falls too, so the counts do (`TakesFall`), and what remains goes to the first.

The assumptions are the named `ASSUME`s of the modules, which TLC evaluates in
every run, and four hypotheses of single theorems, named above: no empty writes
(`LocationsAreBacked`), no aggregation and a worker (`RestMeansAnswered`), per-file granularity
(`NothingSerializedInVain`), `OneLength` (`NothingLost`). The runs of these properties meet them.

The library's induction theorems take an operator as a parameter and cannot be used. Where a loop
is a recursive function (the filter of available workers, the sum of the profits, the labels MinMax has
assigned), the proofs argue by a least counterexample (`Reaches`, `LoopDefined`) or along strict inclusion
of finite sets (`SubsetInduction`); loops are written so for that reason.

Only model-checked, and why:

* Liveness (`AnsweredOrAbandoned`, `EventuallyStored`, `CallReturns` and the like), which with
  `ENABLED` and recursive operators is out of the prover's reach.
* The runs that expect a violation, of course.

## Plan

Every invariant and every action property of the runs that pass is proved, except the liveness
properties. Next would come, of the code, continuations and a crash of the dispatcher, and of the proofs,
the safety part of the liveness properties: what must hold for a waiting label to be able to go on.

## Not modelled

Configuration, URIs, telemetry formatting, the KV and SQLite backends and the C,
Python and MCP front ends are parsing, formatting or forwarding. SDS programs are
functions on bytes without state. Continuations parse a condition and publish once more after
a completion. Connections of the Redis and NATS clients are I/O; their commands are
the atomic steps of the other modules. Of the encoding, FlatBuffers itself and scalar fields that
travel like `data_size` are left out; of the driver, the calls that go on to libc; of the
ids, two processes that draw the same random node id.
