# Formal models of the Dalaran data path

Dalaran is a logging system for multimodal data: programs log rows of data
through an SDK, the data travels through a pipeline of threads, channels and a
gRPC connection to a proxy, and viewers read it from there, at once or later,
into a store of chunks with a query cache in front, downloading and offloading
chunks as the view and the memory ask for. This directory holds TLA+ models of that path, the TLC runs that check them
and TLAPS proofs about them. `PROJECT.json` lists, for every definition, the
source lines it models.

## 1. Inventory

Paths are below `src/crates/`.

| Component | State | Operations | Talks to |
|---|---|---|---|
| SDK recording stream, `top/dl_sdk/src/recording_stream.rs` | command channel, handle of the forwarding thread, current sink, batcher configuration, tick | `record_row`, `send_chunk`, `record_msg`, `flush_*`, `set_sink`, `disconnect`, `finalize_deferred_sinks`, `Drop`; the loop of `forwarding_thread` | batcher (commands, chunks), sink (calls) |
| Chunk batcher, `store/dl_chunk/src/batcher.rs` | accumulators per entity, `skip_next_tick`, configuration | `push_row`, `push_chunk`, `flush_blocking`, `update_config`, `Drop`; the loop of `batching_thread` | recording stream through two quota channels |
| Log sinks, `top/dl_sdk/src/log_sink.rs` | backlog, file writer, client | `send`, `flush_blocking`, `drain_backlog`, finalization | forwarding thread; gRPC client |
| Quota channel, `utils/dl_quota_channel/src/sync/` | `bytes_in_flight`, `num_receivers`, fair mutex, crossbeam channel | `send`, `try_send`, `recv*`, `select!`, clone and drop of receivers | used by the two components above and by the viewer |
| Broadcast channel, `utils/dl_quota_channel/src/async_broadcast_channel.rs` | byte, message and receiver counters; tokio ring buffer | `send_async`, `subscribe`, `recv`, drops | message proxy |
| gRPC client, `store/dl_grpc_client/src/write.rs` | command queue, connection state, shutdown channel | `send_blocking`, `flush_blocking`, `Drop`; `message_proxy_client` | server |
| Message proxy, `store/dl_grpc_server/src/lib.rs` | event queue, history with its garbage collector, broadcast channel | `write_messages`, `read_messages`, `NewClient`, event loop | SDKs and viewers |
| Viewer control, `store/dl_grpc_server/src/viewer_control.rs` | UI commands with callbacks | command, answer | message proxy |
| Log channel, `store/dl_log_channel/` | set of receivers | send, receive, select, retain | viewer |
| Chunk store, `store/dl_chunk_store/src/` | physical chunks, virtual (indexed) chunks with `max_interval_length`, static chunk per entity, reference-counted lineage, splits and compactions made | `insert_dlr_manifest`, `insert_chunk` (splits, compaction), `gc`, `drop_entity_path`, `drop_time_range_deep`, queries | entity db and query cache (events) |
| Query cache, `store/dl_query/src/` | latest-at results by query time, range results by chunk, pending invalidations | latest-at and range queries, `on_events`, `gc`, `clear` | chunk store |
| Entity db, `store/dl_entity_db/src/` | chunk store; load state of every chunk a manifest offers; requests in flight; protected chunks | `add_*`, `gc_with_target`, `prefetch_chunks`, `cancel_outdated_requests`, `receive_finished` | viewer, server |
| Viewer frame, `viewer/dl_viewer/src/app/logic.rs`, `prefetch_chunks.rs` | time cursor, memory limit, fetch options | purge, receive messages, receive fetched chunks, prefetch, draw | entity db |
| Everything else | — | encoders, importers, dataframe and datafusion queries, redap client and server, the rest of the viewer, code generators | — |

The hard behaviour of the path is concurrency and back-pressure. Two kinds of
data (rows and commands) race through separate channels; `flush`, `set_sink`
and `Drop` promise something about data that is still in other threads; each
queue is bounded and blocks its producers; wake-ups cross lock boundaries;
timeouts leave commands behind that are answered late; clients come and go
while a history is collected. Behind the proxy it is bookkeeping over long
sequences of legal calls: chunks that are split, compacted, offloaded and come
back, counts and indices that follow them, a cache and load states that only
hear of it through events, and downloads that are decided anew each frame
against a collector that frees memory. Nothing on this path is persisted and re-read
after a crash, so there is no crash recovery to model.

What makes each component correct:

* quota channel: within the byte budget, no message lost, doubled or
  reordered, no sender asleep while there is room, every send returns;
* broadcast channel: every subscriber gets every message from its
  subscription on, the counters are exact, a waiting sender is woken;
* gRPC client: what reaches the stream is a prefix of what was queued, an `Ok`
  flush has put everything before it on the stream, calls return;
* message proxy: history plus live stream has each message exactly once, store
  information comes first, the collector keeps its limit and its priorities;
* recording stream: everything recorded ends in exactly one sink, in order per
  thread, entity and shape of rows, and `flush`, `set_sink` and `Drop` keep what their
  documentation promises;
* chunk store: no row lost by an insertion or stored twice, lineage counts
  exact, nothing unrecoverable in the indices, a latest-at query finds the
  latest row, events tell subscribers exactly what is in memory;
* entity db: the load states are true to the store, what a query misses can be
  asked for and is in the end loaded, and the view shows the latest rows;
* query cache: a cached answer is the store's answer.

## 2. Modules

| Module | Models | Notes |
|---|---|---|
| `QuotaChannel` | `sync/mod.rs`, native build | one action per region between two synchronisation points |
| `Broadcast` | the contract of the broadcast channel | abstract: one log, one cursor per subscriber |
| `BroadcastChannel` | `async_broadcast_channel.rs` and the tokio channel under it | refines `Broadcast` |
| `GrpcClient` | `write.rs` | the server and tokio's mpsc are external |
| `MessageProxy`, `MCMessageProxy` | `dl_grpc_server/src/lib.rs`, `priority_stream.rs` | written against `Broadcast` |
| `RecordingStream`, `MCRecordingStream` | `recording_stream.rs`, `batcher.rs`, `log_sink.rs` | channels are bounded queues of messages |
| `ChunkStoreOps` | `dl_chunk_store/src/{writes,gc,lineage,query,drop_time_range}.rs`, `dl_chunk/src/split.rs` | the operations of the store, as operators from a store to its possible results |
| `ChunkStore`, `MCChunkStore` | the store under any sequence of operations, with a subscriber | uses `ChunkStoreOps` |
| `EntityDb`, `MCEntityDb` | `dl_entity_db/src/`, the frame of `dl_viewer` | composes the store with the load states, requests and budget |
| `QueryCache`, `MCQueryCache` | `dl_query/src/{cache,latest_at,range}.rs` | composes the store with the cache |
| `QuotaChannelProofs`, `BroadcastChannelProofs`, `GrpcClientProofs`, `MessageProxyProofs`, `RecordingStreamProofs`, `ChunkStoreProofs` | — | theorems about the module of the same name, for all constants |
| `DataFacts` | — | lemmas on sums, sizes, sequences and ranks that the proofs share |
| `FoldFacts` | — | what a fold or a recursive function keeps, for an operator and a predicate that a proof instantiates |

Composition: `RecordingStream` uses what `QuotaChannel` establishes (a bounded
FIFO queue whose senders are served in turn and are woken), `MessageProxy`
instantiates `Broadcast`, which `BroadcastChannel` is shown to implement.
`ChunkStore`, `EntityDb` and `QueryCache` are three systems around the same store.
The mutants named in the modules' comments are variants of single definitions with
a plausible bug; they are not part of any specification.

### QuotaChannel

Variables `bytes_in_flight` and `num_receivers` are the fields of `Locked`,
`sender_queue` is the fair mutex `active_sender` (holder first), `wire` the
crossbeam channel. A sender is `queued` for the mutex, at its `check` under the
`state` lock, `parked` on the condition variable or past its reservation
(`reserved`). A receiver pops (`got`), accounts (`notify`) and notifies in three
steps, because `manual_on_receive` notifies after it unlocks; a drop is
`drop_last` (the count is lowered), then the notification, then the drop of
the inner receiver. `send` and `try_send` differ in their test for room and are kept
apart. A message refused by crossbeam does not give its bytes back, as in the
code. All receive functions and `select!` pop one message and call
`manual_on_receive`; they are one pair of actions. The wasm32 variant, which
never waits, is left out.

### Broadcast and BroadcastChannel

The reference counts of `TrackedInner` are what decides when a place is given
back. `Unread(p)` and `Clones(p)` are the references that exist: the slot of
tokio's ring buffer until all receivers subscribed at the time have read it,
and one for a receiver inside `recv`. `send_async` is a loop of `try_send`
(`TryNoReceivers`, `TryReserve`, `TryFull`, then the inner send) and an await.
`Notify::notify_waiters` wakes only tasks in `waiting`, that is, whose
`notified()` future exists. The refinement maps a receiver's tokio position to
the cursor of `Broadcast`; it is subscribed from `inner.subscribe()` to the drop
of its inner receiver.

### GrpcClient

`status` is the shared `ClientConnectionState`, `thread` the position in
`message_proxy_client`, `cmds` the queue, `shutdown` the shutdown channel. Flush
commands carry the number of the call they belong to: their `on_done` is open
only while that very call waits. `late` says that `connect_timeout_on_flush` has
passed; intervals and retries are untimed choices. The server may refuse,
accept, or fail while streaming, at any step. It may also stay connected and
stop reading for good (`ServerStalls`): tonic then no longer polls the stream
(`StreamPolled`) and the `write_messages` call does not return. A server that
is merely slow needs no action of its own; the thread's steps come late.
`CallsReturn` therefore names two ways for a call to wait for ever: a full queue
that nobody empties because no connection comes up (`StuckFull`), and a
stalled server (`StuckServer`), which blocks a flush without a timeout and the
join in `Drop`. A flush with a timeout that has its place in the queue returns
in every case.

### MessageProxy

`events` is the event queue, `handling` the message of a `handle_msg` that may
be waiting for the broadcast channel, `history` the `MessageBuffer`.
`options` is chosen in the initial state, so that one run covers a limited, an
unlimited and a disabled history and both playback behaviours. Blueprint and
table messages and UI commands are kept in the same queues as the kinds
modelled, and are folded into them; a message without a payload, which
`add_log_msg` logs and drops, is not among the messages written. The
`send_async` at the end of `handle_msg` is the loop of `BroadcastChannel` in small
(`sender`, `warned`): it finds the channel full, creates its `notified()`
future, is woken by the last reader of a message or by a client that goes, or
by the 5 s timer the first time. A notification that comes between the full
channel and the future is missed; before the warning the timer makes up for it,
afterwards the event loop sleeps on (`LostWakeup`). That is the finding of
`broadcast_channel_lost` seen from the proxy, and `PushReturns` exempts it.
`StreamsCatchUp` says what a client can count on: it catches up with the live
stream unless it is starved, and with `NewestFirst` its history waits for as
long as live messages keep coming (`PriorityMerge` polls the live stream first).
The bound on the writes ends the live traffic in every behaviour of the run; the
property is nevertheless stated with the starvation as an explicit case, so it
does not rest on that bound. `All` reproduces the order of the replay,
`Gc` the two loops of the collector with the early return and the strict
comparison of the code. A writer's stream begins with its `SetStoreInfo`, as
the SDK sends it.

### RecordingStream

A call is the sequence of its blocking steps (`Steps`), each an action that
sends a command or waits for an answer; the batching thread and the forwarding
thread take one action per command, tick, send and reply. `Drop` begins when
no other call is under way, because it runs with the last handle.
`RowThreshold` depends on the kind of the sink, since `set_sink` updates the
batcher's configuration. Bytes in an accumulator and the tick are
nondeterministic. `ManyIntoChunks` is `PendingRow::many_into_chunks`: the rows of an
accumulator are sorted by row id, grouped by their set of timelines and their
datatypes (`Shape`, from the constant `RowData`) and cut where a time column is
out of order and the chunk has `chunk_max_rows_if_unsorted` rows (`AddRow`). The
number `nr` of a call stands for the row id, which the call creates at its
beginning, before it has to wait for the channel. The groups come out in any
order; the code nests two hash maps, so that groups with the same timelines stay
together, which the model does not keep. `chunk_max_rows_if_unsorted` is one
constant, although each kind of sink may bring its own. Regrouping means that rows of different
shapes overtake each other on the way to the sink: `RowOrder` promises the
recorded order per thread, entity and shape, and ascending row ids in every
chunk, which the code takes for granted when it passes `is_sorted = Some(true)`.
`MCRecordingStream` checks `ManyIntoChunks` on its own, for up to 4 of 6 rows in
every order of arrival (`ChunksOfRows`). A sink is what it was sent, how much of it has been flushed
and whether a flush failed; only a buffered sink (`BufferedSink`, `MemorySink`)
gives back a backlog, only a file-like sink defers its finalization. Not in
the model: `SetStoreInfo`, which is sent to every new sink and is idempotent;
`InspectSink`, which only reads; chunks that are dropped because they are empty or cannot be
serialised, which the code reports as a bug; importer threads, forked children,
`MultiSink`.

### ChunkStoreOps and ChunkStore

A row is a number, ordered as its `RowId`; its time, its entity and whether it is
static are constants, so that "no row lost" and "no row doubled" can be said.
A chunk is a set of rows of one entity with one component on one timeline; its
size in bytes is its number of rows. The store is one record: every operation
takes it by exclusive reference and passes through intermediate stores, which
the operators thread through. Where the code's result depends on the order of
a hash map or on the time budget of the collector, an operator returns every
possible result. `InsertChunk` is `insert_chunk_impl` in its order: refuse what is
there already (itself or through a leaky compaction), clean up after the
virtual chunk and after earlier splits, record the lineage, then the static,
the split or the temporal path with the election of a neighbour to compact
with. `DropLineageReference` runs the worklist of the code with enough fuel for
every store. `WasIndexed` reproduces that `remove_chunk_from_virtual_indices`
reports success when the shared entry of a start or end time exists.
`max_interval_length` only grows. Static data is that of a component that is not a
named transform: for `Transform3D` and `Pinhole` the code leaves an overwritten
static chunk in memory (`writes.rs:35-41`, `559-564`), so that several of an
entity are physical at once. A manifest part is inserted once, before any of
its chunks; a second copy would overwrite the lineage entries of its chunks and
reset their reference counts (`writes.rs:82-121`), and is outside of the model
(`InsertManifestAction`; `AddManifestMessage` in `EntityDb`). `ChunkStore` adds a subscriber that knows the
physical chunks from the diffs alone. `dropped` remembers the entities of
explicit drops, after which the code's own bookkeeping is weaker:
`drop_entity_path` leaves the lineage alone, and a chunk that a dropped time range cut can be
fetched again. Of the properties, `NoGhost`, `NoDuplicates` and the exact half of
`LineageCounted` exempt them. Not in the model: several components and timelines
per chunk, the schema, `drop_time_range_shallow`, `protected_time_ranges`.

### EntityDb

One frame is five steps in the order of `App::logic_impl` followed by drawing:
the collector may run (on what the last prefetch did not protect, furthest
from the cursor first), a manifest message may arrive, finished downloads are
inserted and outdated ones cancelled, `PrefetchChunks` decides what to fetch and
to protect, and `Draw` queries every entity at the cursor, which reports used
and missing chunks to the tracker. Downloads end beside it (`Finish`).
`PrioritizedRoots` is the order in which the prioritizer offers roots, `PassOf` the
passes of `prefetch_chunks_for_recordings`, `FetchMissing` and `KeepLoaded` the two
arms of `fetch_inner` with their budget rules: memory saturates at zero, the wire
may be overdrawn by the last chunk, required roots go on without memory. A
query answered by the cache reports only the chunk of its answer, so `Draw`
chooses which entities the cache has. The memory limit and
`max_fetch_stage` are chosen in the initial state. Not in the model: high-priority
and indicated chunks, the loop range, several recordings that share the
budget, explicit drops, the deep collection of blueprints.

### QueryCache

`Change` is a change of the store; its events reach the cache in a separate step
(`OnEvents`), because `EntityDb` takes the engine's lock twice, and queries may
come in between. A latest-at result is cached under the time of its data and,
as a reference, under the time of the query; a range result is the set of
chunks cached by id, of which a query takes the rows in its range or, of a
static chunk, the latest row (`RowsInRange`). Events only add to the pending notes, which the next query of the same
key acts on. The note-keeping of `handle_pending_invalidation` is that of the
code (see below). Not in the model: the `Clear` component.

## 3. Runs

Sizes are those of a two-core machine. `entity_db` and `query_cache` also check
that there is no deadlock: a viewer can always go on. The other runs bound the
number of calls and end when these are made; that nobody waits for ever in
them is the subject of the liveness properties.

| Run | Bounds | Checks |
|---|---|---|
| `quota_channel` | 2 senders with 2 calls each, 2 receivers, capacity 2, sizes 1 and 3 (244 000 states) | `OneActiveSender`, `NoLostWakeup`, `MemoryBound`, `Lossless`, `ByteAccounting`, `SendReturns` |
| `broadcast_channel` | 1 sender with 3 calls, 2 receivers, 2 messages, 2 bytes (54 000 states) | refinement of `Broadcast`, `CountersExact`, `UnwarnedSendReturns` |
| `broadcast_channel_lost` | as above | finding: `SendAsyncReturns` is violated |
| `grpc_client` | 2 callers with 3 calls together, queue of 3 (115 000 states) | `SentInOrder`, `FlushDelivers`, `CallsReturn` |
| `grpc_client_abandoned` | 1 caller, queue of 2 | finding: `StreamSurvivesFlush` is violated |
| `message_proxy` | 2 writers, 2 clients, 3 messages, queues of 1, with fairness (342 000 states) | `ExactlyOnce`, `LateJoinerSeesAll`, `StoreInfoFirst`, `HistoryBound`, `PushReturns`, `StreamsCatchUp` |
| `recording_stream` | 2 interchangeable threads, 3 calls, one entity, 2 shapes of rows, 2 kinds of sink, queues of 1 (2.6 million states) | `TypeOK`, `Conservation`, `ShutdownDrains`, `RowOrder`, `SwapGuarantee`, `FlushGuarantee` |
| `recording_stream_live` | 2 threads, 2 calls of all kinds (260 000 states) | `CallsReturn` |
| `chunk_store` | 8 chunks of 12 rows in 3 entities, `chunk_max_rows` 2, 3 kinds of collection, 6 operations (34 000 states) | `PhysicalIsIndexed`, `LineageCounted`, `NoGhost`, `NoDuplicates`, `InsertKeepsRows`, `EventsTellAll`, `LatestAtFindsLatest`, `GcProtectsAndProgresses` |
| `entity_db` | 4 chunks in 2 manifest parts, memory for 4 or 9 rows, wire for 3, batches of 2, fetch stages similar and everything, 2 collections, 1 move of the cursor (82 000 states) | `TransitIsPending`, `MissingIsUnloaded`, `LoadedIsPhysical`, `ViewResolves`, `ViewShowsDataInMemory` |
| `entity_db_failed_fetch` | as above with one failed download and no collection | finding: `ViewResolves` is violated |
| `query_cache` | 5 chunks of one entity, 4 changes of the store, any number of queries at 2 times (130 000 states) | `LatestAtTellsTheTruth`, `RangeTellsTheTruth` |

Why the bounds are enough: capacities of one to three make every queue reach
its limit within a few calls; the sizes 1 and 3 around a capacity of 2 give
messages that fit, fill and exceed the budget; two actors of each kind produce every
pairwise race, and the third call leaves room for the one that comes between
two calls of another thread (record, swap by another thread, flush). The
history limit is below what the messages of a run add up to, so that the
collector runs, with messages of more than one size. In `broadcast_channel` one sender suffices for the proxy, whose event loop
is the only sender, and lets the receivers have three messages, one more than
the channel holds. With `chunk_max_rows` 2, a chunk of three rows is split and two
neighbours of one row are compacted; six operations are a manifest, two or
three insertions that compact or split, a collection, and the return of a
chunk with what follows it. In `recording_stream` the first and the third row
have one shape, with a time that goes back, and the second another, so that a
flush regroups them; rows of two threads arrive in the other order than that of
their ids. In `entity_db` the wire holds less than the
recording, so batches follow each other and are cancelled by the one move of
the cursor; a limit of 9 rows is more than the recording's 6, and one of 4 is
just above what the view uses, so the collector and the prefetching compete.
Two collections let a chunk be offloaded and come back as a split.

### Fairness

* `QuotaChannel`: weak fairness of each thread between its synchronisation
  points and of popping. `active_sender` is a fair mutex and the model queues
  its waiters, so no strong fairness is needed; the 5 s timeout gets none, so
  that no progress rests on it.
* `BroadcastChannel`: weak fairness of tasks and receivers, and of the 5 s timer,
  which a runtime fires.
* `GrpcClient`: strong fairness of a caller, because tokio's mpsc hands out places
  in order, and of the shutdown arm of the `select!`, which is polled in random
  order; weak fairness of the thread, which includes that a failed connection
  attempt is retried but not that any attempt succeeds, nor that a connected
  server keeps reading: the steps that need it are disabled once it stalls.
  Strong fairness of the timeout of a flush, which its own thread measures.
* `MessageProxy`: strong fairness of a push (mpsc again), weak fairness of the
  event loop and of connected clients. The event loop may sleep in `send_async`
  with no step enabled but a notification, so its fairness does not assume that
  `send_async` returns. A client that never reads and stays
  connected blocks the proxy; that is the design of the back-pressure.
* `RecordingStream`: strong fairness of each thread's steps (places in a quota
  channel are handed out by the fair mutex), weak fairness of the batching
  thread without its tick, and, in `FairSpec`, of the forwarding thread. A
  `flush` with `Duration::MAX` has no timeout, so the timeout gets no fairness.
* `EntityDb`: weak fairness of the step of the frame, because the viewer asks for
  a repaint whenever it starts or has pending requests; strong fairness of the
  end of a download of each root: one that is not cancelled ends, well or
  badly, and one that is started again and again is not cancelled each time
  just before its end. Collections and moves of the cursor are bounded, so
  the liveness properties speak of a user and a memory that come to rest.

### Findings

Each of the three runs that end in a violation shows one:

* `send_async` can miss the `notify_waiters` between the `Full` of `try_send` and
  the creation of its `notified()` future. Until it has warned, a timer covers
  for that (`UnwarnedSendReturns` holds); afterwards it waits although the channel is empty.
* The answer to a flush whose caller has given up ends the gRPC stream and
  drops what is queued behind it, although the comment beside it says that
  this "isn't an error".
* A failed download is dropped from the list of requests
  (`chunk_requests.rs:170`) and its roots stay `InTransit`: they are not asked for
  again, and a view that needs them never completes.

### Observations

Points met while modelling, which the models reproduce and the properties are
worded around, without a run of their own:

* A split or compaction of a chunk from a manifest is forgotten by the
  collector, index entry included (`gc.rs:331-350`), while the root it came from
  is not indexed either. A query then answers with an older row and reports
  nothing missing, whereas `store.rs:539` says virtual chunks "are still
  indexed". With free memory and `FetchStage::Everything` the prefetching brings
  the root back; with the default stage, or full memory, it need not.
  `ViewShowsDataInMemory` is therefore stated for recordings that fit and are
  fetched whole.
* When the chunks the last frame used fill the memory limit by themselves, no
  pass of the fetcher starts (`prefetch_chunks.rs:105-107`), not even the one
  for required chunks, for which `try_fit_in_memory` would "Risk it!"
  (`chunk_prioritizer.rs:284`). `ViewResolves` holds for limits above that.
* `prefetch_chunks` returns early when the wire is full and leaves the trackers as
  they were, so the sanity check in `receive_fetched_chunks` can complain about
  chunks that are no longer missing.
* Protected chunks are physical ids: a compaction between the prefetch and the
  next collection makes protected data collectable. It is downloaded again.
* `protect_latest` keeps the chunks that *start* last (`gc.rs:257-303`); with
  overlapping ranges that need not be the one with the latest row, which
  the documentation of `gc` says is unchanged.
* The row-id pass of `gc_find_candidates` counts chunks again that the distance
  pass has taken.
* `insert_dlr_manifest` overwrites the static chunk of an entity without
  comparing row ids; a later manifest part with older data wins. `entity_db` has one static
  chunk per entity for that reason. An older static chunk inserted after a
  newer one stays physical, and `drop_entity_path` does not see it.
* `LatestAtCache::handle_pending_invalidation` keeps the notes it acted on and
  drops those that matched nothing, the opposite of its comment
  (`latest_at.rs:803-808`). It only costs cache misses.
* `cache.rs:540` says queries cannot come between a change and its events "with
  our current macro-architecture"; the lock alone would allow it, and the
  model does. What such a query caches is repaired when the events arrive.
* The SDKs promise of the proxy's memory limit that "Static data is never
  dropped." (`recording_stream.rs:506`, `533`, `2198`, `2214`; `dalaran.h:357`; `sinks.py:351`).
  The collector of the proxy drops static messages once dropping the others was
  not enough (`dl_grpc_server/src/lib.rs:774-777`, `898-909`). `HistoryBound` holds
  of the code only because it does: with the documented behaviour, static data
  alone exceeds the limit. `LateJoinerSeesAll` speaks of what is still in the history.
* A chunk is said not to "contain more rows than a pre-configured threshold if
  one or more timelines are unsorted" (`batcher.rs:875`). `many_into_chunks` looks at
  the sortedness before it adds a row, so a sorted run of any length followed by
  one row with an earlier time is one unsorted chunk above the threshold;
  `ChunksOfRows` says what does hold, that only the last row of such a chunk can
  be out of order.
* `try_send` of the quota channel (documented "without blocking") waits for the
  fair mutex, which a blocked `send` holds while it sleeps (`sync/mod.rs:245`).
* `Client::flush_blocking` waits for a place in the full queue before its timers
  start (`write.rs:219-228`), so that it is not bounded by
  `connect_timeout_on_flush` when no server comes up or the server has stalled;
  `CallsReturn` exempts it.
* `RecordingStream::flush` begins with a flush of the batcher that is said to be
  unable to "block indefinitely" (`recording_stream.rs:2055`); with a sink that
  blocks for ever it does. `CallsReturn` assumes a sink that makes progress.

## 4. Proofs

All but two of the nineteen safety properties of the pipeline, from the
recording stream to the proxy, and four of the eight of the chunk store are
theorems: they hold for every value of the
constants, where the runs of section 3 check small ones. The assumptions are
the `ASSUME`s of the models and nothing else; the runs evaluate them.
`TypeInv` is in each module what the proofs need of the types, which is more
than `TypeOK` says; `Invariance` is `Spec => []IInv` for the inductive
invariant `IInv` of the module.

`DataFacts` holds what several proofs need: that
`MapThenSumSet` and the folds of the community modules yield the sum of the
sizes over a finite set, what adding, removing and changing an element does to
it; what `Append`, `Tail`, `\o`, `Reverse` and `SubSeq` do to the set of
the elements of a sequence and to its being free of repetitions; and that the
members of a finite ordered set have the ranks 0, 1, 2 and so on. The library's
induction theorems cannot be instantiated by the installed provers, so
`NatSetInduction` states induction for a *set* of numbers, and the sums are
built by induction on the size of subsets from there.

`FoldFacts` does the same for the loops of the chunk store and of the batcher. Its constants are
an operator `Op`, the body of a loop, and a predicate `Inv`, what holds after
some turns; its theorems say that `FoldLeft` (`SeqFold`), `FoldSet` in
whatever order (`SetFold`) and a recursive function of the natural numbers
(`NatRecursion`) end with `Inv` when it holds of the start and each turn keeps
it. As `CONSTANT`s of a module, unlike the operator parameters of a theorem,
both can be instantiated: `ChunkStoreProofs` and `RecordingStreamProofs` have one
`INSTANCE` per loop. An
instance copies the module with everything it extends, so `FoldFacts` extends
no theorems: induction (`NatInduction`) and the sizes of the subsets of a finite
set are hypotheses of its theorems, which `NatSetInduction` and `FiniteSizes`
of `DataFacts` discharge once per instance.

### QuotaChannelProofs

For any set of senders, any finite set of receivers, any capacity, sizes and
number of calls (`ConstantsAssumption`):

* `ChannelSafety`: `TypeOK`, `OneActiveSender` and `ReceiverCount` are
  invariants;
* `WakeupSafety`: `NoLostWakeup` is;
* `MemorySafety`: `MemoryBound` is;
* `LosslessDelivery`: `Lossless` is;
* `BytesAccounted`: `ByteAccounting` is.

The inductive invariant `IInv` is what `ChannelSafety` states. None of the
parts is inductive alone: returning from a call removes the head of the mutex
queue, which is a type error (and would let a second sender in) unless the
caller is its head; dropping a receiver lowers `num_receivers`, which stays a
natural number only because it is the cardinality of the receivers that have
not begun to drop. The steps are split into those of senders, which leave the
receivers alone (`SenderFrame`), and those of receivers, and each lemma has
one case per action. `NoLostWakeup` is inductive on top of `IInv`: room
appears, or the last receiver goes, only in steps that leave the receiver
about to notify, and the notification wakes every parked sender. `MemoryBound`
needs that the room a sender found is still there when it reserves it: the
check and the reservation are one critical section of `state` in the code and
one action in the model. `Lossless` needs that a channel whose receivers are all gone stays so
(`StaysDisconnected`: only an open receiver can be cloned), because the drop
of the last one discards the wire, and a fact about sequences
(`QueueHistory`). `ByteAccounting` needs `Held`, that only a receiver inside
`manual_on_receive` holds a size; then each action moves one size from one of
the three sums to the next, and the subtraction never saturates.

### BroadcastChannelProofs

For any tasks and receivers, limits and sizes (`BroadcastAssumption`).
`BufferLen`, the length of tokio's ring buffer, is a constant of its own
there: tokio rounds `max_messages` up, so the proof assumes no more than that
it is not below.

* `CountersAreExact`: `CountersExact` is an invariant, so neither `-=` in the
  drop of the last reference underflows;
* `ChannelRefinesBroadcast`: `Spec => ImplementsBroadcast`, the refinement.

`IInv` adds to the types and to the counters `Cursors`: a subscribed receiver
is at most one position behind the end of the log, one inside `recv` has read
something, one that drains stops where it unsubscribed. The counters follow
the set `Live` of the messages that somebody still refers to, and each action
adds or removes one element of it or none. For the refinement, `NoLag` is the
heart: what a subscriber has not read is live, live messages number at most
`max_messages`, and tokio's buffer is not shorter, so tokio never overwrites
what is unread (`ReadPosition`), and a receive of the implementation is a
receive of the next message in the abstract log. Each step maps to one step of
`Broadcast` or leaves its variables alone.

### GrpcClientProofs

For any callers, length of the queue and number of calls (`ClientAssumption`):
`MessagesInOrder` (`SentInOrder`) and `FlushesDeliver` (`FlushDelivers`). What
was sent is a prefix of what was accepted only because the queue holds exactly
what lies between; `QueueInv` says so by a *rank*, a function that gives the
number of messages sent once the first `i` commands are done: it begins with
`Len(sent)`, ends with `Len(accepted)` and grows by one with each message.
Every queued message is the accepted one of its rank, and every flush that is
still waited for has its `mark` as its rank. `FlushesFresh` and `AnswersInv`
separate the flushes of one caller: a late answer to a flush that timed out
finds `on_done` closed.

### MessageProxyProofs

For any writers, clients, sizes, limits and queue lengths (`ProxyAssumption`):

* `EachMessageOnce` (`ExactlyOnce`), `LateJoinersMissNothing`
  (`LateJoinerSeesAll`), `StoreInfoPrecedesData` (`StoreInfoFirst`) and
  `HistoryIsBounded` (`HistoryBound`).

`OrderInv` says that the messages of a writer are numbered and pass its
pending call, the event queue, the handling and the history in that order, so
that one that is about to be handled has not arrived before. `InfoInv` follows
the `SetStoreInfo` of each writer through the same places ahead of its data,
`HistoryInv` says what the three queues of the buffer hold, `ClientInv` that
the replay of a client and the rest of the channel share no message with what
it got, and `CoveredInv` that the stream a client *will* have been sent has
the information of each store first. The lemmas on `Gc` show that both loops
only drop from the front, never a `SetStoreInfo`, and what they leave.

### RecordingStreamProofs

For any threads, entities, calls, thresholds and capacities
(`StreamAssumption`):

* `TypesKept`: `TypeOK`, the capacity of the three channels included;
* `FlushesSecure`: `Spec => FlushGuarantee`, an action property;
* `SwapsGuarantee`: `SwapGuarantee`;
* `DropDrains`: `ShutdownDrains`.

The promise of `flush`, `set_sink` and `Drop` spans three threads and three
queues, and the invariant follows what is *owed* to a call (`Owed`: what its
thread recorded before it, or everything, for a drop) along the way:

1. `StageInv` and `CallInv`: a thread is at one of the steps of its call,
   calls are numbered in order, a command on the queue belongs to the call its
   thread is in or to an earlier one, and nothing follows the drop.
2. `RecordedInv`: what was recorded is exactly what is at the threads, in the
   queues, in the accumulators, in the chunks and in the sinks. (As sets: that
   no item is in two places is the part of `Conservation` that only TLC
   checks.)
3. `BatcherInv`: ahead of a queued `b_flush` is what is owed to it; when the
   batcher is about to answer, that is in its output or further; when it has
   answered, it is behind the batcher (`Down`).
4. `ForwardInv`: behind the `pop`, what is owed is in a sink once the commands
   ahead are done (`Through`). This is where the drain loop of the forwarding
   thread matters: the chunks owed are in the channel when `pop` is handled,
   and `pop` leads through the drain loop before the next command, so a
   `flush` finds them in the sink.
5. `ExitInv`: the same for the shutdown command of the drop, for which
   everything is owed.
6. `SwapInv`: the answer that `set_sink` waits for is that of a flush behind
   its own swap, an item carries the number of a swap whose sink exists, and
   items go to the last sink. With `finalize` in the same queue, each answer
   must be shown to reach the call it belongs to.
7. `SinksInv`: sinks that were swapped out have flushed or failed.

Each action of a thread is first shown to be a `Moved` with a `Sends`, each of
the batcher one of `Takes`, `Flows`, `Replies`, each of the forwarder one of
`Handles`, `Relays`, `Drains`, `Exits`; the parts of the invariant are then
kept by these. That flushing the accumulators loses no row and makes none up goes
through `ManyIntoChunks`: the fold that fills chunks (`AddRowFacts`,
`ShapeChunksFacts`) and the one that puts the groups one after the other
(`JoinFacts`) are instances of `FoldFacts`, and every row has one of the shapes in
the order (`RegroupedFacts`). Two definitions of the model were restated for the proof,
without changing what the run checks: a sink's type now includes the buffered
sink that a finalization leaves (with `SinkKinds` that lack it, the type was
wrong), and `ShutdownDrains` is stated on the sinks rather than on their
concatenation.

### ChunkStoreProofs

For any finite set of chunks and rows, entities, times, `chunk_max_rows`,
options of the collector and ranges to drop (`DataAssumption`,
`OpsAssumption`: a chunk holds rows of one entity, all static or none, as
`Chunk` guarantees; a target of the collector is not negative):

* `EventsTellTheWholeStory`: `EventsTellAll`;
* `PhysicalChunksAreIndexed`: `PhysicalIsIndexed`, the statistics included;
* `InsertLosesNoRows`: `InsertKeepsRows`, for every insertion of a temporal
  chunk, whether it is stored, split, compacted or refused;
* `LatestAtNeverMisses`: `LatestAtFindsLatest`;
* `CollectionsProtectAndProgress`: `GcProtectsAndProgresses`;
* `LineageIsCovered`: the half of `LineageCounted` that keeps entries alive,
  the reference counts are not below what refers to the entry, and that an
  entry's parents are known as long as it is.

`IInv` says of the state between two operations that `StoreInv` and `RowsSound`
hold of the store, that the statistics count the rows of the temporal physical chunks
(`Surplus(store) = 0`), and that the subscriber knows exactly the physical
chunks. `StoreInv` is what the operations need of each other:

1. `IdsGiven`: no chunk or lineage entry has an identifier that is still to be
   given out, so a split, a compaction or a slice never overwrites one.
2. `ChunksSound`: under the identifier of a root is that root's data, and only
   roots are static. Without it, an insertion that finds the chunk present
   could not be skipped.
3. `IndexSound`: the index has the temporal physical chunks under their own
   rows, and no chunk that is longer than its entity's `max_interval_length`.
   `LatestAtNeverMisses` rests on the second part.
4. `StaticsSound`, `SplitsSound`: what the static map points to is static; the
   splits that a re-inserted chunk replaces are never roots.
5. `LineageSound`: a physical chunk has an entry, the parents of an entry have
   one, roots have none, and `RefsCover`: an entry has a reference for its
   physical chunk and one for each child. While `drop_lineage_reference` runs,
   `RefsCover` counts the references that its worklist is still to drop
   (`Pending`) as well, and an entry that waits to be removed has none left
   (`RemovesIdle`). That is what makes a turn of the worklist safe: the
   children of the entry it removes have gone before.

An operation breaks parts of this while it runs. `Shrinks` and `Forgets` say
what a removal may change, so that the removals compose, `Surplus` may be off by
the rows that are counted but not yet stored, and `Told` says that replaying
the diffs so far leads from the physical chunks of the first store to those of
the last. `Kept(s, o)` puts these together for a whole operation, and
`KeptAfter` composes two. Each operation is then shown to be `Kept`, from
`PerformKeeps` (a turn of the worklist) through `ShallowFacts`, `DeepFacts`,
`InsertChunkFacts` (skip, splits, compaction, static data), `GcFacts` (mark
and sweep, in every order the collector may choose) to `DropEntityFacts` and
`DropTimeRangeFacts`. For the collector, `ProtectedSets` and the order of the
candidates do not matter to the invariant; they do to
`CollectionsProtectAndProgress`, which needs that the candidates are physical,
temporal and unprotected, and that the first of them is removed.

`RowsSound` is what `InsertLosesNoRows` needs beyond this. `insert_chunk` refuses
a chunk when following `leaky_compactions` from it leads to a physical chunk, and
before it stores a chunk it removes the splits that `dangling_splits` has of it: no
row is lost only if the chunk that is found holds all the rows of the refused one, and
the splits that go hold none of another chunk. The notes outlive the chunks they speak
of, so this cannot be said of the chunks in the store. `Carries` says it of a map `K` from identifiers to
rows that some choice makes true: a root stands for its own rows, a compacted
chunk for no more than the one it went into, and a physical chunk holds what
it stands for; `SplitsInside` says that the splits of a root are within it.
Removals only lose chunks and notes (`Thins`), which keeps both; a compaction
lets the new identifier stand for the rows of both chunks
(`CompactionKeepsRows`); and following the notes only adds rows, an induction
over the turns of the search (`Reach`).

The model was restated where it could not be reasoned about, with the same
reachable states: sorted sequences are built by rank (`InOrder`) instead of
with the recursive `SetToSortSeq`, and loop bodies that were `LET` definitions
are operators (`InsertSplit`, `InsertSlice`, `DropOne`). The proof of progress
found that `GcProtectsAndProgresses` said too much of a collection with a
target of zero, which rightly frees nothing; it now speaks of a positive
target.

### Only model-checked

* All liveness properties: the prover has no rules for fairness and `ENABLED`.
* `Conservation` and `RowOrder` of `RecordingStream`, beyond what
  `RecordedInv` says: they speak of positions in a flattened sequence of all
  queues.
* `NoDuplicates`, `NoGhost` and the exact half of `LineageCounted` of
  `ChunkStore`. `RowsSound` bounds from below what a chunk stands for; these
  need it exactly, also of chunks that are no longer in the store, and which
  entities were dropped.
* The invariants of `EntityDb` and `QueryCache`: they build on the store's, and on the same history.

## 5. Not modelled, and plan

Left out for good: encoders and file formats, importers, generated code,
the viewer's user interface, dataframe queries (pure functions on Arrow data
without a protocol), the redap client and server (I/O around a remote
protocol).

Within the components that are modelled in part: `drop_time_range_shallow`, the
schema and `protected_time_ranges` of the chunk store; the `Clear` component in the
query cache; high-priority chunks, the loop range and several recordings in
the entity db; the `on_release` hook of the recording stream, which the
forwarding thread attaches only to chunks it drains and not to those it
receives in its `select!` (no state of the stream depends on it).

Planned, in this order:

1. `ViewerControl`: UI commands with their callbacks in the proxy's history; the
   receiver set of the log channel.
2. `QueryCache`: the `Clear` component and recursive clears.
3. Proofs: the rows that a compaction or split stands for, exactly rather than
   at least (`RowsSound`), for `NoDuplicates`; then `MissingIsUnloaded` and
   `LoadedIsPhysical` of `EntityDb`, which rest on `StoreInv`; `Conservation` (no
   item in two places) and `RowOrder` of `RecordingStream`.
