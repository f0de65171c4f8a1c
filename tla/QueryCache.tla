------------------------------ MODULE QueryCache ------------------------------
(***************************************************************************)
(* The query cache of a recording (crates/store/dl_query) in front of its  *)
(* chunk store: latest-at results by query time and range results by chunk *)
(* id, per entity.  The cache subscribes to the store: an event only notes *)
(* what it invalidates, and the next query acts on these notes.            *)
(*                                                                         *)
(* EntityDb changes the store and delivers the events under two separate   *)
(* acquisitions of the engine's lock, so that a query may come in between; *)
(* two changes cannot, because EntityDb is borrowed exclusively.           *)
(***************************************************************************)
EXTENDS ChunkStoreOps

CONSTANTS
  ManifestParts, \* sets of root ids, each announced by one manifest message
  GcOptions,     \* the option records the collector is called with
  DropRanges,    \* the time ranges <<lo, hi>> that may be dropped
  QueryTimes,    \* the times of latest-at queries, the ends of range queries
  Fractions,     \* fraction_to_purge of a collection of the cache, in halves
  MaxOps         \* bound: number of changes of the store

ASSUME CacheAssumption ==
  /\ ManifestParts \subseteq SUBSET Roots
  /\ Fractions \subseteq 0..2
  /\ MaxOps \in Nat

VARIABLES
  store,    \* the ChunkStore
  events,   \* what the last change reported and the cache has not heard yet
  latestAt, \* latest_at_per_cache_key: entity -> LatestAtCache
  range,    \* range_per_cache_key: entity -> RangeCache
  ops       \* changes of the store so far

vars == <<store, events, latestAt, range, ops>>

StaticTime == Min(Range(RowTime))   \* TimeInt::STATIC, before every time

NoLatestAt == [entries |-> <<>>, pending |-> {}]   \* per_query_time
NoRange    == [chunks |-> <<>>, pending |-> {}]

-------------------------------------------------------------------------------
(* The store changes.                                                      *)

Change(o) ==
  /\ events = <<>>
  /\ ops < MaxOps
  /\ store' = o.store
  /\ events' = o.diffs
  /\ ops' = ops + 1

AddManifestMessage(part) ==
  /\ part \cap DOMAIN store.lineage = {}
  /\ Change(Outcome(InsertDlrManifest(store, part), <<[type |-> "virtual", part |-> part]>>))
  /\ UNCHANGED <<latestAt, range>>

AddChunk(c) ==
  /\ c \in UNION ManifestParts => c \in DOMAIN store.lineage
  /\ \E o \in InsertChunk(store, c, ChunkRows[c]) : Change(o)
  /\ UNCHANGED <<latestAt, range>>

DropTimeRangeAction(r) ==
  /\ \E o \in DropTimeRange(store, r[1], r[2]) : Change(o)
  /\ UNCHANGED <<latestAt, range>>

DropEntityAction(e) ==
  /\ Change(DropEntityPath(store, e))
  /\ UNCHANGED <<latestAt, range>>

(* QueryCache::gc: the oldest query times go, the notes stay.              *)
CacheGc(cache, half) ==
  LET times == SetToSortSeq(DOMAIN cache.entries, <)
      point == ((Len(times) - 1) * half) \div 2
  IN  IF times = <<>> THEN cache
      ELSE [cache EXCEPT !.entries = Restrict(@, {t \in DOMAIN @ : t >= times[point + 1]})]

(* The cache itself is collected when the store had nothing to give.       *)
GcWithTarget(opt, half) ==
  \E o \in Gc(store, opt, {}) :
    /\ Change(o)
    /\ latestAt' = IF o.diffs = <<>> THEN [e \in DOMAIN latestAt |-> CacheGc(latestAt[e], half)]
                                     ELSE latestAt
    /\ UNCHANGED range

-------------------------------------------------------------------------------
(* The cache hears of it.                                                  *)

\* Mutant of ChunksOf: the sources of a compaction are forgotten.
ChunksAfter(d) ==
  CASE d.type = "virtual"  -> {<<c, ChunkRows[c]>> : c \in d.part}
    [] d.type = "addition" -> {<<d.after, d.rows>>}
    [] d.type = "deletion" -> {<<d.chunk, d.rows>>}

(* The chunks that a diff speaks of, as <<id, rows>> pairs.  A compaction  *)
(* is followed by its whole result, a split by each piece.                 *)
ChunksOf(d) ==
  CASE d.type = "virtual"  -> {<<c, ChunkRows[c]>> : c \in d.part}
    [] d.type = "addition" -> {<<c, d.rows>> : c \in {d.after} \cup d.srcs}
    [] d.type = "deletion" -> {<<d.chunk, d.rows>>}

(* All the events together invalidate the query times from the oldest data *)
(* they touch on, everything when they touch static data.                  *)
InvalidTimes(chunks) ==
  LET temporal == UNION {x[2] : x \in {y \in chunks : ~IsStatic(y[2])}}
  IN  (IF temporal = {} THEN {} ELSE {StartOf(temporal)})
      \cup (IF \E x \in chunks : IsStatic(x[2]) THEN {StaticTime} ELSE {})

OnEvents ==
  /\ events # <<>>
  /\ LET touched(e) == {x \in UNION {ChunksOf(d) : d \in Range(events)} : EntityOf(x[2]) = e}
     IN  /\ latestAt' = [e \in DOMAIN latestAt |->
                           [latestAt[e] EXCEPT !.pending = @ \cup InvalidTimes(touched(e))]]
         /\ range' = [e \in DOMAIN range |->
                        [range[e] EXCEPT !.pending = @ \cup {x[1] : x \in touched(e)}]]
  /\ events' = <<>>
  /\ UNCHANGED <<store, ops>>

-------------------------------------------------------------------------------
(* Queries.                                                                *)

HasComponent(e) ==
  e \in DOMAIN store.static \/ \E c \in DOMAIN store.virtual : EntityOf(store.virtual[c]) = e

\* Mutant of HandlePendingLatestAt: the result at the invalid time survives.
HandlePendingAfter(cache) ==
  LET gone == {t \in DOMAIN cache.entries : t > Min(cache.pending)}
  IN  IF cache.pending = {} THEN cache ELSE [entries |-> Without(cache.entries, gone), pending |-> {}]

(* LatestAtCache::handle_pending_invalidation: what is cached from the     *)
(* oldest invalid time on goes.  A note is kept when there was an original *)
(* result at its very time.                                                *)
HandlePendingLatestAt(cache) ==
  LET gone == {t \in DOMAIN cache.entries : t >= Min(cache.pending)}
  IN  IF cache.pending = {} THEN cache
      ELSE [entries |-> Without(cache.entries, gone),
            pending |-> {t \in cache.pending \cap gone : ~cache.entries[t].ref}]

OrInsert(f, k, v) == IF k \in DOMAIN f THEN f ELSE With(f, k, v)

(* LatestAtCache::latest_at, after the notes: a hit, or the store's answer *)
(* if no relevant chunk is missing, cached under the time of the data and, *)
(* unless it is static, as a reference under the time of the query.        *)
LatestAtLookup(cache, e, t) ==
  LET relevant == LatestAtRelevantChunks(store, e, t)
      missing  == relevant \ DOMAIN store.physical
      row      == Latest(UNION {store.physical[c] : c \in relevant}, t)
      holder   == CHOOSE c \in relevant : row \in store.physical[c]
      time     == RowTime[row]
      found    == OrInsert(cache.entries, time, [row |-> row, chunk |-> holder, ref |-> FALSE])
      cached   == IF row \in StaticRows THEN found
                  ELSE OrInsert(found, t, [found[time] EXCEPT !.ref = TRUE])
  IN  IF t \in DOMAIN cache.entries
        THEN [cache |-> cache, row |-> cache.entries[t].row, chunk |-> cache.entries[t].chunk,
              missing |-> {}]
      ELSE IF missing # {} THEN [cache |-> cache, row |-> None, chunk |-> None, missing |-> missing]
      ELSE IF row = None THEN [cache |-> cache, row |-> None, chunk |-> None, missing |-> {}]
      ELSE [cache |-> [cache EXCEPT !.entries = cached], row |-> found[time].row,
            chunk |-> found[time].chunk, missing |-> {}]

LatestAtCacheOf(e) == IF e \in DOMAIN latestAt THEN latestAt[e] ELSE NoLatestAt

LatestAt(e, t) == LatestAtLookup(HandlePendingLatestAt(LatestAtCacheOf(e)), e, t)

LatestAtQuery(e, t) ==
  /\ HasComponent(e)
  /\ latestAt' = With(latestAt, e, LatestAt(e, t).cache)
  /\ UNCHANGED <<store, events, range, ops>>

(* RangeCache::handle_pending_invalidation and RangeCache::range: every    *)
(* relevant physical chunk is cached, and what is cached is filtered.      *)
HandlePendingRange(cache) ==
  [chunks |-> Without(cache.chunks, cache.pending), pending |-> {}]

RangeCacheOf(e) == IF e \in DOMAIN range THEN range[e] ELSE NoRange

(* Chunk::range: of a static chunk only the latest row, at any time.        *)
RowsInRange(rows, lo, hi) ==
  IF rows \subseteq StaticRows THEN {Max(rows)}
  ELSE {r \in rows : lo <= RowTime[r] /\ RowTime[r] <= hi}

RangeLookup(e, lo, hi) ==
  LET relevant == RangeRelevantChunks(store, e, lo, hi)
      old      == HandlePendingRange(RangeCacheOf(e)).chunks
      loaded   == relevant \cap DOMAIN store.physical
      chunks   == [c \in DOMAIN old \cup loaded |-> IF c \in DOMAIN old THEN old[c] ELSE store.physical[c]]
  IN  [cache   |-> [chunks |-> chunks, pending |-> {}],
       rows    |-> UNION {RowsInRange(chunks[c], lo, hi) : c \in loaded},
       missing |-> relevant \ loaded]

RangeQuery(e, lo, hi) ==
  /\ HasComponent(e)
  /\ range' = With(range, e, RangeLookup(e, lo, hi).cache)
  /\ UNCHANGED <<store, events, latestAt, ops>>

Clear ==
  /\ latestAt' = <<>>
  /\ range' = <<>>
  /\ UNCHANGED <<store, events, ops>>

Init ==
  /\ store = EmptyStore
  /\ events = <<>>
  /\ latestAt = <<>>
  /\ range = <<>>
  /\ ops = 0

Next ==
  \/ \E part \in ManifestParts : AddManifestMessage(part)
  \/ \E c \in Roots : AddChunk(c)
  \/ \E opt \in GcOptions, half \in Fractions : GcWithTarget(opt, half)
  \/ \E e \in Entities : DropEntityAction(e)
  \/ \E r \in DropRanges : DropTimeRangeAction(r)
  \/ OnEvents
  \/ \E e \in Entities, t \in QueryTimes : LatestAtQuery(e, t)
  \/ \E e \in Entities, lo, hi \in QueryTimes : lo <= hi /\ RangeQuery(e, lo, hi)
  \/ Clear

Spec == Init /\ [][Next]_vars

-------------------------------------------------------------------------------
(* Properties.                                                             *)

(* The rows that the indices of the store offer for an entity.             *)
Indexed(e) ==
  IF e \in DOMAIN store.static /\ IsPhysical(store, store.static[e])
    THEN store.physical[store.static[e]]
    ELSE {r \in UNION Range(store.virtual) : RowEntity[r] = e}

(* Once the events are delivered, a cached latest-at query tells the truth *)
(* about the store, whatever was cached, compacted, split, collected,      *)
(* dropped or overwritten before: it reports missing chunks, or gives the  *)
(* latest row and names a chunk in memory that holds it.                   *)
LatestAtTellsTheTruth ==
  events = <<>> =>
    \A e \in Entities, t \in QueryTimes : HasComponent(e) =>
      LET q == LatestAt(e, t)
      IN  q.missing = {} => /\ q.row = Latest(Indexed(e), t)
                            /\ q.row # None => /\ IsPhysical(store, q.chunk)
                                               /\ q.row \in store.physical[q.chunk]

(* Likewise a range query gives exactly the rows of the range that are in  *)
(* memory, or the latest static row where there is static data, and names  *)
(* a missing chunk for every other row of the range; and the cache keeps   *)
(* no chunk alive that the store compacted, offloaded or dropped.          *)
RangeTellsTheTruth ==
  events = <<>> =>
    \A e \in Entities, lo, hi \in QueryTimes : (lo <= hi /\ HasComponent(e)) =>
      LET q        == RangeLookup(e, lo, hi)
          inMemory == UNION Range(store.physical)
          wanted   == IF e \in DOMAIN store.static THEN {Max(Indexed(e) \cap StaticRows)}
                      ELSE {r \in Indexed(e) : lo <= RowTime[r] /\ RowTime[r] <= hi}
      IN  /\ q.rows = wanted \cap inMemory
          /\ \A r \in wanted \ inMemory : \E c \in q.missing : r \in store.virtual[c]
          /\ DOMAIN q.cache.chunks \subseteq DOMAIN store.physical
===============================================================================
