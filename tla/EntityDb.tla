------------------------------- MODULE EntityDb -------------------------------
(***************************************************************************)
(* A recording streamed from a server: the chunk store of ChunkStoreOps,   *)
(* the manifest index that knows which of the offered chunks (roots) are   *)
(* loaded, and the prioritizer that decides each frame what to download,   *)
(* what to protect from the collector and which downloads to cancel        *)
(* (crates/store/dl_entity_db, driven by the frame of dl_viewer).          *)
(*                                                                         *)
(* One frame is purge, receive messages, receive fetched chunks, prefetch  *)
(* and draw, in this order, on the viewer's thread; downloads end beside   *)
(* it.  Drawing a frame runs a latest-at query of every entity at the time *)
(* cursor, which the user may move.  A chunk's size, in memory and on the  *)
(* wire, is its number of rows.                                            *)
(***************************************************************************)
EXTENDS ChunkStoreOps

CONSTANTS
  ManifestParts, \* sets of root ids, each announced by one manifest message
  FetchStages,   \* values of max_fetch_stage, see PrioritizedRoots
  MemoryLimits,  \* values of total_bytes_in_memory, in rows
  MaxOnWire,     \* max_bytes_on_wire_at_once, in rows
  MaxBatch,      \* max_on_wire_bytes_per_batch, in rows
  CursorTimes,   \* where the user may put the time cursor
  GcTargets,     \* rows the collector is asked to free
  MaxGc,         \* bound: number of collections
  MaxMoves,      \* bound: number of moves of the cursor
  MaxFailures    \* bound: number of downloads that fail

ASSUME EntityDbAssumption ==
  /\ UNION ManifestParts = Roots
  /\ FetchStages \subseteq 0..3
  /\ {MaxOnWire, MaxBatch} \cup MemoryLimits \subseteq Nat \ {0}
  /\ CursorTimes # {}
  /\ {MaxGc, MaxMoves, MaxFailures} \subseteq Nat

VARIABLES
  store,     \* the ChunkStore
  loadState, \* RrdManifestIndex::root_chunks: root -> LoadState
  requests,  \* ChunkRequests::requests, oldest first
  tracker,   \* QueriedChunkIdTracker: what the queries used and missed
  protected, \* ProtectedChunks: roots not to cancel, chunks not to collect
  cursor,    \* the time cursor
  options,   \* what the user set: the memory limit and max_fetch_stage
  phase,     \* the step of the frame that comes next
  counts     \* collections, moves and failures so far

vars == <<store, loadState, requests, tracker, protected, cursor, options, phase, counts>>

LoadStates == {"Unloaded", "InTransit", "FullyLoaded"}
Phases     == <<"purge", "messages", "fetched", "prefetch", "draw">>

Size(rows)     == Cardinality(rows)
RootSize(r)    == Size(ChunkRows[r])
Announced      == DOMAIN loadState
NoChunks       == [used |-> {}, missing |-> {}]
Monus(a, b)    == IF a > b THEN a - b ELSE 0
InFlight(reqs) == UNION {reqs[i].roots : i \in DOMAIN reqs}

-------------------------------------------------------------------------------
(* The manifest index follows the events of the store.                     *)

\* Mutant of MarkRootsAs: the lineage is not walked.
MarkChunkAs(ls, s, c, state) == [r \in DOMAIN ls |-> IF r = c THEN state ELSE ls[r]]

MarkRootsAs(ls, s, c, state) ==
  [r \in DOMAIN ls |-> IF r \in FindRootChunks(s, c) THEN state ELSE ls[r]]

(* An addition stands for the chunk that was inserted, whatever the store  *)
(* made of it; a deletion of a part unloads every root of the part.        *)
OnEvents(ls, s, diffs) ==
  FoldLeft(LAMBDA acc, d : IF d.type = "addition"
                             THEN MarkRootsAs(acc, s, d.before, "FullyLoaded")
                             ELSE MarkRootsAs(acc, s, d.chunk, "Unloaded"),
           ls, diffs)

-------------------------------------------------------------------------------
(* The steps of a frame.                                                   *)

Then(p, q) == phase = p /\ phase' = q

(* The collector may run, on what the last prefetch did not protect,       *)
(* furthest from the cursor first: the data can be downloaded again.       *)
SkipPurge ==
  /\ Then("purge", "messages")
  /\ UNCHANGED <<store, loadState, requests, tracker, protected, cursor, options, counts>>

GcWithTarget(target) ==
  /\ Then("purge", "messages")
  /\ counts.gc < MaxGc
  /\ LET opt == [target |-> target, furthest |-> cursor, protectLatest |-> 0, deep |-> FALSE]
     IN  \E o \in Gc(store, opt, protected.physical) :
           /\ store' = o.store
           /\ loadState' = OnEvents(loadState, o.store, o.diffs)
  /\ counts' = [counts EXCEPT !.gc = @ + 1]
  /\ UNCHANGED <<requests, tracker, protected, cursor, options>>

NoMessages ==
  /\ Then("messages", "fetched")
  /\ UNCHANGED <<store, loadState, requests, tracker, protected, cursor, options, counts>>

AddManifestMessage(part) ==
  /\ Then("messages", "fetched")
  /\ part \cap Announced = {}
  /\ store' = InsertDlrManifest(store, part)
  /\ loadState' = [r \in Announced \cup part |-> IF r \in part THEN "Unloaded" ELSE loadState[r]]
  /\ UNCHANGED <<requests, tracker, protected, cursor, options, counts>>

(* receive_finished takes the chunks of the batches that arrived, and      *)
(* drops a batch whose download failed.  The server answers the roots of a *)
(* batch in any order.                                                     *)
Received(reqs) ==
  FoldLeft(LAMBDA acc, b : IF b.result # "ok" THEN acc
                           ELSE {xs \o ys : xs \in acc, ys \in SetToSeqs(b.roots)},
           {<<>>}, reqs)

AddChunks(s, ls, roots) ==
  LET Add(accs, r) ==
        UNION {{[store |-> o.store, ls |-> OnEvents(acc.ls, o.store, o.diffs)]
                  : o \in InsertChunk(acc.store, r, ChunkRows[r])} : acc \in accs}
  IN  FoldLeft(Add, {[store |-> s, ls |-> ls]}, roots)

\* Mutant of CancelOutdated: the roots of a cancelled batch stay in transit.
CancelForgetful(reqs, ls, desired) ==
  [requests |-> SelectSeq(reqs, LAMBDA b : b.roots \cap desired # {}), ls |-> ls]

(* A batch none of whose roots is protected is cancelled.                  *)
CancelOutdated(reqs, ls, desired) ==
  LET outdated(b) == b.roots \cap desired = {}
  IN  [requests |-> SelectSeq(reqs, LAMBDA b : ~outdated(b)),
       ls       |-> [r \in DOMAIN ls |-> IF r \in InFlight(SelectSeq(reqs, outdated))
                                           THEN "Unloaded" ELSE ls[r]]]

ReceiveFetchedChunks ==
  /\ Then("fetched", "prefetch")
  /\ \E roots \in Received(requests) : \E acc \in AddChunks(store, loadState, roots) :
       LET pending == SelectSeq(requests, LAMBDA b : b.result = "pending")
           kept    == CancelOutdated(pending, acc.ls, protected.roots)
       IN  /\ store' = acc.store
           /\ loadState' = kept.ls
           /\ requests' = kept.requests
  /\ UNCHANGED <<tracker, protected, cursor, options, counts>>

-------------------------------------------------------------------------------
(* Prefetching.                                                            *)

Entry(root, stage) == [root |-> root, stage |-> stage]
Entries(roots, stage) == [i \in DOMAIN roots |-> Entry(roots[i], stage)]

\* Mutant of PrioritizedRoots: nothing is fetched for times before the cursor.
PrioritizedFromCursor(s, t) ==
  LET missing == UNION {FindRootChunks(s, c) : c \in tracker.missing}
  IN  Entries(SetToSortSeq(missing, <), 0)
      \o Entries(SetToSortSeq({r \in Announced : \/ IsStatic(ChunkRows[r])
                                                \/ EndOf(ChunkRows[r]) >= t}, <), 2)

(* The roots in the order they are considered: those of the missing chunks *)
(* (stage 0, required), the static ones (1, indicated), and the temporal   *)
(* ones from the cursor on, then those before it, first for the entities   *)
(* that the last frame drew.  The cursor, playing, reaches the former soon *)
(* (2, similar, within the seconds that are set) and the latter never (3,  *)
(* with everything else).                                                  *)
PrioritizedRoots(s, t) ==
  LET missing   == UNION {FindRootChunks(s, c) : c \in tracker.missing}
      temporal  == {r \in Announced : ~IsStatic(ChunkRows[r])}
      drawn     == {EntityOf(s.physical[c]) : c \in tracker.used \cap DOMAIN s.physical}
                   \cup {EntityOf(ChunkRows[r]) : r \in missing}
      after     == {r \in temporal : EndOf(ChunkRows[r]) >= t}
      before    == {r \in temporal : StartOf(ChunkRows[r]) < t}
      of(rs, d) == SetToSortSeq({r \in rs : (EntityOf(ChunkRows[r]) \in drawn) = d},
                     LAMBDA x, y : \/ StartOf(ChunkRows[x]) < StartOf(ChunkRows[y])
                                   \/ StartOf(ChunkRows[x]) = StartOf(ChunkRows[y]) /\ x < y)
  IN  Entries(SetToSortSeq(missing, <), 0)
      \o Entries(SetToSortSeq(Announced \ temporal, <), 1)
      \o Entries(of(after, TRUE), 2) \o Entries(of(before, TRUE), 3)
      \o Entries(of(after, FALSE), 3) \o Entries(of(before, FALSE), 3)

(* The state of one pass of the fetcher.                                   *)
Fetcher(mem, wire, roots, physical) ==
  [mem |-> mem, wire |-> wire, roots |-> roots, physical |-> physical,
   visited |-> {}, batch |-> {}, batches |-> <<>>, pass |-> -1, stopped |-> FALSE]

Full(f) == f.mem = 0 \/ f.wire <= 0

FinishBatch(f) ==
  IF f.batch = {} THEN f
  ELSE [f EXCEPT !.batches = Append(@, [roots |-> f.batch, result |-> "pending"]), !.batch = {}]

SizeOf(roots) == FoldSet(LAMBDA r, n : n + RootSize(r), 0, roots)

(* try_fetch: the wire budget may be overdrawn by the last chunk.          *)
TryFetch(f, r) ==
  LET g == [f EXCEPT !.wire = @ - RootSize(r), !.batch = @ \cup {r}]
  IN  IF SizeOf(g.batch) >= MaxBatch THEN FinishBatch(g) ELSE g

\* Mutant of FetchMissing: a full memory stops required roots too.
FetchMissingThrifty(f, e, descendents) ==
  LET g == [f EXCEPT !.mem = Monus(@, RootSize(e.root)), !.visited = @ \cup {e.root}]
      h == IF loadState[e.root] = "Unloaded" THEN TryFetch(g, e.root) ELSE g
  IN  IF g.mem = 0 \/ (loadState[e.root] = "Unloaded" /\ g.wire <= 0)
        THEN [g EXCEPT !.stopped = TRUE]
        ELSE [h EXCEPT !.roots = @ \cup {e.root}, !.physical = @ \cup descendents]

(* A root that is not loaded yet counts with its full size.  Without any   *)
(* budget left only required roots go on; without wire nothing does.       *)
FetchMissing(f, e, descendents) ==
  LET g    == [f EXCEPT !.mem = Monus(@, RootSize(e.root)), !.visited = @ \cup {e.root}]
      h    == IF loadState[e.root] = "Unloaded" THEN TryFetch(g, e.root) ELSE g
      keep == [h EXCEPT !.roots = @ \cup {e.root}, !.physical = @ \cup descendents]
  IN  IF options.memory < RootSize(e.root) THEN [f EXCEPT !.visited = @ \cup {e.root}]
      ELSE IF \/ g.mem = 0 /\ e.stage > 0
              \/ loadState[e.root] = "Unloaded" /\ g.wire <= 0
        THEN [g EXCEPT !.stopped = TRUE]
      ELSE keep

(* The physical chunks of a loaded root are protected while they fit.      *)
KeepLoaded(f, e, descendents) ==
  LET Keep(g, c) ==
        LET mem == Monus(g.mem, Size(store.physical[c]))
        IN  IF g.stopped \/ c \in g.physical THEN g
            ELSE IF mem = 0 /\ e.stage > 0 THEN [g EXCEPT !.mem = mem, !.stopped = TRUE]
            ELSE [g EXCEPT !.mem = mem, !.physical = @ \cup {c}]
  IN  FoldLeft(Keep, [f EXCEPT !.roots = @ \cup {e.root}, !.visited = @ \cup {e.root}],
               SetToSortSeq(descendents, <))

(* One turn of fetch_inner.  The required roots, the indicated and similar *)
(* ones and the rest are one pass each; a full budget starts no other one. *)
PassOf(stage) == CASE stage = 0 -> 0 [] stage \in {1, 2} -> 1 [] stage = 3 -> 2

FetchOne(f, e) ==
  LET descendents == PhysicalDescendents(store, e.root)
      g           == [f EXCEPT !.pass = PassOf(e.stage)]
  IN  IF f.stopped \/ e.root \in f.visited THEN f
      ELSE IF e.stage > options.stage \/ (g.pass > f.pass /\ Full(f))
        THEN [f EXCEPT !.stopped = TRUE]
      ELSE IF loadState[e.root] = "FullyLoaded" THEN KeepLoaded(g, e, descendents)
      ELSE FetchMissing(g, e, descendents)

(* prepare_chunk_fetcher: forget what was protected, protect what the last *)
(* frame used and the roots of what it missed, and charge what it used.    *)
PrepareFetcher(wire) ==
  LET used == tracker.used \cap DOMAIN store.physical
  IN  Fetcher(Monus(options.memory, FoldSet(LAMBDA c, n : n + Size(store.physical[c]), 0, used)),
              wire, UNION {FindRootChunks(store, c) : c \in tracker.missing}, tracker.used)

Fetch(fetcher, entries) ==
  LET after[i \in 0..Len(entries)] ==
        IF i = 0 THEN fetcher ELSE FetchOne(after[i - 1], entries[i])
  IN  FinishBatch(after[Len(entries)])

(* The whole step is skipped when the requests in flight fill the wire.    *)
PrefetchChunks ==
  /\ Then("prefetch", "draw")
  /\ LET wire == Monus(MaxOnWire, FoldLeft(LAMBDA n, b : n + SizeOf(b.roots), 0, requests))
         done == Fetch(PrepareFetcher(wire), PrioritizedRoots(store, cursor))
     IN  IF wire = 0 \/ Announced = {}
           THEN UNCHANGED <<loadState, requests, tracker, protected>>
           ELSE /\ loadState' = [r \in Announced |-> IF r \in InFlight(done.batches)
                                                       THEN "InTransit" ELSE loadState[r]]
                /\ requests' = requests \o done.batches
                /\ tracker' = NoChunks
                /\ protected' = [roots |-> done.roots, physical |-> done.physical]
  /\ UNCHANGED <<store, cursor, options, counts>>

-------------------------------------------------------------------------------
(* Drawing and downloading.                                                *)

Relevant(e, t)  == LatestAtRelevantChunks(store, e, t)
MissingAt(t)    == UNION {Relevant(e, t) : e \in Entities} \ DOMAIN store.physical
Answer(e, t)    == Latest(UNION {store.physical[c] : c \in Relevant(e, t) \cap DOMAIN store.physical}, t)
Cacheable(e, t) == Relevant(e, t) \subseteq DOMAIN store.physical

(* A query reports all the chunks it looked at, or only the chunk of the   *)
(* answer when the query cache has it.                                     *)
UsedBy(e, t, cached) ==
  {c \in Relevant(e, t) \cap DOMAIN store.physical : cached => Answer(e, t) \in store.physical[c]}

Draw(t, cached) ==
  /\ Then("draw", "purge")
  /\ t # cursor => counts.moves < MaxMoves
  /\ cursor' = t
  /\ tracker' = [used    |-> tracker.used \cup UNION {UsedBy(e, t, e \in cached) : e \in Entities},
                 missing |-> tracker.missing \cup MissingAt(t)]
  /\ counts' = [counts EXCEPT !.moves = IF t = cursor THEN @ ELSE @ + 1]
  /\ UNCHANGED <<store, loadState, requests, protected, options>>

(* A download ends; nobody looks before the fetched chunks are received.   *)
Finish(i, result) ==
  /\ phase = "fetched"
  /\ requests[i].result = "pending"
  /\ result = "failed" => counts.failures < MaxFailures
  /\ requests' = [requests EXCEPT ![i].result = result]
  /\ counts' = [counts EXCEPT !.failures = IF result = "failed" THEN @ + 1 ELSE @]
  /\ UNCHANGED <<store, loadState, tracker, protected, cursor, options, phase>>

Init ==
  /\ store = EmptyStore
  /\ loadState = <<>>
  /\ requests = <<>>
  /\ tracker = NoChunks
  /\ protected = [roots |-> {}, physical |-> {}]
  /\ cursor \in CursorTimes
  /\ options \in [memory: MemoryLimits, stage: FetchStages]
  /\ phase = "purge"
  /\ counts = [gc |-> 0, moves |-> 0, failures |-> 0]

Next ==
  \/ SkipPurge
  \/ \E target \in GcTargets : GcWithTarget(target)
  \/ NoMessages
  \/ \E part \in ManifestParts : AddManifestMessage(part)
  \/ ReceiveFetchedChunks
  \/ PrefetchChunks
  \/ \E t \in CursorTimes : \E cached \in SUBSET {e \in Entities : Cacheable(e, t)} : Draw(t, cached)
  \/ \E i \in DOMAIN requests, result \in {"ok", "failed"} : Finish(i, result)

(* The viewer goes on from step to step while requests are pending (it     *)
(* asks for a repaint), and every download that is not cancelled ends.     *)
NextStep == \E p \in Range(Phases) : phase' = p

Ends(r) == \E i \in DOMAIN requests, result \in {"ok", "failed"} :
             r \in requests[i].roots /\ Finish(i, result)

Fairness == WF_phase(NextStep) /\ \A r \in Roots : SF_vars(Ends(r))

Spec == Init /\ [][Next]_vars /\ Fairness

-------------------------------------------------------------------------------
(* Properties.                                                             *)

(* A root the index calls FullyLoaded is in memory to its last row, however *)
(* the store split, compacted and collected it since.                      *)
LoadedIsPhysical ==
  \A r \in Announced : loadState[r] = "FullyLoaded" =>
    ChunkRows[r] \subseteq UNION {store.physical[c] : c \in PhysicalDescendents(store, r)}

(* A root in transit is awaited: some request still carries it.            *)
TransitIsPending ==
  \A r \in Announced : loadState[r] = "InTransit" => r \in InFlight(requests)

(* A chunk that a query misses can be asked for: it has roots, and one of  *)
(* them is not marked as fully loaded, so the prefetching will consider it.*)
MissingIsUnloaded ==
  \A t \in CursorTimes : \A c \in MissingAt(t) :
    \E r \in FindRootChunks(store, c) : loadState[r] # "FullyLoaded"

(* The queries at the cursor are complete and give the latest row that the *)
(* manifest offers.                                                        *)
Complete == MissingAt(cursor) = {}

Right ==
  \A e \in Entities :
    Answer(e, cursor) = Latest({r \in UNION {ChunkRows[c] : c \in Announced} : RowEntity[r] = e}, cursor)

(* Once the user and the collector rest, the queries of the view stop      *)
(* missing chunks, within a memory limit above what the view itself uses:  *)
(* below it the viewer starts no pass of the fetcher, required or not.     *)
ViewResolves == <>[]Complete

(* Once they rest, the view shows the latest row of every entity, however  *)
(* the chunks came and went before.                                        *)
ViewShowsData == <>[]Right

(* The same where the recording fits into memory and the user asks for all *)
(* of it (FetchStage::Everything).                                         *)
ViewShowsDataInMemory ==
  (options.memory > SizeOf(Roots) /\ options.stage = 3) => ViewShowsData
===============================================================================
