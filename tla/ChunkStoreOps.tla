---------------------------- MODULE ChunkStoreOps -----------------------------
(***************************************************************************)
(* The chunk store of a recording (crates/store/dl_chunk_store).           *)
(*                                                                         *)
(* Chunks come in from outside ("roots"): announced first by a DLR         *)
(* manifest and fetched later, or inserted out of the blue ("volatile").   *)
(* The store splits the large ones, compacts the small ones with a         *)
(* neighbour, forgets physical data under garbage collection, and keeps    *)
(* the lineage of every derived chunk under a reference count.             *)
(*                                                                         *)
(* A row is a natural number, ordered as its RowId; its time on the one    *)
(* timeline, its entity and whether it is static are constants.  A chunk   *)
(* is an identifier and a set of rows of one entity, with one component;   *)
(* its size is its number of rows.  The store is one record, because every *)
(* operation takes it by exclusive reference and passes through several    *)
(* intermediate states: an operator maps a store to the set of its         *)
(* possible results, each a store with the diffs the operation reports.    *)
(* Hash-map order and the time budget of the collector make the choices.   *)
(***************************************************************************)
EXTENDS Integers, FiniteSets, Sequences, SequencesExt, FiniteSetsExt, Functions

CONSTANTS
  ChunkRows,     \* [root chunk id -> its rows]
  RowTime,       \* [row -> its time]
  RowEntity,     \* [row -> the entity it was logged to]
  StaticRows,    \* the rows that carry no time
  ChunkMaxRows,  \* ChunkStoreConfig::chunk_max_rows
  None

Roots    == DOMAIN ChunkRows
Rows     == DOMAIN RowTime
Entities == Range(RowEntity)

ASSUME DataAssumption ==
  /\ Roots \subseteq Nat \ {0} /\ IsFiniteSet(Roots) /\ Roots # {}
  /\ Rows \subseteq Nat \ {0} /\ IsFiniteSet(Rows)
  /\ RowTime \in [Rows -> Int]
  /\ DOMAIN RowEntity = Rows
  /\ StaticRows \subseteq Rows
  /\ \A r \in Rows, q \in StaticRows :
       IF r \in StaticRows THEN RowTime[q] = RowTime[r] ELSE RowTime[q] < RowTime[r]
  /\ \A c \in Roots : /\ ChunkRows[c] \in (SUBSET Rows) \ {{}}
                      /\ \A r1, r2 \in ChunkRows[c] :
                           /\ RowEntity[r1] = RowEntity[r2]
                           /\ (r1 \in StaticRows) <=> (r2 \in StaticRows)
  /\ ChunkMaxRows \in Nat \ {0}

-------------------------------------------------------------------------------
(* Chunks as sets of rows.                                                 *)

EntityOf(rows) == RowEntity[CHOOSE r \in rows : TRUE]
IsStatic(rows) == rows \subseteq StaticRows
Times(rows)    == {RowTime[r] : r \in rows}
StartOf(rows)  == Min(Times(rows))
EndOf(rows)    == Max(Times(rows))
Length(rows)   == EndOf(rows) - StartOf(rows)

(* A partial function without, and with, some of its keys.                 *)
Without(f, keys) == Restrict(f, DOMAIN f \ keys)
With(f, k, v)    == [x \in DOMAIN f \cup {k} |-> IF x = k THEN v ELSE f[x]]

(* The elements of a finite set in an order that ranks any two of them.    *)
InOrder(S, before(_, _)) ==
  [i \in 1..Cardinality(S) |-> CHOOSE x \in S : Cardinality({y \in S : before(y, x)}) = i - 1]

Ascending(S) == InOrder(S, <)

(* The elements of a sequence that are in a set, in their order.           *)
Among(seq, S) ==
  LET kept == Ascending({i \in DOMAIN seq : seq[i] \in S})
  IN  [k \in DOMAIN kept |-> seq[kept[k]]]

(* The kinds of ChunkDirectLineage, with the chunks they refer to.         *)
Volatile          == [kind |-> "volatile", parents |-> {}, siblings |-> {}]
RootFromManifest  == [kind |-> "manifest", parents |-> {}, siblings |-> {}]
SplitFrom(p, sib) == [kind |-> "split", parents |-> {p}, siblings |-> sib]
CompactedFrom(cs) == [kind |-> "compacted", parents |-> cs, siblings |-> {}]

EmptyStore ==
  [physical  |-> <<>>,   \* physical_chunks_per_chunk_id: id -> rows
   virtual   |-> <<>>,   \* temporal_chunk_ids_per_entity: id -> rows (its range)
   maxLength |-> [e \in Entities |-> 0],   \* max_interval_length
   static    |-> <<>>,   \* static_chunk_ids_per_entity: entity -> id
   lineage   |-> <<>>,   \* chunks_lineage: id -> direct lineage, refs, manifest
   leaky     |-> <<>>,   \* leaky_compactions: source id -> compacted id
   dangling  |-> <<>>,   \* dangling_splits: root id -> split ids
   splitOnIngest |-> {}, \* split_on_ingest
   lastId    |-> Max(Roots),   \* the last chunk id given out
   stats     |-> [static |-> 0, temporal |-> 0]]   \* rows of physical chunks

IsPhysical(s, c) == c \in DOMAIN s.physical

(* Chunk ids are never used twice.                                         *)
NextId(s) == s.lastId + 1

(* The diffs of an operation: the chunk that was inserted, the chunk that  *)
(* was stored for it and the chunks that one replaces, or a removed chunk. *)
Addition(before, after, rows, srcs) ==
  [type |-> "addition", before |-> before, after |-> after, rows |-> rows, srcs |-> srcs]
Deletion(c, rows) == [type |-> "deletion", chunk |-> c, rows |-> rows]

Outcome(s, diffs) == [store |-> s, diffs |-> diffs]

(* One operation after another: the diffs add up.                          *)
After(diffs, o) == Outcome(o.store, diffs \o o.diffs)

-------------------------------------------------------------------------------
(* Lineage.                                                                *)

IsRootChunk(s, c) ==
  c \in DOMAIN s.lineage => s.lineage[c].direct.kind \in {"volatile", "manifest"}

DescendsFromManifest(s, c) == c \in DOMAIN s.lineage /\ s.lineage[c].manifest

DescendsFromSplit(s, c) == c \in DOMAIN s.lineage /\ s.lineage[c].direct.kind = "split"

(* The ids reached from c by one or more leaky compactions.                *)
LaterCompactions(s, c) ==
  LET reach[n \in Nat] ==
        IF n = 0 THEN {c}
        ELSE reach[n - 1] \cup {s.leaky[x] : x \in reach[n - 1] \cap DOMAIN s.leaky}
  IN  reach[Cardinality(DOMAIN s.leaky)] \ {c}

(* All ancestors of c that the lineage still knows, c included.            *)
Ancestors(s, c) ==
  LET up[n \in Nat] ==
        IF n = 0 THEN {c} \cap DOMAIN s.lineage
        ELSE up[n - 1] \cup (UNION {s.lineage[x].direct.parents : x \in up[n - 1]}
                               \cap DOMAIN s.lineage)
  IN  up[Cardinality(DOMAIN s.lineage)]

FindRootChunks(s, c) == {x \in Ancestors(s, c) : IsRootChunk(s, x)}

(* The physical chunks that hold the data of c.                            *)
PhysicalDescendents(s, c) ==
  CASE IsPhysical(s, c)        -> {c}
    [] ~IsPhysical(s, c) /\ c \in DOMAIN s.dangling
                               -> s.dangling[c] \cap DOMAIN s.physical
    [] OTHER                   -> LaterCompactions(s, c) \cap DOMAIN s.physical

InsertLineageIfMissing(s, c, direct) ==
  IF c \in DOMAIN s.lineage THEN s
  ELSE LET entry == [direct   |-> direct,
                     refs     |-> 0,
                     manifest |-> \E p \in direct.parents : DescendsFromManifest(s, p)]
           bumped == [x \in DOMAIN s.lineage |->
                        IF x \in direct.parents
                          THEN [s.lineage[x] EXCEPT !.refs = @ + 1]
                          ELSE s.lineage[x]]
       IN  [s EXCEPT !.lineage = With(bumped, c, entry)]

(* One turn of the worklist of drop_lineage_reference.                     *)
DropRefOp(c) == [op |-> "dropref", chunk |-> c]
RemoveOp(c)  == [op |-> "remove", chunk |-> c]

LoseRef(s, c) == [s EXCEPT !.lineage[c].refs = IF @ > 0 THEN @ - 1 ELSE 0]

StillNeeded(s, c) ==
  \/ s.lineage[c].manifest
  \/ \E x \in {c} \cup s.lineage[c].direct.siblings :
       x \in DOMAIN s.lineage /\ s.lineage[x].refs > 0

RemoveOps(chunks) == LET seq == SetToSeq(chunks) IN [i \in DOMAIN seq |-> RemoveOp(seq[i])]

DropRefStep(s, c) ==
  [store |-> LoseRef(s, c),
   push  |-> IF StillNeeded(LoseRef(s, c), c) THEN <<>>
             ELSE RemoveOps(s.lineage[c].direct.siblings) \o <<RemoveOp(c)>>]

\* Mutant of RemoveStep: the references of the removed entry are not dropped.
RemoveStepOnly(s, c) ==
  [store |-> [s EXCEPT !.lineage = Without(@, {c}), !.leaky = Without(@, {c}),
                       !.dangling = Without(@, {c}), !.splitOnIngest = @ \ {c}],
   push  |-> <<>>]

RemoveStep(s, c) ==
  LET parents == SetToSeq(s.lineage[c].direct.parents)
  IN  [store |-> [s EXCEPT !.lineage       = Without(@, {c}),
                           !.leaky         = Without(@, {c}),
                           !.dangling      = Without(@, {c}),
                           !.splitOnIngest = @ \ {c}],
       push  |-> [i \in DOMAIN parents |-> DropRefOp(parents[i])]]

(* Every operation either removes an entry or follows the removal of one:  *)
(* a store with n entries and at most k siblings needs (2n + 1)(k + 2).    *)
WorklistFuel(s) ==
  (2 * Cardinality(DOMAIN s.lineage) + 1)
    * (2 + Max({0} \cup {Cardinality(s.lineage[x].direct.siblings) : x \in DOMAIN s.lineage}))

Perform(s, o) ==
  CASE o.chunk \notin DOMAIN s.lineage -> [store |-> s, push |-> <<>>]
    [] o.chunk \in DOMAIN s.lineage /\ o.op = "dropref" -> DropRefStep(s, o.chunk)
    [] o.chunk \in DOMAIN s.lineage /\ o.op = "remove"  -> RemoveStep(s, o.chunk)

Pushed(step, ops) == [store |-> step.store, ops |-> ops \o step.push]

DropLineageReference(s, c) ==
  LET run[n \in Nat] ==
        IF n = 0 THEN [store |-> s, ops |-> <<DropRefOp(c)>>]
        ELSE LET w == run[n - 1]
             IN  IF w.ops = <<>> THEN w ELSE Pushed(Perform(w.store, Last(w.ops)), Front(w.ops))
  IN  run[WorklistFuel(s)].store

-------------------------------------------------------------------------------
(* Removal.  A chunk to remove is a pair <<id, rows>>.                     *)

(* The index entry of a start or an end time is shared by the chunks of an *)
(* entity: the removal reports success when that entry exists, whether or  *)
(* not it held this chunk.                                                 *)
WasIndexed(s, rows) ==
  /\ ~IsStatic(rows)
  /\ \E x \in DOMAIN s.virtual :
       /\ EntityOf(s.virtual[x]) = EntityOf(rows)
       /\ \/ StartOf(s.virtual[x]) = StartOf(rows)
          \/ EndOf(s.virtual[x]) = EndOf(rows)

RemoveFromVirtualIndices(s, c) == [s EXCEPT !.virtual = Without(@, {c})]

ForgetUnlessKnown(s, c) ==
  IF c \in DOMAIN s.lineage THEN s ELSE RemoveFromVirtualIndices(s, c)

RemoveOneShallow(acc, chunk) ==
  LET c == chunk[1]
      s == acc.store
  IN  IF ~IsPhysical(s, c) THEN acc
      ELSE Outcome(ForgetUnlessKnown(
                     DropLineageReference(
                       [s EXCEPT !.physical = Without(@, {c}),
                                 !.stats.temporal = @ - Cardinality(s.physical[c])], c), c),
                   Append(acc.diffs, Deletion(c, s.physical[c])))

RemoveChunksShallow(s, chunks) == FoldLeft(RemoveOneShallow, Outcome(s, <<>>), chunks)

\* Mutants of RemoveChunksDeep: the time budget ends the shallow pass after
\* its first removal, and the deletions of the shallow pass are not reported.
RemoveChunksDeepBudgeted(s, chunks) ==
  LET shallow == RemoveChunksShallow(s, IF chunks = <<>> THEN <<>> ELSE <<Head(chunks)>>)
  IN  Outcome([shallow.store EXCEPT !.virtual = Without(@, {x[1] : x \in Range(chunks)})],
              shallow.diffs)

RemoveChunksDeepSilent(s, chunks) ==
  LET shallow == RemoveChunksShallow(s, chunks)
  IN  Outcome([shallow.store EXCEPT !.virtual = Without(@, {x[1] : x \in Range(chunks)})],
              SelectSeq(shallow.diffs, LAMBDA d : d.chunk \in DOMAIN shallow.store.virtual))

(* The shallow pass first, to completion, then the virtual indices.  The   *)
(* diffs are those of the virtual pass, then those only the first one had. *)
RemoveOneVirtual(acc, chunk) ==
  Outcome(RemoveFromVirtualIndices(acc.store, chunk[1]),
          IF WasIndexed(acc.store, chunk[2]) THEN Append(acc.diffs, Deletion(chunk[1], chunk[2]))
                                             ELSE acc.diffs)

WithOthers(deep, diffs) ==
  Outcome(deep.store, deep.diffs \o Among(diffs, Range(diffs) \ Range(deep.diffs)))

RemoveVirtual(shallow, chunks) ==
  WithOthers(FoldLeft(RemoveOneVirtual, Outcome(shallow.store, <<>>), chunks), shallow.diffs)

RemoveChunksDeep(s, chunks) == RemoveVirtual(RemoveChunksShallow(s, chunks), chunks)

ThenRemoveDeep(o, chunks) == After(o.diffs, RemoveChunksDeep(o.store, chunks))

AsChunks(s, ids) == [i \in DOMAIN ids |-> <<ids[i], s.physical[ids[i]]>>]

-------------------------------------------------------------------------------
(* Insertion.                                                              *)

\* Mutant of AddVirtual: max_interval_length is not kept up to date.
AddVirtualNoLength(s, c, rows) == [s EXCEPT !.virtual = With(@, c, rows)]

AddVirtual(s, c, rows) ==
  [s EXCEPT !.virtual = With(@, c, rows),
            !.maxLength[EntityOf(rows)] = IF Length(rows) > @ THEN Length(rows) ELSE @]

(* A manifest announces its chunks: lineage and indices, no physical data. *)
InsertDlrManifestOne(s, c) ==
  LET rows == ChunkRows[c]
      s1   == [s EXCEPT !.lineage =
                 With(@, c, [direct |-> RootFromManifest, refs |-> 0, manifest |-> TRUE])]
  IN  IF IsStatic(rows) THEN [s1 EXCEPT !.static = With(@, EntityOf(rows), c)]
                        ELSE AddVirtual(s1, c, rows)

InsertDlrManifest(s, part) == FoldSet(LAMBDA c, acc : InsertDlrManifestOne(acc, c), s, part)

(* Points of the neighbours of a chunk: the chunks that start last before  *)
(* it, those that start first after it, and twice for those that start     *)
(* with it, each weighted by the candidate's rows.                         *)
CompactionPoints(s, rows, x) ==
  LET peers  == {y \in DOMAIN s.virtual : EntityOf(s.virtual[y]) = EntityOf(rows)}
      start(y) == StartOf(s.virtual[y])
      before == {start(y) : y \in {z \in peers : start(z) < StartOf(rows)}}
      after  == {start(y) : y \in {z \in peers : start(z) > EndOf(rows)}}
      fits   == /\ IsPhysical(s, x)
                /\ ~DescendsFromSplit(s, x)
                /\ Cardinality(rows) + Cardinality(s.physical[x]) <= ChunkMaxRows
      weight == (IF before # {} /\ start(x) = Max(before) THEN 1 ELSE 0)
                + (IF after # {} /\ start(x) = Min(after) THEN 1 ELSE 0)
                + (IF start(x) = StartOf(rows) THEN 2 ELSE 0)
  IN  IF x \in peers /\ fits THEN weight * Cardinality(s.physical[x]) ELSE 0

(* The candidates that may be elected, {None} when nobody may be.          *)
MostPoints(points) ==
  {x \in DOMAIN points : points[x] > 0 /\ \A y \in DOMAIN points : points[y] <= points[x]}

OrNobody(candidates) == IF candidates = {} THEN {None} ELSE candidates

CompactionCandidates(s, c, rows) ==
  IF DescendsFromSplit(s, c) \/ Cardinality(rows) > ChunkMaxRows THEN {None}
  ELSE OrNobody(MostPoints([x \in DOMAIN s.virtual \ {c} |-> CompactionPoints(s, rows, x)]))

AddPhysical(s, c, rows) ==
  LET s1 == [s EXCEPT !.physical = With(@, c, rows)]
  IN  IF c \in DOMAIN s1.lineage THEN [s1 EXCEPT !.lineage[c].refs = @ + 1] ELSE s1

(* The temporal path, with the elected chunk or None.                      *)
InsertAlone(s, c, rows) ==
  Outcome(AddPhysical([AddVirtual(s, c, rows) EXCEPT !.stats.temporal = @ + Cardinality(rows)],
                      c, rows),
          <<Addition(c, c, rows, {})>>)

Compacted(s, c, elected, new, all) ==
  InsertLineageIfMissing(
    [AddVirtual(s, new, all) EXCEPT
       !.lastId = new,
       !.stats.temporal = @ + Cardinality(all),
       !.leaky = With(With(@, c, new), elected, new)],
    new, CompactedFrom({c, elected}))

InsertCompacted(s, c, elected, new, all) ==
  Outcome(AddPhysical(RemoveChunksDeep(Compacted(s, c, elected, new, all),
                                       <<<<elected, s.physical[elected]>>>>).store,
                      new, all),
          <<Addition(c, new, all, {c, elected})>>)

InsertTemporal(s, c, rows, elected) ==
  IF elected = None THEN InsertAlone(s, c, rows)
  ELSE InsertCompacted(s, c, elected, NextId(s), rows \cup s.physical[elected])

(* The static path: the chunk with the most recent row wins the entity,    *)
(* and the loser, if it is physical, is removed.  The one component of the *)
(* model is not a transform: for the named transform archetypes the code   *)
(* keeps the loser in memory (is_transform_archetype).                     *)
CurrentStatic(s, e) ==
  {s.static[x] : x \in {e} \cap DOMAIN s.static} \cap DOMAIN s.physical

Replaced(s, rows) ==
  {x \in CurrentStatic(s, EntityOf(rows)) : Max(rows) > Max(s.physical[x])}

Wins(s, rows) ==
  \A x \in CurrentStatic(s, EntityOf(rows)) : Max(rows) > Max(s.physical[x])

RemoveStatic(s, loser) ==
  DropLineageReference(
    [s EXCEPT !.physical = Without(@, {loser}),
              !.stats.static = @ - Cardinality(s.physical[loser])], loser)

InsertStatic(s, c, rows) ==
  LET s1 == [s EXCEPT !.static = IF Wins(s, rows) THEN With(@, EntityOf(rows), c) ELSE @,
                      !.stats.static = @ + Cardinality(rows)]
      loser == Replaced(s, rows)
  IN  Outcome(AddPhysical(FoldSet(LAMBDA x, acc : RemoveStatic(acc, x), s1, loser), c, rows),
              <<Addition(c, c, rows, {})>>
                \o [i \in 1..Cardinality(loser) |->
                      LET x == CHOOSE y \in loser : TRUE IN Deletion(x, s.physical[x])])

(* split_chunk_if_needed: runs of chunk_max_rows rows.                     *)
Splits(rows) ==
  LET seq    == Ascending(rows)
      run(i) == {k \in DOMAIN seq : (i - 1) * ChunkMaxRows < k /\ k <= i * ChunkMaxRows}
      n      == Max({i \in DOMAIN seq : run(i) # {}})
  IN  [i \in 1..n |-> {seq[k] : k \in run(i)}]

(* The splits get fresh ids and are inserted one by one; they are neither  *)
(* split again nor compacted, and report the unsplit chunk as their source.*)
Piece(c, id, ids, rows) == [root |-> c, id |-> id, siblings |-> ids \ {id}, rows |-> rows]

InsertSplit(acc, p) ==
  Outcome(InsertAlone(InsertLineageIfMissing(acc.store, p.id, SplitFrom(p.root, p.siblings)),
                      p.id, p.rows).store,
          Append(acc.diffs, Addition(p.root, p.id, p.rows, {})))

InsertSplits(s, c, rows) ==
  LET pieces == Splits(rows)
      ids    == {s.lastId + i : i \in DOMAIN pieces}
      s1     == [s EXCEPT !.lastId = @ + Len(pieces),
                          !.dangling = With(@, c, ids), !.splitOnIngest = @ \cup {c}]
  IN  FoldLeft(InsertSplit, Outcome(s1, <<>>),
               [i \in DOMAIN pieces |-> Piece(c, s.lastId + i, ids, pieces[i])])

(* insert_chunk_impl up to the split: clean up after the virtual chunk and *)
(* after the splits of an earlier insertion, then record the lineage.      *)
DropVirtual(s, c, rows) ==
  IF c \in DOMAIN s.lineage /\ s.lineage[c].direct.kind = "manifest"
    THEN RemoveChunksDeep(s, <<<<c, rows>>>>) ELSE Outcome(s, <<>>)

DropSplits(s, c) ==
  IF c \in DOMAIN s.dangling
    THEN RemoveChunksDeep([s EXCEPT !.dangling = Without(@, {c})],
                          AsChunks(s, Ascending(s.dangling[c] \cap DOMAIN s.physical)))
    ELSE Outcome(s, <<>>)

ThenDropSplits(o, c) == After(o.diffs, DropSplits(o.store, c))

RecordVolatile(o, c) == Outcome(InsertLineageIfMissing(o.store, c, Volatile), o.diffs)

\* Mutants of PrepareInsertion: the virtual chunk, or the splits of an
\* earlier insertion, are left where they are.
PrepareKeepingVirtual(s, c, rows) == RecordVolatile(DropSplits(s, c), c)

PrepareKeepingSplits(s, c, rows) == RecordVolatile(DropVirtual(s, c, rows), c)

PrepareInsertion(s, c, rows) ==
  RecordVolatile(ThenDropSplits(DropVirtual(s, c, rows), c), c)

(* The rest of it, for a chunk that is not there yet.                      *)
StoreChunk(s, c, rows) ==
  IF IsStatic(rows) THEN {InsertStatic(s, c, rows)}
  ELSE IF Cardinality(rows) > ChunkMaxRows THEN {InsertSplits(s, c, rows)}
  ELSE {InsertTemporal(s, c, rows, e) : e \in CompactionCandidates(s, c, rows)}

StorePrepared(prep, c, rows) == {After(prep.diffs, o) : o \in StoreChunk(prep.store, c, rows)}

\* Mutant of InsertChunk: a compaction that is no longer loaded counts too.
InsertChunkTooShy(s, c, rows) ==
  IF ~IsRootChunk(s, c) \/ IsPhysical(s, c) \/ LaterCompactions(s, c) # {}
    THEN {Outcome(s, <<>>)}
    ELSE StorePrepared(PrepareInsertion(s, c, rows), c, rows)

(* The possible results of insert_chunk.                                   *)
InsertChunk(s, c, rows) ==
  IF \/ ~IsRootChunk(s, c)
     \/ IsPhysical(s, c)
     \/ \E x \in LaterCompactions(s, c) : IsPhysical(s, x)
    THEN {Outcome(s, <<>>)}
    ELSE StorePrepared(PrepareInsertion(s, c, rows), c, rows)

-------------------------------------------------------------------------------
(* Garbage collection.                                                     *)

(* Furthest first; chunks at the same distance in the order of their ids.  *)
Distance(rows, t) == Min({IF x < t THEN t - x ELSE x - t : x \in Times(rows)})

TemporalPhysical(s) == {c \in DOMAIN s.physical : ~IsStatic(s.physical[c])}

FurthestFrom(s, ids, t) ==
  InOrder(ids, LAMBDA c, d : LET dc == Distance(s.physical[c], t)
                                 dd == Distance(s.physical[d], t)
                             IN  dc > dd \/ (dc = dd /\ c < d))

ByMinRowId(s, ids) ==
  InOrder(ids, LAMBDA c, d : \/ Min(s.physical[c]) < Min(s.physical[d])
                             \/ Min(s.physical[c]) = Min(s.physical[d]) /\ c < d)

(* find_all_protected_physical_chunk_ids: per entity, the first n of the   *)
(* physical chunks by descending start time, followed by the same chunks   *)
(* by descending end time.                                                 *)
FirstOf(seq, n) == SubSeq(seq, 1, IF n < Len(seq) THEN n ELSE Len(seq))

ProtectedLatest(s, n) ==
  LET indexed(e) == {c \in DOMAIN s.virtual : IsPhysical(s, c) /\ EntityOf(s.virtual[c]) = e}
      byStart(e) == InOrder(indexed(e), LAMBDA c, d :
                      \/ StartOf(s.virtual[c]) > StartOf(s.virtual[d])
                      \/ StartOf(s.virtual[c]) = StartOf(s.virtual[d]) /\ c < d)
      byEnd(e)   == InOrder(indexed(e), LAMBDA c, d :
                      \/ EndOf(s.virtual[c]) > EndOf(s.virtual[d])
                      \/ EndOf(s.virtual[c]) = EndOf(s.virtual[d]) /\ c < d)
  IN  UNION {Range(FirstOf(byStart(e) \o byEnd(e), n)) : e \in Entities}

RowsIn(s, seq) == FoldLeft(LAMBDA a, c : a + Cardinality(s.physical[c]), 0, seq)

(* The least number of leading chunks whose rows reach the target, or all. *)
Reaching(s, seq, target) ==
  Min({Len(seq)} \cup {k \in 1..Len(seq) : RowsIn(s, SubSeq(seq, 1, k)) >= target})

UpTo(s, seq, target) == SubSeq(seq, 1, Reaching(s, seq, target))

\* Mutant of GcFindCandidates: the pass by distance forgets the protected chunks.
GcFindUnprotected(s, o, protected) ==
  {UpTo(s, IF o.furthest = None THEN <<>> ELSE FurthestFrom(s, TemporalPhysical(s), o.furthest),
        o.target)}

(* gc_find_candidates: the pass by distance, which ignores the time budget *)
(* and the protection of the latest chunks, then the pass by row id, which *)
(* the time budget may cut after any chunk.                                *)
MarkByDistance(s, o, protected) ==
  IF o.furthest = None THEN <<>>
  ELSE UpTo(s, FurthestFrom(s, TemporalPhysical(s) \ protected, o.furthest), o.target)

MarkByRowId(s, o, protected, marked) ==
  LET free == ByMinRowId(s, TemporalPhysical(s) \ protected)
      left == o.target - RowsIn(s, marked)
  IN  IF left <= 0 \/ free = <<>> THEN {marked}
      ELSE {marked \o SubSeq(free, 1, k) : k \in 1..Reaching(s, free, left)}

GcFindCandidates(s, o, protected) ==
  IF o.target = 0 THEN {<<>>}
  ELSE MarkByRowId(s, o, protected \cup ProtectedLatest(s, o.protectLatest),
                   MarkByDistance(s, o, protected))

(* gc: the roots are offloaded, the derived chunks forgotten; the time     *)
(* budget may end the first of the two after any removal.                  *)
Sweep(s, roots, derived) ==
  {ThenRemoveDeep(RemoveChunksShallow(s, SubSeq(roots, 1, k)), derived)
     : k \in (IF roots = <<>> THEN {0} ELSE 1..Len(roots))}

Gc(s, o, protected) ==
  LET roots(m) == {c \in Range(m) : ~o.deep /\ IsRootChunk(s, c)}
  IN  UNION {Sweep(s, AsChunks(s, Among(m, roots(m))), AsChunks(s, Among(m, Range(m) \ roots(m))))
               : m \in GcFindCandidates(s, o, protected)}

-------------------------------------------------------------------------------
(* Explicit drops.                                                         *)

(* drop_entity_path: the indices and the physical chunks they name; the    *)
(* lineage, and so its reference counts, is left alone.                    *)
DropEntityPath(s, e) ==
  LET statics  == IF e \in DOMAIN s.static THEN {s.static[e]} \cap DOMAIN s.physical ELSE {}
      indexed  == {c \in DOMAIN s.virtual : EntityOf(s.virtual[c]) = e}
      temporal == indexed \cap DOMAIN s.physical
      rows(cs) == FoldSet(LAMBDA c, n : n + Cardinality(s.physical[c]), 0, cs)
      gone     == Ascending(statics) \o Ascending(temporal)
  IN  Outcome([s EXCEPT !.static    = Without(@, {e}),
                        !.virtual   = Without(@, indexed),
                        !.maxLength = [@ EXCEPT ![e] = 0],
                        !.physical  = Without(@, statics \cup temporal),
                        !.stats     = [static   |-> @.static - rows(statics),
                                       temporal |-> @.temporal - rows(temporal)]],
              [i \in DOMAIN gone |-> Deletion(gone[i], s.physical[gone[i]])])

(* drop_time_range_deep: the chunks with a row in the range are removed,   *)
(* and what they hold before and after it is inserted again as new chunks. *)
Slices(chunks, lo, hi) ==
  [i \in 1..(2 * Len(chunks)) |->
     {r \in chunks[(i + 1) \div 2][2] : IF i % 2 = 1 THEN RowTime[r] < lo ELSE RowTime[r] > hi}]

InsertFresh(o, rows) ==
  {After(o.diffs, p) : p \in InsertChunk([o.store EXCEPT !.lastId = @ + 1], NextId(o.store), rows)}

InsertSlice(outcomes, rows) ==
  IF rows = {} THEN outcomes ELSE UNION {InsertFresh(o, rows) : o \in outcomes}

DropOne(o, chunk) == ThenRemoveDeep(o, <<chunk>>)

DropTimeRange(s, lo, hi) ==
  LET hit == {c \in TemporalPhysical(s) :
                \E r \in s.physical[c] : lo <= RowTime[r] /\ RowTime[r] <= hi}
      chunks == AsChunks(s, Ascending(hit))
  IN  FoldLeft(InsertSlice, {FoldLeft(DropOne, Outcome(s, <<>>), chunks)}, Slices(chunks, lo, hi))

-------------------------------------------------------------------------------
(* Queries.                                                                *)

(* The row a latest-at query at t takes from some rows: the latest time,   *)
(* and the last row id at that time.  Static rows have the least time.     *)
Latest(rows, t) ==
  LET past == {r \in rows : RowTime[r] <= t}
      last == {r \in past : RowTime[r] = Max(Times(past))}
  IN  IF past = {} THEN None ELSE Max(last)

(* latest_at_relevant_chunks: the static chunk of the entity, or every     *)
(* chunk that starts at or before t and no more than max_interval_length   *)
(* before the last such start.                                             *)
LatestAtRelevantChunks(s, e, t) ==
  LET indexed == {c \in DOMAIN s.virtual : EntityOf(s.virtual[c]) = e /\ StartOf(s.virtual[c]) <= t}
      upper   == Max({StartOf(s.virtual[c]) : c \in indexed})
  IN  IF e \in DOMAIN s.static THEN {s.static[e]}
      ELSE IF indexed = {} THEN {}
      ELSE {c \in indexed : StartOf(s.virtual[c]) >= upper - s.maxLength[e]}

(* range_relevant_chunks: the static chunk of the entity, or every chunk   *)
(* that starts at or before hi, and not before the last start that is      *)
(* max_interval_length or more before lo; of the physical ones only those  *)
(* whose own range meets the queried one.                                  *)
RangeRelevantChunks(s, e, lo, hi) ==
  LET starts  == [c \in {x \in DOMAIN s.virtual : EntityOf(s.virtual[x]) = e} |-> StartOf(s.virtual[c])]
      early   == {t \in Range(starts) : t <= lo - s.maxLength[e]}
      scanned == {c \in DOMAIN starts : starts[c] <= hi /\ (early # {} => starts[c] >= Max(early))}
      meets(c) == StartOf(s.physical[c]) <= hi /\ EndOf(s.physical[c]) >= lo
  IN  IF e \in DOMAIN s.static THEN {s.static[e]}
      ELSE {c \in scanned : IsPhysical(s, c) => meets(c)}
===============================================================================
