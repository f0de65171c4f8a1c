------------------------------ MODULE ChunkStore ------------------------------
(***************************************************************************)
(* The chunk store as its owner uses it: manifests and chunks come in, the *)
(* collector runs, entities and time ranges are dropped, in any order.     *)
(* The operations are those of ChunkStoreOps; each is atomic, because the  *)
(* store is behind a lock and every one of them takes it exclusively.      *)
(***************************************************************************)
EXTENDS ChunkStoreOps

CONSTANTS
  ManifestParts, \* sets of root ids, each announced by one manifest message
  GcOptions,     \* the option records the collector is called with
  DropRanges,    \* the time ranges <<lo, hi>> that may be dropped
  MaxOps         \* bound: number of operations of a behaviour

ASSUME OpsAssumption ==
  /\ ManifestParts \subseteq SUBSET Roots
  /\ \A o \in GcOptions : o.furthest \in Int \cup {None} /\ o.target \in Nat
  /\ DropRanges \subseteq Int \X Int
  /\ MaxOps \in Nat

VARIABLES
  store,    \* the ChunkStore itself
  replica,  \* what a subscriber replaying the events believes is physical
  dropped,  \* entities dropped so far (history)
  ops       \* operations so far

vars == <<store, replica, dropped, ops>>

-------------------------------------------------------------------------------
(* A subscriber keeps its own set of chunks from the diffs alone: a chunk  *)
(* compacted into another one disappears with the addition of that one.    *)
Replay(known, diffs) ==
  FoldLeft(LAMBDA k, d : IF d.type = "addition" THEN (k \ d.srcs) \cup {d.after}
                                                ELSE k \ {d.chunk}, known, diffs)

Apply(o) == store' = o.store /\ replica' = Replay(replica, o.diffs) /\ ops' = ops + 1

(* A part of a manifest comes once for a recording, before any of its      *)
(* chunks (EntityDb::add_dlr_manifest_message).  A second copy would       *)
(* overwrite the lineage of its chunks and reset their ref_count: outside  *)
(* of this model.                                                          *)
InsertManifestAction(part) ==
  /\ ops < MaxOps
  /\ part \cap DOMAIN store.lineage = {}
  /\ Apply(Outcome(InsertDlrManifest(store, part), <<>>))
  /\ UNCHANGED dropped

(* A chunk of a manifest is fetched because the manifest announced it.     *)
InsertAction(c) ==
  /\ ops < MaxOps
  /\ c \in UNION ManifestParts => c \in DOMAIN store.lineage
  /\ \E o \in InsertChunk(store, c, ChunkRows[c]) : Apply(o)
  /\ UNCHANGED dropped

GcAction(opt, protected) ==
  /\ ops < MaxOps
  /\ \E o \in Gc(store, opt, protected) : Apply(o)
  /\ UNCHANGED dropped

DropEntityAction(e) ==
  /\ ops < MaxOps
  /\ Apply(DropEntityPath(store, e))
  /\ dropped' = dropped \cup {e}

DropTimeRangeAction(range) ==
  /\ ops < MaxOps
  /\ \E o \in DropTimeRange(store, range[1], range[2]) : Apply(o)
  /\ dropped' = dropped \cup {RowEntity[r] : r \in {x \in Rows \ StaticRows :
                                 range[1] <= RowTime[x] /\ RowTime[x] <= range[2]}}

Init ==
  /\ store = EmptyStore
  /\ replica = {}
  /\ dropped = {}
  /\ ops = 0

ProtectedSets == {p \in SUBSET DOMAIN store.physical : Cardinality(p) <= 1}

Next ==
  \/ \E part \in ManifestParts : InsertManifestAction(part)
  \/ \E c \in Roots : InsertAction(c)
  \/ \E opt \in GcOptions, p \in ProtectedSets : GcAction(opt, p)
  \/ \E e \in Entities : DropEntityAction(e)
  \/ \E range \in DropRanges : DropTimeRangeAction(range)

Spec == Init /\ [][Next]_vars

-------------------------------------------------------------------------------
(* Properties.                                                             *)

TemporalRows(s) == UNION {s.physical[c] : c \in TemporalPhysical(s)}

(* What assert_store_invariants of lineage.rs checks after its scenarios,  *)
(* for every sequence of operations: a physical chunk has a lineage with a *)
(* reference, and a temporal one is in the virtual indices.  With it, the  *)
(* statistics that size the next collection count exactly what is loaded.  *)
PhysicalIsIndexed ==
  /\ \A c \in DOMAIN store.physical :
       /\ c \in DOMAIN store.lineage
       /\ store.lineage[c].refs >= 1
       /\ ~IsStatic(store.physical[c]) =>
            c \in DOMAIN store.virtual /\ store.virtual[c] = store.physical[c]
  /\ store.stats.temporal = RowsIn(store, SetToSeq(TemporalPhysical(store)))

(* The reference count of a lineage entry never falls below the number of  *)
(* physical chunks and lineage entries that still refer to it, and is that *)
(* number unless a drop of the entity left references behind.  A volatile  *)
(* entry that nothing needs any more is gone.                              *)
LineageCounted ==
  \A c \in DOMAIN store.lineage :
    LET entry  == store.lineage[c]
        actual == (IF IsPhysical(store, c) THEN 1 ELSE 0)
                  + Cardinality({x \in DOMAIN store.lineage : c \in store.lineage[x].direct.parents})
        needed == \E x \in {c} \cup entry.direct.siblings :
                    x \in DOMAIN store.lineage /\ store.lineage[x].refs > 0
    IN  /\ entry.refs >= actual
        /\ dropped = {} => entry.refs = actual
        /\ entry.manifest \/ needed

(* An unrecoverable chunk does not linger in the virtual indices, where a  *)
(* query would report it missing for ever: an indexed chunk that is not    *)
(* physical is one a manifest still offers, and not one whose data went    *)
(* into splits.                                                            *)
NoGhost ==
  \A c \in DOMAIN store.virtual \ DOMAIN store.physical :
    EntityOf(store.virtual[c]) \notin dropped =>
      /\ c \in DOMAIN store.lineage
      /\ store.lineage[c].direct.kind = "manifest"
      /\ c \notin store.splitOnIngest
      /\ PhysicalDescendents(store, c) = {}

(* However often a chunk is offloaded and comes back, no row is stored     *)
(* twice: the compactions and splits that already hold it are found.       *)
NoDuplicates ==
  \A c, d \in TemporalPhysical(store) :
    (c # d /\ EntityOf(store.physical[c]) \notin dropped)
      => store.physical[c] \cap store.physical[d] = {}

(* Inserting a chunk makes all its rows physical and loses no other row,   *)
(* whether it is stored, split, compacted or refused as already present.   *)
InsertKeepsRows ==
  [][\A c \in Roots :
       (InsertAction(c) /\ ~IsStatic(ChunkRows[c]))
         => TemporalRows(store') = TemporalRows(store) \cup ChunkRows[c]]_vars

(* Replaying the events yields the physical chunks: every chunk that comes *)
(* or goes is reported, a compaction by the sources of its addition.       *)
EventsTellAll == replica = DOMAIN store.physical

(* A latest-at query looks at the chunk that holds the latest indexed row, *)
(* so it returns that row or reports its chunk missing, however compaction *)
(* stretched the chunks and overlapped their ranges.                       *)
LatestAtFindsLatest ==
  \A e \in Entities \ DOMAIN store.static, t \in Times(Rows \ StaticRows) :
    LET row == Latest({r \in UNION Range(store.virtual) : RowEntity[r] = e}, t)
    IN  row # None => \E c \in LatestAtRelevantChunks(store, e, t) : row \in store.virtual[c]

(* A collection never touches a protected or a static chunk, and however   *)
(* short its time budget, it frees something when it is asked to and may.  *)
GcProtectsAndProgresses ==
  \A opt \in GcOptions, p \in ProtectedSets :
    LET spared   == p \cup (DOMAIN store.physical \ TemporalPhysical(store))
        eligible == TemporalPhysical(store) \ (p \cup ProtectedLatest(store, opt.protectLatest))
    IN  \A o \in Gc(store, opt, p) :
          /\ spared \subseteq DOMAIN o.store.physical
          /\ (opt.target > 0 /\ eligible # {})
               => Cardinality(DOMAIN o.store.physical) < Cardinality(DOMAIN store.physical)
===============================================================================
