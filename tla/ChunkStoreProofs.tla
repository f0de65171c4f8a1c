-------------------------- MODULE ChunkStoreProofs --------------------------
(***************************************************************************)
(* Proofs about the chunk store, for any chunks, rows, entities, options   *)
(* and limits.                                                             *)
(*                                                                         *)
(* StoreInv is an invariant of the store between two operations, and Kept  *)
(* says that an operation's outcome preserves it and that its diffs tell   *)
(* exactly which chunks have come and gone.  The operations are taken from *)
(* the bottom up: the worklist of drop_lineage_reference, the removals,    *)
(* the manifest, an insertion with its splits, compaction and static data, *)
(* the collection and the drops.  RowsSound, which they keep as well, says *)
(* which rows a chunk stands for that was split or compacted away.  A fold *)
(* or a recursive function of the model is an instance of FoldFacts: what  *)
(* its loop computes (XOp), and what holds after any number of turns       *)
(* (XKept).                                                                *)
(***************************************************************************)
EXTENDS ChunkStore, DataFacts

-----------------------------------------------------------------------------
(* Chunks *)

\* Rows of one entity, all of them static or none.
IsChunk(rows) ==
    /\ rows \subseteq Rows /\ rows # {}
    /\ \A r1, r2 \in rows : /\ RowEntity[r1] = RowEntity[r2]
                            /\ (r1 \in StaticRows) <=> (r2 \in StaticRows)

\* The roots are such chunks.
LEMMA RootsAreChunks == \A c \in Roots : IsChunk(ChunkRows[c])
<1> SUFFICES ASSUME NEW c \in Roots, NEW rows, rows = ChunkRows[c] PROVE IsChunk(rows)
  OBVIOUS
<1>1. rows \in (SUBSET Rows) \ {{}}
  BY DataAssumption
<1>2. \A r1, r2 \in rows : /\ RowEntity[r1] = RowEntity[r2]
                           /\ (r1 \in StaticRows) <=> (r2 \in StaticRows)
  BY DataAssumption
<1>3. rows \subseteq Rows /\ rows # {}
  BY <1>1
<1> QED BY <1>2, <1>3 DEF IsChunk

\* A chunk is finite and has an entity, that of each of its rows.
LEMMA ChunkFacts ==
    ASSUME NEW rows, IsChunk(rows)
    PROVE  /\ IsFiniteSet(rows) /\ Cardinality(rows) \in Nat \ {0}
           /\ EntityOf(rows) \in Entities
           /\ \A r \in rows : RowEntity[r] = EntityOf(rows)
<1>1. IsFiniteSet(rows)
  BY DataAssumption, FS_Subset DEF IsChunk
<1>2. Cardinality(rows) \in Nat \ {0}
  BY <1>1, FS_CardinalityType, FS_EmptySet DEF IsChunk
<1>3. (CHOOSE r \in rows : TRUE) \in rows
  BY DEF IsChunk
<1>4. \A r \in rows : RowEntity[r] = EntityOf(rows)
  BY <1>3 DEF IsChunk, EntityOf
<1>5. EntityOf(rows) \in Entities
  BY <1>3, DataAssumption DEF IsChunk, EntityOf, Entities, Range
<1> QED BY <1>1, <1>2, <1>4, <1>5

\* A chunk that is not static has no static row.
LEMMA TemporalFacts ==
    ASSUME NEW rows, IsChunk(rows)
    PROVE  IsStatic(rows) <=> \E r \in rows : r \in StaticRows
BY DEF IsChunk, IsStatic

\* What is left of a chunk is a chunk, of the same entity, and not static if
\* that one is not.
LEMMA PartOfChunk ==
    ASSUME NEW rows, IsChunk(rows), NEW part \in SUBSET rows, part # {}
    PROVE  /\ IsChunk(part) /\ EntityOf(part) = EntityOf(rows)
           /\ ~IsStatic(rows) => ~IsStatic(part)
<1>1. IsChunk(part)
  BY DEF IsChunk
<1>2. EntityOf(part) = EntityOf(rows)
  BY <1>1, ChunkFacts
<1>3. ~IsStatic(rows) => ~IsStatic(part)
  BY <1>1, TemporalFacts
<1> QED BY <1>1, <1>2, <1>3

\* Two chunks of one entity, neither static, make one.
LEMMA UnionOfChunks ==
    ASSUME NEW rows, NEW more, IsChunk(rows), IsChunk(more), ~IsStatic(rows), ~IsStatic(more),
           EntityOf(rows) = EntityOf(more)
    PROVE  /\ IsChunk(rows \cup more) /\ ~IsStatic(rows \cup more)
           /\ EntityOf(rows \cup more) = EntityOf(rows)
<1>1. \A r \in rows \cup more : RowEntity[r] = EntityOf(rows) /\ r \notin StaticRows
  BY ChunkFacts, TemporalFacts
<1>2. IsChunk(rows \cup more)
  BY <1>1 DEF IsChunk
<1>3. ~IsStatic(rows \cup more)
  BY <1>1, <1>2, TemporalFacts
<1>4. EntityOf(rows \cup more) = EntityOf(rows)
  <2>1. PICK r \in rows : TRUE
    BY DEF IsChunk
  <2> QED BY <1>1, <1>2, <2>1, ChunkFacts
<1> QED BY <1>2, <1>3, <1>4

-----------------------------------------------------------------------------
(* Least and greatest members *)

\* A finite set of integers that is not empty has a greatest member.
LEMMA MaxFacts ==
    ASSUME NEW S, IsFiniteSet(S), S # {}, S \subseteq Int
    PROVE  Max(S) \in S /\ Max(S) \in Int /\ \A y \in S : Max(S) >= y
<1>1. \E x \in S : \A y \in S : x >= y
  BY ExtremesExist
<1> QED BY <1>1 DEF Max

\* And a least one.
LEMMA MinFacts ==
    ASSUME NEW S, IsFiniteSet(S), S # {}, S \subseteq Int
    PROVE  Min(S) \in S /\ Min(S) \in Int /\ \A y \in S : Min(S) <= y
<1>1. \E x \in S : \A y \in S : x <= y
  BY ExtremesExist
<1> QED BY <1>1 DEF Min

\* The values of a function on a finite set are finitely many.
LEMMA FiniteValues ==
    ASSUME NEW S, IsFiniteSet(S), NEW f
    PROVE  IsFiniteSet({f[x] : x \in S})
<1> DEFINE T == {f[x] : x \in S}
           g == [x \in S |-> f[x]]
<1>1. g \in Surjection(S, T)
  BY DEF Surjection
<1> QED BY <1>1, FS_Surjection

\* The range of a chunk: the times of its rows lie between its two ends.
LEMMA RangeFacts ==
    ASSUME NEW rows, IsChunk(rows)
    PROVE  /\ StartOf(rows) \in Int /\ EndOf(rows) \in Int
           /\ Length(rows) \in Int /\ Length(rows) = EndOf(rows) - StartOf(rows)
           /\ \A r \in rows : /\ RowTime[r] \in Int
                              /\ StartOf(rows) <= RowTime[r] /\ RowTime[r] <= EndOf(rows)
<1>1. \A r \in rows : RowTime[r] \in Int
  BY DataAssumption DEF IsChunk
<1>2. Times(rows) \subseteq Int /\ Times(rows) # {}
  BY <1>1 DEF Times, IsChunk
<1>3. IsFiniteSet(Times(rows))
  BY ChunkFacts, FiniteValues DEF Times
<1>4. \A r \in rows : RowTime[r] \in Times(rows)
  BY DEF Times
<1>5. StartOf(rows) \in Int /\ \A y \in Times(rows) : StartOf(rows) <= y
  BY <1>2, <1>3, MinFacts DEF StartOf
<1>6. EndOf(rows) \in Int /\ \A y \in Times(rows) : EndOf(rows) >= y
  BY <1>2, <1>3, MaxFacts DEF EndOf
<1>7. \A r \in rows : StartOf(rows) <= RowTime[r] /\ RowTime[r] <= EndOf(rows)
  BY <1>1, <1>4, <1>5, <1>6
<1>8. Length(rows) \in Int /\ Length(rows) = EndOf(rows) - StartOf(rows)
  BY <1>5, <1>6 DEF Length
<1> QED BY <1>1, <1>5, <1>6, <1>7, <1>8

-----------------------------------------------------------------------------
(* Partial functions and the store *)

\* Functions from a subset of D to R: the maps of the store.
Partial(D, R) == UNION {[E -> R] : E \in SUBSET D}

\* A partial function, by its domain and its values.
LEMMA PartialFacts ==
    ASSUME NEW D, NEW R
    PROVE  \A f : f \in Partial(D, R) <=> DOMAIN f \subseteq D /\ f \in [DOMAIN f -> R]
BY DEF Partial

\* What With yields.
LEMMA WithFacts ==
    ASSUME NEW f, NEW k, NEW v
    PROVE  /\ DOMAIN With(f, k, v) = DOMAIN f \cup {k}
           /\ With(f, k, v)[k] = v
           /\ \A x \in DOMAIN f : x # k => With(f, k, v)[x] = f[x]
BY DEF With

\* An assignment to a key of the right type keeps the map's type.
LEMMA WithTyped ==
    ASSUME NEW D, NEW R, NEW f \in Partial(D, R), NEW k \in D, NEW v \in R
    PROVE  With(f, k, v) \in Partial(D, R)
<1>1. DOMAIN f \subseteq D /\ f \in [DOMAIN f -> R]
  BY PartialFacts
<1>2. DOMAIN With(f, k, v) = DOMAIN f \cup {k}
  BY DEF With
<1>3. With(f, k, v) \in [DOMAIN f \cup {k} -> R]
  BY <1>1 DEF With
<1> QED BY <1>1, <1>2, <1>3, PartialFacts

\* What Without yields.
LEMMA WithoutFacts ==
    ASSUME NEW f, NEW keys
    PROVE  /\ DOMAIN Without(f, keys) = DOMAIN f \ keys
           /\ \A x \in DOMAIN f \ keys : Without(f, keys)[x] = f[x]
BY DEF Without, Restrict

\* Removing keys keeps the map's type.
LEMMA WithoutTyped ==
    ASSUME NEW D, NEW R, NEW f \in Partial(D, R), NEW keys
    PROVE  Without(f, keys) \in Partial(D, R)
<1>1. DOMAIN f \subseteq D /\ f \in [DOMAIN f -> R]
  BY PartialFacts
<1>2. DOMAIN Without(f, keys) = DOMAIN f \ keys
  BY DEF Without, Restrict
<1>3. Without(f, keys) \in [DOMAIN f \ keys -> R]
  BY <1>1 DEF Without, Restrict
<1> QED BY <1>1, <1>2, <1>3, PartialFacts

\* ChunkDirectLineage, and an entry of the lineage with its reference count.
Lineages == [kind : {"volatile", "manifest", "split", "compacted"},
             parents : SUBSET Nat, siblings : SUBSET Nat]
Entries  == [direct : Lineages, refs : Nat, manifest : BOOLEAN]

\* The types of the store's maps.
PhysicalMaps == Partial(Nat, SUBSET Rows)
StaticMaps   == Partial(Entities, Roots)
LineageMaps  == Partial(Nat, Entries)
LeakyMaps    == Partial(Nat, Nat)
DanglingMaps == Partial(Nat, SUBSET Nat)
Statistics   == [static : Int, temporal : Int]

\* The type of a store.
Stores == [physical : PhysicalMaps, virtual : PhysicalMaps, maxLength : [Entities -> Int],
           static : StaticMaps, lineage : LineageMaps, leaky : LeakyMaps,
           dangling : DanglingMaps, splitOnIngest : SUBSET Nat, lastId : Nat,
           stats : Statistics]

-----------------------------------------------------------------------------
(* The inductive invariant *)

\* The identifiers in use are those given out.
IdsGiven(s) ==
    /\ \A c \in Roots : c <= s.lastId
    /\ \A c \in DOMAIN s.physical : c <= s.lastId

\* Every physical chunk is a chunk; under the identifier of a root it is that
\* root, and only a root is static.
ChunksSound(s) ==
    \A c \in DOMAIN s.physical :
        /\ IsChunk(s.physical[c])
        /\ c \in Roots => s.physical[c] = ChunkRows[c]
        /\ IsStatic(s.physical[c]) => c \in Roots

\* The index holds temporal chunks no longer than max_interval_length, and the
\* temporal physical ones among them.
IndexSound(s) ==
    /\ \A c \in DOMAIN s.virtual :
        /\ IsChunk(s.virtual[c]) /\ ~IsStatic(s.virtual[c])
        /\ c \in Roots => s.virtual[c] = ChunkRows[c]
        /\ Length(s.virtual[c]) <= s.maxLength[EntityOf(s.virtual[c])]
    /\ \A c \in TemporalPhysical(s) :
        c \in DOMAIN s.virtual /\ s.virtual[c] = s.physical[c]

\* The chunk that holds the static data of an entity is static.
StaticsSound(s) == \A e \in DOMAIN s.static : IsStatic(ChunkRows[s.static[e]])

\* The splits that a manifest's chunk was replaced with are new chunks, never roots.
SplitsSound(s) == \A c \in DOMAIN s.dangling : s.dangling[c] \cap Roots = {}

\* The chunks whose direct parents include c: each holds a reference to c.
Children(s, c) == {x \in DOMAIN s.lineage : c \in s.lineage[x].direct.parents}

\* The parents of an entry are known, a root has none, and every physical chunk
\* has an entry.
LineageShaped(s) ==
    /\ \A c \in DOMAIN s.lineage :
        LET d == s.lineage[c].direct
        IN  /\ c <= s.lastId
            /\ d.parents \subseteq DOMAIN s.lineage
            /\ IsFiniteSet(d.parents) /\ IsFiniteSet(d.siblings)
            /\ d.kind \in {"volatile", "manifest"} => d.parents = {} /\ d.siblings = {}
            /\ c \in Roots => d.kind \in {"volatile", "manifest"}
    /\ DOMAIN s.physical \subseteq DOMAIN s.lineage

\* The references that the worklist of drop_lineage_reference will still drop.
Pending(work, c) == {i \in DOMAIN work : work[i] = DropRefOp(c)}

\* An entry has a reference for its physical chunk, one for each of its
\* children, and one for each of its drops on the worklist.
RefsCover(s, work) ==
    \A c \in DOMAIN s.lineage :
        s.lineage[c].refs >= (IF IsPhysical(s, c) THEN 1 ELSE 0)
                             + Cardinality(Children(s, c)) + Cardinality(Pending(work, c))

\* Between two operations the worklist is empty.
LineageSound(s) == LineageShaped(s) /\ RefsCover(s, <<>>)

\* The rows of the temporal chunks, each with the chunk it is in.
Held(chunks) ==
    {p \in (DOMAIN chunks) \X Rows : ~IsStatic(chunks[p[1]]) /\ p[2] \in chunks[p[1]]}

\* What the statistics count beyond the rows of the temporal physical chunks.
Surplus(s) == s.stats.temporal - Cardinality(Held(s.physical))

\* The inductive invariant of a store. Each operation breaks parts of it while it
\* runs and restores all of it before it returns.
StoreInv(s) ==
    /\ s \in Stores
    /\ IdsGiven(s) /\ ChunksSound(s) /\ IndexSound(s)
    /\ StaticsSound(s) /\ SplitsSound(s) /\ LineageSound(s)

-----------------------------------------------------------------------------
(* Sets in order *)

\* A finite set as a sequence, in whatever order.
LEMMA SetToSeqFacts ==
    ASSUME NEW S, IsFiniteSet(S)
    PROVE  /\ Cardinality(S) \in Nat
           /\ SetToSeq(S) \in [1..Cardinality(S) -> S]
           /\ SetToSeq(S) \in Seq(S) /\ Len(SetToSeq(S)) = Cardinality(S)
           /\ \A i, j \in 1..Cardinality(S) : SetToSeq(S)[i] = SetToSeq(S)[j] => i = j
           /\ \A x \in S : \E i \in 1..Cardinality(S) : SetToSeq(S)[i] = x
<1> DEFINE n == Cardinality(S)
           q == SetToSeq(S)
<1>1. n \in Nat /\ IsFiniteSet(1..n) /\ Cardinality(1..n) = n
  BY FS_CardinalityType, FS_Interval
<1>2. \E f \in [1..n -> S] : IsInjective(f)
  <2>1. ExistsBijection(1..n, S)
    BY <1>1, FS_SameCardinalityBij
  <2>2. PICK f \in Bijection(1..n, S) : TRUE
    BY <2>1 DEF ExistsBijection
  <2> QED BY <2>2 DEF Bijection, Injection, IsInjective
<1>3. q \in [1..n -> S] /\ IsInjective(q)
  BY <1>2 DEF SetToSeq
<1>4. q \in Seq(S) /\ Len(q) = n
  BY <1>1, <1>3, SeqDef, LenProperties
<1>5. \A i, j \in 1..n : q[i] = q[j] => i = j
  BY <1>3 DEF IsInjective
<1>6. \A x \in S : \E i \in 1..n : q[i] = x
  <2>1. q \in Injection(1..n, S)
    BY <1>3 DEF Injection
  <2>2. q \in Surjection(1..n, S)
    <3> HIDE DEF q
    <3> QED BY <1>1, <2>1, FS_Injection
  <2> QED BY <2>2 DEF Surjection
<1> QED BY <1>1, <1>3, <1>4, <1>5, <1>6

\* A sequence that has the member of each rank at its place has all of them.
LEMMA RankedFacts ==
    ASSUME NEW S, IsFiniteSet(S), NEW R, Orders(R, S), NEW q \in [1..Cardinality(S) -> S],
           \A i \in 1..Cardinality(S) : Rank(R, S, q[i]) = i - 1
    PROVE  /\ q \in Seq(S) /\ Len(q) = Cardinality(S) /\ Len(q) \in Nat
           /\ \A x \in S : \E i \in DOMAIN q : q[i] = x
           /\ \A i, j \in DOMAIN q : q[i] = q[j] => i = j
           /\ Range(q) = S
<1> DEFINE n == Cardinality(S)
<1>1. /\ n \in Nat /\ \A x \in S : Rank(R, S, x) \in 0..(n - 1)
      /\ \A x, y \in S : Rank(R, S, x) = Rank(R, S, y) => x = y
  BY RanksCount
<1>2. q \in [1..n -> S]
  OBVIOUS
<1> HIDE DEF n
<1>3. q \in Seq(S) /\ Len(q) = n
  BY <1>1, <1>2, SeqDef, LenProperties
<1>4. ASSUME NEW x \in S PROVE \E i \in DOMAIN q : q[i] = x
  <2>1. Rank(R, S, x) + 1 \in DOMAIN q
    BY <1>1 DEF n
  <2>2. Rank(R, S, q[Rank(R, S, x) + 1]) = Rank(R, S, x)
    BY <1>1, <2>1
  <2> QED BY <1>1, <2>1, <2>2
<1>5. \A i, j \in DOMAIN q : q[i] = q[j] => i = j
  <2>1. SUFFICES ASSUME NEW i \in DOMAIN q, NEW j \in DOMAIN q, q[i] = q[j] PROVE i = j
    OBVIOUS
  <2>2. i - 1 = j - 1 /\ i \in Int /\ j \in Int
    BY <1>1, <2>1 DEF n
  <2> QED BY <2>2
<1>6. Range(q) = S
  BY <1>4 DEF Range
<1> QED BY <1>1, <1>3, <1>4, <1>5, <1>6 DEF n

\* A finite set of integers in ascending order.
LEMMA AscendingFacts ==
    ASSUME NEW S, IsFiniteSet(S), S \subseteq Int
    PROVE  /\ Ascending(S) \in Seq(S) /\ Len(Ascending(S)) = Cardinality(S)
           /\ Cardinality(S) \in Nat /\ DOMAIN Ascending(S) = 1..Cardinality(S)
           /\ \A x \in S : \E i \in DOMAIN Ascending(S) : Ascending(S)[i] = x
           /\ \A i, j \in DOMAIN Ascending(S) : Ascending(S)[i] = Ascending(S)[j] => i = j
           /\ Range(Ascending(S)) = S
<1> SUFFICES ASSUME NEW q, q = Ascending(S)
             PROVE  /\ q \in Seq(S) /\ Len(q) = Cardinality(S)
                    /\ Cardinality(S) \in Nat /\ DOMAIN q = 1..Cardinality(S)
                    /\ \A x \in S : \E i \in DOMAIN q : q[i] = x
                    /\ \A i, j \in DOMAIN q : q[i] = q[j] => i = j
                    /\ Range(q) = S
  BY Zenon
<1> DEFINE R == {p \in S \X S : p[1] < p[2]}
<1>1. Orders(R, S)
  BY DEF Orders
<1>2. \A x \in S : Rank(R, S, x) = Cardinality({y \in S : y < x})
  <2>1. \A x \in S : {y \in S : <<y, x>> \in R} = {y \in S : y < x}
    OBVIOUS
  <2> QED BY <2>1 DEF Rank
<1> HIDE DEF R
<1>3. Cardinality(S) \in Nat
  BY FS_CardinalityType
<1>4. \A k \in 0..(Cardinality(S) - 1) : \E x \in S : Rank(R, S, x) = k
  BY <1>1, RanksCount
<1> DEFINE el(i) == CHOOSE x \in S : Cardinality({y \in S : y < x}) = i - 1
<1>5. q = [i \in 1..Cardinality(S) |-> el(i)]
  BY Zenon DEF Ascending, InOrder
<1>6. ASSUME NEW i \in 1..Cardinality(S) PROVE el(i) \in S /\ Rank(R, S, el(i)) = i - 1
  <2>1. i - 1 \in 0..(Cardinality(S) - 1)
    BY <1>3
  <2>2. \E x \in S : Cardinality({y \in S : y < x}) = i - 1
    BY <1>2, <1>4, <2>1
  <2>3. el(i) \in S /\ Cardinality({y \in S : y < el(i)}) = i - 1
    BY <2>2, Zenon
  <2> QED BY <1>2, <2>3
<1> HIDE DEF el
<1>7. DOMAIN q = 1..Cardinality(S)
  BY <1>5
<1>8. ASSUME NEW i \in DOMAIN q PROVE q[i] \in S /\ Rank(R, S, q[i]) = i - 1
  <2>1. i \in 1..Cardinality(S) /\ q[i] = el(i)
    BY <1>5
  <2> QED BY <1>6, <2>1
<1>9. q \in [1..Cardinality(S) -> S]
  BY <1>5, <1>6
<1>10. \A i \in 1..Cardinality(S) : Rank(R, S, q[i]) = i - 1
  BY <1>7, <1>8
<1>11. /\ q \in Seq(S) /\ Len(q) = Cardinality(S) /\ Range(q) = S
       /\ \A x \in S : \E i \in DOMAIN q : q[i] = x
       /\ \A i, j \in DOMAIN q : q[i] = q[j] => i = j
  <2>1. q \in Seq(S)
    BY <1>1, <1>9, <1>10, RankedFacts
  <2>2. Len(q) = Cardinality(S)
    BY <1>1, <1>9, <1>10, RankedFacts
  <2>3. Range(q) = S
    BY <1>1, <1>9, <1>10, RankedFacts
  <2>4. \A x \in S : \E i \in DOMAIN q : q[i] = x
    BY <2>3 DEF Range
  <2>5. \A i, j \in DOMAIN q : q[i] = q[j] => i = j
    BY <1>1, <1>9, <1>10, RankedFacts
  <2> QED BY <2>1, <2>2, <2>3, <2>4, <2>5
<1> QED BY <1>3, <1>7, <1>11

\* What Among keeps of a sequence.
LEMMA AmongFacts ==
    ASSUME NEW T, NEW seq \in Seq(T), NEW S
    PROVE  Among(seq, S) \in Seq(T) /\ Range(Among(seq, S)) = Range(seq) \cap S
<1> DEFINE P == {i \in DOMAIN seq : seq[i] \in S}
           kept == Ascending(P)
<1>1. P \subseteq Int /\ IsFiniteSet(P)
  <2>1. DOMAIN seq = 1..Len(seq) /\ Len(seq) \in Nat
    BY LenProperties
  <2>2. IsFiniteSet(DOMAIN seq)
    BY <2>1, FS_Interval
  <2>3. P \subseteq DOMAIN seq
    OBVIOUS
  <2> QED BY <2>1, <2>2, <2>3, FS_Subset
<1>3. Among(seq, S) = [k \in DOMAIN kept |-> seq[kept[k]]]
  BY DEF Among
<1>0. \A i : i \in P <=> i \in DOMAIN seq /\ seq[i] \in S
  OBVIOUS
<1> HIDE DEF P
<1>2. /\ kept \in Seq(P) /\ Range(kept) = P /\ Len(kept) \in Nat /\ DOMAIN kept = 1..Len(kept)
      /\ \A x \in P : \E i \in DOMAIN kept : kept[i] = x
  <2>1. /\ kept \in Seq(P) /\ Range(kept) = P
        /\ Len(kept) = Cardinality(P) /\ Cardinality(P) \in Nat /\ DOMAIN kept = 1..Cardinality(P)
        /\ \A x \in P : \E i \in DOMAIN kept : kept[i] = x
    BY <1>1, AscendingFacts, Zenon
  <2> QED BY <2>1
<1> HIDE DEF kept
<1>4. \A k \in DOMAIN kept : kept[k] \in P
  BY <1>2, ElementOfSeq
<1>5. \A i \in DOMAIN seq : seq[i] \in T
  BY ElementOfSeq, LenProperties
<1>6. Among(seq, S) \in [1..Len(kept) -> T]
  BY <1>0, <1>2, <1>3, <1>4, <1>5
<1>7. Among(seq, S) \in Seq(T)
  BY <1>2, <1>6, SeqDef
<1>8. Range(Among(seq, S)) = Range(seq) \cap S
  <2>1. \A x \in Range(Among(seq, S)) : x \in Range(seq) \cap S
    BY <1>0, <1>3, <1>4 DEF Range
  <2>2. ASSUME NEW i \in DOMAIN seq, seq[i] \in S PROVE seq[i] \in Range(Among(seq, S))
    <3>1. PICK k \in DOMAIN kept : kept[k] = i
      BY <1>0, <1>2, <2>2
    <3>2. k \in DOMAIN Among(seq, S) /\ Among(seq, S)[k] = seq[i]
      BY <1>3, <3>1
    <3> QED BY <3>2 DEF Range
  <2>3. \A x \in Range(seq) \cap S : x \in Range(Among(seq, S))
    BY <2>2 DEF Range
  <2> QED BY <2>1, <2>3
<1> QED BY <1>7, <1>8

-----------------------------------------------------------------------------
(* Dropping references: the worklist of drop_lineage_reference *)

\* The operations of the worklist.
WorkOps == [op : {"dropref", "remove"}, chunk : Nat]

\* An entry that the worklist is going to remove has no reference left.
RemovesIdle(s, work) ==
    \A i \in DOMAIN work :
        (work[i].op = "remove" /\ work[i].chunk \in DOMAIN s.lineage)
            => s.lineage[work[i].chunk].refs = 0

\* Nothing but lineage is lost.
Forgets(s, t) ==
    /\ t.physical = s.physical /\ t.virtual = s.virtual /\ t.maxLength = s.maxLength
    /\ t.static = s.static /\ t.lastId = s.lastId /\ t.stats = s.stats
    /\ DOMAIN t.lineage \subseteq DOMAIN s.lineage
    /\ \A c \in DOMAIN t.lineage : t.lineage[c].direct = s.lineage[c].direct
    /\ DOMAIN t.dangling \subseteq DOMAIN s.dangling
    /\ \A c \in DOMAIN t.dangling : t.dangling[c] = s.dangling[c]
    /\ DOMAIN t.leaky \subseteq DOMAIN s.leaky
    /\ \A c \in DOMAIN t.leaky : t.leaky[c] = s.leaky[c]

\* The parts of an entry.
LEMMA EntryFacts ==
    ASSUME NEW s \in Stores
    PROVE  /\ s.lineage \in Partial(Nat, Entries) /\ DOMAIN s.lineage \subseteq Nat
           /\ \A c \in DOMAIN s.lineage :
                /\ s.lineage[c] \in Entries /\ s.lineage[c].refs \in Nat
                /\ s.lineage[c].direct.parents \subseteq Nat
                /\ s.lineage[c].direct.siblings \subseteq Nat
<1>1. s.lineage \in Partial(Nat, Entries)
  BY DEF Stores, LineageMaps
<1>2. DOMAIN s.lineage \subseteq Nat /\ s.lineage \in [DOMAIN s.lineage -> Entries]
  BY <1>1, PartialFacts
<1>3. \A c \in DOMAIN s.lineage : s.lineage[c] \in Entries
  BY <1>2
<1> QED BY <1>1, <1>2, <1>3 DEF Entries, Lineages

\* Losing a reference changes the count of one entry and stops at zero.
LEMMA LoseRefFacts ==
    ASSUME NEW s \in Stores, NEW c \in DOMAIN s.lineage
    PROVE  LET t == LoseRef(s, c)
           IN  /\ t \in Stores /\ Forgets(s, t)
               /\ DOMAIN t.lineage = DOMAIN s.lineage
               /\ \A x \in DOMAIN s.lineage : /\ t.lineage[x].manifest = s.lineage[x].manifest
                                              /\ x # c => t.lineage[x] = s.lineage[x]
               /\ t.lineage[c].refs = IF s.lineage[c].refs > 0 THEN s.lineage[c].refs - 1 ELSE 0
<1> DEFINE e == [s.lineage[c] EXCEPT !.refs = IF @ > 0 THEN @ - 1 ELSE 0]
           l == [s.lineage EXCEPT ![c] = e]
           t == LoseRef(s, c)
<1>1. s.lineage[c] \in Entries /\ s.lineage \in [DOMAIN s.lineage -> Entries] /\ DOMAIN s.lineage \subseteq Nat
  BY EntryFacts, PartialFacts
<1>2. /\ e \in Entries /\ e.direct = s.lineage[c].direct /\ e.manifest = s.lineage[c].manifest
      /\ e.refs = IF s.lineage[c].refs > 0 THEN s.lineage[c].refs - 1 ELSE 0
  BY <1>1 DEF Entries
<1>3. l \in [DOMAIN s.lineage -> Entries] /\ l[c] = e /\ \A x \in DOMAIN s.lineage : x # c => l[x] = s.lineage[x]
  BY <1>1, <1>2
<1>4. DOMAIN l = DOMAIN s.lineage
  OBVIOUS
<1>5. l \in LineageMaps
  BY <1>1, <1>3, <1>4, PartialFacts DEF LineageMaps
<1>6. t = [s EXCEPT !.lineage = l]
  BY DEF LoseRef, Stores
<1> HIDE DEF l, e, t
<1>7. /\ t \in Stores /\ t.lineage = l
      /\ t.physical = s.physical /\ t.virtual = s.virtual /\ t.maxLength = s.maxLength
      /\ t.static = s.static /\ t.lastId = s.lastId /\ t.stats = s.stats /\ t.dangling = s.dangling
      /\ t.leaky = s.leaky
  BY <1>5, <1>6 DEF Stores
<1>8. Forgets(s, t)
  BY <1>2, <1>3, <1>4, <1>7 DEF Forgets
<1> QED BY <1>2, <1>3, <1>4, <1>7, <1>8 DEF t

\* Removing an entry removes it alone.
LEMMA RemoveStepFacts ==
    ASSUME NEW s \in Stores, NEW c
    PROVE  LET t == RemoveStep(s, c).store
           IN  /\ t \in Stores /\ Forgets(s, t)
               /\ DOMAIN t.lineage = DOMAIN s.lineage \ {c}
               /\ \A x \in DOMAIN s.lineage \ {c} : t.lineage[x] = s.lineage[x]
<1> DEFINE t == RemoveStep(s, c).store
<1>1. /\ s.lineage \in LineageMaps /\ s.leaky \in LeakyMaps /\ s.dangling \in DanglingMaps
      /\ s.splitOnIngest \in SUBSET Nat
  BY DEF Stores
<1>2. /\ Without(s.lineage, {c}) \in LineageMaps /\ Without(s.leaky, {c}) \in LeakyMaps
      /\ Without(s.dangling, {c}) \in DanglingMaps
  BY <1>1, WithoutTyped DEF LineageMaps, LeakyMaps, DanglingMaps
<1>3. /\ t \in Stores /\ t.lineage = Without(s.lineage, {c})
      /\ t.physical = s.physical /\ t.virtual = s.virtual /\ t.maxLength = s.maxLength
      /\ t.static = s.static /\ t.lastId = s.lastId /\ t.stats = s.stats
      /\ t.dangling = Without(s.dangling, {c}) /\ t.leaky = Without(s.leaky, {c})
  BY <1>1, <1>2 DEF Stores, RemoveStep
<1> HIDE DEF t
<1>4. /\ DOMAIN t.lineage = DOMAIN s.lineage \ {c}
      /\ \A x \in DOMAIN s.lineage \ {c} : t.lineage[x] = s.lineage[x]
      /\ DOMAIN t.dangling = DOMAIN s.dangling \ {c}
      /\ \A x \in DOMAIN s.dangling \ {c} : t.dangling[x] = s.dangling[x]
      /\ DOMAIN t.leaky = DOMAIN s.leaky \ {c}
      /\ \A x \in DOMAIN s.leaky \ {c} : t.leaky[x] = s.leaky[x]
  <2>1. /\ DOMAIN Without(s.lineage, {c}) = DOMAIN s.lineage \ {c}
        /\ \A x \in DOMAIN s.lineage \ {c} : Without(s.lineage, {c})[x] = s.lineage[x]
    BY WithoutFacts
  <2>2. /\ DOMAIN Without(s.dangling, {c}) = DOMAIN s.dangling \ {c}
        /\ \A x \in DOMAIN s.dangling \ {c} : Without(s.dangling, {c})[x] = s.dangling[x]
    BY WithoutFacts
  <2>3. /\ DOMAIN Without(s.leaky, {c}) = DOMAIN s.leaky \ {c}
        /\ \A x \in DOMAIN s.leaky \ {c} : Without(s.leaky, {c})[x] = s.leaky[x]
    BY WithoutFacts
  <2> QED BY <1>3, <2>1, <2>2, <2>3
<1>5. Forgets(s, t)
  BY <1>3, <1>4 DEF Forgets
<1> QED BY <1>3, <1>4, <1>5 DEF t

\* What the worklist keeps while it runs.
WorkInv(s, work) ==
    /\ s \in Stores /\ LineageShaped(s) /\ work \in Seq(WorkOps)
    /\ RefsCover(s, work) /\ RemovesIdle(s, work)

\* A loss after a loss is a loss.
LEMMA ForgetsMore ==
    ASSUME NEW s, NEW t, NEW u, Forgets(s, t), Forgets(t, u)
    PROVE  Forgets(s, u)
BY DEF Forgets

\* The entries are finitely many, and so are the children of each.
LEMMA LineageFinite ==
    ASSUME NEW s \in Stores, LineageShaped(s)
    PROVE  /\ IsFiniteSet(DOMAIN s.lineage)
           /\ \A c : IsFiniteSet(Children(s, c)) /\ Cardinality(Children(s, c)) \in Nat
<1>1. s.lastId \in Nat /\ DOMAIN s.lineage \subseteq 0..s.lastId
  BY EntryFacts DEF Stores, LineageShaped
<1>2. IsFiniteSet(DOMAIN s.lineage)
  <2>1. IsFiniteSet(0..s.lastId)
    BY <1>1, FS_Interval
  <2> QED BY <1>1, <2>1, FS_Subset
<1>3. \A c : Children(s, c) \subseteq DOMAIN s.lineage
  BY DEF Children
<1> QED BY <1>2, <1>3, FS_Subset, FS_CardinalityType

\* Finitely many operations of a worklist drop a reference to a chunk.
LEMMA PendingFinite ==
    ASSUME NEW work \in Seq(WorkOps), NEW c
    PROVE  IsFiniteSet(Pending(work, c)) /\ Cardinality(Pending(work, c)) \in Nat
<1>1. DOMAIN work = 1..Len(work) /\ Len(work) \in Nat
  BY LenProperties
<1>2. IsFiniteSet(DOMAIN work)
  BY <1>1, FS_Interval
<1>3. Pending(work, c) \subseteq DOMAIN work
  BY DEF Pending
<1> QED BY <1>2, <1>3, FS_Subset, FS_CardinalityType

\* The worklist without its last operation.
LEMMA FrontFacts ==
    ASSUME NEW work \in Seq(WorkOps), work # <<>>
    PROVE  /\ Front(work) \in Seq(WorkOps) /\ Last(work) \in WorkOps
           /\ Len(work) \in Nat /\ Len(work) \in DOMAIN work /\ Last(work) = work[Len(work)]
           /\ Len(Front(work)) = Len(work) - 1
           /\ \A i \in DOMAIN Front(work) : i \in DOMAIN work /\ Front(work)[i] = work[i] /\ i # Len(work)
           /\ \A i \in DOMAIN work : i # Len(work) => i \in DOMAIN Front(work)
<1>1. Len(work) \in Nat /\ DOMAIN work = 1..Len(work) /\ Len(work) # 0
  BY LenProperties, EmptySeq
<1>2. Last(work) = work[Len(work)] /\ Last(work) \in WorkOps /\ Len(work) \in DOMAIN work
  BY <1>1, ElementOfSeq DEF Last
<1>3. \A i \in 1..(Len(work) - 1) : work[i] \in WorkOps
  BY <1>1, ElementOfSeq
<1>4. /\ Front(work) \in Seq(WorkOps) /\ Len(Front(work)) = Len(work) - 1
      /\ \A i \in 1..(Len(work) - 1) : Front(work)[i] = work[i]
  <2>1. 1 \in 1..(Len(work) + 1) /\ Len(work) - 1 \in (1 - 1)..Len(work)
    BY <1>1
  <2> QED BY <1>1, <2>1, SubSeqProperties DEF Front
<1>5. DOMAIN Front(work) = 1..(Len(work) - 1)
  BY <1>4, LenProperties
<1> QED BY <1>1, <1>2, <1>4, <1>5

\* The last operation of the worklist is one of the pending ones or is not.
LEMMA PendingFront ==
    ASSUME NEW work \in Seq(WorkOps), work # <<>>, NEW c
    PROVE  Cardinality(Pending(work, c))
              = Cardinality(Pending(Front(work), c)) + (IF Last(work) = DropRefOp(c) THEN 1 ELSE 0)
<1>1. /\ Front(work) \in Seq(WorkOps)
      /\ Len(work) \in Nat /\ Len(work) \in DOMAIN work /\ Last(work) = work[Len(work)]
      /\ \A i \in DOMAIN Front(work) : i \in DOMAIN work /\ Front(work)[i] = work[i] /\ i # Len(work)
      /\ \A i \in DOMAIN work : i # Len(work) => i \in DOMAIN Front(work)
  BY FrontFacts
<1>2. IsFiniteSet(Pending(Front(work), c)) /\ Cardinality(Pending(Front(work), c)) \in Nat
  BY <1>1, PendingFinite
<1>3. CASE Last(work) = DropRefOp(c)
  <2>1. Pending(work, c) = Pending(Front(work), c) \cup {Len(work)} /\ Len(work) \notin Pending(Front(work), c)
    BY <1>1, <1>3 DEF Pending
  <2> QED BY <1>2, <1>3, <2>1, FS_AddElement
<1>4. CASE Last(work) # DropRefOp(c)
  <2>1. Pending(work, c) = Pending(Front(work), c)
    BY <1>1, <1>4 DEF Pending
  <2> QED BY <1>2, <1>4, <2>1
<1> QED BY <1>3, <1>4

\* What is pushed comes after what there was.
LEMMA PushFacts ==
    ASSUME NEW work \in Seq(WorkOps), NEW push \in Seq(WorkOps)
    PROVE  /\ work \o push \in Seq(WorkOps)
           /\ \A i \in DOMAIN (work \o push) :
                \/ i \in DOMAIN work /\ (work \o push)[i] = work[i]
                \/ i - Len(work) \in DOMAIN push /\ (work \o push)[i] = push[i - Len(work)]
           /\ \A i \in DOMAIN work : i \in DOMAIN (work \o push) /\ (work \o push)[i] = work[i]
<1>1. /\ work \o push \in Seq(WorkOps) /\ Len(work \o push) = Len(work) + Len(push)
      /\ \A i \in 1..(Len(work) + Len(push)) :
           (work \o push)[i] = IF i <= Len(work) THEN work[i] ELSE push[i - Len(work)]
  BY ConcatProperties
<1>2. /\ DOMAIN (work \o push) = 1..(Len(work) + Len(push))
      /\ DOMAIN work = 1..Len(work) /\ DOMAIN push = 1..Len(push)
      /\ Len(work) \in Nat /\ Len(push) \in Nat
  BY <1>1, LenProperties
<1>3. ASSUME NEW i \in DOMAIN (work \o push)
      PROVE  \/ i \in DOMAIN work /\ (work \o push)[i] = work[i]
             \/ i - Len(work) \in DOMAIN push /\ (work \o push)[i] = push[i - Len(work)]
  <2>1. CASE i <= Len(work)
    BY <1>1, <1>2, <2>1
  <2>2. CASE ~(i <= Len(work))
    BY <1>1, <1>2, <2>2
  <2> QED BY <2>1, <2>2
<1>4. \A i \in DOMAIN work : i \in DOMAIN (work \o push) /\ (work \o push)[i] = work[i]
  BY <1>1, <1>2
<1> QED BY <1>1, <1>3, <1>4

\* Each drop of a chunk is pushed once, if at all.
LEMMA PendingPush ==
    ASSUME NEW work \in Seq(WorkOps), NEW push \in Seq(WorkOps), NEW c,
           \A i, j \in DOMAIN push : push[i] = DropRefOp(c) /\ push[j] = DropRefOp(c) => i = j
    PROVE  Cardinality(Pending(work \o push, c))
              <= Cardinality(Pending(work, c))
                 + (IF \E i \in DOMAIN push : push[i] = DropRefOp(c) THEN 1 ELSE 0)
<1>1. /\ \A i \in DOMAIN (work \o push) :
           \/ i \in DOMAIN work /\ (work \o push)[i] = work[i]
           \/ i - Len(work) \in DOMAIN push /\ (work \o push)[i] = push[i - Len(work)]
      /\ \A i \in DOMAIN work : i \in DOMAIN (work \o push) /\ (work \o push)[i] = work[i]
  BY PushFacts
<1>2. IsFiniteSet(Pending(work, c)) /\ Cardinality(Pending(work, c)) \in Nat
  BY PendingFinite
<1>3. CASE ~ \E i \in DOMAIN push : push[i] = DropRefOp(c)
  <2>1. Pending(work \o push, c) = Pending(work, c)
    BY <1>1, <1>3 DEF Pending
  <2> QED BY <1>2, <1>3, <2>1
<1>4. CASE \E i \in DOMAIN push : push[i] = DropRefOp(c)
  <2>1. PICK j \in DOMAIN push : push[j] = DropRefOp(c)
    BY <1>4
  <2>2. j \in Nat /\ Len(work) \in Nat /\ DOMAIN (work \o push) \subseteq Int
    <3>1. work \o push \in Seq(WorkOps)
      BY PushFacts
    <3> QED BY <3>1, LenProperties
  <2>3. Pending(work \o push, c) \subseteq Pending(work, c) \cup {Len(work) + j}
    <3>1. ASSUME NEW i \in DOMAIN (work \o push), (work \o push)[i] = DropRefOp(c), i \notin DOMAIN work
          PROVE  i = Len(work) + j
      <4>1. i - Len(work) = j
        BY <1>1, <2>1, <3>1
      <4> QED BY <2>2, <4>1
    <3> QED BY <1>1, <3>1 DEF Pending
  <2>4. /\ IsFiniteSet(Pending(work, c) \cup {Len(work) + j})
        /\ Cardinality(Pending(work, c) \cup {Len(work) + j}) <= Cardinality(Pending(work, c)) + 1
    <3>1. /\ IsFiniteSet(Pending(work, c) \cup {Len(work) + j})
          /\ Cardinality(Pending(work, c) \cup {Len(work) + j})
                = IF Len(work) + j \in Pending(work, c) THEN Cardinality(Pending(work, c))
                  ELSE Cardinality(Pending(work, c)) + 1
      BY <1>2, FS_AddElement
    <3> QED BY <1>2, <3>1
  <2>5. Cardinality(Pending(work \o push, c)) <= Cardinality(Pending(work, c) \cup {Len(work) + j})
    BY <2>3, <2>4, FS_Subset
  <2>6. /\ Cardinality(Pending(work \o push, c)) \in Nat
        /\ Cardinality(Pending(work, c) \cup {Len(work) + j}) \in Nat
    BY <2>3, <2>4, FS_Subset, FS_CardinalityType
  <2> QED BY <1>2, <1>4, <2>4, <2>5, <2>6
<1> QED BY <1>3, <1>4

\* An operation on an entry that is gone does nothing.
LEMMA SkipKeeps ==
    ASSUME NEW s, NEW work, WorkInv(s, work), work # <<>>, Last(work).chunk \notin DOMAIN s.lineage
    PROVE  WorkInv(s, Front(work))
<1>1. s \in Stores /\ LineageShaped(s) /\ work \in Seq(WorkOps) /\ RefsCover(s, work) /\ RemovesIdle(s, work)
  BY DEF WorkInv
<1>2. /\ Front(work) \in Seq(WorkOps)
      /\ \A i \in DOMAIN Front(work) : i \in DOMAIN work /\ Front(work)[i] = work[i]
  BY <1>1, FrontFacts
<1>3. RefsCover(s, Front(work))
  <2>1. SUFFICES ASSUME NEW c \in DOMAIN s.lineage
                 PROVE  s.lineage[c].refs >= (IF IsPhysical(s, c) THEN 1 ELSE 0)
                             + Cardinality(Children(s, c)) + Cardinality(Pending(Front(work), c))
    BY DEF RefsCover
  <2>2. Cardinality(Pending(work, c)) = Cardinality(Pending(Front(work), c)) + (IF Last(work) = DropRefOp(c) THEN 1 ELSE 0)
    BY <1>1, PendingFront
  <2>3. Last(work) # DropRefOp(c)
    BY DEF DropRefOp
  <2>4. Cardinality(Pending(Front(work), c)) \in Nat
    BY <1>2, PendingFinite
  <2> QED BY <1>1, <2>2, <2>3, <2>4 DEF RefsCover
<1>4. RemovesIdle(s, Front(work))
  BY <1>1, <1>2 DEF RemovesIdle
<1> QED BY <1>1, <1>2, <1>3, <1>4 DEF WorkInv

\* The removals that a dropped reference may push are of entries without one.
LEMMA RemoveOpsFacts ==
    ASSUME NEW chunks \in SUBSET Nat, IsFiniteSet(chunks), NEW c \in Nat
    PROVE  /\ RemoveOps(chunks) \o <<RemoveOp(c)>> \in Seq(WorkOps)
           /\ \A i \in DOMAIN (RemoveOps(chunks) \o <<RemoveOp(c)>>) :
                \E x \in chunks \cup {c} : (RemoveOps(chunks) \o <<RemoveOp(c)>>)[i] = RemoveOp(x)
<1> DEFINE seq == SetToSeq(chunks)
           r == RemoveOps(chunks)
<1>1. seq \in Seq(chunks) /\ Len(seq) \in Nat /\ DOMAIN seq = 1..Len(seq)
  BY SetToSeqFacts, LenProperties
<1>2. \A i \in DOMAIN seq : seq[i] \in chunks
  BY <1>1, ElementOfSeq
<1>3. r = [i \in DOMAIN seq |-> RemoveOp(seq[i])]
  BY DEF RemoveOps
<1>4. \A x \in chunks \cup {c} : RemoveOp(x) \in WorkOps
  BY DEF RemoveOp, WorkOps
<1> HIDE DEF seq, r
<1>5. r \in [1..Len(seq) -> WorkOps]
  BY <1>1, <1>2, <1>3, <1>4
<1>6. r \in Seq(WorkOps)
  BY <1>1, <1>5, SeqDef
<1>7. <<RemoveOp(c)>> \in Seq(WorkOps) /\ DOMAIN <<RemoveOp(c)>> = {1} /\ <<RemoveOp(c)>>[1] = RemoveOp(c)
  BY <1>4
<1>8. /\ r \o <<RemoveOp(c)>> \in Seq(WorkOps)
      /\ \A i \in DOMAIN (r \o <<RemoveOp(c)>>) :
           \/ i \in DOMAIN r /\ (r \o <<RemoveOp(c)>>)[i] = r[i]
           \/ i - Len(r) \in DOMAIN <<RemoveOp(c)>> /\ (r \o <<RemoveOp(c)>>)[i] = <<RemoveOp(c)>>[i - Len(r)]
  BY <1>6, <1>7, PushFacts
<1>9. \A i \in DOMAIN r : \E x \in chunks : r[i] = RemoveOp(x)
  BY <1>2, <1>3
<1> QED BY <1>7, <1>8, <1>9 DEF r

\* A reference is dropped.
LEMMA DropRefKeeps ==
    ASSUME NEW s, NEW work, WorkInv(s, work), work # <<>>,
           NEW c \in DOMAIN s.lineage, Last(work) = DropRefOp(c)
    PROVE  LET step == DropRefStep(s, c)
           IN  WorkInv(step.store, Front(work) \o step.push) /\ Forgets(s, step.store)
<1> DEFINE t == LoseRef(s, c)
           rest == Front(work)
           push == DropRefStep(s, c).push
<1>1. s \in Stores /\ LineageShaped(s) /\ work \in Seq(WorkOps) /\ RefsCover(s, work) /\ RemovesIdle(s, work)
  BY DEF WorkInv
<1>2. /\ rest \in Seq(WorkOps)
      /\ \A i \in DOMAIN rest : i \in DOMAIN work /\ rest[i] = work[i]
  BY <1>1, FrontFacts
<1>3. /\ t \in Stores /\ Forgets(s, t)
      /\ DOMAIN t.lineage = DOMAIN s.lineage
      /\ \A x \in DOMAIN s.lineage : x # c => t.lineage[x] = s.lineage[x]
      /\ t.lineage[c].refs = IF s.lineage[c].refs > 0 THEN s.lineage[c].refs - 1 ELSE 0
  BY <1>1, LoseRefFacts
<1>4. /\ DropRefStep(s, c).store = t
      /\ push = IF StillNeeded(t, c) THEN <<>> ELSE RemoveOps(s.lineage[c].direct.siblings) \o <<RemoveOp(c)>>
  BY DEF DropRefStep
<1> HIDE DEF t, rest
<1>5. /\ \A x \in DOMAIN s.lineage : t.lineage[x].direct = s.lineage[x].direct
      /\ t.physical = s.physical /\ t.lastId = s.lastId
  BY <1>3 DEF Forgets
<1>6. LineageShaped(t)
  BY <1>1, <1>3, <1>5 DEF LineageShaped
<1>7. \A x \in DOMAIN s.lineage : s.lineage[x].refs \in Nat /\ t.lineage[x].refs \in Nat
  BY <1>1, <1>3, EntryFacts
<1>8. \A x : Children(t, x) = Children(s, x)
  BY <1>3, <1>5 DEF Children
<1>9. /\ push \in Seq(WorkOps)
      /\ \A i \in DOMAIN push : \E x \in DOMAIN t.lineage \cup Nat :
            push[i] = RemoveOp(x) /\ (x \in DOMAIN t.lineage => t.lineage[x].refs = 0)
  <2>1. CASE StillNeeded(t, c)
    <3>1. push = <<>>
      BY <1>4, <2>1
    <3> QED BY <3>1, EmptySeq
  <2>2. CASE ~StillNeeded(t, c)
    <3> DEFINE sib == s.lineage[c].direct.siblings
    <3>1. push = RemoveOps(sib) \o <<RemoveOp(c)>>
      BY <1>4, <2>2
    <3>2. sib \in SUBSET Nat /\ IsFiniteSet(sib) /\ c \in Nat
      BY <1>1, EntryFacts DEF LineageShaped
    <3>3. \A x \in sib \cup {c} : x \in DOMAIN t.lineage => t.lineage[x].refs = 0
      BY <1>3, <1>5, <1>7, <2>2 DEF StillNeeded
    <3> HIDE DEF sib, push
    <3>4. /\ push \in Seq(WorkOps)
          /\ \A i \in DOMAIN push : \E x \in sib \cup {c} : push[i] = RemoveOp(x)
      BY <3>1, <3>2, RemoveOpsFacts
    <3> QED BY <3>2, <3>3, <3>4
  <2> QED BY <2>1, <2>2
<1> HIDE DEF push
<1>10. /\ rest \o push \in Seq(WorkOps)
       /\ \A i \in DOMAIN (rest \o push) :
            \/ i \in DOMAIN rest /\ (rest \o push)[i] = rest[i]
            \/ i - Len(rest) \in DOMAIN push /\ (rest \o push)[i] = push[i - Len(rest)]
  BY <1>2, <1>9, PushFacts
<1>11. RemovesIdle(t, rest \o push)
  <2>1. SUFFICES ASSUME NEW i \in DOMAIN (rest \o push), (rest \o push)[i].op = "remove",
                        (rest \o push)[i].chunk \in DOMAIN t.lineage
                 PROVE  t.lineage[(rest \o push)[i].chunk].refs = 0
    BY DEF RemovesIdle
  <2>2. CASE i \in DOMAIN rest /\ (rest \o push)[i] = rest[i]
    <3>1. i \in DOMAIN work /\ (rest \o push)[i] = work[i]
      BY <1>2, <2>2
    <3>2. s.lineage[work[i].chunk].refs = 0 /\ work[i].chunk \in DOMAIN s.lineage
      BY <1>1, <1>3, <2>1, <3>1 DEF RemovesIdle
    <3> QED BY <1>3, <3>1, <3>2
  <2>3. CASE i - Len(rest) \in DOMAIN push /\ (rest \o push)[i] = push[i - Len(rest)]
    <3>1. PICK x : push[i - Len(rest)] = RemoveOp(x) /\ (x \in DOMAIN t.lineage => t.lineage[x].refs = 0)
      BY <1>9, <2>3
    <3>2. (rest \o push)[i].chunk = x
      BY <2>3, <3>1 DEF RemoveOp
    <3> QED BY <2>1, <3>1, <3>2
  <2> QED BY <1>10, <2>2, <2>3
<1>12. RefsCover(t, rest \o push)
  <2>1. SUFFICES ASSUME NEW x \in DOMAIN t.lineage
                 PROVE  t.lineage[x].refs >= (IF IsPhysical(t, x) THEN 1 ELSE 0)
                             + Cardinality(Children(t, x)) + Cardinality(Pending(rest \o push, x))
    BY DEF RefsCover
  <2>2. \A i \in DOMAIN push : push[i] # DropRefOp(x)
    BY <1>9 DEF RemoveOp, DropRefOp
  <2>3. Cardinality(Pending(rest \o push, x)) <= Cardinality(Pending(rest, x))
    <3>1. Cardinality(Pending(rest \o push, x))
              <= Cardinality(Pending(rest, x))
                 + (IF \E i \in DOMAIN push : push[i] = DropRefOp(x) THEN 1 ELSE 0)
      BY <1>2, <1>9, <2>2, PendingPush
    <3>2. Cardinality(Pending(rest, x)) \in Nat
      BY <1>2, PendingFinite
    <3> QED BY <2>2, <3>1, <3>2
  <2>4. Cardinality(Pending(work, x)) = Cardinality(Pending(rest, x)) + (IF x = c THEN 1 ELSE 0)
    <3>1. Cardinality(Pending(work, x)) = Cardinality(Pending(rest, x)) + (IF Last(work) = DropRefOp(x) THEN 1 ELSE 0)
      BY <1>1, PendingFront DEF rest
    <3>2. Last(work) = DropRefOp(x) <=> x = c
      BY DEF DropRefOp
    <3> QED BY <3>1, <3>2
  <2>5. /\ Cardinality(Pending(rest, x)) \in Nat /\ Cardinality(Pending(rest \o push, x)) \in Nat
        /\ Cardinality(Children(s, x)) \in Nat
    BY <1>1, <1>2, <1>10, PendingFinite, LineageFinite
  <2>6. s.lineage[x].refs >= (IF IsPhysical(s, x) THEN 1 ELSE 0)
                             + Cardinality(Children(s, x)) + Cardinality(Pending(work, x))
    BY <1>1, <1>3 DEF RefsCover
  <2>7. IsPhysical(t, x) <=> IsPhysical(s, x)
    BY <1>5 DEF IsPhysical
  <2>8. Children(t, x) = Children(s, x)
    BY <1>8
  <2>9. CASE x = c
    <3>1. s.lineage[c].refs \in Nat /\ t.lineage[c].refs = IF s.lineage[c].refs > 0 THEN s.lineage[c].refs - 1 ELSE 0
      BY <1>3, <1>7
    <3> QED BY <2>3, <2>4, <2>5, <2>6, <2>7, <2>8, <2>9, <3>1
  <2>10. CASE x # c
    <3>1. s.lineage[x].refs \in Nat /\ t.lineage[x].refs = s.lineage[x].refs
      BY <1>3, <1>7, <2>10
    <3> QED BY <2>3, <2>4, <2>5, <2>6, <2>7, <2>8, <2>10, <3>1
  <2> QED BY <2>9, <2>10
<1>13. WorkInv(t, rest \o push)
  BY <1>3, <1>6, <1>10, <1>11, <1>12 DEF WorkInv
<1> QED BY <1>3, <1>4, <1>13 DEF rest, push

\* What the removal of an entry pushes: a drop for each of its parents.
LEMMA DropOpsFacts ==
    ASSUME NEW s, NEW c, NEW parents \in SUBSET Nat, IsFiniteSet(parents),
           parents = s.lineage[c].direct.parents
    PROVE  /\ RemoveStep(s, c).push \in Seq(WorkOps)
           /\ \A i \in DOMAIN RemoveStep(s, c).push :
                \E x \in parents : RemoveStep(s, c).push[i] = DropRefOp(x)
           /\ \A i, j \in DOMAIN RemoveStep(s, c).push :
                RemoveStep(s, c).push[i] = RemoveStep(s, c).push[j] => i = j
<1> DEFINE seq == SetToSeq(parents)
           r == RemoveStep(s, c).push
<1>1. /\ seq \in Seq(parents) /\ Len(seq) \in Nat /\ DOMAIN seq = 1..Len(seq)
      /\ \A i, j \in DOMAIN seq : seq[i] = seq[j] => i = j
  <2>1. /\ seq \in [1..Cardinality(parents) -> parents] /\ seq \in Seq(parents)
        /\ Cardinality(parents) \in Nat /\ Len(seq) = Cardinality(parents)
        /\ \A i, j \in 1..Cardinality(parents) : seq[i] = seq[j] => i = j
    BY SetToSeqFacts
  <2>2. DOMAIN seq = 1..Cardinality(parents)
    BY <2>1
  <2> QED BY <2>1, <2>2
<1>2. \A i \in DOMAIN seq : seq[i] \in parents
  BY <1>1, ElementOfSeq
<1>3. r = [i \in DOMAIN seq |-> DropRefOp(seq[i])]
  BY DEF RemoveStep
<1>4. \A x \in parents : DropRefOp(x) \in WorkOps
  BY DEF DropRefOp, WorkOps
<1> HIDE DEF seq, r
<1>5. r \in [1..Len(seq) -> WorkOps]
  BY <1>1, <1>2, <1>3, <1>4
<1>6. r \in Seq(WorkOps)
  BY <1>1, <1>5, SeqDef
<1>7. \A i \in DOMAIN r : \E x \in parents : r[i] = DropRefOp(x)
  BY <1>2, <1>3
<1>8. \A i, j \in DOMAIN r : r[i] = r[j] => i = j
  BY <1>1, <1>3 DEF DropRefOp
<1> QED BY <1>6, <1>7, <1>8 DEF r

\* An entry is removed.
LEMMA RemoveKeeps ==
    ASSUME NEW s, NEW work, WorkInv(s, work), work # <<>>,
           NEW c \in DOMAIN s.lineage, Last(work) = RemoveOp(c)
    PROVE  LET step == RemoveStep(s, c)
           IN  WorkInv(step.store, Front(work) \o step.push) /\ Forgets(s, step.store)
<1> DEFINE t == RemoveStep(s, c).store
           rest == Front(work)
           push == RemoveStep(s, c).push
           parents == s.lineage[c].direct.parents
<1>1. s \in Stores /\ LineageShaped(s) /\ work \in Seq(WorkOps) /\ RefsCover(s, work) /\ RemovesIdle(s, work)
  BY DEF WorkInv
<1>2. /\ rest \in Seq(WorkOps)
      /\ \A i \in DOMAIN rest : i \in DOMAIN work /\ rest[i] = work[i]
  BY <1>1, FrontFacts
<1>3. /\ t \in Stores /\ Forgets(s, t)
      /\ DOMAIN t.lineage = DOMAIN s.lineage \ {c}
      /\ \A x \in DOMAIN s.lineage \ {c} : t.lineage[x] = s.lineage[x]
  BY <1>1, RemoveStepFacts
<1>4. parents \in SUBSET Nat /\ IsFiniteSet(parents)
  BY <1>1, EntryFacts DEF LineageShaped
<1>5. /\ push \in Seq(WorkOps)
      /\ \A i \in DOMAIN push : \E x \in parents : push[i] = DropRefOp(x)
      /\ \A i, j \in DOMAIN push : push[i] = push[j] => i = j
  BY <1>4, DropOpsFacts
<1>a. parents = s.lineage[c].direct.parents
  OBVIOUS
<1> HIDE DEF t, rest, push, parents
<1>6. /\ rest \o push \in Seq(WorkOps)
      /\ \A i \in DOMAIN (rest \o push) :
           \/ i \in DOMAIN rest /\ (rest \o push)[i] = rest[i]
           \/ i - Len(rest) \in DOMAIN push /\ (rest \o push)[i] = push[i - Len(rest)]
  BY <1>2, <1>5, PushFacts
<1>7. t.physical = s.physical /\ t.lastId = s.lastId
  BY <1>3 DEF Forgets
<1>8. ~IsPhysical(s, c) /\ Children(s, c) = {}
  <2>1. s.lineage[c].refs = 0
    <3>1. Len(work) \in DOMAIN work /\ work[Len(work)] = RemoveOp(c)
      BY <1>1, FrontFacts
    <3>2. work[Len(work)].op = "remove" /\ work[Len(work)].chunk = c
      BY <3>1 DEF RemoveOp
    <3> QED BY <1>1, <3>1, <3>2 DEF RemovesIdle
  <2>2. s.lineage[c].refs >= (IF IsPhysical(s, c) THEN 1 ELSE 0)
                             + Cardinality(Children(s, c)) + Cardinality(Pending(work, c))
    BY <1>1 DEF RefsCover
  <2>3. Cardinality(Children(s, c)) \in Nat /\ Cardinality(Pending(work, c)) \in Nat /\ IsFiniteSet(Children(s, c))
    BY <1>1, PendingFinite, LineageFinite
  <2>4. ~IsPhysical(s, c) /\ Cardinality(Children(s, c)) = 0
    BY <2>1, <2>2, <2>3
  <2> QED BY <2>3, <2>4, FS_EmptySet
<1>9. LineageShaped(t)
  <2>1. \A x \in DOMAIN s.lineage : c \notin s.lineage[x].direct.parents
    BY <1>8 DEF Children
  <2>2. c \notin DOMAIN t.physical
    BY <1>7, <1>8 DEF IsPhysical
  <2>3. DOMAIN t.physical \subseteq DOMAIN t.lineage
    BY <1>1, <1>3, <1>7, <2>2 DEF LineageShaped
  <2>4. ASSUME NEW x \in DOMAIN t.lineage
        PROVE  /\ x <= t.lastId
               /\ t.lineage[x].direct.parents \subseteq DOMAIN t.lineage
               /\ IsFiniteSet(t.lineage[x].direct.parents) /\ IsFiniteSet(t.lineage[x].direct.siblings)
               /\ t.lineage[x].direct.kind \in {"volatile", "manifest"}
                    => t.lineage[x].direct.parents = {} /\ t.lineage[x].direct.siblings = {}
               /\ x \in Roots => t.lineage[x].direct.kind \in {"volatile", "manifest"}
    BY <1>1, <1>3, <1>7, <2>1 DEF LineageShaped
  <2> QED BY <2>3, <2>4 DEF LineageShaped
<1>10. RemovesIdle(t, rest \o push)
  <2>1. SUFFICES ASSUME NEW i \in DOMAIN (rest \o push), (rest \o push)[i].op = "remove",
                        (rest \o push)[i].chunk \in DOMAIN t.lineage
                 PROVE  t.lineage[(rest \o push)[i].chunk].refs = 0
    BY DEF RemovesIdle
  <2>2. CASE i \in DOMAIN rest /\ (rest \o push)[i] = rest[i]
    <3>1. i \in DOMAIN work /\ (rest \o push)[i] = work[i]
      BY <1>2, <2>2
    <3>2. s.lineage[work[i].chunk].refs = 0 /\ work[i].chunk \in DOMAIN s.lineage \ {c}
      BY <1>1, <1>3, <2>1, <3>1 DEF RemovesIdle
    <3> QED BY <1>3, <3>1, <3>2
  <2>3. CASE i - Len(rest) \in DOMAIN push /\ (rest \o push)[i] = push[i - Len(rest)]
    <3>1. PICK x \in parents : push[i - Len(rest)] = DropRefOp(x)
      BY <1>5, <2>3
    <3>2. (rest \o push)[i].op = "dropref"
      BY <2>3, <3>1 DEF DropRefOp
    <3> QED BY <2>1, <3>2
  <2> QED BY <1>6, <2>2, <2>3
<1>11. RefsCover(t, rest \o push)
  <2>1. SUFFICES ASSUME NEW x \in DOMAIN t.lineage
                 PROVE  t.lineage[x].refs >= (IF IsPhysical(t, x) THEN 1 ELSE 0)
                             + Cardinality(Children(t, x)) + Cardinality(Pending(rest \o push, x))
    BY DEF RefsCover
  <2>2. Cardinality(Pending(rest \o push, x)) <= Cardinality(Pending(rest, x)) + (IF x \in parents THEN 1 ELSE 0)
    <3>1. Cardinality(Pending(rest \o push, x))
              <= Cardinality(Pending(rest, x))
                 + (IF \E i \in DOMAIN push : push[i] = DropRefOp(x) THEN 1 ELSE 0)
      <4>1. \A i, j \in DOMAIN push : push[i] = DropRefOp(x) /\ push[j] = DropRefOp(x) => i = j
        BY <1>5
      <4> QED BY <1>2, <1>5, <4>1, PendingPush
    <3>2. Cardinality(Pending(rest, x)) \in Nat /\ Cardinality(Pending(rest \o push, x)) \in Nat
      BY <1>2, <1>6, PendingFinite
    <3>3. (\E i \in DOMAIN push : push[i] = DropRefOp(x)) => x \in parents
      BY <1>5 DEF DropRefOp
    <3> QED BY <3>1, <3>2, <3>3
  <2>3. Cardinality(Pending(work, x)) = Cardinality(Pending(rest, x))
    <3>1. Cardinality(Pending(work, x)) = Cardinality(Pending(rest, x)) + (IF Last(work) = DropRefOp(x) THEN 1 ELSE 0)
      BY <1>1, PendingFront DEF rest
    <3>2. Last(work) # DropRefOp(x)
      BY DEF DropRefOp, RemoveOp
    <3>3. Cardinality(Pending(rest, x)) \in Nat
      BY <1>2, PendingFinite
    <3> QED BY <3>1, <3>2, <3>3
  <2>4. /\ Cardinality(Pending(rest, x)) \in Nat /\ Cardinality(Pending(rest \o push, x)) \in Nat
        /\ Cardinality(Children(s, x)) \in Nat /\ IsFiniteSet(Children(s, x))
    BY <1>1, <1>2, <1>6, PendingFinite, LineageFinite
  <2>5. x \in DOMAIN s.lineage /\ x # c /\ t.lineage[x] = s.lineage[x] /\ s.lineage[x].refs \in Nat
    BY <1>1, <1>3, EntryFacts
  <2>6. s.lineage[x].refs >= (IF IsPhysical(s, x) THEN 1 ELSE 0)
                             + Cardinality(Children(s, x)) + Cardinality(Pending(work, x))
    BY <1>1, <2>5 DEF RefsCover
  <2>7. IsPhysical(t, x) <=> IsPhysical(s, x)
    BY <1>7 DEF IsPhysical
  <2>8. Children(t, x) = Children(s, x) \ {c} /\ (c \in Children(s, x) <=> x \in parents)
    BY <1>3, <1>a DEF Children
  <2>9. Cardinality(Children(t, x)) = Cardinality(Children(s, x)) - (IF x \in parents THEN 1 ELSE 0)
    <3>1. Cardinality(Children(s, x) \ {c})
             = IF c \in Children(s, x) THEN Cardinality(Children(s, x)) - 1 ELSE Cardinality(Children(s, x))
      BY <2>4, FS_RemoveElement
    <3> QED BY <2>4, <2>8, <3>1
  <2> QED BY <2>2, <2>3, <2>4, <2>5, <2>6, <2>7, <2>9
<1>12. WorkInv(t, rest \o push)
  BY <1>3, <1>6, <1>9, <1>10, <1>11 DEF WorkInv
<1> QED BY <1>3, <1>12 DEF t, rest, push

\* One turn of the worklist.
LEMMA PerformKeeps ==
    ASSUME NEW s, NEW work, WorkInv(s, work), work # <<>>
    PROVE  LET step == Perform(s, Last(work))
           IN  WorkInv(step.store, Front(work) \o step.push) /\ Forgets(s, step.store)
<1> DEFINE o == Last(work)
           step == Perform(s, o)
<1>1. work \in Seq(WorkOps) /\ s \in Stores
  BY DEF WorkInv
<1>2. o \in WorkOps /\ Front(work) \in Seq(WorkOps)
  BY <1>1, FrontFacts
<1>3. CASE o.chunk \notin DOMAIN s.lineage
  <2>1. step.store = s /\ step.push = <<>>
    BY <1>3 DEF Perform
  <2>2. Front(work) \o step.push = Front(work)
    BY <1>2, <2>1, ConcatEmptySeq
  <2>3. Forgets(s, s)
    BY DEF Forgets
  <2>4. WorkInv(s, Front(work))
    BY <1>3, SkipKeeps
  <2> QED BY <2>1, <2>2, <2>3, <2>4
<1>4. CASE o.chunk \in DOMAIN s.lineage /\ o.op = "dropref"
  <2>1. o = DropRefOp(o.chunk)
    BY <1>2, <1>4 DEF WorkOps, DropRefOp
  <2>2. step = DropRefStep(s, o.chunk)
    BY <1>4 DEF Perform
  <2> HIDE DEF step, o
  <2> QED BY <1>4, <2>1, <2>2, DropRefKeeps DEF step, o
<1>5. CASE o.chunk \in DOMAIN s.lineage /\ o.op = "remove"
  <2>1. o = RemoveOp(o.chunk)
    BY <1>2, <1>5 DEF WorkOps, RemoveOp
  <2>2. step = RemoveStep(s, o.chunk)
    BY <1>5 DEF Perform
  <2> QED BY <1>5, <2>1, <2>2, RemoveKeeps
<1> QED BY <1>2, <1>3, <1>4, <1>5 DEF WorkOps

-----------------------------------------------------------------------------
(* drop_lineage_reference *)

\* One turn of the worklist, as the step of a recursion.
WorkOp(cx, w, n) ==
    IF w.ops = <<>> THEN w ELSE Pushed(Perform(w.store, Last(w.ops)), Front(w.ops))

\* After n turns the worklist and the store agree and nothing but lineage was forgotten.
WorkKept(cx, n, w) == WorkInv(w.store, w.ops) /\ Forgets(cx, w.store)

\* The worklist's recursion, with that invariant.
Worklist == INSTANCE FoldFacts WITH Op <- WorkOp, Inv <- WorkKept

\* The induction that Worklist goes by.
LEMMA WorklistInduction == Worklist!NatInduction
BY NatSetInduction DEF Worklist!NatInduction

\* The worklist ends: the bound on its turns is a number.
LEMMA FuelIsNat ==
    ASSUME NEW s \in Stores, LineageShaped(s)
    PROVE  WorklistFuel(s) \in Nat
<1> DEFINE D == DOMAIN s.lineage
           sizes == [x \in D |-> Cardinality(s.lineage[x].direct.siblings)]
           S == {0} \cup {Cardinality(s.lineage[x].direct.siblings) : x \in D}
<1>1. IsFiniteSet(D) /\ Cardinality(D) \in Nat
  BY LineageFinite, FS_CardinalityType
<1>2. \A x \in D : sizes[x] \in Nat
  BY FS_CardinalityType DEF LineageShaped
<1>3. S = {0} \cup {sizes[x] : x \in D}
  OBVIOUS
<1> HIDE DEF sizes
<1>4. IsFiniteSet(S) /\ S \subseteq Int /\ S # {} /\ 0 \in S
  <2>1. IsFiniteSet({sizes[x] : x \in D})
    BY <1>1, FiniteValues
  <2>2. IsFiniteSet({sizes[x] : x \in D} \cup {0})
    BY <2>1, FS_AddElement
  <2>3. {sizes[x] : x \in D} \cup {0} = S
    BY <1>3
  <2>4. \A z \in S : z \in Int
    BY <1>2, <1>3
  <2>5. 0 \in S
    BY <1>3
  <2> HIDE DEF S
  <2> QED BY <2>2, <2>3, <2>4, <2>5
<1> HIDE DEF S
<1>5. Max(S) \in Nat
  <2>1. Max(S) \in Int /\ Max(S) >= 0
    BY <1>4, MaxFacts
  <2> QED BY <2>1
<1>6. WorklistFuel(s) = (2 * Cardinality(D) + 1) * (2 + Max(S))
  BY DEF WorklistFuel, S
<1> QED BY <1>1, <1>5, <1>6

\* Dropping a reference that is one too many leaves a sound lineage, and loses
\* nothing but lineage.
LEMMA DropFacts ==
    ASSUME NEW s \in Stores, LineageShaped(s), NEW c \in Nat, RefsCover(s, <<DropRefOp(c)>>)
    PROVE  LET t == DropLineageReference(s, c)
           IN  t \in Stores /\ LineageSound(t) /\ Forgets(s, t)
<1> DEFINE base == [store |-> s, ops |-> <<DropRefOp(c)>>]
           fuel == WorklistFuel(s)
           last == Worklist!Recursion(s, base)[fuel]
<1>1. DropLineageReference(s, c) = last.store
  BY DEF DropLineageReference, Worklist!Recursion, WorkOp
<1>2. WorkKept(s, 0, base)
  <2>1. <<DropRefOp(c)>> \in Seq(WorkOps) /\ DOMAIN <<DropRefOp(c)>> = {1} /\ <<DropRefOp(c)>>[1] = DropRefOp(c)
    BY DEF WorkOps, DropRefOp
  <2>2. RemovesIdle(s, <<DropRefOp(c)>>)
    BY <2>1 DEF RemovesIdle, DropRefOp
  <2>3. Forgets(s, s)
    BY DEF Forgets
  <2>4. base.store = s /\ base.ops = <<DropRefOp(c)>>
    OBVIOUS
  <2> QED BY <2>1, <2>2, <2>3, <2>4 DEF WorkKept, WorkInv
<1>3. ASSUME NEW w, NEW n \in Nat, WorkKept(s, n, w) PROVE WorkKept(s, n + 1, WorkOp(s, w, n + 1))
  <2>1. CASE w.ops = <<>>
    BY <1>3, <2>1 DEF WorkKept, WorkOp
  <2>2. CASE w.ops # <<>>
    <3> DEFINE step == Perform(w.store, Last(w.ops))
               next == Pushed(step, Front(w.ops))
    <3>1. WorkInv(step.store, Front(w.ops) \o step.push) /\ Forgets(w.store, step.store)
      BY <1>3, <2>2, PerformKeeps DEF WorkKept
    <3>2. next.store = step.store /\ next.ops = Front(w.ops) \o step.push
      BY DEF Pushed
    <3>3. WorkOp(s, w, n + 1) = next
      BY <2>2 DEF WorkOp
    <3> HIDE DEF step, next
    <3>4. Forgets(s, step.store)
      BY <1>3, <3>1, ForgetsMore DEF WorkKept
    <3> QED BY <3>1, <3>2, <3>3, <3>4 DEF WorkKept
  <2> QED BY <2>1, <2>2
<1>4. fuel \in Nat
  BY FuelIsNat
<1> HIDE DEF base, fuel
<1>5. WorkKept(s, fuel, last)
  <2>1. \A w : \A n \in Nat : WorkKept(s, n, w) => WorkKept(s, n + 1, WorkOp(s, w, n + 1))
    BY <1>3
  <2>2. \A n \in Nat : WorkKept(s, n, Worklist!Recursion(s, base)[n])
    BY <1>2, <2>1, WorklistInduction, Worklist!NatRecursion
  <2> QED BY <1>4, <2>2
<1> HIDE DEF last
<1>6. RefsCover(last.store, <<>>)
  <2>1. /\ last.store \in Stores /\ LineageShaped(last.store) /\ last.ops \in Seq(WorkOps)
        /\ RefsCover(last.store, last.ops)
    BY <1>5 DEF WorkKept, WorkInv
  <2>2. SUFFICES ASSUME NEW x \in DOMAIN last.store.lineage
                 PROVE  last.store.lineage[x].refs >= (IF IsPhysical(last.store, x) THEN 1 ELSE 0)
                             + Cardinality(Children(last.store, x)) + Cardinality(Pending(<<>>, x))
    BY DEF RefsCover
  <2>3. last.store.lineage[x].refs >= (IF IsPhysical(last.store, x) THEN 1 ELSE 0)
                             + Cardinality(Children(last.store, x)) + Cardinality(Pending(last.ops, x))
    BY <2>1 DEF RefsCover
  <2>4. Pending(<<>>, x) = {} /\ Cardinality({}) = 0
    BY FS_EmptySet DEF Pending
  <2>a. Cardinality(Pending(<<>>, x)) = 0
    BY <2>4
  <2>5. /\ Cardinality(Children(last.store, x)) \in Nat /\ Cardinality(Pending(last.ops, x)) \in Nat
        /\ last.store.lineage[x].refs \in Nat
    BY <2>1, LineageFinite, PendingFinite, EntryFacts
  <2> QED BY <2>3, <2>a, <2>5
<1> QED BY <1>1, <1>5, <1>6 DEF WorkKept, WorkInv, LineageSound

\* While an entry that is still needed loses a reference, no entry goes.
NeededKept(cx, n, w) ==
    \/ w.store = cx[1] /\ w.ops = <<DropRefOp(cx[2])>>
    \/ w.ops = <<>> /\ DOMAIN w.store.lineage = DOMAIN cx[1].lineage

\* The worklist's recursion, with that invariant.
Needed == INSTANCE FoldFacts WITH Op <- WorkOp, Inv <- NeededKept

\* The induction that Needed goes by.
LEMMA NeededInduction == Needed!NatInduction
BY NatSetInduction DEF Needed!NatInduction

\* Dropping one of several references removes no entry.
LEMMA NeededStays ==
    ASSUME NEW s \in Stores, LineageShaped(s), NEW c \in DOMAIN s.lineage, s.lineage[c].refs >= 2
    PROVE  DOMAIN DropLineageReference(s, c).lineage = DOMAIN s.lineage
<1> DEFINE base == [store |-> s, ops |-> <<DropRefOp(c)>>]
           cx == <<s, c>>
           fuel == WorklistFuel(s)
           last == Needed!Recursion(cx, base)[fuel]
<1>1. DropLineageReference(s, c) = last.store
  BY DEF DropLineageReference, Needed!Recursion, WorkOp
<1>2. NeededKept(cx, 0, base)
  BY DEF NeededKept
<1>3. ASSUME NEW w, NEW n \in Nat, NeededKept(cx, n, w) PROVE NeededKept(cx, n + 1, WorkOp(cx, w, n + 1))
  <2>1. CASE w.ops = <<>>
    <3>1. <<>> # <<DropRefOp(c)>>
      OBVIOUS
    <3>2. DOMAIN w.store.lineage = DOMAIN s.lineage
      BY <1>3, <2>1, <3>1 DEF NeededKept
    <3>3. WorkOp(cx, w, n + 1) = w
      BY <2>1 DEF WorkOp
    <3> QED BY <2>1, <3>2, <3>3 DEF NeededKept
  <2>2. CASE w.ops # <<>>
    <3>1. w.store = s /\ w.ops = <<DropRefOp(c)>>
      BY <1>3, <2>2 DEF NeededKept
    <3>2. Last(w.ops) = DropRefOp(c) /\ Front(w.ops) = <<>>
      BY <3>1 DEF Last, Front
    <3> DEFINE t == LoseRef(s, c)
               step == Perform(s, DropRefOp(c))
    <3>3. /\ DOMAIN t.lineage = DOMAIN s.lineage
          /\ t.lineage[c].refs = IF s.lineage[c].refs > 0 THEN s.lineage[c].refs - 1 ELSE 0
      BY LoseRefFacts
    <3>4. s.lineage[c].refs \in Nat
      BY EntryFacts
    <3>5. t.lineage[c].refs > 0
      BY <3>3, <3>4
    <3>6. StillNeeded(t, c)
      BY <3>3, <3>5 DEF StillNeeded
    <3>7. step = DropRefStep(s, c)
      BY DEF Perform, DropRefOp
    <3>8. step.store = t /\ step.push = <<>>
      BY <3>6, <3>7 DEF DropRefStep
    <3> HIDE DEF step, t
    <3>9. WorkOp(cx, w, n + 1) = Pushed(step, <<>>)
      BY <2>2, <3>1, <3>2 DEF WorkOp, step
    <3>10. Pushed(step, <<>>).store = t /\ Pushed(step, <<>>).ops = <<>>
      BY <3>8 DEF Pushed
    <3> QED BY <3>3, <3>9, <3>10 DEF NeededKept
  <2> QED BY <2>1, <2>2
<1>4. fuel \in Nat
  BY FuelIsNat
<1> HIDE DEF fuel, cx, base
<1>5. NeededKept(cx, fuel, last)
  <2>1. \A w : \A n \in Nat : NeededKept(cx, n, w) => NeededKept(cx, n + 1, WorkOp(cx, w, n + 1))
    BY <1>3
  <2>2. \A n \in Nat : NeededKept(cx, n, Needed!Recursion(cx, base)[n])
    BY <1>2, <2>1, NeededInduction, Needed!NatRecursion
  <2> QED BY <1>4, <2>2
<1> HIDE DEF last
<1> QED BY <1>1, <1>5 DEF NeededKept, cx

\* While an entry without parents and siblings loses a reference, no other goes.
LoneKept(cx, n, w) ==
    /\ w.store \in Stores /\ w.ops \in Seq(WorkOps)
    /\ \A i \in DOMAIN w.ops : w.ops[i].chunk = cx[2]
    /\ DOMAIN cx[1].lineage \ {cx[2]} \subseteq DOMAIN w.store.lineage
    /\ cx[2] \in DOMAIN w.store.lineage =>
         w.store.lineage[cx[2]].direct.parents = {} /\ w.store.lineage[cx[2]].direct.siblings = {}

\* The worklist's recursion, with that invariant.
Lone == INSTANCE FoldFacts WITH Op <- WorkOp, Inv <- LoneKept

\* The induction that Lone goes by.
LEMMA LoneInduction == Lone!NatInduction
BY NatSetInduction DEF Lone!NatInduction

\* No sibling, no operation to push.
LEMMA NothingToDo == SetToSeq({}) = <<>> /\ RemoveOps({}) = <<>>
<1>1. SetToSeq({}) = <<>>
  <2>1. IsFiniteSet({}) /\ Cardinality({}) = 0
    BY FS_EmptySet
  <2>2. SetToSeq({}) \in Seq({}) /\ Len(SetToSeq({})) = 0
    BY <2>1, SetToSeqFacts
  <2> QED BY <2>2, EmptySeq
<1>2. RemoveOps({}) = [i \in DOMAIN SetToSeq({}) |-> RemoveOp(SetToSeq({})[i])]
  BY DEF RemoveOps
<1>3. RemoveOps({}) = <<>>
  BY <1>1, <1>2
<1> QED BY <1>1, <1>3

\* A turn about an entry without parents and siblings concerns that entry only.
LEMMA LoneStep ==
    ASSUME NEW s \in Stores, NEW c, NEW o \in WorkOps, o.chunk = c,
           c \in DOMAIN s.lineage => s.lineage[c].direct.parents = {} /\ s.lineage[c].direct.siblings = {}
    PROVE  LET step == Perform(s, o)
           IN  /\ step.store \in Stores
               /\ step.push = <<>> \/ step.push = <<RemoveOp(c)>>
               /\ DOMAIN s.lineage \ {c} \subseteq DOMAIN step.store.lineage
               /\ c \in DOMAIN step.store.lineage => /\ step.store.lineage[c].direct.parents = {}
                                                     /\ step.store.lineage[c].direct.siblings = {}
<1> DEFINE step == Perform(s, o)
<1>2. CASE c \notin DOMAIN s.lineage
  <2>1. step.store = s /\ step.push = <<>>
    BY <1>2 DEF Perform
  <2> QED BY <1>2, <2>1
<1>3. CASE c \in DOMAIN s.lineage /\ o.op = "dropref"
  <2>1. step = DropRefStep(s, c)
    BY <1>3 DEF Perform
  <2>2. step.store = LoseRef(s, c)
    BY <2>1 DEF DropRefStep
  <2>3. step.push = <<>> \/ step.push = <<>> \o <<RemoveOp(c)>>
    <3>1. s.lineage[c].direct.siblings = {}
      BY <1>3
    <3>2. RemoveOps(s.lineage[c].direct.siblings) = <<>>
      BY <3>1, NothingToDo
    <3>3. step.push = <<>> \/ step.push = RemoveOps(s.lineage[c].direct.siblings) \o <<RemoveOp(c)>>
      BY <2>1 DEF DropRefStep
    <3> QED BY <3>2, <3>3
  <2>4. <<>> \o <<RemoveOp(c)>> = <<RemoveOp(c)>>
    OBVIOUS
  <2>5. /\ LoseRef(s, c) \in Stores /\ Forgets(s, LoseRef(s, c))
        /\ DOMAIN LoseRef(s, c).lineage = DOMAIN s.lineage
    BY <1>3, LoseRefFacts
  <2>6. LoseRef(s, c).lineage[c].direct = s.lineage[c].direct
    BY <1>3, <2>5 DEF Forgets
  <2> HIDE DEF step
  <2> QED BY <1>3, <2>2, <2>3, <2>4, <2>5, <2>6 DEF step
<1>4. CASE c \in DOMAIN s.lineage /\ o.op = "remove"
  <2>1. step = RemoveStep(s, c)
    BY <1>4 DEF Perform
  <2>2. step.push = <<>>
    <3> DEFINE seq == SetToSeq(s.lineage[c].direct.parents)
    <3>1. s.lineage[c].direct.parents = {}
      BY <1>4
    <3>2. seq = <<>>
      BY <3>1, NothingToDo
    <3>3. step.push = [i \in DOMAIN seq |-> DropRefOp(seq[i])]
      BY <2>1 DEF RemoveStep
    <3> HIDE DEF seq
    <3> QED BY <3>2, <3>3
  <2>3. step.store \in Stores /\ DOMAIN step.store.lineage = DOMAIN s.lineage \ {c}
    BY <2>1, RemoveStepFacts
  <2> QED BY <2>2, <2>3
<1> QED BY <1>2, <1>3, <1>4 DEF WorkOps

\* Dropping a reference to such an entry removes no other entry.
LEMMA OthersStay ==
    ASSUME NEW s \in Stores, LineageShaped(s), NEW c \in Nat,
           c \in DOMAIN s.lineage => s.lineage[c].direct.parents = {} /\ s.lineage[c].direct.siblings = {}
    PROVE  DOMAIN s.lineage \ {c} \subseteq DOMAIN DropLineageReference(s, c).lineage
<1> DEFINE base == [store |-> s, ops |-> <<DropRefOp(c)>>]
           cx == <<s, c>>
           fuel == WorklistFuel(s)
           last == Lone!Recursion(cx, base)[fuel]
<1>1. DropLineageReference(s, c) = last.store
  BY DEF DropLineageReference, Lone!Recursion, WorkOp
<1>2. LoneKept(cx, 0, base)
  <2>1. /\ <<DropRefOp(c)>> \in Seq(WorkOps)
        /\ \A i \in DOMAIN <<DropRefOp(c)>> : <<DropRefOp(c)>>[i].chunk = c
    BY DEF DropRefOp, WorkOps
  <2>2. base.store = s /\ base.ops = <<DropRefOp(c)>> /\ cx[1] = s /\ cx[2] = c
    OBVIOUS
  <2> HIDE DEF base, cx
  <2> QED BY <2>1, <2>2 DEF LoneKept
<1>3. ASSUME NEW w, NEW n \in Nat, LoneKept(cx, n, w) PROVE LoneKept(cx, n + 1, WorkOp(cx, w, n + 1))
  <2>1. CASE w.ops = <<>>
    BY <1>3, <2>1 DEF LoneKept, WorkOp
  <2>2. CASE w.ops # <<>>
    <3> DEFINE step == Perform(w.store, Last(w.ops))
               next == Pushed(step, Front(w.ops))
    <3>1. /\ w.store \in Stores /\ w.ops \in Seq(WorkOps)
          /\ \A i \in DOMAIN w.ops : w.ops[i].chunk = c
          /\ DOMAIN s.lineage \ {c} \subseteq DOMAIN w.store.lineage
          /\ c \in DOMAIN w.store.lineage =>
               w.store.lineage[c].direct.parents = {} /\ w.store.lineage[c].direct.siblings = {}
      BY <1>3 DEF LoneKept
    <3>2. /\ Front(w.ops) \in Seq(WorkOps) /\ Last(w.ops).chunk = c
          /\ \A i \in DOMAIN Front(w.ops) : Front(w.ops)[i].chunk = c
      BY <2>2, <3>1, FrontFacts
    <3>3. /\ step.store \in Stores
          /\ step.push = <<>> \/ step.push = <<RemoveOp(c)>>
          /\ DOMAIN w.store.lineage \ {c} \subseteq DOMAIN step.store.lineage
          /\ c \in DOMAIN step.store.lineage => /\ step.store.lineage[c].direct.parents = {}
                                                /\ step.store.lineage[c].direct.siblings = {}
      <4> DEFINE o == Last(w.ops)
      <4>1. o \in WorkOps /\ o.chunk = c
        BY <2>2, <3>1, <3>2, FrontFacts
      <4>2. PICK st : st = w.store
        OBVIOUS
      <4> DEFINE p == Perform(st, o)
      <4>3. step = p
        BY <4>2
      <4>4. /\ st \in Stores /\ DOMAIN w.store.lineage = DOMAIN st.lineage
            /\ c \in DOMAIN st.lineage =>
                 st.lineage[c].direct.parents = {} /\ st.lineage[c].direct.siblings = {}
        BY <3>1, <4>2
      <4> HIDE DEF o
      <4>5. p.store \in Stores /\ (p.push = <<>> \/ p.push = <<RemoveOp(c)>>)
        BY <4>1, <4>4, LoneStep
      <4>6. DOMAIN st.lineage \ {c} \subseteq DOMAIN p.store.lineage
        BY <4>1, <4>4, LoneStep
      <4>7. c \in DOMAIN p.store.lineage => /\ p.store.lineage[c].direct.parents = {}
                                            /\ p.store.lineage[c].direct.siblings = {}
        BY <4>1, <4>4, LoneStep
      <4> HIDE DEF p, step
      <4> QED BY <4>3, <4>4, <4>5, <4>6, <4>7
    <3>4. next.store = step.store /\ next.ops = Front(w.ops) \o step.push
      BY DEF Pushed
    <3>5. WorkOp(cx, w, n + 1) = next
      BY <2>2 DEF WorkOp
    <3> HIDE DEF step, next
    <3>6. /\ step.push \in Seq(WorkOps)
          /\ \A i \in DOMAIN step.push : step.push[i].chunk = c
      <4>1. CASE step.push = <<>>
        BY <4>1
      <4>2. CASE step.push = <<RemoveOp(c)>>
        BY <4>2 DEF RemoveOp, WorkOps
      <4> QED BY <3>3, <4>1, <4>2
    <3>7. /\ next.ops \in Seq(WorkOps)
          /\ \A i \in DOMAIN next.ops : next.ops[i].chunk = c
      <4>1. /\ Front(w.ops) \o step.push \in Seq(WorkOps)
            /\ \A i \in DOMAIN (Front(w.ops) \o step.push) :
                 \/ i \in DOMAIN Front(w.ops) /\ (Front(w.ops) \o step.push)[i] = Front(w.ops)[i]
                 \/ /\ i - Len(Front(w.ops)) \in DOMAIN step.push
                    /\ (Front(w.ops) \o step.push)[i] = step.push[i - Len(Front(w.ops))]
        BY <3>2, <3>6, PushFacts
      <4>2. \A i \in DOMAIN (Front(w.ops) \o step.push) : (Front(w.ops) \o step.push)[i].chunk = c
        BY <3>2, <3>6, <4>1
      <4> QED BY <3>4, <4>1, <4>2
    <3>8. DOMAIN s.lineage \ {c} \subseteq DOMAIN next.store.lineage
      BY <3>1, <3>3, <3>4
    <3>9. cx[1] = s /\ cx[2] = c
      OBVIOUS
    <3> HIDE DEF cx
    <3> QED BY <3>3, <3>4, <3>5, <3>7, <3>8, <3>9 DEF LoneKept
  <2> QED BY <2>1, <2>2
<1>4. fuel \in Nat
  BY FuelIsNat
<1> HIDE DEF fuel, cx, base
<1>5. LoneKept(cx, fuel, last)
  <2>1. \A w : \A n \in Nat : LoneKept(cx, n, w) => LoneKept(cx, n + 1, WorkOp(cx, w, n + 1))
    BY <1>3
  <2>2. \A n \in Nat : LoneKept(cx, n, Lone!Recursion(cx, base)[n])
    BY <1>2, <2>1, LoneInduction, Lone!NatRecursion
  <2> QED BY <1>4, <2>2
<1> HIDE DEF last
<1> QED BY <1>1, <1>5 DEF LoneKept, cx

-----------------------------------------------------------------------------
(* The rows of the physical chunks *)

\* They are finitely many.
LEMMA HeldFinite ==
    ASSUME NEW chunks, NEW n \in Nat, DOMAIN chunks \subseteq 0..n
    PROVE  IsFiniteSet(Held(chunks)) /\ Cardinality(Held(chunks)) \in Nat
<1>1. IsFiniteSet(DOMAIN chunks)
  <2>1. IsFiniteSet(0..n)
    BY FS_Interval
  <2> QED BY <2>1, FS_Subset
<1>2. IsFiniteSet((DOMAIN chunks) \X Rows)
  BY <1>1, DataAssumption, FS_Product
<1>3. Held(chunks) \subseteq (DOMAIN chunks) \X Rows
  BY DEF Held
<1> QED BY <1>2, <1>3, FS_Subset, FS_CardinalityType

\* As many as the chunk has when there is only one.
LEMMA OneChunk ==
    ASSUME NEW c, NEW rows, IsFiniteSet(rows)
    PROVE  IsFiniteSet({c} \X rows) /\ Cardinality({c} \X rows) = Cardinality(rows)
<1>1. IsFiniteSet({c}) /\ Cardinality({c}) = 1
  BY FS_Singleton
<1>2. IsFiniteSet({c} \X rows) /\ Cardinality({c} \X rows) = 1 * Cardinality(rows)
  BY <1>1, FS_Product
<1>3. Cardinality(rows) \in Nat
  BY FS_CardinalityType
<1> QED BY <1>2, <1>3

\* A chunk goes.
LEMMA HeldWithout ==
    ASSUME NEW chunks, NEW n \in Nat, DOMAIN chunks \subseteq 0..n,
           NEW c \in DOMAIN chunks, IsChunk(chunks[c])
    PROVE  Cardinality(Held(Without(chunks, {c})))
              = Cardinality(Held(chunks)) - (IF IsStatic(chunks[c]) THEN 0 ELSE Cardinality(chunks[c]))
<1> DEFINE less == Without(chunks, {c})
<1>1. DOMAIN less = DOMAIN chunks \ {c} /\ \A x \in DOMAIN less : less[x] = chunks[x]
  <2>1. DOMAIN less = DOMAIN chunks \ {c}
    BY WithoutFacts
  <2>2. \A x \in DOMAIN chunks \ {c} : less[x] = chunks[x]
    BY WithoutFacts
  <2> QED BY <2>1, <2>2
<1>2. /\ IsFiniteSet(Held(chunks)) /\ Cardinality(Held(chunks)) \in Nat
      /\ IsFiniteSet(chunks[c]) /\ Cardinality(chunks[c]) \in Nat /\ chunks[c] \subseteq Rows
  BY HeldFinite, ChunkFacts DEF IsChunk
<1> HIDE DEF less
<1>3. CASE IsStatic(chunks[c])
  <2>1. Held(less) = Held(chunks)
    <3>1. \A p : p \in Held(less) <=> p \in Held(chunks)
      BY <1>1, <1>3 DEF Held
    <3> QED BY <3>1
  <2> QED BY <1>2, <1>3, <2>1 DEF less
<1>4. CASE ~IsStatic(chunks[c])
  <2>1. Held(less) = Held(chunks) \ ({c} \X chunks[c])
    <3>1. ASSUME NEW p \in Held(less) PROVE p \in Held(chunks) \ ({c} \X chunks[c])
      BY <1>1 DEF Held
    <3>2. ASSUME NEW p \in Held(chunks), p \notin {c} \X chunks[c] PROVE p \in Held(less)
      <4>1. /\ p \in (DOMAIN chunks) \X Rows /\ p[2] \in chunks[p[1]] /\ ~IsStatic(chunks[p[1]])
            /\ p = <<p[1], p[2]>>
        BY <3>2 DEF Held
      <4>2. p[1] # c
        BY <3>2, <4>1
      <4> QED BY <1>1, <4>1, <4>2 DEF Held
    <3> QED BY <3>1, <3>2
  <2>2. Held(chunks) \cap ({c} \X chunks[c]) = {c} \X chunks[c]
    <3>1. \A r \in chunks[c] : <<c, r>> \in Held(chunks)
      BY <1>2, <1>4 DEF Held
    <3> QED BY <3>1
  <2>3. Cardinality(Held(chunks) \ ({c} \X chunks[c]))
           = Cardinality(Held(chunks)) - Cardinality(Held(chunks) \cap ({c} \X chunks[c]))
    BY <1>2, FS_Difference
  <2>4. Cardinality({c} \X chunks[c]) = Cardinality(chunks[c])
    BY <1>2, OneChunk
  <2> QED BY <1>4, <2>1, <2>2, <2>3, <2>4 DEF less
<1> QED BY <1>3, <1>4

\* A chunk comes.
LEMMA HeldWith ==
    ASSUME NEW chunks, NEW n \in Nat, DOMAIN chunks \subseteq 0..n,
           NEW c, c \notin DOMAIN chunks, NEW rows, IsChunk(rows)
    PROVE  Cardinality(Held(With(chunks, c, rows)))
              = Cardinality(Held(chunks)) + (IF IsStatic(rows) THEN 0 ELSE Cardinality(rows))
<1> DEFINE more == With(chunks, c, rows)
<1>1. DOMAIN more = DOMAIN chunks \cup {c} /\ more[c] = rows /\ \A x \in DOMAIN chunks : more[x] = chunks[x]
  <2>1. DOMAIN more = DOMAIN chunks \cup {c} /\ more[c] = rows
    BY DEF With
  <2>2. \A x \in DOMAIN chunks : x # c => more[x] = chunks[x]
    BY DEF With
  <2> QED BY <2>1, <2>2
<1>2. /\ IsFiniteSet(Held(chunks)) /\ Cardinality(Held(chunks)) \in Nat
      /\ IsFiniteSet(rows) /\ Cardinality(rows) \in Nat /\ rows \subseteq Rows
  BY HeldFinite, ChunkFacts DEF IsChunk
<1> HIDE DEF more
<1>3. CASE IsStatic(rows)
  <2>1. Held(more) = Held(chunks)
    <3>1. \A p : p \in Held(more) <=> p \in Held(chunks)
      BY <1>1, <1>3 DEF Held
    <3> QED BY <3>1
  <2> QED BY <1>2, <1>3, <2>1 DEF more
<1>4. CASE ~IsStatic(rows)
  <2>1. Held(more) = Held(chunks) \cup ({c} \X rows)
    <3>1. ASSUME NEW p \in Held(more) PROVE p \in Held(chunks) \cup ({c} \X rows)
      <4>1. /\ p \in (DOMAIN more) \X Rows /\ p[2] \in more[p[1]] /\ ~IsStatic(more[p[1]])
            /\ p = <<p[1], p[2]>>
        BY <3>1 DEF Held
      <4>2. CASE p[1] = c
        BY <1>1, <4>1, <4>2
      <4>3. CASE p[1] # c
        BY <1>1, <4>1, <4>3 DEF Held
      <4> QED BY <4>2, <4>3
    <3>2. ASSUME NEW p \in Held(chunks) PROVE p \in Held(more)
      BY <1>1, <3>2 DEF Held
    <3>3. ASSUME NEW r \in rows PROVE <<c, r>> \in Held(more)
      BY <1>1, <1>2, <1>4 DEF Held
    <3> QED BY <3>1, <3>2, <3>3
  <2>2. Held(chunks) \cap ({c} \X rows) = {}
    BY DEF Held
  <2>3. Cardinality(Held(chunks) \cup ({c} \X rows))
           = Cardinality(Held(chunks)) + Cardinality({c} \X rows) - Cardinality(Held(chunks) \cap ({c} \X rows))
    BY <1>2, OneChunk, FS_Union
  <2>4. Cardinality({c} \X rows) = Cardinality(rows)
    BY <1>2, OneChunk
  <2>5. Cardinality({}) = 0
    BY FS_EmptySet
  <2>6. Cardinality(Held(chunks) \cap ({c} \X rows)) = 0
    BY <2>2, <2>5
  <2> QED BY <1>2, <1>4, <2>1, <2>3, <2>4, <2>6 DEF more
<1> QED BY <1>3, <1>4

-----------------------------------------------------------------------------
(* Removals *)

\* Chunks, index entries and lineage go; nothing comes or changes, and the
\* statistics count what goes.
Shrinks(s, t) ==
    /\ DOMAIN t.physical \subseteq DOMAIN s.physical
    /\ \A c \in DOMAIN t.physical : t.physical[c] = s.physical[c]
    /\ DOMAIN t.virtual \subseteq DOMAIN s.virtual
    /\ \A c \in DOMAIN t.virtual : t.virtual[c] = s.virtual[c]
    /\ t.maxLength = s.maxLength /\ t.static = s.static /\ t.lastId = s.lastId
    /\ DOMAIN t.lineage \subseteq DOMAIN s.lineage
    /\ \A c \in DOMAIN t.lineage : t.lineage[c].direct = s.lineage[c].direct
    /\ DOMAIN t.dangling \subseteq DOMAIN s.dangling
    /\ \A c \in DOMAIN t.dangling : t.dangling[c] = s.dangling[c]
    /\ DOMAIN t.leaky \subseteq DOMAIN s.leaky
    /\ \A c \in DOMAIN t.leaky : t.leaky[c] = s.leaky[c]
    /\ Surplus(t) = Surplus(s)

\* Shrinking twice is shrinking.
LEMMA ShrinksMore ==
    ASSUME NEW s, NEW t, NEW u, Shrinks(s, t), Shrinks(t, u)
    PROVE  Shrinks(s, u)
BY DEF Shrinks

\* Forgetting lineage is a way to shrink.
LEMMA ForgetsShrinks ==
    ASSUME NEW s, NEW t, Forgets(s, t)
    PROVE  Shrinks(s, t)
BY DEF Shrinks, Forgets, Surplus

\* The lineage is sound whatever happens to the rest of the store.
LEMMA LineageFrame ==
    ASSUME NEW s, NEW t, LineageSound(s),
           t.lineage = s.lineage, t.physical = s.physical, t.lastId = s.lastId
    PROVE  LineageSound(t)
<1>1. LineageShaped(t)
  BY DEF LineageSound, LineageShaped
<1>2. \A c : Children(t, c) = Children(s, c) /\ (IsPhysical(t, c) <=> IsPhysical(s, c))
  BY DEF Children, IsPhysical
<1>3. RefsCover(t, <<>>)
  BY <1>2 DEF LineageSound, RefsCover
<1> QED BY <1>1, <1>3 DEF LineageSound

\* The maps of a store.
LEMMA StoreFacts ==
    ASSUME NEW s \in Stores
    PROVE  /\ s.physical \in PhysicalMaps /\ DOMAIN s.physical \subseteq Nat
           /\ \A c \in DOMAIN s.physical : s.physical[c] \in SUBSET Rows
           /\ s.virtual \in PhysicalMaps /\ DOMAIN s.virtual \subseteq Nat
           /\ s.static \in StaticMaps /\ DOMAIN s.static \subseteq Entities
           /\ \A e \in DOMAIN s.static : s.static[e] \in Roots
           /\ s.dangling \in DanglingMaps /\ s.leaky \in LeakyMaps
           /\ \A c \in DOMAIN s.dangling : s.dangling[c] \in SUBSET Nat
           /\ s.lastId \in Nat /\ s.maxLength \in [Entities -> Int]
           /\ s.stats.static \in Int /\ s.stats.temporal \in Int
<1>1. /\ s.physical \in PhysicalMaps /\ s.virtual \in PhysicalMaps /\ s.static \in StaticMaps
      /\ s.dangling \in DanglingMaps /\ s.leaky \in LeakyMaps
      /\ s.lastId \in Nat /\ s.maxLength \in [Entities -> Int] /\ s.stats \in Statistics
  BY DEF Stores
<1>2. /\ DOMAIN s.physical \subseteq Nat /\ s.physical \in [DOMAIN s.physical -> SUBSET Rows]
      /\ DOMAIN s.virtual \subseteq Nat /\ s.virtual \in [DOMAIN s.virtual -> SUBSET Rows]
  BY <1>1, PartialFacts DEF PhysicalMaps
<1>3. DOMAIN s.static \subseteq Entities /\ s.static \in [DOMAIN s.static -> Roots]
  BY <1>1, PartialFacts DEF StaticMaps
<1>4. s.dangling \in [DOMAIN s.dangling -> SUBSET Nat]
  BY <1>1, PartialFacts DEF DanglingMaps
<1> QED BY <1>1, <1>2, <1>3, <1>4 DEF Statistics

\* The physical chunks, by their soundness.
LEMMA SoundFacts ==
    ASSUME NEW s, StoreInv(s)
    PROVE  /\ s \in Stores /\ IdsGiven(s) /\ ChunksSound(s) /\ IndexSound(s) /\ StaticsSound(s)
           /\ SplitsSound(s) /\ LineageSound(s) /\ LineageShaped(s)
           /\ s.lastId \in Nat /\ DOMAIN s.physical \subseteq 0..s.lastId
           /\ IsFiniteSet(DOMAIN s.physical)
           /\ \A c \in DOMAIN s.physical : IsChunk(s.physical[c]) /\ c \in DOMAIN s.lineage /\ c \in Nat
<1>1. /\ s \in Stores /\ IdsGiven(s) /\ ChunksSound(s) /\ IndexSound(s) /\ StaticsSound(s)
      /\ SplitsSound(s) /\ LineageSound(s) /\ LineageShaped(s)
  BY DEF StoreInv, LineageSound
<1>2. s.lastId \in Nat /\ DOMAIN s.physical \subseteq Nat
  BY <1>1, StoreFacts
<1>3. DOMAIN s.physical \subseteq 0..s.lastId
  BY <1>1, <1>2 DEF IdsGiven
<1>4. IsFiniteSet(0..s.lastId)
  BY <1>2, FS_Interval
<1>5. IsFiniteSet(DOMAIN s.physical)
  BY <1>3, <1>4, FS_Subset
<1>6. \A c \in DOMAIN s.physical : IsChunk(s.physical[c]) /\ c \in DOMAIN s.lineage
  BY <1>1 DEF ChunksSound, LineageShaped
<1> QED BY <1>1, <1>2, <1>3, <1>5, <1>6

\* What a removal has to see to.
LEMMA ShrinkKeeps ==
    ASSUME NEW s, StoreInv(s), NEW t \in Stores, Shrinks(s, t),
           \A c \in TemporalPhysical(t) : c \in DOMAIN t.virtual,
           LineageSound(t)
    PROVE  StoreInv(t)
<1>1. s \in Stores /\ IdsGiven(s) /\ ChunksSound(s) /\ IndexSound(s) /\ StaticsSound(s) /\ SplitsSound(s)
  BY SoundFacts
<1>2. IdsGiven(t)
  BY <1>1 DEF Shrinks, IdsGiven
<1>3. ChunksSound(t)
  BY <1>1 DEF Shrinks, ChunksSound
<1>4. IndexSound(t)
  <2>1. \A c \in DOMAIN t.virtual : t.virtual[c] = s.virtual[c] /\ c \in DOMAIN s.virtual
    BY DEF Shrinks
  <2>2. \A c \in DOMAIN t.virtual :
          /\ IsChunk(t.virtual[c]) /\ ~IsStatic(t.virtual[c])
          /\ c \in Roots => t.virtual[c] = ChunkRows[c]
          /\ Length(t.virtual[c]) <= t.maxLength[EntityOf(t.virtual[c])]
    BY <1>1, <2>1 DEF IndexSound, Shrinks
  <2>3. ASSUME NEW c \in TemporalPhysical(t) PROVE c \in DOMAIN t.virtual /\ t.virtual[c] = t.physical[c]
    <3>1. c \in DOMAIN t.physical /\ ~IsStatic(t.physical[c])
      BY <2>3 DEF TemporalPhysical
    <3>2. c \in DOMAIN s.physical /\ t.physical[c] = s.physical[c]
      BY <3>1 DEF Shrinks
    <3>3. c \in TemporalPhysical(s)
      BY <3>1, <3>2 DEF TemporalPhysical
    <3>4. s.virtual[c] = s.physical[c]
      BY <1>1, <3>3 DEF IndexSound
    <3>5. c \in DOMAIN t.virtual
      BY <2>3
    <3> QED BY <2>1, <3>2, <3>4, <3>5
  <2> QED BY <2>2, <2>3 DEF IndexSound
<1>5. StaticsSound(t)
  BY <1>1 DEF StaticsSound, Shrinks
<1>6. SplitsSound(t)
  BY <1>1 DEF SplitsSound, Shrinks
<1> QED BY <1>2, <1>3, <1>4, <1>5, <1>6 DEF StoreInv

\* The drop of the reference that a removed physical chunk held.
LEMMA OneTooMany ==
    ASSUME NEW s \in Stores, LineageSound(s), NEW c \in DOMAIN s.physical,
           NEW t \in Stores, t.lineage = s.lineage, t.lastId = s.lastId,
           DOMAIN t.physical = DOMAIN s.physical \ {c}
    PROVE  LineageShaped(t) /\ RefsCover(t, <<DropRefOp(c)>>) /\ c \in Nat
<1>0. c \in Nat
  BY StoreFacts
<1>1. LineageShaped(t)
  BY DEF LineageSound, LineageShaped
<1>2. RefsCover(t, <<DropRefOp(c)>>)
  <2>1. SUFFICES ASSUME NEW x \in DOMAIN t.lineage
                 PROVE  t.lineage[x].refs >= (IF IsPhysical(t, x) THEN 1 ELSE 0)
                             + Cardinality(Children(t, x)) + Cardinality(Pending(<<DropRefOp(c)>>, x))
    BY DEF RefsCover
  <2>2. s.lineage[x].refs >= (IF IsPhysical(s, x) THEN 1 ELSE 0)
                             + Cardinality(Children(s, x)) + Cardinality(Pending(<<>>, x))
    BY <2>1 DEF LineageSound, RefsCover
  <2>3. Children(t, x) = Children(s, x) /\ Cardinality(Children(s, x)) \in Nat /\ t.lineage[x] = s.lineage[x]
    BY LineageFinite DEF Children, LineageSound
  <2>4. Cardinality(Pending(<<>>, x)) = 0
    <3>1. Pending(<<>>, x) = {}
      BY DEF Pending
    <3>2. Cardinality({}) = 0
      BY FS_EmptySet
    <3> QED BY <3>1, <3>2
  <2>5. Cardinality(Pending(<<DropRefOp(c)>>, x)) = IF x = c THEN 1 ELSE 0
    <3>1. CASE x = c
      <4>1. Pending(<<DropRefOp(c)>>, x) = {1}
        BY <3>1 DEF Pending
      <4>2. Cardinality({1}) = 1
        BY FS_Singleton
      <4> QED BY <3>1, <4>1, <4>2
    <3>2. CASE x # c
      <4>1. Pending(<<DropRefOp(c)>>, x) = {}
        BY <3>2 DEF Pending, DropRefOp
      <4>2. Cardinality({}) = 0
        BY FS_EmptySet
      <4> QED BY <3>2, <4>1, <4>2
    <3> QED BY <3>1, <3>2
  <2>6. s.lineage[x].refs \in Nat
    BY <2>1, EntryFacts
  <2>7. CASE x = c
    <3>1. IsPhysical(s, x) /\ ~IsPhysical(t, x)
      BY <2>7 DEF IsPhysical
    <3> QED BY <2>2, <2>3, <2>4, <2>5, <2>6, <2>7, <3>1
  <2>8. CASE x # c
    <3>1. IsPhysical(s, x) <=> IsPhysical(t, x)
      BY <2>8 DEF IsPhysical
    <3> QED BY <2>2, <2>3, <2>4, <2>5, <2>6, <2>8, <3>1
  <2> QED BY <2>7, <2>8
<1> QED BY <1>0, <1>1, <1>2

\* The store after the removal of a physical chunk, and before its reference
\* is dropped.
Unloaded(s, c) ==
    [s EXCEPT !.physical = Without(@, {c}), !.stats.temporal = @ - Cardinality(s.physical[c])]

\* The shallow removal of c: unloaded, its reference dropped, its leftovers forgotten.
Offloaded(s, c) == ForgetUnlessKnown(DropLineageReference(Unloaded(s, c), c), c)

\* Unloading c leaves one reference to c too many, the one that is dropped next.
LEMMA UnloadedFacts ==
    ASSUME NEW s, StoreInv(s), NEW c \in TemporalPhysical(s)
    PROVE  LET t == Unloaded(s, c)
           IN  /\ t \in Stores /\ t.physical = Without(s.physical, {c})
               /\ t.virtual = s.virtual /\ t.maxLength = s.maxLength /\ t.static = s.static
               /\ t.lineage = s.lineage /\ t.lastId = s.lastId /\ t.dangling = s.dangling /\ t.leaky = s.leaky
               /\ LineageShaped(t) /\ RefsCover(t, <<DropRefOp(c)>>) /\ Surplus(t) = Surplus(s) /\ c \in Nat
<1> DEFINE t == Unloaded(s, c)
<1>1. /\ s \in Stores /\ LineageSound(s) /\ c \in DOMAIN s.physical
      /\ ~IsStatic(s.physical[c]) /\ IsChunk(s.physical[c])
      /\ s.lastId \in Nat /\ DOMAIN s.physical \subseteq 0..s.lastId
  BY SoundFacts DEF TemporalPhysical
<1>2. s.physical \in PhysicalMaps /\ s.stats \in Statistics /\ s.stats.temporal \in Int
  BY <1>1, StoreFacts DEF Stores
<1>3. Without(s.physical, {c}) \in PhysicalMaps
  BY <1>2, WithoutTyped DEF PhysicalMaps
<1>4. Cardinality(s.physical[c]) \in Nat
  BY <1>1, ChunkFacts
<1>5. /\ t \in Stores /\ t.physical = Without(s.physical, {c})
      /\ t.virtual = s.virtual /\ t.maxLength = s.maxLength /\ t.static = s.static
      /\ t.lineage = s.lineage /\ t.lastId = s.lastId /\ t.dangling = s.dangling /\ t.leaky = s.leaky
      /\ t.stats.temporal = s.stats.temporal - Cardinality(s.physical[c])
  <2> DEFINE st == [s.stats EXCEPT !.temporal = @ - Cardinality(s.physical[c])]
  <2>1. st \in Statistics /\ st.temporal = s.stats.temporal - Cardinality(s.physical[c])
    BY <1>2, <1>4 DEF Statistics
  <2>2. t = [s EXCEPT !.physical = Without(s.physical, {c}), !.stats = st]
    BY <1>1 DEF Unloaded, Stores
  <2> HIDE DEF st, t
  <2> QED BY <1>1, <1>3, <2>1, <2>2 DEF Stores
<1> HIDE DEF t
<1>6. DOMAIN t.physical = DOMAIN s.physical \ {c}
  BY <1>5, WithoutFacts
<1>7. LineageShaped(t) /\ RefsCover(t, <<DropRefOp(c)>>) /\ c \in Nat
  BY <1>1, <1>5, <1>6, OneTooMany
<1>8. Surplus(t) = Surplus(s)
  <2>1. Cardinality(Held(Without(s.physical, {c})))
           = Cardinality(Held(s.physical)) - (IF IsStatic(s.physical[c]) THEN 0 ELSE Cardinality(s.physical[c]))
    BY <1>1, HeldWithout
  <2>2. Cardinality(Held(s.physical)) \in Nat
    BY <1>1, HeldFinite
  <2> QED BY <1>1, <1>2, <1>4, <1>5, <2>1, <2>2 DEF Surplus
<1> QED BY <1>5, <1>7, <1>8 DEF t

\* The removal of a temporal physical chunk.
LEMMA OffloadedFacts ==
    ASSUME NEW s, StoreInv(s), NEW c \in TemporalPhysical(s)
    PROVE  LET t == Offloaded(s, c)
           IN  StoreInv(t) /\ Shrinks(s, t) /\ DOMAIN t.physical = DOMAIN s.physical \ {c}
<1> DEFINE u == Unloaded(s, c)
           v == DropLineageReference(u, c)
           t == ForgetUnlessKnown(v, c)
<1>1. /\ u \in Stores /\ u.physical = Without(s.physical, {c})
      /\ u.virtual = s.virtual /\ u.maxLength = s.maxLength /\ u.static = s.static
      /\ u.lineage = s.lineage /\ u.lastId = s.lastId /\ u.dangling = s.dangling /\ u.leaky = s.leaky
      /\ LineageShaped(u) /\ RefsCover(u, <<DropRefOp(c)>>) /\ Surplus(u) = Surplus(s) /\ c \in Nat
  BY UnloadedFacts
<1> HIDE DEF u
<1>2. v \in Stores /\ LineageSound(v) /\ Forgets(u, v)
  BY <1>1, DropFacts
<1>3. t = Offloaded(s, c)
  BY DEF Offloaded, u
<1>4. /\ t \in Stores /\ t.physical = v.physical /\ t.maxLength = v.maxLength /\ t.static = v.static
      /\ t.lineage = v.lineage /\ t.lastId = v.lastId /\ t.dangling = v.dangling /\ t.stats = v.stats
      /\ t.leaky = v.leaky
      /\ t.virtual = v.virtual \/ t.virtual = Without(v.virtual, {c})
  <2> HIDE DEF v
  <2>1. CASE c \in DOMAIN v.lineage
    <3>1. t = v
      BY <2>1 DEF ForgetUnlessKnown
    <3> QED BY <1>2, <3>1
  <2>2. CASE c \notin DOMAIN v.lineage
    <3>1. t = [v EXCEPT !.virtual = Without(v.virtual, {c})]
      BY <1>2, <2>2 DEF ForgetUnlessKnown, RemoveFromVirtualIndices, Stores
    <3>2. Without(v.virtual, {c}) \in PhysicalMaps
      BY <1>2, StoreFacts, WithoutTyped DEF PhysicalMaps
    <3> HIDE DEF t
    <3> QED BY <1>2, <3>1, <3>2 DEF Stores
  <2> QED BY <2>1, <2>2
<1> HIDE DEF t, v
<1>5. /\ t.physical = Without(s.physical, {c}) /\ t.maxLength = s.maxLength /\ t.static = s.static
      /\ t.lastId = s.lastId /\ v.virtual = s.virtual /\ t.stats = u.stats
      /\ DOMAIN t.lineage \subseteq DOMAIN s.lineage
      /\ \A x \in DOMAIN t.lineage : t.lineage[x].direct = s.lineage[x].direct
      /\ DOMAIN t.dangling \subseteq DOMAIN s.dangling
      /\ \A x \in DOMAIN t.dangling : t.dangling[x] = s.dangling[x]
      /\ DOMAIN t.leaky \subseteq DOMAIN s.leaky
      /\ \A x \in DOMAIN t.leaky : t.leaky[x] = s.leaky[x]
  BY <1>1, <1>2, <1>4 DEF Forgets
<1>6. /\ DOMAIN t.physical = DOMAIN s.physical \ {c}
      /\ \A x \in DOMAIN t.physical : t.physical[x] = s.physical[x]
  <2>1. DOMAIN t.physical = DOMAIN s.physical \ {c}
    BY <1>5, WithoutFacts
  <2>2. \A x \in DOMAIN s.physical \ {c} : Without(s.physical, {c})[x] = s.physical[x]
    BY WithoutFacts
  <2> QED BY <1>5, <2>1, <2>2
<1>7. /\ DOMAIN t.virtual \subseteq DOMAIN s.virtual /\ DOMAIN s.virtual \ {c} \subseteq DOMAIN t.virtual
      /\ \A x \in DOMAIN t.virtual : t.virtual[x] = s.virtual[x]
  <2>1. DOMAIN Without(s.virtual, {c}) = DOMAIN s.virtual \ {c}
    BY WithoutFacts
  <2>2. \A x \in DOMAIN s.virtual \ {c} : Without(s.virtual, {c})[x] = s.virtual[x]
    BY WithoutFacts
  <2> QED BY <1>4, <1>5, <2>1, <2>2
<1>8. Shrinks(s, t)
  BY <1>1, <1>5, <1>6, <1>7 DEF Shrinks, Surplus
<1>9. \A x \in TemporalPhysical(t) : x \in DOMAIN t.virtual
  <2>1. SUFFICES ASSUME NEW x \in TemporalPhysical(t) PROVE x \in DOMAIN t.virtual
    OBVIOUS
  <2>2. x \in TemporalPhysical(s) /\ x # c
    BY <1>6 DEF TemporalPhysical
  <2>3. x \in DOMAIN s.virtual
    BY <2>2, SoundFacts DEF IndexSound
  <2> QED BY <1>7, <2>2, <2>3
<1>10. LineageSound(t)
  BY <1>2, <1>4, LineageFrame
<1>12. StoreInv(t)
  BY <1>4, <1>8, <1>9, <1>10, ShrinkKeeps
<1> QED BY <1>3, <1>6, <1>8, <1>12

-----------------------------------------------------------------------------
(* Removing a list of chunks *)

\* A list of chunks to remove, and the diffs that report it.
ChunkList == Seq(Nat \X SUBSET Rows)
Deletions == [type : {"deletion"}, chunk : Nat, rows : SUBSET Rows]

\* The chunks that the first n of a list name.
Named(chunks, n) == {chunks[i][1] : i \in 1..n}

\* The chunks that diffs report deleted.
Gone(diffs) == {diffs[i].chunk : i \in DOMAIN diffs}

\* The chunks of the list that are physical are temporal.
Temporal(s, chunks) ==
    \A i \in DOMAIN chunks : chunks[i][1] \in DOMAIN s.physical => ~IsStatic(s.physical[chunks[i][1]])

\* One more chunk of the list.
LEMMA NamedNext ==
    ASSUME NEW chunks, NEW n \in Nat
    PROVE  Named(chunks, n + 1) = Named(chunks, n) \cup {chunks[n + 1][1]} /\ Named(chunks, 0) = {}
<1>1. \A i : i \in 1..(n + 1) <=> i \in 1..n \/ i = n + 1
  OBVIOUS
<1> QED BY <1>1 DEF Named

\* One more deletion.
LEMMA GoneAppend ==
    ASSUME NEW diffs \in Seq(Deletions), NEW d \in Deletions
    PROVE  Append(diffs, d) \in Seq(Deletions) /\ Gone(Append(diffs, d)) = Gone(diffs) \cup {d.chunk}
<1>1. /\ Append(diffs, d) \in Seq(Deletions) /\ Len(Append(diffs, d)) = Len(diffs) + 1
      /\ \A i \in 1..Len(diffs) : Append(diffs, d)[i] = diffs[i]
      /\ Append(diffs, d)[Len(diffs) + 1] = d
  BY AppendProperties
<1>2. DOMAIN diffs = 1..Len(diffs) /\ Len(diffs) \in Nat /\ DOMAIN Append(diffs, d) = 1..(Len(diffs) + 1)
  BY <1>1, LenProperties
<1>3. \A i : i \in DOMAIN Append(diffs, d) <=> i \in DOMAIN diffs \/ i = Len(diffs) + 1
  BY <1>2
<1> QED BY <1>1, <1>2, <1>3 DEF Gone

\* The deletions of two lists of diffs.
LEMMA GoneConcat ==
    ASSUME NEW a \in Seq(Deletions), NEW b \in Seq(Deletions)
    PROVE  a \o b \in Seq(Deletions) /\ Gone(a \o b) = Gone(a) \cup Gone(b)
<1>1. /\ a \o b \in Seq(Deletions) /\ Len(a \o b) = Len(a) + Len(b)
      /\ \A i \in 1..(Len(a) + Len(b)) : (a \o b)[i] = IF i <= Len(a) THEN a[i] ELSE b[i - Len(a)]
  BY ConcatProperties
<1>2. /\ DOMAIN a = 1..Len(a) /\ DOMAIN b = 1..Len(b) /\ DOMAIN (a \o b) = 1..(Len(a) + Len(b))
      /\ Len(a) \in Nat /\ Len(b) \in Nat
  BY <1>1, LenProperties
<1>3. \A i \in DOMAIN (a \o b) : (a \o b)[i].chunk \in Gone(a) \cup Gone(b)
  <2>1. SUFFICES ASSUME NEW i \in DOMAIN (a \o b) PROVE (a \o b)[i].chunk \in Gone(a) \cup Gone(b)
    OBVIOUS
  <2>2. CASE i <= Len(a)
    <3>1. i \in DOMAIN a /\ (a \o b)[i] = a[i]
      BY <1>1, <1>2, <2>2
    <3> QED BY <3>1 DEF Gone
  <2>3. CASE ~(i <= Len(a))
    <3>1. i - Len(a) \in DOMAIN b /\ (a \o b)[i] = b[i - Len(a)]
      BY <1>1, <1>2, <2>3
    <3> QED BY <3>1 DEF Gone
  <2> QED BY <2>2, <2>3
<1>4. \A i \in DOMAIN a : a[i].chunk \in Gone(a \o b)
  <2>1. \A i \in DOMAIN a : i \in DOMAIN (a \o b) /\ (a \o b)[i] = a[i]
    BY <1>1, <1>2
  <2> QED BY <2>1 DEF Gone
<1>5. \A i \in DOMAIN b : b[i].chunk \in Gone(a \o b)
  <2>1. \A i \in DOMAIN b : Len(a) + i \in DOMAIN (a \o b) /\ (a \o b)[Len(a) + i] = b[i]
    <3>1. SUFFICES ASSUME NEW i \in DOMAIN b
                   PROVE  Len(a) + i \in DOMAIN (a \o b) /\ (a \o b)[Len(a) + i] = b[i]
      OBVIOUS
    <3>2. Len(a) + i \in 1..(Len(a) + Len(b)) /\ ~(Len(a) + i <= Len(a)) /\ (Len(a) + i) - Len(a) = i
      BY <1>2
    <3> QED BY <1>1, <1>2, <3>2
  <2> QED BY <2>1 DEF Gone
<1>6. \A x \in Gone(a \o b) : x \in Gone(a) \cup Gone(b)
  BY <1>3 DEF Gone
<1>7. \A x \in Gone(a) \cup Gone(b) : x \in Gone(a \o b)
  BY <1>4, <1>5 DEF Gone
<1> QED BY <1>1, <1>6, <1>7

-----------------------------------------------------------------------------
(* remove_chunks_shallow *)

\* One chunk of the list, as the step of a fold.
ShallowOp(cx, acc, chunk) == RemoveOneShallow(acc, chunk)

\* After n chunks of the list.
ShallowKept(cx, n, acc) ==
    /\ StoreInv(acc.store) /\ Shrinks(cx[1], acc.store)
    /\ DOMAIN acc.store.physical = DOMAIN cx[1].physical \ Named(cx[2], n)
    /\ acc.diffs \in Seq(Deletions)
    /\ Gone(acc.diffs) = Named(cx[2], n) \cap DOMAIN cx[1].physical

\* The fold of remove_chunks_shallow, with that invariant.
Shallow == INSTANCE FoldFacts WITH Op <- ShallowOp, Inv <- ShallowKept

\* The induction that Shallow goes by.
LEMMA ShallowInduction == Shallow!NatInduction
BY NatSetInduction DEF Shallow!NatInduction

\* One more chunk is removed and reported, or was not physical.
LEMMA ShallowStep ==
    ASSUME NEW s, NEW chunks \in ChunkList, Temporal(s, chunks), NEW n \in Nat, n + 1 \in DOMAIN chunks,
           NEW acc, ShallowKept(<<s, chunks>>, n, acc)
    PROVE  ShallowKept(<<s, chunks>>, n + 1, RemoveOneShallow(acc, chunks[n + 1]))
<1> DEFINE chunk == chunks[n + 1]
           c == chunk[1]
           u == acc.store
           t == Offloaded(u, c)
           d == Deletion(c, u.physical[c])
           next == RemoveOneShallow(acc, chunk)
<1>1. /\ StoreInv(u) /\ Shrinks(s, u) /\ DOMAIN u.physical = DOMAIN s.physical \ Named(chunks, n)
      /\ acc.diffs \in Seq(Deletions) /\ Gone(acc.diffs) = Named(chunks, n) \cap DOMAIN s.physical
  BY DEF ShallowKept
<1>2. Named(chunks, n + 1) = Named(chunks, n) \cup {c}
  BY NamedNext
<1>3. CASE ~IsPhysical(u, c)
  <2>1. next = acc
    BY <1>3 DEF RemoveOneShallow
  <2>2. c \notin DOMAIN s.physical \/ c \in Named(chunks, n)
    BY <1>1, <1>3 DEF IsPhysical
  <2>3. DOMAIN u.physical = DOMAIN s.physical \ Named(chunks, n + 1)
    BY <1>1, <1>2, <2>2
  <2>4. Gone(acc.diffs) = Named(chunks, n + 1) \cap DOMAIN s.physical
    BY <1>1, <1>2, <2>2
  <2> HIDE DEF next
  <2> QED BY <1>1, <2>1, <2>3, <2>4 DEF ShallowKept, next
<1>4. CASE IsPhysical(u, c)
  <2>1. c \in DOMAIN u.physical /\ c \in DOMAIN s.physical /\ u.physical[c] = s.physical[c]
    BY <1>1, <1>4 DEF IsPhysical, Shrinks
  <2>2. ~IsStatic(u.physical[c])
    BY <2>1 DEF Temporal
  <2>3. c \in TemporalPhysical(u)
    BY <2>1, <2>2 DEF TemporalPhysical
  <2>4. c \in Nat /\ u.physical[c] \in SUBSET Rows
    BY <1>1, <2>1, SoundFacts, StoreFacts
  <2>5. next = Outcome(t, Append(acc.diffs, d))
    BY <1>4 DEF RemoveOneShallow, Offloaded, Unloaded
  <2>6. next.store = t /\ next.diffs = Append(acc.diffs, d)
    BY <2>5 DEF Outcome
  <2>7. d \in Deletions /\ d.chunk = c
    BY <2>4 DEF Deletion, Deletions
  <2> HIDE DEF next, d, c, t, u
  <2>8. StoreInv(t) /\ Shrinks(u, t) /\ DOMAIN t.physical = DOMAIN u.physical \ {c}
    BY <1>1, <2>3, OffloadedFacts DEF t
  <2>9. Shrinks(s, t)
    BY <1>1, <2>8, ShrinksMore
  <2>10. DOMAIN t.physical = DOMAIN s.physical \ Named(chunks, n + 1)
    BY <1>1, <1>2, <2>8
  <2>11. Append(acc.diffs, d) \in Seq(Deletions) /\ Gone(Append(acc.diffs, d)) = Gone(acc.diffs) \cup {d.chunk}
    BY <1>1, <2>7, GoneAppend
  <2>12. Gone(Append(acc.diffs, d)) = Named(chunks, n + 1) \cap DOMAIN s.physical
    BY <1>1, <1>2, <2>1, <2>7, <2>11
  <2> QED BY <2>6, <2>8, <2>9, <2>10, <2>11, <2>12 DEF ShallowKept, next
<1> QED BY <1>3, <1>4

\* remove_chunks_shallow removes the chunks of the list that are physical, and
\* reports them.
LEMMA ShallowFacts ==
    ASSUME NEW s, StoreInv(s), NEW chunks \in ChunkList, Temporal(s, chunks)
    PROVE  LET o == RemoveChunksShallow(s, chunks)
               ids == Named(chunks, Len(chunks))
           IN  /\ StoreInv(o.store) /\ Shrinks(s, o.store)
               /\ DOMAIN o.store.physical = DOMAIN s.physical \ ids
               /\ o.diffs \in Seq(Deletions) /\ Gone(o.diffs) = ids \cap DOMAIN s.physical
<1> DEFINE base == Outcome(s, <<>>)
           cx == <<s, chunks>>
           o == Shallow!LeftFold(cx, base, chunks)
<1>1. RemoveChunksShallow(s, chunks) = o
  BY DEF RemoveChunksShallow, FoldLeft, MapThenFoldSet, Shallow!LeftFold, Shallow!Top, Max, ShallowOp
<1>2. Len(chunks) \in Nat /\ DOMAIN chunks = 1..Len(chunks)
  BY LenProperties DEF ChunkList
<1>3. ShallowKept(cx, 0, base)
  <2>1. base.store = s /\ base.diffs = <<>> /\ <<>> \in Seq(Deletions) /\ Gone(<<>>) = {}
    BY DEF Outcome, Gone
  <2>2. Named(chunks, 0) = {}
    BY DEF Named
  <2>3. Shrinks(s, s)
    BY DEF Shrinks
  <2>4. cx[1] = s /\ cx[2] = chunks
    OBVIOUS
  <2> HIDE DEF cx, base
  <2> QED BY <2>1, <2>2, <2>3, <2>4 DEF ShallowKept
<1>4. \A a : \A i \in 1..Len(chunks) :
         ShallowKept(cx, i - 1, a) => ShallowKept(cx, i, ShallowOp(cx, a, chunks[i]))
  <2>1. SUFFICES ASSUME NEW a, NEW i \in 1..Len(chunks), ShallowKept(cx, i - 1, a)
                 PROVE  ShallowKept(cx, i, RemoveOneShallow(a, chunks[i]))
    BY DEF ShallowOp
  <2>2. i - 1 \in Nat /\ (i - 1) + 1 = i /\ (i - 1) + 1 \in DOMAIN chunks
    BY <1>2
  <2>3. ShallowKept(cx, (i - 1) + 1, RemoveOneShallow(a, chunks[(i - 1) + 1]))
    BY <2>1, <2>2, ShallowStep
  <2> QED BY <2>2, <2>3
<1> HIDE DEF base, cx
<1>5. ShallowKept(cx, Len(chunks), o)
  BY <1>2, <1>3, <1>4, ShallowInduction, Shallow!SeqFold
<1> HIDE DEF o
<1> QED BY <1>1, <1>5 DEF ShallowKept, cx

-----------------------------------------------------------------------------
(* remove_chunks_deep *)

\* One chunk of the list, as the step of a fold.
VirtualOp(cx, acc, chunk) == RemoveOneVirtual(acc, chunk)

\* After n chunks of the list: only the index has changed.
VirtualKept(cx, n, acc) ==
    /\ acc.store \in Stores
    /\ acc.store.physical = cx[1].physical /\ acc.store.maxLength = cx[1].maxLength
    /\ acc.store.static = cx[1].static /\ acc.store.lastId = cx[1].lastId
    /\ acc.store.lineage = cx[1].lineage /\ acc.store.dangling = cx[1].dangling
    /\ acc.store.stats = cx[1].stats /\ acc.store.leaky = cx[1].leaky
    /\ DOMAIN acc.store.virtual = DOMAIN cx[1].virtual \ Named(cx[2], n)
    /\ \A x \in DOMAIN acc.store.virtual : acc.store.virtual[x] = cx[1].virtual[x]
    /\ acc.diffs \in Seq(Deletions) /\ Gone(acc.diffs) \subseteq Named(cx[2], n)

\* The fold of remove_chunks_deep over the index, with that invariant.
Virtual == INSTANCE FoldFacts WITH Op <- VirtualOp, Inv <- VirtualKept

\* The induction that Virtual goes by.
LEMMA VirtualInduction == Virtual!NatInduction
BY NatSetInduction DEF Virtual!NatInduction

\* A chunk leaves the index and nothing else changes.
LEMMA UnindexedFacts ==
    ASSUME NEW s \in Stores, NEW c
    PROVE  LET t == RemoveFromVirtualIndices(s, c)
           IN  /\ t \in Stores /\ t.physical = s.physical /\ t.maxLength = s.maxLength
               /\ t.static = s.static /\ t.lastId = s.lastId /\ t.lineage = s.lineage
               /\ t.dangling = s.dangling /\ t.stats = s.stats /\ t.leaky = s.leaky
               /\ DOMAIN t.virtual = DOMAIN s.virtual \ {c}
               /\ \A x \in DOMAIN t.virtual : t.virtual[x] = s.virtual[x]
<1> DEFINE t == RemoveFromVirtualIndices(s, c)
           w == Without(s.virtual, {c})
<1>1. w \in PhysicalMaps
  BY StoreFacts, WithoutTyped DEF PhysicalMaps
<1>2. DOMAIN w = DOMAIN s.virtual \ {c} /\ \A x \in DOMAIN s.virtual \ {c} : w[x] = s.virtual[x]
  BY WithoutFacts
<1>3. t = [s EXCEPT !.virtual = w]
  BY DEF RemoveFromVirtualIndices, Stores
<1> HIDE DEF t, w
<1>4. /\ t \in Stores /\ t.physical = s.physical /\ t.maxLength = s.maxLength
      /\ t.static = s.static /\ t.lastId = s.lastId /\ t.lineage = s.lineage
      /\ t.dangling = s.dangling /\ t.stats = s.stats /\ t.virtual = w /\ t.leaky = s.leaky
  BY <1>1, <1>3 DEF Stores
<1> QED BY <1>2, <1>4 DEF t

\* One more chunk leaves the index.
LEMMA VirtualStep ==
    ASSUME NEW s, NEW chunks \in ChunkList, NEW n \in Nat, n + 1 \in DOMAIN chunks,
           NEW acc, VirtualKept(<<s, chunks>>, n, acc)
    PROVE  VirtualKept(<<s, chunks>>, n + 1, RemoveOneVirtual(acc, chunks[n + 1]))
<1> DEFINE chunk == chunks[n + 1]
           c == chunk[1]
           u == acc.store
           t == RemoveFromVirtualIndices(u, c)
           d == Deletion(c, chunk[2])
           next == RemoveOneVirtual(acc, chunk)
<1>1. /\ u \in Stores
      /\ u.physical = s.physical /\ u.maxLength = s.maxLength /\ u.static = s.static
      /\ u.lastId = s.lastId /\ u.lineage = s.lineage /\ u.dangling = s.dangling /\ u.stats = s.stats
      /\ u.leaky = s.leaky
      /\ DOMAIN u.virtual = DOMAIN s.virtual \ Named(chunks, n)
      /\ \A x \in DOMAIN u.virtual : u.virtual[x] = s.virtual[x]
      /\ acc.diffs \in Seq(Deletions) /\ Gone(acc.diffs) \subseteq Named(chunks, n)
  BY DEF VirtualKept
<1>2. Named(chunks, n + 1) = Named(chunks, n) \cup {c}
  BY NamedNext
<1>3. c \in Nat /\ chunk[2] \in SUBSET Rows
  <2>1. chunk \in Nat \X SUBSET Rows
    BY ElementOfSeq, LenProperties DEF ChunkList
  <2> QED BY <2>1
<1>4. d \in Deletions /\ d.chunk = c
  BY <1>3 DEF Deletion, Deletions
<1>5. next.store = t /\ (next.diffs = acc.diffs \/ next.diffs = Append(acc.diffs, d))
  BY DEF RemoveOneVirtual, Outcome
<1> HIDE DEF next, d, c, t, u
<1>6. /\ t \in Stores /\ t.physical = u.physical /\ t.maxLength = u.maxLength
      /\ t.static = u.static /\ t.lastId = u.lastId /\ t.lineage = u.lineage
      /\ t.dangling = u.dangling /\ t.stats = u.stats /\ t.leaky = u.leaky
      /\ DOMAIN t.virtual = DOMAIN u.virtual \ {c}
      /\ \A x \in DOMAIN t.virtual : t.virtual[x] = u.virtual[x]
  BY <1>1, UnindexedFacts DEF t
<1>7. next.diffs \in Seq(Deletions) /\ Gone(next.diffs) \subseteq Named(chunks, n + 1)
  <2>1. Append(acc.diffs, d) \in Seq(Deletions) /\ Gone(Append(acc.diffs, d)) = Gone(acc.diffs) \cup {d.chunk}
    BY <1>1, <1>4, GoneAppend
  <2> QED BY <1>1, <1>2, <1>4, <1>5, <2>1
<1>8. /\ DOMAIN t.virtual = DOMAIN s.virtual \ Named(chunks, n + 1)
      /\ \A x \in DOMAIN t.virtual : t.virtual[x] = s.virtual[x]
  BY <1>1, <1>2, <1>6
<1> QED BY <1>1, <1>5, <1>6, <1>7, <1>8 DEF VirtualKept, next

\* All the chunks of the list leave the index.
LEMMA VirtualFacts ==
    ASSUME NEW s \in Stores, NEW chunks \in ChunkList
    PROVE  VirtualKept(<<s, chunks>>, Len(chunks), FoldLeft(RemoveOneVirtual, Outcome(s, <<>>), chunks))
<1> DEFINE base == Outcome(s, <<>>)
           cx == <<s, chunks>>
           o == Virtual!LeftFold(cx, base, chunks)
<1>1. FoldLeft(RemoveOneVirtual, Outcome(s, <<>>), chunks) = o
  BY DEF FoldLeft, MapThenFoldSet, Virtual!LeftFold, Virtual!Top, Max, VirtualOp
<1>2. Len(chunks) \in Nat /\ DOMAIN chunks = 1..Len(chunks)
  BY LenProperties DEF ChunkList
<1>3. VirtualKept(cx, 0, base)
  <2>1. base.store = s /\ base.diffs = <<>> /\ <<>> \in Seq(Deletions) /\ Gone(<<>>) = {}
    BY DEF Outcome, Gone
  <2>2. Named(chunks, 0) = {}
    BY DEF Named
  <2>3. cx[1] = s /\ cx[2] = chunks
    OBVIOUS
  <2> HIDE DEF cx, base
  <2> QED BY <2>1, <2>2, <2>3 DEF VirtualKept
<1>4. \A a : \A i \in 1..Len(chunks) :
         VirtualKept(cx, i - 1, a) => VirtualKept(cx, i, VirtualOp(cx, a, chunks[i]))
  <2>1. SUFFICES ASSUME NEW a, NEW i \in 1..Len(chunks), VirtualKept(cx, i - 1, a)
                 PROVE  VirtualKept(cx, i, RemoveOneVirtual(a, chunks[i]))
    BY DEF VirtualOp
  <2>2. i - 1 \in Nat /\ (i - 1) + 1 = i /\ (i - 1) + 1 \in DOMAIN chunks
    BY <1>2
  <2>3. VirtualKept(cx, (i - 1) + 1, RemoveOneVirtual(a, chunks[(i - 1) + 1]))
    BY <2>1, <2>2, VirtualStep
  <2> QED BY <2>2, <2>3
<1> HIDE DEF base, cx
<1>5. VirtualKept(cx, Len(chunks), o)
  BY <1>2, <1>3, <1>4, VirtualInduction, Virtual!SeqFold
<1> HIDE DEF o
<1> QED BY <1>1, <1>5 DEF cx

\* The diffs of both passes report what the first one did.
LEMMA OthersFacts ==
    ASSUME NEW diffs \in Seq(Deletions), NEW deep, deep.diffs \in Seq(Deletions)
    PROVE  LET o == WithOthers(deep, diffs)
           IN  /\ o.store = deep.store /\ o.diffs \in Seq(Deletions)
               /\ Gone(o.diffs) = Gone(deep.diffs) \cup Gone(diffs)
<1> DEFINE new == Among(diffs, Range(diffs) \ Range(deep.diffs))
           o == WithOthers(deep, diffs)
<1>1. o.store = deep.store /\ o.diffs = deep.diffs \o new
  BY DEF WithOthers, Outcome
<1>2. new \in Seq(Deletions) /\ Range(new) = Range(diffs) \ Range(deep.diffs)
  <2>1. new \in Seq(Deletions) /\ Range(new) = Range(diffs) \cap (Range(diffs) \ Range(deep.diffs))
    BY AmongFacts
  <2> QED BY <2>1
<1> HIDE DEF new, o
<1>3. deep.diffs \o new \in Seq(Deletions) /\ Gone(deep.diffs \o new) = Gone(deep.diffs) \cup Gone(new)
  BY <1>2, GoneConcat
<1>4. \A q : Gone(q) = {d.chunk : d \in Range(q)}
  BY DEF Gone, Range
<1>5. Gone(deep.diffs) \cup Gone(new) = Gone(deep.diffs) \cup Gone(diffs)
  BY <1>2, <1>4
<1> QED BY <1>1, <1>3, <1>5 DEF o

\* remove_chunks_deep removes the chunks of the list from the store and the
\* index, and reports at least those that were physical.
LEMMA DeepFacts ==
    ASSUME NEW s, StoreInv(s), NEW chunks \in ChunkList, Temporal(s, chunks)
    PROVE  LET o == RemoveChunksDeep(s, chunks)
               ids == Named(chunks, Len(chunks))
           IN  /\ StoreInv(o.store) /\ Shrinks(s, o.store)
               /\ DOMAIN o.store.physical = DOMAIN s.physical \ ids
               /\ DOMAIN o.store.virtual \cap ids = {}
               /\ o.store.lineage = RemoveChunksShallow(s, chunks).store.lineage
               /\ DOMAIN o.store.virtual = DOMAIN RemoveChunksShallow(s, chunks).store.virtual \ ids
               /\ o.diffs \in Seq(Deletions)
               /\ ids \cap DOMAIN s.physical \subseteq Gone(o.diffs) /\ Gone(o.diffs) \subseteq ids
<1> DEFINE sh == RemoveChunksShallow(s, chunks)
           ids == Named(chunks, Len(chunks))
           deep == FoldLeft(RemoveOneVirtual, Outcome(sh.store, <<>>), chunks)
           o == WithOthers(deep, sh.diffs)
           t == deep.store
<1>1. RemoveChunksDeep(s, chunks) = o
  BY DEF RemoveChunksDeep, RemoveVirtual
<1>2. /\ StoreInv(sh.store) /\ Shrinks(s, sh.store)
      /\ DOMAIN sh.store.physical = DOMAIN s.physical \ ids
      /\ sh.diffs \in Seq(Deletions) /\ Gone(sh.diffs) = ids \cap DOMAIN s.physical
  BY ShallowFacts
<1> HIDE DEF sh, ids
<1>3. sh.store \in Stores /\ LineageSound(sh.store) /\ IndexSound(sh.store)
  BY <1>2, SoundFacts
<1>4. VirtualKept(<<sh.store, chunks>>, Len(chunks), deep)
  BY <1>3, VirtualFacts
<1> HIDE DEF deep
<1>5. /\ t \in Stores
      /\ t.physical = sh.store.physical /\ t.maxLength = sh.store.maxLength
      /\ t.static = sh.store.static /\ t.lastId = sh.store.lastId
      /\ t.lineage = sh.store.lineage /\ t.dangling = sh.store.dangling
      /\ t.stats = sh.store.stats /\ t.leaky = sh.store.leaky
      /\ DOMAIN t.virtual = DOMAIN sh.store.virtual \ ids
      /\ \A x \in DOMAIN t.virtual : t.virtual[x] = sh.store.virtual[x]
      /\ deep.diffs \in Seq(Deletions) /\ Gone(deep.diffs) \subseteq ids
  BY <1>4 DEF VirtualKept, ids
<1>6. o.store = t /\ o.diffs \in Seq(Deletions) /\ Gone(o.diffs) = Gone(deep.diffs) \cup Gone(sh.diffs)
  BY <1>2, <1>5, OthersFacts
<1> HIDE DEF o, t
<1>7. Shrinks(sh.store, t)
  BY <1>5 DEF Shrinks, Surplus
<1>8. \A x \in TemporalPhysical(t) : x \in DOMAIN t.virtual
  <2>1. SUFFICES ASSUME NEW x \in TemporalPhysical(t) PROVE x \in DOMAIN t.virtual
    OBVIOUS
  <2>2. x \in TemporalPhysical(sh.store) /\ x \notin ids
    BY <1>2, <1>5 DEF TemporalPhysical
  <2>3. x \in DOMAIN sh.store.virtual
    BY <1>3, <2>2 DEF IndexSound
  <2> QED BY <1>5, <2>2, <2>3
<1>9. LineageSound(t)
  BY <1>3, <1>5, LineageFrame
<1>11. StoreInv(t)
  BY <1>2, <1>5, <1>7, <1>8, <1>9, ShrinkKeeps
<1>12. Shrinks(s, t)
  BY <1>2, <1>7, ShrinksMore
<1> QED BY <1>1, <1>2, <1>5, <1>6, <1>11, <1>12 DEF sh, ids

-----------------------------------------------------------------------------
(* Replaying diffs *)

\* The diffs that report an insertion, and all diffs.
Additions == [type : {"addition"}, before : Nat, after : Nat, rows : SUBSET Rows, srcs : SUBSET Nat]
Diffs     == Deletions \cup Additions

\* What one diff does to the chunks known, as the step of a fold.
ReplayOp(cx, k, d) ==
    IF d.type = "addition" THEN (k \ d.srcs) \cup {d.after} ELSE k \ {d.chunk}

\* After n deletions.
ReplayKept(cx, n, k) == k = cx[1] \ {cx[2][i].chunk : i \in 1..n}

\* The fold of Replay, with that invariant.
Replays == INSTANCE FoldFacts WITH Op <- ReplayOp, Inv <- ReplayKept

\* The induction that Replays goes by.
LEMMA ReplaysInduction == Replays!NatInduction
BY NatSetInduction DEF Replays!NatInduction

\* Replaying is such a fold.
LEMMA ReplayIsFold ==
    ASSUME NEW cx, NEW known, NEW diffs
    PROVE  Replay(known, diffs) = Replays!LeftFold(cx, known, diffs)
BY DEF Replay, FoldLeft, MapThenFoldSet, Replays!LeftFold, Replays!Top, Max, ReplayOp

\* Deletions remove the chunks they name.
LEMMA ReplayDeletions ==
    ASSUME NEW known, NEW diffs \in Seq(Deletions)
    PROVE  Replay(known, diffs) = known \ Gone(diffs)
<1> DEFINE cx == <<known, diffs>>
           k == Replays!LeftFold(cx, known, diffs)
<1>1. Replay(known, diffs) = k
  BY ReplayIsFold
<1>2. Len(diffs) \in Nat /\ DOMAIN diffs = 1..Len(diffs)
  BY LenProperties
<1>3. cx[1] = known /\ cx[2] = diffs
  OBVIOUS
<1>4. \A i \in DOMAIN diffs : diffs[i].type # "addition"
  <2>1. \A i \in DOMAIN diffs : diffs[i] \in Deletions
    BY <1>2, ElementOfSeq
  <2> QED BY <2>1 DEF Deletions
<1> HIDE DEF cx
<1>5. ReplayKept(cx, 0, known)
  BY <1>3 DEF ReplayKept
<1>6. \A a : \A i \in 1..Len(diffs) : ReplayKept(cx, i - 1, a) => ReplayKept(cx, i, ReplayOp(cx, a, diffs[i]))
  <2>1. SUFFICES ASSUME NEW a, NEW i \in 1..Len(diffs), ReplayKept(cx, i - 1, a)
                 PROVE  ReplayKept(cx, i, ReplayOp(cx, a, diffs[i]))
    OBVIOUS
  <2>2. ReplayOp(cx, a, diffs[i]) = a \ {diffs[i].chunk}
    BY <1>2, <1>4 DEF ReplayOp
  <2>3. a = known \ {diffs[j].chunk : j \in 1..(i - 1)}
    BY <1>3, <2>1 DEF ReplayKept
  <2>4. \A j : j \in 1..i <=> j \in 1..(i - 1) \/ j = i
    OBVIOUS
  <2>5. {diffs[j].chunk : j \in 1..i} = {diffs[j].chunk : j \in 1..(i - 1)} \cup {diffs[i].chunk}
    BY <2>4
  <2>6. ReplayOp(cx, a, diffs[i]) = known \ {diffs[j].chunk : j \in 1..i}
    BY <2>2, <2>3, <2>5
  <2> QED BY <1>3, <2>6 DEF ReplayKept
<1>7. ReplayKept(cx, Len(diffs), k)
  BY <1>2, <1>5, <1>6, ReplaysInduction, Replays!SeqFold
<1> HIDE DEF k
<1> QED BY <1>1, <1>2, <1>3, <1>7 DEF ReplayKept, Gone

\* No diffs, and one.
LEMMA ReplayNothing == ASSUME NEW known PROVE Replay(known, <<>>) = known
<1>1. DOMAIN <<>> = 1..0
  OBVIOUS
<1>2. Replays!LeftFold(0, known, <<>>) = known
  BY <1>1, ReplaysInduction, Replays!FoldNothing
<1> QED BY <1>2, ReplayIsFold

\* Replaying a single diff.
LEMMA ReplayOne ==
    ASSUME NEW known, NEW d
    PROVE  Replay(known, <<d>>) = ReplayOp(0, known, d)
<1>1. DOMAIN <<d>> = 1..1 /\ <<d>>[1] = d
  OBVIOUS
<1>3. Replays!LeftFold(0, known, <<d>>) = ReplayOp(0, known, <<d>>[1])
  BY <1>1, ReplaysInduction, Replays!FoldOne
<1> QED BY <1>1, <1>3, ReplayIsFold

\* Some diffs and then others.
LEMMA ReplayConcat ==
    ASSUME NEW known, NEW a \in Seq(Diffs), NEW b \in Seq(Diffs)
    PROVE  Replay(known, a \o b) = Replay(Replay(known, a), b)
<1> DEFINE u == a \o b
           mid == Replays!LeftFold(0, known, a)
<1>1. /\ u \in Seq(Diffs) /\ Len(u) = Len(a) + Len(b)
      /\ \A i \in 1..(Len(a) + Len(b)) : u[i] = IF i <= Len(a) THEN a[i] ELSE b[i - Len(a)]
  BY ConcatProperties
<1>2. /\ DOMAIN a = 1..Len(a) /\ DOMAIN b = 1..Len(b) /\ DOMAIN u = 1..(Len(a) + Len(b))
      /\ Len(a) \in Nat /\ Len(b) \in Nat
  BY <1>1, LenProperties
<1> HIDE DEF u
<1>3. \A i \in 1..Len(a) : u[i] = a[i]
  BY <1>1, <1>2
<1>4. \A i \in 1..Len(b) : u[Len(a) + i] = b[i]
  <2>1. SUFFICES ASSUME NEW i \in 1..Len(b) PROVE u[Len(a) + i] = b[i]
    OBVIOUS
  <2>2. Len(a) + i \in 1..(Len(a) + Len(b)) /\ ~(Len(a) + i <= Len(a)) /\ (Len(a) + i) - Len(a) = i
    BY <1>2
  <2> QED BY <1>1, <2>2
<1>5. Replays!LeftFold(0, known, u) = Replays!LeftFold(0, Replays!LeftFold(0, known, a), b)
  <2>1. ASSUME NEW w, NEW m \in Nat, NEW n \in Nat, DOMAIN a = 1..m, DOMAIN b = 1..n, DOMAIN w = 1..(m + n),
               \A i \in 1..m : w[i] = a[i], \A i \in 1..n : w[m + i] = b[i]
        PROVE  Replays!LeftFold(0, known, w) = Replays!LeftFold(0, Replays!LeftFold(0, known, a), b)
    BY <2>1, ReplaysInduction, Replays!FoldConcat
  <2> HIDE DEF mid
  <2> QED BY <1>2, <1>3, <1>4, <2>1
<1> QED BY <1>5, ReplayIsFold DEF u

\* The diffs of an operation tell which chunks are physical.
Told(s, o) ==
    /\ o.diffs \in Seq(Diffs)
    /\ Replay(DOMAIN s.physical, o.diffs) = DOMAIN o.store.physical

\* Nothing happened.
LEMMA NothingTold ==
    ASSUME NEW s, NEW t, DOMAIN t.physical = DOMAIN s.physical
    PROVE  Told(s, Outcome(t, <<>>)) /\ Outcome(t, <<>>).store = t /\ Outcome(t, <<>>).diffs = <<>>
<1>1. <<>> \in Seq(Diffs) /\ Replay(DOMAIN s.physical, <<>>) = DOMAIN s.physical
  BY ReplayNothing
<1>2. Outcome(t, <<>>).store = t /\ Outcome(t, <<>>).diffs = <<>>
  BY DEF Outcome
<1> QED BY <1>1, <1>2 DEF Told

\* Only deletions.
LEMMA DeletionsTold ==
    ASSUME NEW s, NEW o, o.diffs \in Seq(Deletions),
           DOMAIN o.store.physical = DOMAIN s.physical \ Gone(o.diffs)
    PROVE  Told(s, o)
<1>1. o.diffs \in Seq(Diffs)
  <2>1. o.diffs \in [1..Len(o.diffs) -> Deletions] /\ Len(o.diffs) \in Nat
    BY LenProperties, SeqDef
  <2>2. o.diffs \in [1..Len(o.diffs) -> Diffs]
    BY <2>1 DEF Diffs
  <2> QED BY <2>1, <2>2, SeqDef
<1>2. Replay(DOMAIN s.physical, o.diffs) = DOMAIN s.physical \ Gone(o.diffs)
  BY ReplayDeletions
<1> QED BY <1>1, <1>2 DEF Told

\* One operation after another.
LEMMA ToldAfter ==
    ASSUME NEW s, NEW o, NEW p, Told(s, o), Told(o.store, p)
    PROVE  Told(s, After(o.diffs, p)) /\ After(o.diffs, p).store = p.store
<1> DEFINE q == After(o.diffs, p)
<1>1. q.store = p.store /\ q.diffs = o.diffs \o p.diffs
  BY DEF After, Outcome
<1>2. o.diffs \in Seq(Diffs) /\ p.diffs \in Seq(Diffs)
  BY DEF Told
<1>3. o.diffs \o p.diffs \in Seq(Diffs)
  BY <1>2, ConcatProperties
<1>4. Replay(DOMAIN s.physical, o.diffs \o p.diffs) = Replay(Replay(DOMAIN s.physical, o.diffs), p.diffs)
  BY <1>2, ReplayConcat
<1> HIDE DEF q
<1> QED BY <1>1, <1>3, <1>4 DEF Told, q

\* One addition.
LEMMA AdditionTold ==
    ASSUME NEW s, NEW t, NEW b \in Nat, NEW a \in Nat, NEW rows \in SUBSET Rows, NEW srcs \in SUBSET Nat,
           DOMAIN t.physical = (DOMAIN s.physical \ srcs) \cup {a}
    PROVE  Told(s, Outcome(t, <<Addition(b, a, rows, srcs)>>))
<1> DEFINE d == Addition(b, a, rows, srcs)
<1>1. d \in Diffs /\ d.type = "addition" /\ d.srcs = srcs /\ d.after = a
  BY DEF Addition, Diffs, Additions
<1> HIDE DEF d
<1>2. <<d>> \in Seq(Diffs)
  BY <1>1
<1>3. Replay(DOMAIN s.physical, <<d>>) = (DOMAIN s.physical \ srcs) \cup {a}
  BY <1>1, ReplayOne DEF ReplayOp
<1> QED BY <1>2, <1>3 DEF Told, Outcome, d

-----------------------------------------------------------------------------
(* Insertions: their parts *)

\* The store is sound whatever its counters and its notes for later are.
LEMMA NotesFrame ==
    ASSUME NEW s, StoreInv(s), NEW t \in Stores, SplitsSound(t), t.lastId >= s.lastId,
           t.physical = s.physical, t.virtual = s.virtual, t.maxLength = s.maxLength,
           t.static = s.static, t.lineage = s.lineage
    PROVE  StoreInv(t)
<1>1. /\ s \in Stores /\ IdsGiven(s) /\ ChunksSound(s) /\ IndexSound(s) /\ StaticsSound(s)
      /\ LineageSound(s) /\ LineageShaped(s) /\ RefsCover(s, <<>>)
      /\ s.lastId \in Nat /\ t.lastId \in Nat /\ DOMAIN s.physical \subseteq Nat
      /\ DOMAIN s.lineage \subseteq Nat /\ Roots \subseteq Nat
  BY SoundFacts, StoreFacts, EntryFacts, DataAssumption DEF LineageSound
<1>2. IdsGiven(t)
  <2>1. \A c \in Roots : c \in Nat /\ c <= s.lastId
    BY <1>1 DEF IdsGiven
  <2>2. \A c \in DOMAIN s.physical : c \in Nat /\ c <= s.lastId
    BY <1>1 DEF IdsGiven
  <2>3. \A n \in Nat : n <= s.lastId => n <= t.lastId
    BY <1>1
  <2> QED BY <2>1, <2>2, <2>3 DEF IdsGiven
<1>3. ChunksSound(t)
  BY <1>1 DEF ChunksSound
<1>4. IndexSound(t)
  <2>1. TemporalPhysical(t) = TemporalPhysical(s)
    BY DEF TemporalPhysical
  <2> QED BY <1>1, <2>1 DEF IndexSound
<1>5. StaticsSound(t)
  BY <1>1 DEF StaticsSound
<1>6. LineageShaped(t)
  <2>1. \A c \in DOMAIN s.lineage : c \in Nat /\ c <= s.lastId
    BY <1>1 DEF LineageShaped
  <2>2. \A n \in Nat : n <= s.lastId => n <= t.lastId
    BY <1>1
  <2>3. \A c \in DOMAIN s.lineage : c <= t.lastId
    BY <2>1, <2>2
  <2> QED BY <1>1, <2>3 DEF LineageShaped
<1>7. RefsCover(t, <<>>)
  <2>1. \A c : Children(t, c) = Children(s, c) /\ (IsPhysical(t, c) <=> IsPhysical(s, c))
    BY DEF Children, IsPhysical
  <2> QED BY <1>1, <2>1 DEF RefsCover
<1> QED BY <1>2, <1>3, <1>4, <1>5, <1>6, <1>7 DEF StoreInv, LineageSound

\* A range in the index.
LEMMA AddVirtualFacts ==
    ASSUME NEW s \in Stores, NEW c \in Nat, NEW rows, IsChunk(rows)
    PROVE  LET t == AddVirtual(s, c, rows)
           IN  /\ t \in Stores /\ t.virtual = With(s.virtual, c, rows)
               /\ t.physical = s.physical /\ t.static = s.static /\ t.lineage = s.lineage
               /\ t.leaky = s.leaky /\ t.dangling = s.dangling /\ t.lastId = s.lastId
               /\ t.stats = s.stats /\ t.splitOnIngest = s.splitOnIngest
               /\ \A e \in Entities : s.maxLength[e] <= t.maxLength[e]
               /\ Length(rows) <= t.maxLength[EntityOf(rows)]
<1> DEFINE t == AddVirtual(s, c, rows)
           e == EntityOf(rows)
           m == [s.maxLength EXCEPT ![e] = IF Length(rows) > @ THEN Length(rows) ELSE @]
           w == With(s.virtual, c, rows)
<1>1. e \in Entities /\ Length(rows) \in Int /\ rows \in SUBSET Rows
  BY ChunkFacts, RangeFacts DEF IsChunk
<1>2. s.maxLength \in [Entities -> Int] /\ s.virtual \in PhysicalMaps
  BY StoreFacts
<1>3. /\ m \in [Entities -> Int] /\ \A x \in Entities : s.maxLength[x] <= m[x]
      /\ Length(rows) <= m[e]
  BY <1>1, <1>2
<1>4. w \in PhysicalMaps
  BY <1>1, <1>2, WithTyped DEF PhysicalMaps
<1>5. t = [s EXCEPT !.virtual = w, !.maxLength = m]
  BY DEF AddVirtual, Stores
<1> HIDE DEF t, m, w, e
<1>6. /\ t \in Stores /\ t.virtual = w /\ t.maxLength = m
      /\ t.physical = s.physical /\ t.static = s.static /\ t.lineage = s.lineage
      /\ t.leaky = s.leaky /\ t.dangling = s.dangling /\ t.lastId = s.lastId
      /\ t.stats = s.stats /\ t.splitOnIngest = s.splitOnIngest
  BY <1>3, <1>4, <1>5 DEF Stores
<1> QED BY <1>3, <1>6 DEF t, w, e

\* The index grows by a temporal chunk.
LEMMA IndexGrows ==
    ASSUME NEW s, StoreInv(s), NEW c \in Nat, c \notin DOMAIN s.physical, NEW rows, IsChunk(rows), ~IsStatic(rows),
           c \in Roots => rows = ChunkRows[c]
    PROVE  LET t == AddVirtual(s, c, rows)
           IN  /\ StoreInv(t) /\ DOMAIN t.virtual = DOMAIN s.virtual \cup {c} /\ t.virtual[c] = rows
               /\ Surplus(t) = Surplus(s)
               /\ \A x \in DOMAIN s.virtual : x # c => t.virtual[x] = s.virtual[x]
<1> DEFINE t == AddVirtual(s, c, rows)
<1>1. /\ s \in Stores /\ IdsGiven(s) /\ ChunksSound(s) /\ IndexSound(s) /\ StaticsSound(s)
      /\ SplitsSound(s) /\ LineageSound(s) /\ s.maxLength \in [Entities -> Int]
  BY SoundFacts, StoreFacts
<1>2. /\ t \in Stores /\ t.virtual = With(s.virtual, c, rows)
      /\ t.physical = s.physical /\ t.static = s.static /\ t.lineage = s.lineage
      /\ t.leaky = s.leaky /\ t.dangling = s.dangling /\ t.lastId = s.lastId
      /\ t.stats = s.stats
      /\ \A e \in Entities : s.maxLength[e] <= t.maxLength[e]
      /\ Length(rows) <= t.maxLength[EntityOf(rows)]
  BY <1>1, AddVirtualFacts
<1> HIDE DEF t
<1>3. /\ DOMAIN t.virtual = DOMAIN s.virtual \cup {c} /\ t.virtual[c] = rows
      /\ \A x \in DOMAIN s.virtual : x # c => t.virtual[x] = s.virtual[x]
  <2>1. DOMAIN With(s.virtual, c, rows) = DOMAIN s.virtual \cup {c} /\ With(s.virtual, c, rows)[c] = rows
    BY DEF With
  <2>2. \A x \in DOMAIN s.virtual : x # c => With(s.virtual, c, rows)[x] = s.virtual[x]
    BY DEF With
  <2> QED BY <1>2, <2>1, <2>2
<1>4. IndexSound(t)
  <2>1. ASSUME NEW x \in DOMAIN t.virtual
        PROVE  /\ IsChunk(t.virtual[x]) /\ ~IsStatic(t.virtual[x])
               /\ x \in Roots => t.virtual[x] = ChunkRows[x]
               /\ Length(t.virtual[x]) <= t.maxLength[EntityOf(t.virtual[x])]
    <3>1. CASE x = c
      BY <1>2, <1>3, <3>1
    <3>2. CASE x # c
      <4>1. x \in DOMAIN s.virtual /\ t.virtual[x] = s.virtual[x]
        BY <1>3, <2>1, <3>2
      <4>2. /\ IsChunk(s.virtual[x]) /\ ~IsStatic(s.virtual[x])
            /\ x \in Roots => s.virtual[x] = ChunkRows[x]
            /\ Length(s.virtual[x]) <= s.maxLength[EntityOf(s.virtual[x])]
        BY <1>1, <4>1 DEF IndexSound
      <4>3. EntityOf(s.virtual[x]) \in Entities /\ Length(s.virtual[x]) \in Int
        BY <4>2, ChunkFacts, RangeFacts
      <4>4. /\ s.maxLength[EntityOf(s.virtual[x])] \in Int /\ t.maxLength[EntityOf(s.virtual[x])] \in Int
            /\ s.maxLength[EntityOf(s.virtual[x])] <= t.maxLength[EntityOf(s.virtual[x])]
        BY <1>1, <1>2, <4>3, StoreFacts
      <4>5. Length(s.virtual[x]) <= t.maxLength[EntityOf(s.virtual[x])]
        BY <4>2, <4>3, <4>4
      <4> QED BY <4>1, <4>2, <4>5
    <3> QED BY <3>1, <3>2
  <2>2. ASSUME NEW x \in TemporalPhysical(t) PROVE x \in DOMAIN t.virtual /\ t.virtual[x] = t.physical[x]
    <3>1. x \in TemporalPhysical(s) /\ x # c
      BY <1>2 DEF TemporalPhysical
    <3>2. x \in DOMAIN s.virtual /\ s.virtual[x] = s.physical[x]
      BY <1>1, <3>1 DEF IndexSound
    <3> QED BY <1>2, <1>3, <3>1, <3>2
  <2> QED BY <2>1, <2>2 DEF IndexSound
<1>5. IdsGiven(t) /\ ChunksSound(t) /\ StaticsSound(t) /\ SplitsSound(t)
  BY <1>1, <1>2 DEF IdsGiven, ChunksSound, StaticsSound, SplitsSound
<1>6. LineageSound(t)
  BY <1>1, <1>2, LineageFrame
<1>7. Surplus(t) = Surplus(s)
  BY <1>2 DEF Surplus
<1> QED BY <1>2, <1>3, <1>4, <1>5, <1>6, <1>7 DEF StoreInv, t

\* A physical chunk under a known identifier.
LEMMA AddPhysicalFacts ==
    ASSUME NEW s \in Stores, NEW c \in DOMAIN s.lineage, NEW rows \in SUBSET Rows
    PROVE  LET t == AddPhysical(s, c, rows)
           IN  /\ t \in Stores /\ t.physical = With(s.physical, c, rows)
               /\ t.virtual = s.virtual /\ t.maxLength = s.maxLength /\ t.static = s.static
               /\ t.leaky = s.leaky /\ t.dangling = s.dangling /\ t.lastId = s.lastId
               /\ t.stats = s.stats /\ t.splitOnIngest = s.splitOnIngest
               /\ DOMAIN t.lineage = DOMAIN s.lineage
               /\ \A x \in DOMAIN s.lineage :
                    /\ t.lineage[x].direct = s.lineage[x].direct
                    /\ t.lineage[x].refs = s.lineage[x].refs + (IF x = c THEN 1 ELSE 0)
<1> DEFINE t == AddPhysical(s, c, rows)
           p == With(s.physical, c, rows)
           e == [s.lineage[c] EXCEPT !.refs = @ + 1]
           l == [s.lineage EXCEPT ![c] = e]
<1>1. /\ s.lineage[c] \in Entries /\ s.lineage \in [DOMAIN s.lineage -> Entries]
      /\ DOMAIN s.lineage \subseteq Nat /\ \A x \in DOMAIN s.lineage : s.lineage[x].refs \in Nat
  BY EntryFacts, PartialFacts
<1>2. p \in PhysicalMaps
  BY <1>1, StoreFacts, WithTyped DEF PhysicalMaps
<1>3. e \in Entries /\ e.direct = s.lineage[c].direct /\ e.refs = s.lineage[c].refs + 1
  BY <1>1 DEF Entries
<1>4. /\ l \in [DOMAIN s.lineage -> Entries] /\ DOMAIN l = DOMAIN s.lineage /\ l[c] = e
      /\ \A x \in DOMAIN s.lineage : x # c => l[x] = s.lineage[x]
  BY <1>1, <1>3
<1>5. l \in LineageMaps
  BY <1>1, <1>4, PartialFacts DEF LineageMaps
<1>6. t = [s EXCEPT !.physical = p, !.lineage = l]
  BY DEF AddPhysical, Stores
<1> HIDE DEF t, p, e, l
<1>7. /\ t \in Stores /\ t.physical = p /\ t.lineage = l
      /\ t.virtual = s.virtual /\ t.maxLength = s.maxLength /\ t.static = s.static
      /\ t.leaky = s.leaky /\ t.dangling = s.dangling /\ t.lastId = s.lastId
      /\ t.stats = s.stats /\ t.splitOnIngest = s.splitOnIngest
  BY <1>2, <1>5, <1>6 DEF Stores
<1>8. ASSUME NEW x \in DOMAIN s.lineage
      PROVE  /\ t.lineage[x].direct = s.lineage[x].direct
             /\ t.lineage[x].refs = s.lineage[x].refs + (IF x = c THEN 1 ELSE 0)
  <2>1. CASE x = c
    BY <1>3, <1>4, <1>7, <2>1
  <2>2. CASE x # c
    BY <1>1, <1>4, <1>7, <2>2
  <2> QED BY <2>1, <2>2
<1> QED BY <1>4, <1>7, <1>8 DEF t, p

\* A chunk becomes physical.
LEMMA PhysicalGrows ==
    ASSUME NEW s, StoreInv(s), NEW c \in DOMAIN s.lineage, c \notin DOMAIN s.physical, NEW rows, IsChunk(rows),
           c \in Roots => rows = ChunkRows[c], IsStatic(rows) => c \in Roots,
           ~IsStatic(rows) => c \in DOMAIN s.virtual /\ s.virtual[c] = rows
    PROVE  LET t == AddPhysical(s, c, rows)
           IN  /\ StoreInv(t) /\ DOMAIN t.physical = DOMAIN s.physical \cup {c} /\ t.physical[c] = rows
               /\ \A x \in DOMAIN s.physical : t.physical[x] = s.physical[x]
               /\ Surplus(t) = Surplus(s) - (IF IsStatic(rows) THEN 0 ELSE Cardinality(rows))
<1> DEFINE t == AddPhysical(s, c, rows)
<1>1. /\ s \in Stores /\ IdsGiven(s) /\ ChunksSound(s) /\ IndexSound(s) /\ StaticsSound(s)
      /\ SplitsSound(s) /\ LineageSound(s) /\ LineageShaped(s) /\ RefsCover(s, <<>>)
      /\ s.lastId \in Nat /\ DOMAIN s.physical \subseteq 0..s.lastId
      /\ c <= s.lastId /\ s.stats.temporal \in Int
  BY SoundFacts, StoreFacts DEF LineageSound, LineageShaped
<1>2. rows \in SUBSET Rows /\ Cardinality(rows) \in Nat
  BY ChunkFacts DEF IsChunk
<1>3. /\ t \in Stores /\ t.physical = With(s.physical, c, rows)
      /\ t.virtual = s.virtual /\ t.maxLength = s.maxLength /\ t.static = s.static
      /\ t.dangling = s.dangling /\ t.lastId = s.lastId /\ t.stats = s.stats
      /\ DOMAIN t.lineage = DOMAIN s.lineage
      /\ \A x \in DOMAIN s.lineage :
           /\ t.lineage[x].direct = s.lineage[x].direct
           /\ t.lineage[x].refs = s.lineage[x].refs + (IF x = c THEN 1 ELSE 0)
  BY <1>1, <1>2, AddPhysicalFacts
<1> HIDE DEF t
<1>4. /\ DOMAIN t.physical = DOMAIN s.physical \cup {c} /\ t.physical[c] = rows
      /\ \A x \in DOMAIN s.physical : t.physical[x] = s.physical[x]
  <2>1. DOMAIN With(s.physical, c, rows) = DOMAIN s.physical \cup {c} /\ With(s.physical, c, rows)[c] = rows
    BY DEF With
  <2>2. \A x \in DOMAIN s.physical : x # c => With(s.physical, c, rows)[x] = s.physical[x]
    BY DEF With
  <2> QED BY <1>3, <2>1, <2>2
<1>5. IdsGiven(t)
  BY <1>1, <1>3, <1>4 DEF IdsGiven
<1>6. ChunksSound(t)
  BY <1>1, <1>4 DEF ChunksSound
<1>7. IndexSound(t)
  <2>1. \A x \in DOMAIN t.virtual :
          /\ IsChunk(t.virtual[x]) /\ ~IsStatic(t.virtual[x])
          /\ x \in Roots => t.virtual[x] = ChunkRows[x]
          /\ Length(t.virtual[x]) <= t.maxLength[EntityOf(t.virtual[x])]
    BY <1>1, <1>3 DEF IndexSound
  <2>2. ASSUME NEW x \in TemporalPhysical(t) PROVE x \in DOMAIN t.virtual /\ t.virtual[x] = t.physical[x]
    <3>1. CASE x = c
      BY <1>3, <1>4, <2>2, <3>1 DEF TemporalPhysical
    <3>2. CASE x # c
      <4>1. x \in TemporalPhysical(s)
        BY <1>4, <2>2, <3>2 DEF TemporalPhysical
      <4>2. x \in DOMAIN s.virtual /\ s.virtual[x] = s.physical[x] /\ x \in DOMAIN s.physical
        BY <1>1, <4>1 DEF IndexSound, TemporalPhysical
      <4> QED BY <1>3, <1>4, <4>2
    <3> QED BY <3>1, <3>2
  <2> QED BY <2>1, <2>2 DEF IndexSound
<1>8. StaticsSound(t) /\ SplitsSound(t)
  BY <1>1, <1>3 DEF StaticsSound, SplitsSound
<1>9. LineageShaped(t)
  BY <1>1, <1>3, <1>4 DEF LineageShaped
<1>10. RefsCover(t, <<>>)
  <2>1. SUFFICES ASSUME NEW x \in DOMAIN t.lineage
                 PROVE  t.lineage[x].refs >= (IF IsPhysical(t, x) THEN 1 ELSE 0)
                             + Cardinality(Children(t, x)) + Cardinality(Pending(<<>>, x))
    BY DEF RefsCover
  <2>2. s.lineage[x].refs >= (IF IsPhysical(s, x) THEN 1 ELSE 0)
                             + Cardinality(Children(s, x)) + Cardinality(Pending(<<>>, x))
    BY <1>1, <1>3, <2>1 DEF RefsCover
  <2>3. Children(t, x) = Children(s, x)
    BY <1>3 DEF Children
  <2>4. /\ Cardinality(Children(s, x)) \in Nat /\ Cardinality(Pending(<<>>, x)) \in Nat
        /\ s.lineage[x].refs \in Nat
    <3>1. <<>> \in Seq(WorkOps)
      OBVIOUS
    <3> QED BY <1>1, <1>3, <2>1, <3>1, LineageFinite, PendingFinite, EntryFacts
  <2>5. CASE x = c
    <3>1. IsPhysical(t, x) /\ ~IsPhysical(s, x)
      BY <1>4, <2>5 DEF IsPhysical
    <3>2. t.lineage[x].refs = s.lineage[x].refs + 1
      BY <1>3, <2>1, <2>5
    <3> QED BY <2>2, <2>3, <2>4, <3>1, <3>2
  <2>6. CASE x # c
    <3>1. IsPhysical(t, x) <=> IsPhysical(s, x)
      BY <1>4, <2>6 DEF IsPhysical
    <3>2. t.lineage[x].refs = s.lineage[x].refs + 0
      BY <1>3, <2>1, <2>6
    <3> QED BY <2>2, <2>3, <2>4, <3>1, <3>2
  <2> QED BY <2>5, <2>6
<1>11. Surplus(t) = Surplus(s) - (IF IsStatic(rows) THEN 0 ELSE Cardinality(rows))
  <2>1. Cardinality(Held(With(s.physical, c, rows)))
           = Cardinality(Held(s.physical)) + (IF IsStatic(rows) THEN 0 ELSE Cardinality(rows))
    BY <1>1, HeldWith
  <2>2. Cardinality(Held(s.physical)) \in Nat
    BY <1>1, HeldFinite
  <2> QED BY <1>1, <1>2, <1>3, <2>1, <2>2 DEF Surplus
<1> QED BY <1>3, <1>4, <1>5, <1>6, <1>7, <1>8, <1>9, <1>10, <1>11 DEF StoreInv, LineageSound, t

\* What a new lineage entry has to be.
Sprouts(s, c, direct) ==
    /\ c \in Nat /\ c <= s.lastId /\ direct \in Lineages
    /\ direct.parents \subseteq DOMAIN s.lineage
    /\ IsFiniteSet(direct.parents) /\ IsFiniteSet(direct.siblings)
    /\ direct.kind \in {"volatile", "manifest"} => direct.parents = {} /\ direct.siblings = {}
    /\ c \in Roots => direct.kind \in {"volatile", "manifest"}

\* A new entry, which takes a reference on its parents.
LEMMA InsertLineageFacts ==
    ASSUME NEW s \in Stores, NEW c \in Nat, c \notin DOMAIN s.lineage, NEW direct \in Lineages
    PROVE  LET t == InsertLineageIfMissing(s, c, direct)
           IN  /\ t \in Stores /\ t.physical = s.physical
               /\ t.virtual = s.virtual /\ t.maxLength = s.maxLength /\ t.static = s.static
               /\ t.leaky = s.leaky /\ t.dangling = s.dangling /\ t.lastId = s.lastId
               /\ t.stats = s.stats /\ t.splitOnIngest = s.splitOnIngest
               /\ DOMAIN t.lineage = DOMAIN s.lineage \cup {c}
               /\ t.lineage[c].direct = direct /\ t.lineage[c].refs = 0
               /\ \A x \in DOMAIN s.lineage :
                    /\ t.lineage[x].direct = s.lineage[x].direct
                    /\ t.lineage[x].refs = s.lineage[x].refs + (IF x \in direct.parents THEN 1 ELSE 0)
<1> DEFINE t == InsertLineageIfMissing(s, c, direct)
           m == \E p \in direct.parents : DescendsFromManifest(s, p)
           entry == [direct |-> direct, refs |-> 0, manifest |-> m]
           More(x) == [s.lineage[x] EXCEPT !.refs = @ + 1]
           b == [x \in DOMAIN s.lineage |-> IF x \in direct.parents THEN More(x) ELSE s.lineage[x]]
           l == With(b, c, entry)
<1>1. /\ s.lineage \in [DOMAIN s.lineage -> Entries] /\ DOMAIN s.lineage \subseteq Nat
      /\ \A x \in DOMAIN s.lineage : s.lineage[x] \in Entries /\ s.lineage[x].refs \in Nat
  BY EntryFacts, PartialFacts
<1>2. m \in BOOLEAN
  OBVIOUS
<1>3. entry \in Entries /\ entry.direct = direct /\ entry.refs = 0
  <2> HIDE DEF m
  <2> QED BY <1>2 DEF Entries
<1>4. \A x \in DOMAIN s.lineage : /\ More(x) \in Entries /\ More(x).direct = s.lineage[x].direct
                                  /\ More(x).refs = s.lineage[x].refs + 1
  BY <1>1 DEF Entries
<1>5. t = [s EXCEPT !.lineage = l]
  BY DEF InsertLineageIfMissing, Stores
<1> HIDE DEF entry, More, m
<1>6. b \in [DOMAIN s.lineage -> Entries] /\ DOMAIN b = DOMAIN s.lineage
  BY <1>1, <1>4
<1>7. ASSUME NEW x \in DOMAIN s.lineage
      PROVE  /\ b[x].direct = s.lineage[x].direct
             /\ b[x].refs = s.lineage[x].refs + (IF x \in direct.parents THEN 1 ELSE 0)
  <2>1. CASE x \in direct.parents
    BY <1>4, <2>1
  <2>2. CASE x \notin direct.parents
    BY <1>1, <2>2
  <2> QED BY <2>1, <2>2
<1> HIDE DEF b
<1>8. b \in Partial(Nat, Entries)
  BY <1>1, <1>6, PartialFacts
<1>9. l \in LineageMaps
  BY <1>3, <1>8, WithTyped DEF LineageMaps
<1>10. DOMAIN l = DOMAIN s.lineage \cup {c} /\ l[c] = entry
  BY <1>6 DEF With
<1>11. \A x \in DOMAIN s.lineage : l[x] = b[x]
  BY <1>6 DEF With
<1> HIDE DEF l, t
<1>12. /\ t \in Stores /\ t.physical = s.physical /\ t.lineage = l
       /\ t.virtual = s.virtual /\ t.maxLength = s.maxLength /\ t.static = s.static
       /\ t.leaky = s.leaky /\ t.dangling = s.dangling /\ t.lastId = s.lastId
       /\ t.stats = s.stats /\ t.splitOnIngest = s.splitOnIngest
  BY <1>5, <1>9 DEF Stores
<1> QED BY <1>3, <1>7, <1>10, <1>11, <1>12 DEF t

\* The lineage grows by an entry, or knows it.
LEMMA LineageGrows ==
    ASSUME NEW s, StoreInv(s), NEW c, NEW direct, Sprouts(s, c, direct)
    PROVE  LET t == InsertLineageIfMissing(s, c, direct)
           IN  /\ StoreInv(t) /\ DOMAIN t.lineage = DOMAIN s.lineage \cup {c}
               /\ c \notin DOMAIN s.lineage => t.lineage[c].direct = direct
               /\ \A x \in DOMAIN s.lineage : t.lineage[x].direct = s.lineage[x].direct
               /\ t.physical = s.physical /\ t.virtual = s.virtual /\ t.static = s.static
               /\ t.leaky = s.leaky /\ t.dangling = s.dangling /\ t.lastId = s.lastId
               /\ Surplus(t) = Surplus(s)
<1> DEFINE t == InsertLineageIfMissing(s, c, direct)
<1>1. /\ s \in Stores /\ IdsGiven(s) /\ ChunksSound(s) /\ IndexSound(s) /\ StaticsSound(s)
      /\ SplitsSound(s) /\ LineageSound(s) /\ LineageShaped(s) /\ RefsCover(s, <<>>)
  BY SoundFacts DEF LineageSound
<1>2. CASE c \in DOMAIN s.lineage
  <2>1. t = s
    BY <1>2 DEF InsertLineageIfMissing
  <2> HIDE DEF t
  <2> QED BY <1>2, <2>1 DEF t
<1>3. CASE c \notin DOMAIN s.lineage
  <2>0. /\ c \in Nat /\ c <= s.lastId /\ direct \in Lineages
        /\ direct.parents \subseteq DOMAIN s.lineage
        /\ IsFiniteSet(direct.parents) /\ IsFiniteSet(direct.siblings)
        /\ direct.kind \in {"volatile", "manifest"} => direct.parents = {} /\ direct.siblings = {}
        /\ c \in Roots => direct.kind \in {"volatile", "manifest"}
    BY DEF Sprouts
  <2>1. /\ t \in Stores /\ t.physical = s.physical
        /\ t.virtual = s.virtual /\ t.maxLength = s.maxLength /\ t.static = s.static
        /\ t.leaky = s.leaky /\ t.dangling = s.dangling /\ t.lastId = s.lastId /\ t.stats = s.stats
        /\ DOMAIN t.lineage = DOMAIN s.lineage \cup {c}
        /\ t.lineage[c].direct = direct /\ t.lineage[c].refs = 0
        /\ \A x \in DOMAIN s.lineage :
             /\ t.lineage[x].direct = s.lineage[x].direct
             /\ t.lineage[x].refs = s.lineage[x].refs + (IF x \in direct.parents THEN 1 ELSE 0)
    BY <1>1, <1>3, <2>0, InsertLineageFacts
  <2> HIDE DEF t
  <2>2. IdsGiven(t) /\ ChunksSound(t) /\ StaticsSound(t) /\ SplitsSound(t)
    BY <1>1, <2>1 DEF IdsGiven, ChunksSound, StaticsSound, SplitsSound
  <2>3. IndexSound(t)
    <3>1. TemporalPhysical(t) = TemporalPhysical(s)
      BY <2>1 DEF TemporalPhysical
    <3> QED BY <1>1, <2>1, <3>1 DEF IndexSound
  <2>4. LineageShaped(t)
    <3>1. ASSUME NEW x \in DOMAIN t.lineage
          PROVE  LET d == t.lineage[x].direct
                 IN  /\ x <= t.lastId /\ d.parents \subseteq DOMAIN t.lineage
                     /\ IsFiniteSet(d.parents) /\ IsFiniteSet(d.siblings)
                     /\ d.kind \in {"volatile", "manifest"} => d.parents = {} /\ d.siblings = {}
                     /\ x \in Roots => d.kind \in {"volatile", "manifest"}
      <4>1. CASE x = c
        BY <2>0, <2>1, <4>1
      <4>2. CASE x # c
        <5>1. x \in DOMAIN s.lineage /\ t.lineage[x].direct = s.lineage[x].direct
          BY <2>1, <3>1, <4>2
        <5>2. LET d == s.lineage[x].direct
              IN  /\ x <= s.lastId /\ d.parents \subseteq DOMAIN s.lineage
                  /\ IsFiniteSet(d.parents) /\ IsFiniteSet(d.siblings)
                  /\ d.kind \in {"volatile", "manifest"} => d.parents = {} /\ d.siblings = {}
                  /\ x \in Roots => d.kind \in {"volatile", "manifest"}
          BY <1>1, <5>1 DEF LineageShaped
        <5> QED BY <2>1, <5>1, <5>2
      <4> QED BY <4>1, <4>2
    <3>2. DOMAIN t.physical \subseteq DOMAIN t.lineage
      BY <1>1, <2>1 DEF LineageShaped
    <3> QED BY <3>1, <3>2 DEF LineageShaped
  <2>5. RefsCover(t, <<>>)
    <3>1. SUFFICES ASSUME NEW x \in DOMAIN t.lineage
                   PROVE  t.lineage[x].refs >= (IF IsPhysical(t, x) THEN 1 ELSE 0)
                               + Cardinality(Children(t, x)) + Cardinality(Pending(<<>>, x))
      BY DEF RefsCover
    <3>2. Cardinality({}) = 0 /\ Pending(<<>>, x) = {}
      BY FS_EmptySet DEF Pending
    <3>a. Cardinality(Pending(<<>>, x)) = 0
      BY <3>2
    <3>3. \A y \in DOMAIN s.lineage : c \notin s.lineage[y].direct.parents
      BY <1>1, <1>3 DEF LineageShaped
    <3>4. CASE x = c
      <4>1. Children(t, c) = {}
        <5>1. \A y \in DOMAIN t.lineage : c \notin t.lineage[y].direct.parents
          BY <1>3, <2>0, <2>1, <3>3
        <5> QED BY <5>1 DEF Children
      <4>2. Cardinality(Children(t, x)) = 0
        BY <3>2, <3>4, <4>1
      <4>3. ~IsPhysical(t, x)
        BY <1>1, <1>3, <2>1, <3>4 DEF IsPhysical, LineageShaped
      <4>4. t.lineage[x].refs = 0
        BY <2>1, <3>4
      <4> QED BY <3>a, <4>2, <4>3, <4>4
    <3>5. CASE x # c
      <4>1. x \in DOMAIN s.lineage /\ (IsPhysical(t, x) <=> IsPhysical(s, x))
        BY <2>1, <3>1, <3>5 DEF IsPhysical
      <4>2. s.lineage[x].refs >= (IF IsPhysical(s, x) THEN 1 ELSE 0)
                               + Cardinality(Children(s, x)) + Cardinality(Pending(<<>>, x))
        BY <1>1, <4>1 DEF RefsCover
      <4>3. /\ IsFiniteSet(Children(s, x)) /\ Cardinality(Children(s, x)) \in Nat /\ s.lineage[x].refs \in Nat
        BY <1>1, <4>1, LineageFinite, EntryFacts
      <4>4. CASE x \in direct.parents
        <5>1. Children(t, x) = Children(s, x) \cup {c} /\ c \notin Children(s, x)
          <6>1. \A y : y \in Children(t, x) <=> y \in Children(s, x) \/ y = c
            BY <1>3, <2>1, <4>4 DEF Children
          <6> QED BY <1>3, <6>1 DEF Children
        <5>2. Cardinality(Children(t, x)) = Cardinality(Children(s, x)) + 1
          BY <4>3, <5>1, FS_AddElement
        <5>3. t.lineage[x].refs = s.lineage[x].refs + 1
          BY <2>1, <4>1, <4>4
        <5> QED BY <3>a, <4>1, <4>2, <4>3, <5>2, <5>3
      <4>5. CASE x \notin direct.parents
        <5>1. Children(t, x) = Children(s, x)
          <6>1. \A y : y \in Children(t, x) <=> y \in Children(s, x)
            BY <1>3, <2>1, <4>5 DEF Children
          <6> QED BY <6>1
        <5>2. t.lineage[x].refs = s.lineage[x].refs + 0
          BY <2>1, <4>1, <4>5
        <5> QED BY <3>a, <4>1, <4>2, <4>3, <5>1, <5>2
      <4> QED BY <4>4, <4>5
    <3> QED BY <3>4, <3>5
  <2>6. Surplus(t) = Surplus(s)
    BY <2>1 DEF Surplus
  <2> QED BY <2>1, <2>2, <2>3, <2>4, <2>5, <2>6 DEF StoreInv, LineageSound, t
<1> QED BY <1>2, <1>3

\* The statistics count rows more.
Counted(s, rows) == [s EXCEPT !.stats.temporal = @ + Cardinality(rows)]

\* Counting rows changes the statistics only.
LEMMA CountedFacts ==
    ASSUME NEW s, StoreInv(s), NEW rows, Cardinality(rows) \in Nat
    PROVE  LET t == Counted(s, rows)
           IN  /\ StoreInv(t) /\ Surplus(t) = Surplus(s) + Cardinality(rows)
               /\ t.physical = s.physical /\ t.virtual = s.virtual /\ t.maxLength = s.maxLength
               /\ t.static = s.static /\ t.lineage = s.lineage /\ t.dangling = s.dangling
               /\ t.leaky = s.leaky /\ t.lastId = s.lastId
<1> DEFINE t == Counted(s, rows)
           st == [s.stats EXCEPT !.temporal = @ + Cardinality(rows)]
<1>1. /\ s \in Stores /\ SplitsSound(s) /\ s.lastId \in Nat /\ DOMAIN s.physical \subseteq 0..s.lastId
      /\ s.stats \in Statistics /\ s.stats.temporal \in Int
  BY SoundFacts, StoreFacts DEF Stores
<1>2. st \in Statistics /\ st.temporal = s.stats.temporal + Cardinality(rows)
  BY <1>1 DEF Statistics
<1>3. t = [s EXCEPT !.stats = st]
  BY <1>1 DEF Counted, Stores
<1> HIDE DEF t, st
<1>4. /\ t \in Stores /\ t.stats = st
      /\ t.physical = s.physical /\ t.virtual = s.virtual /\ t.maxLength = s.maxLength
      /\ t.static = s.static /\ t.lineage = s.lineage /\ t.dangling = s.dangling
      /\ t.leaky = s.leaky /\ t.lastId = s.lastId
  BY <1>1, <1>2, <1>3 DEF Stores
<1>5. SplitsSound(t) /\ t.lastId >= s.lastId
  BY <1>1, <1>4 DEF SplitsSound
<1>6. StoreInv(t)
  BY <1>4, <1>5, NotesFrame
<1>7. Cardinality(Held(s.physical)) \in Nat
  BY <1>1, HeldFinite
<1>8. Surplus(t) = Surplus(s) + Cardinality(rows)
  BY <1>1, <1>2, <1>4, <1>7 DEF Surplus
<1> QED BY <1>4, <1>6, <1>8 DEF t

\* insert_chunk stores a temporal chunk as it is.
LEMMA InsertAloneFacts ==
    ASSUME NEW s, StoreInv(s), NEW c \in DOMAIN s.lineage, c \notin DOMAIN s.physical, NEW rows, IsChunk(rows),
           ~IsStatic(rows), c \in Roots => rows = ChunkRows[c]
    PROVE  LET o == InsertAlone(s, c, rows)
           IN  /\ StoreInv(o.store) /\ Surplus(o.store) = Surplus(s) /\ Told(s, o)
               /\ DOMAIN o.store.physical = DOMAIN s.physical \cup {c}
               /\ o.store.physical = With(s.physical, c, rows) /\ o.store.lastId = s.lastId
               /\ o.store.leaky = s.leaky /\ o.store.dangling = s.dangling
               /\ DOMAIN o.store.lineage = DOMAIN s.lineage
<1> DEFINE u == AddVirtual(s, c, rows)
           v == Counted(u, rows)
           t == AddPhysical(v, c, rows)
           o == InsertAlone(s, c, rows)
<1>1. o = Outcome(t, <<Addition(c, c, rows, {})>>)
  BY DEF InsertAlone, Counted
<1>2. o.store = t
  BY <1>1 DEF Outcome
<1> HIDE DEF o
<1>3. /\ s \in Stores /\ c \in Nat /\ rows \in SUBSET Rows /\ Cardinality(rows) \in Nat
      /\ s.lastId \in Nat /\ DOMAIN s.physical \subseteq 0..s.lastId /\ s.stats.temporal \in Int
  BY SoundFacts, StoreFacts, EntryFacts, ChunkFacts DEF IsChunk
<1>4. /\ StoreInv(u) /\ DOMAIN u.virtual = DOMAIN s.virtual \cup {c} /\ u.virtual[c] = rows
      /\ Surplus(u) = Surplus(s)
  BY <1>3, IndexGrows
<1>5. /\ u.physical = s.physical /\ u.lineage = s.lineage /\ u.lastId = s.lastId
      /\ u.leaky = s.leaky /\ u.dangling = s.dangling
  BY <1>3, AddVirtualFacts
<1> HIDE DEF u
<1>6. /\ StoreInv(v) /\ Surplus(v) = Surplus(u) + Cardinality(rows)
      /\ v.physical = u.physical /\ v.virtual = u.virtual /\ v.lineage = u.lineage /\ v.lastId = u.lastId
      /\ v.leaky = u.leaky /\ v.dangling = u.dangling
  BY <1>3, <1>4, CountedFacts
<1> HIDE DEF v
<1>7. c \in DOMAIN v.lineage /\ c \notin DOMAIN v.physical /\ c \in DOMAIN v.virtual /\ v.virtual[c] = rows
  BY <1>4, <1>5, <1>6
<1>8. /\ StoreInv(t) /\ DOMAIN t.physical = DOMAIN v.physical \cup {c}
      /\ Surplus(t) = Surplus(v) - (IF IsStatic(rows) THEN 0 ELSE Cardinality(rows))
  BY <1>6, <1>7, PhysicalGrows
<1>9. /\ t.lastId = v.lastId /\ DOMAIN t.lineage = DOMAIN v.lineage
      /\ t.physical = With(v.physical, c, rows) /\ t.leaky = v.leaky /\ t.dangling = v.dangling
  BY <1>3, <1>6, <1>7, AddPhysicalFacts, SoundFacts
<1> HIDE DEF t
<1>10. Surplus(s) \in Int
  BY <1>3, HeldFinite DEF Surplus
<1>11. Surplus(t) = Surplus(s)
  BY <1>3, <1>4, <1>6, <1>8, <1>10
<1>12. DOMAIN t.physical = DOMAIN s.physical \cup {c}
  BY <1>5, <1>6, <1>8
<1>13. Told(s, o)
  <2>1. DOMAIN t.physical = (DOMAIN s.physical \ {}) \cup {c}
    BY <1>12
  <2> QED BY <1>1, <1>3, <2>1, AdditionTold
<1> QED BY <1>2, <1>5, <1>6, <1>8, <1>9, <1>11, <1>12, <1>13 DEF o

-----------------------------------------------------------------------------
(* insert_rrd_manifest *)

\* A chunk becomes the static chunk of an entity.
LEMMA StaticsGrow ==
    ASSUME NEW s, StoreInv(s), NEW c \in Roots, IsStatic(ChunkRows[c]), NEW e \in Entities
    PROVE  LET t == [s EXCEPT !.static = With(@, e, c)]
           IN  /\ StoreInv(t) /\ Surplus(t) = Surplus(s)
               /\ t.physical = s.physical /\ t.virtual = s.virtual /\ t.lineage = s.lineage
               /\ t.leaky = s.leaky /\ t.dangling = s.dangling /\ t.lastId = s.lastId /\ t.stats = s.stats
<1> DEFINE m == With(s.static, e, c)
           t == [s EXCEPT !.static = m]
<1>1. /\ s \in Stores /\ IdsGiven(s) /\ ChunksSound(s) /\ IndexSound(s) /\ StaticsSound(s)
      /\ SplitsSound(s) /\ LineageSound(s) /\ s.static \in StaticMaps
  BY SoundFacts, StoreFacts
<1>2. m \in StaticMaps
  BY <1>1, WithTyped DEF StaticMaps
<1>3. \A x \in DOMAIN m : IsStatic(ChunkRows[m[x]])
  <2>1. DOMAIN m = DOMAIN s.static \cup {e} /\ m[e] = c
    BY DEF With
  <2>2. \A x \in DOMAIN s.static : x # e => m[x] = s.static[x]
    BY DEF With
  <2>3. \A x \in DOMAIN s.static : IsStatic(ChunkRows[s.static[x]])
    BY <1>1 DEF StaticsSound
  <2> HIDE DEF m
  <2> QED BY <2>1, <2>2, <2>3
<1> HIDE DEF m
<1>4. /\ t \in Stores /\ t.static = m /\ t.physical = s.physical /\ t.virtual = s.virtual
      /\ t.maxLength = s.maxLength /\ t.lineage = s.lineage /\ t.lastId = s.lastId
      /\ t.leaky = s.leaky /\ t.dangling = s.dangling /\ t.stats = s.stats
  BY <1>1, <1>2 DEF Stores
<1> HIDE DEF t
<1>5. StaticsSound(t)
  BY <1>3, <1>4 DEF StaticsSound
<1>6. IdsGiven(t) /\ ChunksSound(t) /\ SplitsSound(t)
  BY <1>1, <1>4 DEF IdsGiven, ChunksSound, SplitsSound
<1>7. IndexSound(t)
  <2>1. TemporalPhysical(t) = TemporalPhysical(s)
    BY <1>4 DEF TemporalPhysical
  <2> QED BY <1>1, <1>4, <2>1 DEF IndexSound
<1>8. LineageSound(t)
  BY <1>1, <1>4, LineageFrame
<1>9. Surplus(t) = Surplus(s)
  BY <1>4 DEF Surplus
<1> QED BY <1>4, <1>5, <1>6, <1>7, <1>8, <1>9 DEF StoreInv, t, m

\* Whether an entry descends from a manifest does not matter here.
LEMMA FlagFrame ==
    ASSUME NEW s, StoreInv(s), NEW t \in Stores,
           t.physical = s.physical, t.virtual = s.virtual, t.maxLength = s.maxLength,
           t.static = s.static, t.dangling = s.dangling, t.lastId = s.lastId,
           DOMAIN t.lineage = DOMAIN s.lineage,
           \A x \in DOMAIN s.lineage : /\ t.lineage[x].direct = s.lineage[x].direct
                                       /\ t.lineage[x].refs = s.lineage[x].refs
    PROVE  StoreInv(t)
<1>1. /\ IdsGiven(s) /\ ChunksSound(s) /\ IndexSound(s) /\ StaticsSound(s)
      /\ SplitsSound(s) /\ LineageShaped(s) /\ RefsCover(s, <<>>)
  BY SoundFacts DEF LineageSound
<1>2. IdsGiven(t) /\ ChunksSound(t) /\ StaticsSound(t) /\ SplitsSound(t)
  BY <1>1 DEF IdsGiven, ChunksSound, StaticsSound, SplitsSound
<1>3. IndexSound(t)
  <2>1. TemporalPhysical(t) = TemporalPhysical(s)
    BY DEF TemporalPhysical
  <2> QED BY <1>1, <2>1 DEF IndexSound
<1>4. LineageShaped(t)
  BY <1>1 DEF LineageShaped
<1>5. RefsCover(t, <<>>)
  <2>1. \A x : Children(t, x) = Children(s, x) /\ (IsPhysical(t, x) <=> IsPhysical(s, x))
    BY DEF Children, IsPhysical
  <2> QED BY <1>1, <2>1 DEF RefsCover
<1> QED BY <1>2, <1>3, <1>4, <1>5 DEF StoreInv, LineageSound

\* The entry of a root that a manifest announces.
Announced(s, c) ==
    [s EXCEPT !.lineage = With(@, c, [direct |-> RootFromManifest, refs |-> 0, manifest |-> TRUE])]

\* A manifest's entry has no reference and needs none: its chunk is not physical.
LEMMA AnnouncedFacts ==
    ASSUME NEW s, StoreInv(s), NEW c \in Roots, c \notin DOMAIN s.lineage
    PROVE  LET t == Announced(s, c)
           IN  /\ StoreInv(t) /\ Surplus(t) = Surplus(s) /\ t.physical = s.physical
               /\ t.leaky = s.leaky /\ t.dangling = s.dangling /\ t.lastId = s.lastId
               /\ DOMAIN t.lineage = DOMAIN s.lineage \cup {c}
<1> DEFINE t == Announced(s, c)
           u == InsertLineageIfMissing(s, c, RootFromManifest)
           entry == [direct |-> RootFromManifest, refs |-> 0, manifest |-> TRUE]
           l == With(s.lineage, c, entry)
<1>1. s \in Stores /\ c \in Nat /\ c <= s.lastId /\ s.lineage \in Partial(Nat, Entries)
  BY SoundFacts, EntryFacts, DataAssumption DEF IdsGiven
<1>2. /\ RootFromManifest \in Lineages /\ RootFromManifest.parents = {} /\ RootFromManifest.siblings = {}
      /\ RootFromManifest.kind = "manifest"
  BY DEF RootFromManifest, Lineages
<1>3. Sprouts(s, c, RootFromManifest)
  <2>1. IsFiniteSet({})
    BY FS_EmptySet
  <2> QED BY <1>1, <1>2, <2>1 DEF Sprouts
<1>4. StoreInv(u) /\ DOMAIN u.lineage = DOMAIN s.lineage \cup {c}
  BY <1>3, LineageGrows
<1>5. /\ u \in Stores /\ u.physical = s.physical
      /\ u.virtual = s.virtual /\ u.maxLength = s.maxLength /\ u.static = s.static
      /\ u.dangling = s.dangling /\ u.lastId = s.lastId /\ u.stats = s.stats
      /\ u.lineage[c].direct = RootFromManifest /\ u.lineage[c].refs = 0
      /\ \A x \in DOMAIN s.lineage :
           /\ u.lineage[x].direct = s.lineage[x].direct
           /\ u.lineage[x].refs = s.lineage[x].refs + (IF x \in RootFromManifest.parents THEN 1 ELSE 0)
  BY <1>1, <1>2, InsertLineageFacts
<1>6. \A x \in DOMAIN s.lineage : u.lineage[x].refs = s.lineage[x].refs
  <2>1. \A x \in DOMAIN s.lineage : s.lineage[x].refs \in Nat
    BY <1>1, EntryFacts
  <2> QED BY <1>2, <1>5, <2>1
<1>7. entry \in Entries /\ entry.direct = RootFromManifest /\ entry.refs = 0
  BY <1>2 DEF Entries
<1>8. t = [s EXCEPT !.lineage = l]
  BY <1>1 DEF Announced, Stores
<1> HIDE DEF entry, u, t
<1>9. l \in LineageMaps
  BY <1>1, <1>7, WithTyped DEF LineageMaps
<1>10. DOMAIN l = DOMAIN s.lineage \cup {c} /\ l[c] = entry
  BY DEF With
<1>11. \A x \in DOMAIN s.lineage : x # c => l[x] = s.lineage[x]
  BY DEF With
<1> HIDE DEF l
<1>12. /\ t \in Stores /\ t.lineage = l /\ t.physical = s.physical /\ t.virtual = s.virtual
       /\ t.maxLength = s.maxLength /\ t.static = s.static
       /\ t.leaky = s.leaky /\ t.dangling = s.dangling /\ t.lastId = s.lastId /\ t.stats = s.stats
  BY <1>1, <1>8, <1>9 DEF Stores
<1>13. \A x \in DOMAIN u.lineage : /\ t.lineage[x].direct = u.lineage[x].direct
                                   /\ t.lineage[x].refs = u.lineage[x].refs
  BY <1>4, <1>5, <1>6, <1>7, <1>10, <1>11, <1>12
<1>14. StoreInv(t)
  <2>1. /\ t.physical = u.physical /\ t.virtual = u.virtual /\ t.maxLength = u.maxLength
        /\ t.static = u.static /\ t.dangling = u.dangling /\ t.lastId = u.lastId
        /\ DOMAIN t.lineage = DOMAIN u.lineage
    BY <1>4, <1>5, <1>10, <1>12
  <2> QED BY <1>4, <1>12, <1>13, <2>1, FlagFrame
<1>15. Surplus(t) = Surplus(s)
  BY <1>12 DEF Surplus
<1> QED BY <1>10, <1>12, <1>14, <1>15 DEF t

\* One chunk of a manifest.
LEMMA ManifestOneFacts ==
    ASSUME NEW s, StoreInv(s), NEW c \in Roots, c \notin DOMAIN s.lineage
    PROVE  LET t == InsertDlrManifestOne(s, c)
           IN  /\ StoreInv(t) /\ Surplus(t) = Surplus(s) /\ t.physical = s.physical
               /\ t.leaky = s.leaky /\ t.dangling = s.dangling /\ t.lastId = s.lastId
               /\ DOMAIN t.lineage = DOMAIN s.lineage \cup {c}
<1> DEFINE u == Announced(s, c)
           t == InsertDlrManifestOne(s, c)
<1>1. /\ StoreInv(u) /\ Surplus(u) = Surplus(s) /\ u.physical = s.physical
      /\ u.leaky = s.leaky /\ u.dangling = s.dangling /\ u.lastId = s.lastId
      /\ DOMAIN u.lineage = DOMAIN s.lineage \cup {c}
  BY AnnouncedFacts
<1>2. t = IF IsStatic(ChunkRows[c]) THEN [u EXCEPT !.static = With(@, EntityOf(ChunkRows[c]), c)]
                                    ELSE AddVirtual(u, c, ChunkRows[c])
  BY DEF InsertDlrManifestOne, Announced
<1>3. c \in Nat /\ c \notin DOMAIN s.physical /\ u \in Stores
  BY <1>1, SoundFacts, DataAssumption DEF LineageShaped
<1> HIDE DEF t, u
<1> SUFFICES ASSUME NEW rows, rows = ChunkRows[c]
             PROVE  /\ StoreInv(t) /\ Surplus(t) = Surplus(s) /\ t.physical = s.physical
                    /\ t.leaky = s.leaky /\ t.dangling = s.dangling /\ t.lastId = s.lastId
                    /\ DOMAIN t.lineage = DOMAIN s.lineage \cup {c}
  BY DEF t
<1>4. IsChunk(rows)
  BY RootsAreChunks
<1>5. EntityOf(rows) \in Entities
  BY <1>4, ChunkFacts
<1>6. CASE IsStatic(rows)
  <2>1. t = [u EXCEPT !.static = With(@, EntityOf(rows), c)]
    BY <1>2, <1>6
  <2> QED BY <1>1, <1>5, <1>6, <2>1, StaticsGrow
<1>7. CASE ~IsStatic(rows)
  <2>1. t = AddVirtual(u, c, rows)
    BY <1>2, <1>7
  <2>2. StoreInv(t) /\ Surplus(t) = Surplus(u)
    BY <1>1, <1>3, <1>4, <1>7, <2>1, IndexGrows
  <2>3. /\ t.physical = u.physical /\ t.lineage = u.lineage
        /\ t.leaky = u.leaky /\ t.dangling = u.dangling /\ t.lastId = u.lastId
    BY <1>3, <1>4, <2>1, AddVirtualFacts
  <2> QED BY <1>1, <2>2, <2>3
<1> QED BY <1>6, <1>7

\* One chunk of the manifest, as the step of a fold.
ManifestOp(cx, acc, c) == InsertDlrManifestOne(acc, c)

\* After the chunks done.
ManifestKept(cx, done, acc) ==
    /\ StoreInv(acc) /\ Surplus(acc) = Surplus(cx) /\ acc.physical = cx.physical
    /\ acc.leaky = cx.leaky /\ acc.dangling = cx.dangling /\ acc.lastId = cx.lastId
    /\ DOMAIN acc.lineage = DOMAIN cx.lineage \cup done

\* The fold of insert_rrd_manifest, with that invariant.
Manifest == INSTANCE FoldFacts WITH Op <- ManifestOp, Inv <- ManifestKept

\* The induction that Manifest goes by.
LEMMA ManifestInduction == Manifest!NatInduction
BY NatSetInduction DEF Manifest!NatInduction

\* A manifest makes no chunk physical.
LEMMA ManifestFacts ==
    ASSUME NEW s, StoreInv(s), NEW part \in SUBSET Roots, part \cap DOMAIN s.lineage = {}
    PROVE  LET t == InsertDlrManifest(s, part)
           IN  /\ StoreInv(t) /\ Surplus(t) = Surplus(s) /\ t.physical = s.physical
               /\ t.leaky = s.leaky /\ t.dangling = s.dangling /\ t.lastId = s.lastId
<1> DEFINE t == Manifest!AnyFold(s, s, part)
<1>1. InsertDlrManifest(s, part) = t
  BY DEF InsertDlrManifest, FoldSet, MapThenFoldSet, Manifest!AnyFold, Manifest!Pick, ManifestOp
<1>2. IsFiniteSet(part)
  BY DataAssumption, FS_Subset
<1>3. ManifestKept(s, {}, s)
  BY DEF ManifestKept
<1>4. \A a : \A d \in SUBSET part : \A x \in part \ d :
         ManifestKept(s, d, a) => ManifestKept(s, d \cup {x}, ManifestOp(s, a, x))
  <2>1. SUFFICES ASSUME NEW a, NEW d \in SUBSET part, NEW x \in part \ d, ManifestKept(s, d, a)
                 PROVE  ManifestKept(s, d \cup {x}, InsertDlrManifestOne(a, x))
    BY DEF ManifestOp
  <2>2. /\ StoreInv(a) /\ Surplus(a) = Surplus(s) /\ a.physical = s.physical
        /\ a.leaky = s.leaky /\ a.dangling = s.dangling /\ a.lastId = s.lastId
        /\ DOMAIN a.lineage = DOMAIN s.lineage \cup d
    BY <2>1 DEF ManifestKept
  <2>3. x \in Roots /\ x \notin DOMAIN a.lineage
    BY <2>2
  <2> DEFINE b == InsertDlrManifestOne(a, x)
  <2>4. /\ StoreInv(b) /\ Surplus(b) = Surplus(a) /\ b.physical = a.physical
        /\ b.leaky = a.leaky /\ b.dangling = a.dangling /\ b.lastId = a.lastId
        /\ DOMAIN b.lineage = DOMAIN a.lineage \cup {x}
    BY <2>2, <2>3, ManifestOneFacts
  <2> HIDE DEF b
  <2>5. DOMAIN b.lineage = DOMAIN s.lineage \cup (d \cup {x})
    BY <2>2, <2>4
  <2> QED BY <2>2, <2>4, <2>5 DEF ManifestKept, b
<1>5. ManifestKept(s, part, t)
  <2>1. PICK size \in [SUBSET part -> Nat] :
           \A d \in SUBSET part : size[d] <= size[part] /\ \A x \in d : size[d \ {x}] < size[d]
    BY <1>2, FiniteSizes
  <2> QED BY <1>3, <1>4, <2>1, ManifestInduction, Manifest!SetFold
<1> HIDE DEF t
<1> QED BY <1>1, <1>5 DEF ManifestKept

-----------------------------------------------------------------------------
(* Compaction *)

\* One chunk is removed while something else needs its entry: the entry stays.
LEMMA OneShallow ==
    ASSUME NEW s, StoreInv(s), NEW c \in TemporalPhysical(s), s.lineage[c].refs >= 2, NEW rows
    PROVE  LET t == RemoveChunksShallow(s, <<<<c, rows>>>>).store
           IN  DOMAIN t.lineage = DOMAIN s.lineage /\ t.virtual = s.virtual
<1> DEFINE ch == <<c, rows>>
           base == Outcome(s, <<>>)
           o == Shallow!LeftFold(0, base, <<ch>>)
           u == Unloaded(s, c)
           v == DropLineageReference(u, c)
<1>1. RemoveChunksShallow(s, <<ch>>) = o
  BY DEF RemoveChunksShallow, FoldLeft, MapThenFoldSet, Shallow!LeftFold, Shallow!Top, Max, ShallowOp
<1>2. DOMAIN <<ch>> = 1..1 /\ <<ch>>[1] = ch /\ ch[1] = c
  OBVIOUS
<1>3. o = ShallowOp(0, base, <<ch>>[1])
  BY <1>2, ShallowInduction, Shallow!FoldOne
<1>4. o = RemoveOneShallow(base, ch)
  BY <1>2, <1>3 DEF ShallowOp
<1>5. base.store = s
  BY DEF Outcome
<1>6. c \in DOMAIN s.physical
  BY DEF TemporalPhysical
<1> HIDE DEF o
<1>7. o.store = ForgetUnlessKnown(v, c)
  BY <1>2, <1>4, <1>5, <1>6 DEF RemoveOneShallow, IsPhysical, Unloaded, Outcome
<1>8. /\ u \in Stores /\ u.virtual = s.virtual /\ u.lineage = s.lineage
      /\ LineageShaped(u) /\ RefsCover(u, <<DropRefOp(c)>>) /\ c \in Nat
  BY UnloadedFacts
<1>9. c \in DOMAIN s.lineage
  BY <1>6, SoundFacts
<1> HIDE DEF u
<1>10. DOMAIN v.lineage = DOMAIN u.lineage
  BY <1>8, <1>9, NeededStays
<1>11. v.virtual = u.virtual
  BY <1>8, DropFacts DEF Forgets
<1> HIDE DEF v
<1>12. o.store = v
  BY <1>7, <1>8, <1>9, <1>10 DEF ForgetUnlessKnown
<1> QED BY <1>1, <1>8, <1>10, <1>11, <1>12

\* A chunk elected for compaction is a temporal physical chunk of the entity.
LEMMA ElectedFacts ==
    ASSUME NEW s, StoreInv(s), NEW c, NEW rows,
           NEW elected \in CompactionCandidates(s, c, rows), elected # None
    PROVE  /\ elected \in TemporalPhysical(s) /\ elected # c
           /\ EntityOf(s.physical[elected]) = EntityOf(rows)
<1> DEFINE points == [x \in DOMAIN s.virtual \ {c} |-> CompactionPoints(s, rows, x)]
<1>1. elected \in MostPoints(points)
  BY DEF CompactionCandidates, OrNobody
<1>2. elected \in DOMAIN points /\ points[elected] > 0
  BY <1>1 DEF MostPoints
<1>3. elected \in DOMAIN s.virtual /\ elected # c /\ CompactionPoints(s, rows, elected) > 0
  BY <1>2
<1>4. EntityOf(s.virtual[elected]) = EntityOf(rows) /\ IsPhysical(s, elected)
  <2>1. ~(0 > 0)
    OBVIOUS
  <2>2. CompactionPoints(s, rows, elected) # 0
    BY <1>3, <2>1
  <2>3. \/ CompactionPoints(s, rows, elected) = 0
        \/ /\ elected \in {y \in DOMAIN s.virtual : EntityOf(s.virtual[y]) = EntityOf(rows)}
           /\ IsPhysical(s, elected)
    BY DEF CompactionPoints
  <2> QED BY <2>2, <2>3
<1>5. elected \in DOMAIN s.physical /\ ChunksSound(s) /\ IndexSound(s)
  BY <1>4, SoundFacts DEF IsPhysical
<1>6. ~IsStatic(s.physical[elected])
  <2>1. SUFFICES ASSUME IsStatic(s.physical[elected]) PROVE FALSE
    OBVIOUS
  <2>2. elected \in Roots /\ s.physical[elected] = ChunkRows[elected]
    BY <1>5, <2>1 DEF ChunksSound
  <2>3. s.virtual[elected] = ChunkRows[elected] /\ ~IsStatic(s.virtual[elected])
    BY <1>3, <1>5, <2>2 DEF IndexSound
  <2> QED BY <2>1, <2>2, <2>3
<1>7. elected \in TemporalPhysical(s)
  BY <1>5, <1>6 DEF TemporalPhysical
<1>8. s.virtual[elected] = s.physical[elected]
  BY <1>5, <1>7 DEF IndexSound
<1> QED BY <1>3, <1>4, <1>7, <1>8

\* The compacted chunk is in the index and the lineage, a child of both.
LEMMA CompactedFacts ==
    ASSUME NEW s, StoreInv(s), NEW c \in DOMAIN s.lineage, NEW elected \in TemporalPhysical(s), elected # c,
           NEW new, new = NextId(s), NEW all, IsChunk(all), ~IsStatic(all)
    PROVE  LET t == Compacted(s, c, elected, new, all)
           IN  /\ StoreInv(t) /\ Surplus(t) = Surplus(s) + Cardinality(all)
               /\ t.physical = s.physical /\ t.lastId = new
               /\ t.dangling = s.dangling /\ t.leaky = With(With(s.leaky, c, new), elected, new)
               /\ new \in DOMAIN t.virtual /\ t.virtual[new] = all /\ new \in DOMAIN t.lineage
               /\ t.lineage[elected].refs >= 2
<1> DEFINE u == AddVirtual(s, new, all)
           v == Counted(u, all)
           leaky == With(With(v.leaky, c, new), elected, new)
           w == [v EXCEPT !.lastId = new, !.leaky = leaky]
           direct == CompactedFrom({c, elected})
           t == InsertLineageIfMissing(w, new, direct)
<1>1. /\ s \in Stores /\ s.lastId \in Nat /\ new = s.lastId + 1 /\ new \in Nat
      /\ DOMAIN s.physical \subseteq 0..s.lastId /\ LineageShaped(s) /\ IdsGiven(s)
      /\ c \in Nat /\ elected \in Nat /\ elected \in DOMAIN s.lineage /\ elected \in DOMAIN s.physical
  BY SoundFacts, StoreFacts, EntryFacts DEF NextId, TemporalPhysical
<1>2. new \notin DOMAIN s.physical /\ new \notin Roots /\ new \notin DOMAIN s.lineage
  <2>1. \A x \in Roots : x \in Nat /\ x <= s.lastId
    BY <1>1, DataAssumption DEF IdsGiven
  <2>2. \A x \in DOMAIN s.lineage : x \in Nat /\ x <= s.lastId
    BY <1>1, EntryFacts DEF LineageShaped
  <2> QED BY <1>1, <2>1, <2>2
<1>3. Cardinality(all) \in Nat
  BY ChunkFacts
<1>4. /\ StoreInv(u) /\ DOMAIN u.virtual = DOMAIN s.virtual \cup {new} /\ u.virtual[new] = all
      /\ Surplus(u) = Surplus(s)
  BY <1>1, <1>2, IndexGrows
<1>5. /\ u.physical = s.physical /\ u.lineage = s.lineage /\ u.lastId = s.lastId
      /\ u.leaky = s.leaky /\ u.dangling = s.dangling
  <2>1. s \in Stores /\ new \in Nat /\ IsChunk(all)
    BY <1>1
  <2> QED BY <2>1, AddVirtualFacts
<1>6. t = Compacted(s, c, elected, new, all)
  <2>1. u \in Stores
    BY <1>4, SoundFacts
  <2> HIDE DEF u
  <2>2. w = [u EXCEPT !.lastId = new, !.stats.temporal = @ + Cardinality(all),
                      !.leaky = With(With(@, c, new), elected, new)]
    BY <2>1 DEF Counted, Stores
  <2> HIDE DEF w
  <2> QED BY <2>2 DEF Compacted, u
<1> HIDE DEF u
<1>7. /\ StoreInv(v) /\ Surplus(v) = Surplus(u) + Cardinality(all)
      /\ v.physical = u.physical /\ v.virtual = u.virtual /\ v.lineage = u.lineage /\ v.lastId = u.lastId
      /\ v.leaky = u.leaky /\ v.dangling = u.dangling
  BY <1>3, <1>4, CountedFacts
<1> HIDE DEF v
<1>8. v \in Stores /\ v.leaky \in LeakyMaps /\ SplitsSound(v)
  BY <1>7, SoundFacts, StoreFacts
<1>9. leaky \in LeakyMaps
  <2>1. With(v.leaky, c, new) \in Partial(Nat, Nat)
    BY <1>1, <1>8, WithTyped DEF LeakyMaps
  <2> HIDE DEF v
  <2> DEFINE k == With(v.leaky, c, new)
  <2> HIDE DEF k
  <2>2. k \in Partial(Nat, Nat)
    BY <2>1 DEF k
  <2>3. With(k, elected, new) \in Partial(Nat, Nat)
    BY <1>1, <2>2, WithTyped
  <2> QED BY <2>3 DEF LeakyMaps, k
<1> HIDE DEF leaky
<1>10. /\ w \in Stores /\ w.lastId = new /\ w.physical = v.physical /\ w.virtual = v.virtual
       /\ w.maxLength = v.maxLength /\ w.static = v.static /\ w.lineage = v.lineage
       /\ w.leaky = leaky /\ w.dangling = v.dangling /\ w.stats = v.stats
  BY <1>1, <1>8, <1>9 DEF Stores
<1> HIDE DEF w
<1>11. SplitsSound(w) /\ w.lastId >= v.lastId
  BY <1>1, <1>5, <1>7, <1>8, <1>10 DEF SplitsSound
<1>12. StoreInv(w) /\ Surplus(w) = Surplus(v)
  BY <1>7, <1>10, <1>11, NotesFrame DEF Surplus
<1>13. /\ direct \in Lineages /\ direct.parents = {c, elected} /\ direct.siblings = {}
       /\ direct.kind = "compacted"
  BY <1>1 DEF CompactedFrom, Lineages
<1>14. IsFiniteSet({c, elected}) /\ IsFiniteSet({})
  <2>1. IsFiniteSet({c})
    BY FS_Singleton
  <2>2. IsFiniteSet({c} \cup {elected})
    BY <2>1, FS_AddElement
  <2>3. {c, elected} = {c} \cup {elected}
    OBVIOUS
  <2> QED BY <2>2, <2>3, FS_EmptySet
<1> HIDE DEF direct
<1>15. Sprouts(w, new, direct)
  <2>1. direct.parents \subseteq DOMAIN w.lineage
    BY <1>1, <1>5, <1>7, <1>10, <1>13
  <2> QED BY <1>1, <1>2, <1>10, <1>13, <1>14, <2>1 DEF Sprouts
<1>16. /\ StoreInv(t) /\ DOMAIN t.lineage = DOMAIN w.lineage \cup {new}
       /\ new \notin DOMAIN w.lineage => t.lineage[new].direct = direct
       /\ t.physical = w.physical /\ t.virtual = w.virtual
       /\ t.leaky = w.leaky /\ t.dangling = w.dangling /\ t.lastId = w.lastId /\ Surplus(t) = Surplus(w)
  BY <1>12, <1>15, LineageGrows
<1> HIDE DEF t
<1>17. t.lineage[elected].refs >= 2
  <2>1. elected \in DOMAIN t.lineage /\ IsPhysical(t, elected)
    BY <1>1, <1>5, <1>7, <1>10, <1>16 DEF IsPhysical
  <2>2. new \in Children(t, elected)
    BY <1>2, <1>5, <1>7, <1>10, <1>13, <1>16 DEF Children
  <2>3. t \in Stores /\ LineageShaped(t) /\ RefsCover(t, <<>>)
    BY <1>16, SoundFacts DEF LineageSound
  <2>4. IsFiniteSet(Children(t, elected)) /\ Cardinality(Children(t, elected)) \in Nat
    BY <2>3, LineageFinite
  <2>5. Cardinality(Children(t, elected)) # 0
    <3>1. Children(t, elected) # {}
      BY <2>2
    <3> QED BY <2>4, <3>1, FS_EmptySet
  <2>6. Cardinality(Pending(<<>>, elected)) \in Nat
    <3>1. <<>> \in Seq(WorkOps)
      OBVIOUS
    <3> QED BY <3>1, PendingFinite
  <2>7. t.lineage[elected].refs >= (IF IsPhysical(t, elected) THEN 1 ELSE 0)
               + Cardinality(Children(t, elected)) + Cardinality(Pending(<<>>, elected))
    BY <2>1, <2>3 DEF RefsCover
  <2>8. t.lineage[elected].refs \in Nat
    BY <2>1, <2>3, EntryFacts
  <2> QED BY <2>1, <2>4, <2>5, <2>6, <2>7, <2>8
<1>18. Surplus(t) = Surplus(s) + Cardinality(all)
  BY <1>4, <1>7, <1>12, <1>16
<1>19. t.leaky = With(With(s.leaky, c, new), elected, new)
  BY <1>5, <1>7, <1>10, <1>16 DEF leaky
<1> QED BY <1>4, <1>5, <1>6, <1>7, <1>10, <1>16, <1>17, <1>18, <1>19

\* insert_chunk compacts a chunk with the one elected.
LEMMA InsertCompactedFacts ==
    ASSUME NEW s, StoreInv(s), NEW c \in DOMAIN s.lineage, c \notin DOMAIN s.physical,
           NEW elected \in TemporalPhysical(s), NEW new, new = NextId(s),
           NEW all, IsChunk(all), ~IsStatic(all)
    PROVE  LET o == InsertCompacted(s, c, elected, new, all)
           IN  /\ StoreInv(o.store) /\ Surplus(o.store) = Surplus(s) /\ Told(s, o)
               /\ o.store.lastId = new
               /\ DOMAIN o.store.physical = (DOMAIN s.physical \ {elected}) \cup {new}
               /\ o.store.physical[new] = all
               /\ \A x \in DOMAIN s.physical \ {elected} : o.store.physical[x] = s.physical[x]
               /\ \A x \in DOMAIN o.store.leaky :
                    \/ x \in {c, elected} /\ o.store.leaky[x] = new
                    \/ x \in DOMAIN s.leaky /\ o.store.leaky[x] = s.leaky[x]
               /\ DOMAIN o.store.dangling \subseteq DOMAIN s.dangling
               /\ \A x \in DOMAIN o.store.dangling : o.store.dangling[x] = s.dangling[x]
<1> DEFINE u == Compacted(s, c, elected, new, all)
           chunks == <<<<elected, s.physical[elected]>>>>
           d == RemoveChunksDeep(u, chunks)
           v == d.store
           t == AddPhysical(v, new, all)
           o == InsertCompacted(s, c, elected, new, all)
<1>1. o = Outcome(t, <<Addition(c, new, all, {c, elected})>>)
  BY DEF InsertCompacted
<1>2. o.store = t
  BY <1>1 DEF Outcome
<1> HIDE DEF o
<1>3. /\ s \in Stores /\ s.lastId \in Nat /\ new \in Nat /\ c \in Nat /\ elected \in Nat
      /\ DOMAIN s.physical \subseteq 0..s.lastId /\ elected \in DOMAIN s.physical /\ elected # c
      /\ s.physical[elected] \in SUBSET Rows /\ new = s.lastId + 1
      /\ all \in SUBSET Rows /\ Cardinality(all) \in Nat
      /\ ~IsStatic(s.physical[elected])
  BY SoundFacts, StoreFacts, EntryFacts, ChunkFacts DEF NextId, TemporalPhysical, IsChunk
<1>4. /\ StoreInv(u) /\ Surplus(u) = Surplus(s) + Cardinality(all)
      /\ u.physical = s.physical /\ u.lastId = new
      /\ u.dangling = s.dangling /\ u.leaky = With(With(s.leaky, c, new), elected, new)
      /\ new \in DOMAIN u.virtual /\ u.virtual[new] = all /\ new \in DOMAIN u.lineage
      /\ u.lineage[elected].refs >= 2
  BY <1>3, CompactedFacts
<1> HIDE DEF u
<1>5. elected \in TemporalPhysical(u)
  BY <1>4 DEF TemporalPhysical
<1>6. chunks \in ChunkList /\ Len(chunks) = 1 /\ Temporal(u, chunks) /\ Named(chunks, Len(chunks)) = {elected}
  <2>1. chunks[1] = <<elected, s.physical[elected]>> /\ Len(chunks) = 1 /\ DOMAIN chunks = {1} /\ 1..1 = {1}
    OBVIOUS
  <2>2. <<elected, s.physical[elected]>> \in Nat \X SUBSET Rows
    BY <1>3
  <2>3. chunks \in Seq(Nat \X SUBSET Rows)
    BY <2>2
  <2>4. chunks[1][1] = elected
    BY <2>1
  <2> HIDE DEF chunks
  <2>5. Temporal(u, chunks)
    BY <1>3, <1>4, <2>1, <2>4 DEF Temporal
  <2>6. Named(chunks, Len(chunks)) = {elected}
    BY <2>1, <2>4 DEF Named
  <2> QED BY <2>1, <2>3, <2>5, <2>6 DEF ChunkList
<1>7. /\ StoreInv(v) /\ Shrinks(u, v) /\ DOMAIN v.physical = DOMAIN u.physical \ {elected}
      /\ v.lineage = RemoveChunksShallow(u, chunks).store.lineage
      /\ DOMAIN v.virtual = DOMAIN RemoveChunksShallow(u, chunks).store.virtual \ {elected}
  <2> HIDE DEF chunks
  <2>1. LET ids == Named(chunks, Len(chunks))
        IN  /\ StoreInv(v) /\ Shrinks(u, v) /\ DOMAIN v.physical = DOMAIN u.physical \ ids
            /\ v.lineage = RemoveChunksShallow(u, chunks).store.lineage
            /\ DOMAIN v.virtual = DOMAIN RemoveChunksShallow(u, chunks).store.virtual \ ids
    BY <1>4, <1>6, DeepFacts
  <2> QED BY <1>6, <2>1
<1>8. /\ DOMAIN RemoveChunksShallow(u, chunks).store.lineage = DOMAIN u.lineage
      /\ RemoveChunksShallow(u, chunks).store.virtual = u.virtual
  BY <1>4, <1>5, OneShallow
<1> HIDE DEF v, chunks, d
<1>9. new \in DOMAIN v.lineage /\ new \notin DOMAIN v.physical /\ new # elected
  BY <1>3, <1>4, <1>7, <1>8
<1>10. new \in DOMAIN v.virtual /\ v.virtual[new] = all /\ Surplus(v) = Surplus(u) /\ v.lastId = new
  <2>1. new \in DOMAIN v.virtual
    BY <1>4, <1>7, <1>8, <1>9
  <2> QED BY <1>4, <1>7, <2>1 DEF Shrinks
<1>11. new \notin Roots
  <2>1. \A x \in Roots : x \in Nat /\ x <= s.lastId
    BY SoundFacts, DataAssumption DEF IdsGiven
  <2> QED BY <1>3, <2>1
<1>12. /\ StoreInv(t) /\ DOMAIN t.physical = DOMAIN v.physical \cup {new} /\ t.physical[new] = all
       /\ \A x \in DOMAIN v.physical : t.physical[x] = v.physical[x]
       /\ Surplus(t) = Surplus(v) - (IF IsStatic(all) THEN 0 ELSE Cardinality(all))
  BY <1>7, <1>9, <1>10, <1>11, PhysicalGrows
<1>13. t.lastId = new /\ t.leaky = v.leaky /\ t.dangling = v.dangling
  BY <1>3, <1>7, <1>9, <1>10, SoundFacts, AddPhysicalFacts
<1> HIDE DEF t
<1>14. Surplus(s) \in Int
  BY <1>3, HeldFinite, StoreFacts DEF Surplus
<1>15. Surplus(t) = Surplus(s)
  BY <1>3, <1>4, <1>10, <1>12, <1>14
<1>16. DOMAIN t.physical = (DOMAIN s.physical \ {c, elected}) \cup {new}
  BY <1>4, <1>7, <1>12
<1>17. Told(s, o)
  <2>1. {c, elected} \in SUBSET Nat
    BY <1>3
  <2> QED BY <1>1, <1>3, <1>16, <2>1, AdditionTold
<1>18. /\ DOMAIN t.physical = (DOMAIN s.physical \ {elected}) \cup {new}
       /\ \A x \in DOMAIN s.physical \ {elected} : t.physical[x] = s.physical[x]
  BY <1>4, <1>7, <1>12 DEF Shrinks
<1>19. ASSUME NEW x \in DOMAIN t.leaky
       PROVE  \/ x \in {c, elected} /\ t.leaky[x] = new
              \/ x \in DOMAIN s.leaky /\ t.leaky[x] = s.leaky[x]
  <2>1. x \in DOMAIN u.leaky /\ t.leaky[x] = u.leaky[x]
    BY <1>7, <1>13 DEF Shrinks
  <2> QED BY <1>4, <2>1 DEF With
<1>20. /\ DOMAIN t.dangling \subseteq DOMAIN s.dangling
       /\ \A x \in DOMAIN t.dangling : t.dangling[x] = s.dangling[x]
  BY <1>4, <1>7, <1>13 DEF Shrinks
<1> QED BY <1>2, <1>12, <1>13, <1>15, <1>17, <1>18, <1>19, <1>20 DEF o

-----------------------------------------------------------------------------
(* The rows that stay *)

\* K says which rows every identifier stands for: a root for its own, a chunk
\* compacted into another for no more than that one. A physical chunk holds them.
Carries(s, K) ==
    /\ \A c \in Roots : K[c] = ChunkRows[c]
    /\ \A x \in DOMAIN s.leaky :
        /\ x <= s.lastId /\ s.leaky[x] <= s.lastId
        /\ s.leaky[x] \notin Roots /\ K[x] \subseteq K[s.leaky[x]]
    /\ \A x \in DOMAIN s.physical : K[x] \subseteq s.physical[x]

\* The splits of a root hold rows of that root only.
SplitsInside(s) ==
    \A c \in DOMAIN s.dangling : \A y \in s.dangling[c] :
        /\ y <= s.lastId
        /\ c \in Roots /\ y \in DOMAIN s.physical => s.physical[y] \subseteq ChunkRows[c]

\* What finds the rows of a root again after splits and compactions.
RowsSound(s) == SplitsInside(s) /\ \E K \in [Nat -> SUBSET Rows] : Carries(s, K)

\* No chunk was compacted or split into c.
Fresh(s, c) ==
    /\ \A x \in DOMAIN s.leaky : s.leaky[x] # c
    /\ \A x \in DOMAIN s.dangling : c \notin s.dangling[x]

\* Chunks and notes are lost, none changes.
Thins(s, t) ==
    /\ DOMAIN t.physical \subseteq DOMAIN s.physical
    /\ \A c \in DOMAIN t.physical : t.physical[c] = s.physical[c]
    /\ DOMAIN t.leaky \subseteq DOMAIN s.leaky
    /\ \A c \in DOMAIN t.leaky : t.leaky[c] = s.leaky[c]
    /\ DOMAIN t.dangling \subseteq DOMAIN s.dangling
    /\ \A c \in DOMAIN t.dangling : t.dangling[c] = s.dangling[c]
    /\ t.lastId >= s.lastId

\* Nothing is lost.
LEMMA ThinsItself ==
    ASSUME NEW s, StoreInv(s)
    PROVE  Thins(s, s)
<1>1. s.lastId \in Nat
  BY SoundFacts
<1> QED BY <1>1 DEF Thins

\* Losing chunks twice is losing chunks.
LEMMA ThinsMore ==
    ASSUME NEW s \in Stores, NEW t \in Stores, NEW u \in Stores, Thins(s, t), Thins(t, u)
    PROVE  Thins(s, u)
<1>1. s.lastId \in Nat /\ t.lastId \in Nat /\ u.lastId \in Nat
  BY StoreFacts
<1>2. u.lastId >= s.lastId
  BY <1>1 DEF Thins
<1> QED BY <1>2 DEF Thins

\* A removal loses chunks.
LEMMA ShrinksThins ==
    ASSUME NEW s \in Stores, NEW t, Shrinks(s, t)
    PROVE  Thins(s, t)
<1>1. s.lastId \in Nat /\ t.lastId = s.lastId
  BY StoreFacts DEF Shrinks
<1> QED BY <1>1 DEF Shrinks, Thins

\* The identifiers in the store's notes are numbers.
LEMMA NoteFacts ==
    ASSUME NEW s \in Stores
    PROVE  /\ DOMAIN s.leaky \subseteq Nat /\ \A x \in DOMAIN s.leaky : s.leaky[x] \in Nat
           /\ \A c \in DOMAIN s.dangling : \A y \in s.dangling[c] : y \in Nat
           /\ DOMAIN s.physical \subseteq Nat /\ s.lastId \in Nat
           /\ \A c \in DOMAIN s.physical : s.physical[c] \in SUBSET Rows
<1>1. s.leaky \in Partial(Nat, Nat)
  BY StoreFacts DEF LeakyMaps
<1>2. DOMAIN s.leaky \subseteq Nat /\ s.leaky \in [DOMAIN s.leaky -> Nat]
  BY <1>1, PartialFacts
<1> QED BY <1>2, StoreFacts

\* Losing chunks loses no row that another chunk is to hold.
LEMMA ThinsKeeps ==
    ASSUME NEW s \in Stores, NEW t \in Stores, Thins(s, t), RowsSound(s)
    PROVE  RowsSound(t)
<1>1. PICK K \in [Nat -> SUBSET Rows] : Carries(s, K)
  BY DEF RowsSound
<1>2. SplitsInside(s)
  BY DEF RowsSound
<1>3. s.lastId \in Nat /\ t.lastId \in Nat /\ t.lastId >= s.lastId
  BY NoteFacts DEF Thins
<1>4. SplitsInside(t)
  <2>1. SUFFICES ASSUME NEW c \in DOMAIN t.dangling, NEW y \in t.dangling[c]
                 PROVE  /\ y <= t.lastId
                        /\ c \in Roots /\ y \in DOMAIN t.physical => t.physical[y] \subseteq ChunkRows[c]
    BY DEF SplitsInside
  <2>2. c \in DOMAIN s.dangling /\ y \in s.dangling[c] /\ y \in Nat
    BY NoteFacts DEF Thins
  <2>3. y <= t.lastId
    BY <1>2, <1>3, <2>2 DEF SplitsInside
  <2> QED BY <1>2, <2>2, <2>3 DEF SplitsInside, Thins
<1>5. Carries(t, K)
  <2>1. ASSUME NEW x \in DOMAIN t.leaky
        PROVE  /\ x <= t.lastId /\ t.leaky[x] <= t.lastId
               /\ t.leaky[x] \notin Roots /\ K[x] \subseteq K[t.leaky[x]]
    <3>1. x \in DOMAIN s.leaky /\ t.leaky[x] = s.leaky[x] /\ x \in Nat /\ s.leaky[x] \in Nat
      BY NoteFacts DEF Thins
    <3>2. x <= s.lastId /\ s.leaky[x] <= s.lastId /\ s.leaky[x] \notin Roots /\ K[x] \subseteq K[s.leaky[x]]
      BY <1>1, <3>1 DEF Carries
    <3> QED BY <1>3, <3>1, <3>2
  <2>2. \A x \in DOMAIN t.physical : K[x] \subseteq t.physical[x]
    BY <1>1 DEF Carries, Thins
  <2> QED BY <1>1, <2>1, <2>2 DEF Carries
<1> QED BY <1>4, <1>5 DEF RowsSound

\* A fresh chunk stays fresh.
LEMMA ThinsFresh ==
    ASSUME NEW s, NEW t, Thins(s, t), NEW c, Fresh(s, c)
    PROVE  Fresh(t, c)
BY DEF Thins, Fresh

\* Nothing is ever compacted or split into a root.
LEMMA RootsFresh ==
    ASSUME NEW s, StoreInv(s), RowsSound(s), NEW c \in Roots
    PROVE  Fresh(s, c)
<1>1. PICK K \in [Nat -> SUBSET Rows] : Carries(s, K)
  BY DEF RowsSound
<1>2. \A x \in DOMAIN s.leaky : s.leaky[x] \notin Roots
  BY <1>1 DEF Carries
<1>3. SplitsSound(s)
  BY SoundFacts
<1> QED BY <1>2, <1>3 DEF Fresh, SplitsSound

\* A chunk that is stored as it is stands for its own rows, or for none.
LEMMA AloneKeepsRows ==
    ASSUME NEW s \in Stores, RowsSound(s), NEW t \in Stores, NEW c \in Nat, Fresh(s, c), NEW rows,
           c \in Roots => rows = ChunkRows[c],
           t.physical = With(s.physical, c, rows), t.leaky = s.leaky, t.dangling = s.dangling,
           t.lastId = s.lastId
    PROVE  RowsSound(t)
<1>1. PICK K \in [Nat -> SUBSET Rows] : Carries(s, K)
  BY DEF RowsSound
<1>2. SplitsInside(s)
  BY DEF RowsSound
<1>3. DOMAIN t.physical = DOMAIN s.physical \cup {c} /\ t.physical[c] = rows
  BY DEF With
<1>4. \A x \in DOMAIN s.physical : x # c => t.physical[x] = s.physical[x]
  BY DEF With
<1>5. SplitsInside(t)
  BY <1>2, <1>3, <1>4 DEF SplitsInside, Fresh
<1> DEFINE L == [x \in Nat |-> IF x = c /\ c \notin Roots THEN {} ELSE K[x]]
<1>6. /\ L \in [Nat -> SUBSET Rows] /\ \A x \in Nat : x # c \/ c \in Roots => L[x] = K[x]
      /\ c \notin Roots => L[c] = {}
  OBVIOUS
<1> HIDE DEF L
<1>7. \A x \in Roots : L[x] = ChunkRows[x]
  BY <1>1, <1>6, DataAssumption DEF Carries
<1>8. ASSUME NEW x \in DOMAIN t.leaky
      PROVE  /\ x <= t.lastId /\ t.leaky[x] <= t.lastId
             /\ t.leaky[x] \notin Roots /\ L[x] \subseteq L[t.leaky[x]]
  <2>1. x \in DOMAIN s.leaky /\ x \in Nat /\ s.leaky[x] \in Nat /\ s.leaky[x] # c
    BY NoteFacts DEF Fresh
  <2>2. x <= s.lastId /\ s.leaky[x] <= s.lastId /\ s.leaky[x] \notin Roots /\ K[x] \subseteq K[s.leaky[x]]
    BY <1>1, <2>1 DEF Carries
  <2>3. L[s.leaky[x]] = K[s.leaky[x]] /\ L[x] \subseteq K[x]
    BY <1>6, <2>1
  <2> QED BY <2>2, <2>3
<1>9. ASSUME NEW x \in DOMAIN t.physical PROVE L[x] \subseteq t.physical[x]
  <2>1. x \in Nat
    BY NoteFacts
  <2>2. CASE x = c
    BY <1>3, <1>6, <1>7, <2>2
  <2>3. CASE x # c
    BY <1>1, <1>3, <1>4, <1>6, <2>1, <2>3 DEF Carries
  <2> QED BY <2>2, <2>3
<1>10. Carries(t, L)
  BY <1>7, <1>8, <1>9 DEF Carries
<1> QED BY <1>5, <1>6, <1>10 DEF RowsSound

\* A compacted chunk stands for all it was made of.
LEMMA CompactionKeepsRows ==
    ASSUME NEW s, StoreInv(s), RowsSound(s), NEW t \in Stores, NEW c \in Nat, c <= s.lastId, Fresh(s, c),
           NEW rows \in SUBSET Rows, c \in Roots => rows = ChunkRows[c],
           NEW elected \in DOMAIN s.physical, NEW new, new = s.lastId + 1, t.lastId = new,
           \A x \in DOMAIN t.physical :
               \/ x = new /\ t.physical[x] = rows \cup s.physical[elected]
               \/ x \in DOMAIN s.physical /\ t.physical[x] = s.physical[x],
           \A x \in DOMAIN t.leaky :
               \/ x \in {c, elected} /\ t.leaky[x] = new
               \/ x \in DOMAIN s.leaky /\ t.leaky[x] = s.leaky[x],
           DOMAIN t.dangling \subseteq DOMAIN s.dangling,
           \A x \in DOMAIN t.dangling : t.dangling[x] = s.dangling[x]
    PROVE  RowsSound(t)
<1>1. PICK K \in [Nat -> SUBSET Rows] : Carries(s, K)
  BY DEF RowsSound
<1>2. SplitsInside(s)
  BY DEF RowsSound
<1>3. /\ s \in Stores /\ s.lastId \in Nat /\ DOMAIN s.physical \subseteq 0..s.lastId /\ new \in Nat
      /\ s.physical[elected] \in SUBSET Rows /\ elected \in Nat /\ elected <= s.lastId
  BY SoundFacts, StoreFacts
<1>4. \A x \in Roots : x \in Nat /\ x <= s.lastId /\ x # new
  BY <1>3, SoundFacts, DataAssumption DEF IdsGiven
<1> DEFINE all == rows \cup s.physical[elected]
           L == [x \in Nat |-> IF x = new THEN all ELSE IF x = c /\ c \notin Roots THEN {} ELSE K[x]]
<1>5. all \in SUBSET Rows
  BY <1>3
<1> HIDE DEF all
<1>6. /\ L \in [Nat -> SUBSET Rows] /\ L[new] = all
      /\ \A x \in Nat : x # new /\ (x # c \/ c \in Roots) => L[x] = K[x]
      /\ c # new /\ c \notin Roots => L[c] = {}
      /\ c # new
  BY <1>3, <1>5
<1> HIDE DEF L
<1>7. \A x \in Nat : x # new => L[x] \subseteq K[x]
  BY <1>6
<1>8. \A x \in Roots : L[x] = ChunkRows[x]
  BY <1>1, <1>4, <1>6 DEF Carries
<1>9. SplitsInside(t)
  <2>1. SUFFICES ASSUME NEW z \in DOMAIN t.dangling, NEW y \in t.dangling[z]
                 PROVE  /\ y <= t.lastId
                        /\ z \in Roots /\ y \in DOMAIN t.physical => t.physical[y] \subseteq ChunkRows[z]
    BY DEF SplitsInside
  <2>2. z \in DOMAIN s.dangling /\ y \in s.dangling[z] /\ y \in Nat
    BY NoteFacts
  <2>3. y <= s.lastId
    BY <1>2, <2>2 DEF SplitsInside
  <2>4. y <= t.lastId /\ y # new
    BY <1>3, <2>2, <2>3
  <2> QED BY <1>2, <2>2, <2>4 DEF SplitsInside
<1>10. ASSUME NEW x \in DOMAIN t.leaky
       PROVE  /\ x <= t.lastId /\ t.leaky[x] <= t.lastId
              /\ t.leaky[x] \notin Roots /\ L[x] \subseteq L[t.leaky[x]]
  <2>1. CASE x \in {c, elected} /\ t.leaky[x] = new
    <3>1. x \in Nat /\ x <= s.lastId /\ x # new
      BY <1>3, <2>1
    <3>2. L[x] \subseteq all
      <4>1. CASE x = c /\ c \in Roots
        BY <1>8, <4>1 DEF all
      <4>2. CASE x = c /\ c \notin Roots
        BY <1>6, <4>2
      <4>3. CASE x = elected
        <5>1. K[x] \subseteq s.physical[elected]
          BY <1>1, <4>3 DEF Carries
        <5> QED BY <1>7, <3>1, <5>1 DEF all
      <4> QED BY <2>1, <4>1, <4>2, <4>3
    <3>3. x <= t.lastId /\ new <= t.lastId /\ new \notin Roots
      BY <1>3, <1>4, <3>1
    <3> QED BY <1>6, <2>1, <3>2, <3>3
  <2>2. CASE x \in DOMAIN s.leaky /\ t.leaky[x] = s.leaky[x]
    <3>1. x \in Nat /\ s.leaky[x] \in Nat /\ s.leaky[x] # c
      BY <1>3, <2>2, NoteFacts DEF Fresh
    <3>2. x <= s.lastId /\ s.leaky[x] <= s.lastId /\ s.leaky[x] \notin Roots /\ K[x] \subseteq K[s.leaky[x]]
      BY <1>1, <2>2 DEF Carries
    <3>3. x # new /\ s.leaky[x] # new /\ x <= t.lastId /\ s.leaky[x] <= t.lastId
      BY <1>3, <3>1, <3>2
    <3>4. L[s.leaky[x]] = K[s.leaky[x]] /\ L[x] \subseteq K[x]
      BY <1>6, <1>7, <3>1, <3>3
    <3> QED BY <2>2, <3>2, <3>3, <3>4
  <2> QED BY <2>1, <2>2
<1>11. ASSUME NEW x \in DOMAIN t.physical PROVE L[x] \subseteq t.physical[x]
  <2>1. CASE x = new /\ t.physical[x] = all
    BY <1>6, <2>1
  <2>2. CASE x \in DOMAIN s.physical /\ t.physical[x] = s.physical[x]
    <3>1. x \in Nat /\ x # new
      BY <1>3, <2>2
    <3>2. K[x] \subseteq s.physical[x]
      BY <1>1, <2>2 DEF Carries
    <3> QED BY <1>7, <2>2, <3>1, <3>2
  <2> QED BY <2>1, <2>2 DEF all
<1>12. Carries(t, L)
  BY <1>8, <1>10, <1>11 DEF Carries
<1> QED BY <1>6, <1>9, <1>12 DEF RowsSound

\* The splits of a chunk hold its rows, and stand for none.
LEMMA SplitsKeepRows ==
    ASSUME NEW s, StoreInv(s), RowsSound(s), NEW t \in Stores, NEW c, NEW rows,
           c \in Roots => rows = ChunkRows[c], t.lastId >= s.lastId,
           NEW ids \in SUBSET Nat, \A x \in ids : x > s.lastId /\ x <= t.lastId,
           \A x \in DOMAIN t.physical :
               \/ x \in ids /\ t.physical[x] \subseteq rows
               \/ x \in DOMAIN s.physical /\ t.physical[x] = s.physical[x],
           t.leaky = s.leaky, t.dangling = With(s.dangling, c, ids)
    PROVE  RowsSound(t)
<1>1. PICK K \in [Nat -> SUBSET Rows] : Carries(s, K)
  BY DEF RowsSound
<1>2. SplitsInside(s)
  BY DEF RowsSound
<1>3. s \in Stores /\ s.lastId \in Nat /\ t.lastId \in Nat /\ DOMAIN s.physical \subseteq 0..s.lastId
  BY SoundFacts, StoreFacts
<1>4. \A x \in Roots : x \in Nat /\ x <= s.lastId /\ x \notin ids
  <2>1. \A x \in Roots : x \in Nat /\ x <= s.lastId
    BY SoundFacts, DataAssumption DEF IdsGiven
  <2> QED BY <1>3, <2>1
<1> DEFINE L == [x \in Nat |-> IF x \in ids THEN {} ELSE K[x]]
<1>6. /\ L \in [Nat -> SUBSET Rows] /\ \A x \in ids : L[x] = {}
      /\ \A x \in Nat : x \notin ids => L[x] = K[x]
  OBVIOUS
<1> HIDE DEF L
<1>7. \A x \in Nat : L[x] \subseteq K[x]
  BY <1>6
<1>8. \A x \in Roots : L[x] = ChunkRows[x]
  BY <1>1, <1>4, <1>6 DEF Carries
<1>9. SplitsInside(t)
  <2>1. SUFFICES ASSUME NEW z \in DOMAIN t.dangling, NEW y \in t.dangling[z]
                 PROVE  /\ y <= t.lastId
                        /\ z \in Roots /\ y \in DOMAIN t.physical => t.physical[y] \subseteq ChunkRows[z]
    BY DEF SplitsInside
  <2>2. CASE z = c
    <3>1. y \in ids
      BY <2>2 DEF With
    <3>2. y \notin DOMAIN s.physical
      BY <1>3, <3>1
    <3> QED BY <2>2, <3>1, <3>2
  <2>3. CASE z # c
    <3>1. z \in DOMAIN s.dangling /\ t.dangling[z] = s.dangling[z]
      BY <2>3 DEF With
    <3>2. y \in Nat /\ y <= s.lastId
      BY <1>2, <1>3, <3>1, NoteFacts DEF SplitsInside
    <3>3. y \notin ids /\ y <= t.lastId
      BY <1>3, <3>2
    <3> QED BY <1>2, <3>1, <3>3 DEF SplitsInside
  <2> QED BY <2>2, <2>3
<1>10. ASSUME NEW x \in DOMAIN t.leaky
       PROVE  /\ x <= t.lastId /\ t.leaky[x] <= t.lastId
              /\ t.leaky[x] \notin Roots /\ L[x] \subseteq L[t.leaky[x]]
  <2>1. x \in DOMAIN s.leaky /\ t.leaky[x] = s.leaky[x] /\ x \in Nat /\ s.leaky[x] \in Nat
    BY <1>3, NoteFacts
  <2>2. x <= s.lastId /\ s.leaky[x] <= s.lastId /\ s.leaky[x] \notin Roots /\ K[x] \subseteq K[s.leaky[x]]
    BY <1>1, <2>1 DEF Carries
  <2>3. s.leaky[x] \notin ids /\ x <= t.lastId /\ s.leaky[x] <= t.lastId
    BY <1>3, <2>1, <2>2
  <2> QED BY <1>6, <1>7, <2>1, <2>2, <2>3
<1>11. ASSUME NEW x \in DOMAIN t.physical PROVE L[x] \subseteq t.physical[x]
  <2>1. CASE x \in ids
    BY <1>6, <2>1
  <2>2. CASE x \in DOMAIN s.physical /\ t.physical[x] = s.physical[x]
    <3>1. x \in Nat /\ K[x] \subseteq s.physical[x]
      BY <1>1, <1>3, <2>2 DEF Carries
    <3> QED BY <1>7, <2>2, <3>1
  <2> QED BY <2>1, <2>2
<1>12. Carries(t, L)
  BY <1>8, <1>10, <1>11 DEF Carries
<1> QED BY <1>6, <1>9, <1>12 DEF RowsSound

\* One step along the leaky compactions, as the step of a recursion.
ReachOp(cx, R, n) == R \cup {cx[1].leaky[x] : x \in R \cap DOMAIN cx[1].leaky}

\* After n steps from the root cx[2]: every identifier stands for the root's rows.
ReachKept(cx, n, R) == \A x \in R : x \in Nat /\ cx[3][cx[2]] \subseteq cx[3][x]

\* The recursion of the later compactions, with that invariant.
Reach == INSTANCE FoldFacts WITH Op <- ReachOp, Inv <- ReachKept

\* The induction that Reach goes by.
LEMMA ReachInduction == Reach!NatInduction
BY NatSetInduction DEF Reach!NatInduction

\* The compactions that are found for a root hold its rows.
LEMMA CompactionsHold ==
    ASSUME NEW s \in Stores, RowsSound(s), NEW c \in Roots,
           NEW x \in LaterCompactions(s, c), x \in DOMAIN s.physical
    PROVE  ChunkRows[c] \subseteq s.physical[x]
<1>1. PICK K \in [Nat -> SUBSET Rows] : Carries(s, K)
  BY DEF RowsSound
<1> DEFINE cx == <<s, c, K>>
           base == {c}
           n == Cardinality(DOMAIN s.leaky)
<1>2. LaterCompactions(s, c) = Reach!Recursion(cx, base)[n] \ {c}
  BY DEF LaterCompactions, Reach!Recursion, ReachOp
<1>3. cx[1] = s /\ cx[2] = c /\ cx[3] = K
  OBVIOUS
<1>4. n \in Nat
  <2>1. DOMAIN s.leaky \subseteq 0..s.lastId /\ s.lastId \in Nat
    BY <1>1, NoteFacts DEF Carries
  <2>2. IsFiniteSet(0..s.lastId)
    BY <2>1, FS_Interval
  <2> QED BY <2>1, <2>2, FS_Subset, FS_CardinalityType
<1>5. ReachKept(cx, 0, base)
  BY <1>3, DataAssumption DEF ReachKept
<1> HIDE DEF cx, base, n
<1>6. \A R : \A i \in Nat : ReachKept(cx, i, R) => ReachKept(cx, i + 1, ReachOp(cx, R, i + 1))
  <2>1. SUFFICES ASSUME NEW R, NEW i \in Nat, ReachKept(cx, i, R), NEW y \in ReachOp(cx, R, i + 1)
                 PROVE  y \in Nat /\ K[c] \subseteq K[y]
    BY <1>3 DEF ReachKept
  <2>2. \A z \in R : z \in Nat /\ K[c] \subseteq K[z]
    BY <1>3, <2>1 DEF ReachKept
  <2>3. CASE y \in R
    BY <2>2, <2>3
  <2>4. CASE \E z \in R \cap DOMAIN s.leaky : y = s.leaky[z]
    <3>1. PICK z \in R \cap DOMAIN s.leaky : y = s.leaky[z]
      BY <2>4
    <3>2. y \in Nat /\ K[z] \subseteq K[y]
      BY <1>1, <3>1, NoteFacts DEF Carries
    <3> QED BY <2>2, <3>1, <3>2
  <2> QED BY <1>3, <2>1, <2>3, <2>4 DEF ReachOp
<1>7. ReachKept(cx, n, Reach!Recursion(cx, base)[n])
  <2>1. \A i \in Nat : ReachKept(cx, i, Reach!Recursion(cx, base)[i])
    BY <1>5, <1>6, ReachInduction, Reach!NatRecursion
  <2> QED BY <1>4, <2>1
<1>8. K[c] \subseteq K[x]
  BY <1>2, <1>3, <1>7 DEF ReachKept
<1> QED BY <1>1, <1>8 DEF Carries

\* A row is held by a temporal chunk.
LEMMA TemporalRow ==
    ASSUME NEW s, NEW r
    PROVE  r \in TemporalRows(s) <=> \E x \in DOMAIN s.physical : ~IsStatic(s.physical[x]) /\ r \in s.physical[x]
BY DEF TemporalRows, TemporalPhysical

\* A temporal chunk more.
LEMMA StockedRows ==
    ASSUME NEW s, NEW t, NEW c, c \notin DOMAIN s.physical, NEW rows, ~IsStatic(rows),
           t.physical = With(s.physical, c, rows)
    PROVE  TemporalRows(t) = TemporalRows(s) \cup rows
<1>1. DOMAIN t.physical = DOMAIN s.physical \cup {c} /\ t.physical[c] = rows
  BY DEF With
<1>2. \A x \in DOMAIN s.physical : t.physical[x] = s.physical[x]
  BY DEF With
<1>3. \A r : r \in TemporalRows(t) <=> r \in TemporalRows(s) \/ r \in rows
  BY <1>1, <1>2, TemporalRow
<1> QED BY <1>3

-----------------------------------------------------------------------------
(* What the operations keep *)

\* What every operation keeps, and that its diffs tell what it did.
Kept(s, o) ==
    /\ StoreInv(o.store) /\ Surplus(o.store) = Surplus(s) /\ Told(s, o)
    /\ RowsSound(s) => RowsSound(o.store)
    /\ o.store.lastId >= s.lastId

\* One operation after another.
LEMMA KeptAfter ==
    ASSUME NEW s, s.lastId \in Nat, NEW o, NEW p, Kept(s, o), Kept(o.store, p)
    PROVE  Kept(s, After(o.diffs, p)) /\ After(o.diffs, p).store = p.store
<1>1. Told(s, After(o.diffs, p)) /\ After(o.diffs, p).store = p.store
  BY ToldAfter DEF Kept
<1>2. o.store.lastId \in Nat /\ p.store.lastId \in Nat
  BY SoundFacts DEF Kept
<1>3. p.store.lastId >= s.lastId
  BY <1>2 DEF Kept
<1> QED BY <1>1, <1>3 DEF Kept

\* Nothing happened.
LEMMA NothingKept ==
    ASSUME NEW s, StoreInv(s)
    PROVE  Kept(s, Outcome(s, <<>>)) /\ Outcome(s, <<>>).store = s /\ Outcome(s, <<>>).diffs = <<>>
<1>1. Told(s, Outcome(s, <<>>)) /\ Outcome(s, <<>>).store = s /\ Outcome(s, <<>>).diffs = <<>>
  BY NothingTold
<1>2. s.lastId \in Nat
  BY SoundFacts
<1> QED BY <1>1, <1>2 DEF Kept

\* insert_chunk stores a temporal chunk that is small enough.
LEMMA InsertTemporalFacts ==
    ASSUME NEW s, StoreInv(s), NEW c \in DOMAIN s.lineage, c \notin DOMAIN s.physical, NEW rows, IsChunk(rows),
           ~IsStatic(rows), c \in Roots => rows = ChunkRows[c], c \in Roots \/ Fresh(s, c),
           NEW elected \in CompactionCandidates(s, c, rows)
    PROVE  LET o == InsertTemporal(s, c, rows, elected)
           IN  Kept(s, o) /\ TemporalRows(o.store) = TemporalRows(s) \cup rows
<1> DEFINE o == InsertTemporal(s, c, rows, elected)
<1>0. s.lastId \in Nat /\ s \in Stores /\ c \in Nat /\ c <= s.lastId
  BY SoundFacts, EntryFacts DEF LineageShaped
<1>1. CASE elected = None
  <2>1. o = InsertAlone(s, c, rows)
    BY <1>1 DEF InsertTemporal
  <2> HIDE DEF o
  <2>2. /\ StoreInv(o.store) /\ Surplus(o.store) = Surplus(s) /\ Told(s, o) /\ o.store.lastId = s.lastId
        /\ o.store.physical = With(s.physical, c, rows)
        /\ o.store.leaky = s.leaky /\ o.store.dangling = s.dangling
    BY <2>1, InsertAloneFacts
  <2>3. RowsSound(s) => RowsSound(o.store)
    <3>1. SUFFICES ASSUME RowsSound(s) PROVE RowsSound(o.store)
      OBVIOUS
    <3>2. Fresh(s, c)
      BY <3>1, RootsFresh
    <3>3. o.store \in Stores
      BY <2>2, SoundFacts
    <3> QED BY <1>0, <2>2, <3>1, <3>2, <3>3, AloneKeepsRows
  <2>4. Kept(s, o)
    BY <1>0, <2>2, <2>3 DEF Kept
  <2>5. TemporalRows(o.store) = TemporalRows(s) \cup rows
    BY <2>2, StockedRows
  <2> QED BY <2>4, <2>5 DEF o
<1>2. CASE elected # None
  <2>1. /\ elected \in TemporalPhysical(s) /\ elected # c
        /\ EntityOf(s.physical[elected]) = EntityOf(rows)
    BY <1>2, ElectedFacts
  <2>2. IsChunk(s.physical[elected]) /\ ~IsStatic(s.physical[elected]) /\ elected \in DOMAIN s.physical
    BY <2>1, SoundFacts DEF TemporalPhysical
  <2> DEFINE all == rows \cup s.physical[elected]
             new == NextId(s)
  <2>3. IsChunk(all) /\ ~IsStatic(all)
    BY <2>1, <2>2, UnionOfChunks
  <2>4. o = InsertCompacted(s, c, elected, new, all)
    BY <1>2 DEF InsertTemporal
  <2>5. new = s.lastId + 1
    BY DEF NextId
  <2> HIDE DEF o, all
  <2>6. /\ StoreInv(o.store) /\ Surplus(o.store) = Surplus(s) /\ Told(s, o) /\ o.store.lastId = new
        /\ DOMAIN o.store.physical = (DOMAIN s.physical \ {elected}) \cup {new}
        /\ o.store.physical[new] = all
        /\ \A x \in DOMAIN s.physical \ {elected} : o.store.physical[x] = s.physical[x]
        /\ \A x \in DOMAIN o.store.leaky :
             \/ x \in {c, elected} /\ o.store.leaky[x] = new
             \/ x \in DOMAIN s.leaky /\ o.store.leaky[x] = s.leaky[x]
        /\ DOMAIN o.store.dangling \subseteq DOMAIN s.dangling
        /\ \A x \in DOMAIN o.store.dangling : o.store.dangling[x] = s.dangling[x]
    BY <2>1, <2>3, <2>4, InsertCompactedFacts
  <2> HIDE DEF new
  <2>7. o.store.lastId >= s.lastId
    BY <1>0, <2>5, <2>6
  <2>8. RowsSound(s) => RowsSound(o.store)
    <3>1. SUFFICES ASSUME RowsSound(s) PROVE RowsSound(o.store)
      OBVIOUS
    <3>2. Fresh(s, c)
      BY <3>1, RootsFresh
    <3>3. o.store \in Stores /\ rows \in SUBSET Rows
      BY <2>6, SoundFacts DEF IsChunk
    <3>4. \A x \in DOMAIN o.store.physical :
             \/ x = new /\ o.store.physical[x] = rows \cup s.physical[elected]
             \/ x \in DOMAIN s.physical /\ o.store.physical[x] = s.physical[x]
      BY <2>6 DEF all
    <3>5. PICK t \in Stores : t = o.store
      BY <3>3
    <3>6. /\ t.lastId = new
          /\ \A x \in DOMAIN t.physical :
               \/ x = new /\ t.physical[x] = rows \cup s.physical[elected]
               \/ x \in DOMAIN s.physical /\ t.physical[x] = s.physical[x]
          /\ \A x \in DOMAIN t.leaky :
               \/ x \in {c, elected} /\ t.leaky[x] = new
               \/ x \in DOMAIN s.leaky /\ t.leaky[x] = s.leaky[x]
          /\ DOMAIN t.dangling \subseteq DOMAIN s.dangling
          /\ \A x \in DOMAIN t.dangling : t.dangling[x] = s.dangling[x]
      BY <2>6, <3>4, <3>5
    <3>7. PICK e \in DOMAIN s.physical : e = elected
      BY <2>2
    <3>8. PICK n \in Nat : n = new
      BY <1>0, <2>5
    <3>9. n = s.lastId + 1 /\ t.lastId = n
      BY <2>5, <3>6, <3>8
    <3>10. \A x \in DOMAIN t.physical :
             \/ x = n /\ t.physical[x] = rows \cup s.physical[e]
             \/ x \in DOMAIN s.physical /\ t.physical[x] = s.physical[x]
      BY <3>6, <3>7, <3>8
    <3>11. \A x \in DOMAIN t.leaky :
             \/ x \in {c, e} /\ t.leaky[x] = n
             \/ x \in DOMAIN s.leaky /\ t.leaky[x] = s.leaky[x]
      BY <3>6, <3>7, <3>8
    <3>12. DOMAIN t.dangling \subseteq DOMAIN s.dangling /\ \A x \in DOMAIN t.dangling : t.dangling[x] = s.dangling[x]
      BY <3>6
    <3>13. RowsSound(t)
      BY <1>0, <3>1, <3>2, <3>3, <3>9, <3>10, <3>11, <3>12, CompactionKeepsRows
    <3> QED BY <3>5, <3>13
  <2>9. Kept(s, o)
    BY <2>6, <2>7, <2>8 DEF Kept
  <2>10. TemporalRows(o.store) = TemporalRows(s) \cup rows
    <3>1. new \notin DOMAIN s.physical
      BY <1>0, <2>5, SoundFacts
    <3>a. \A r \in all : r \in TemporalRows(o.store)
      <4>1. new \in DOMAIN o.store.physical /\ o.store.physical[new] = all
        BY <2>6
      <4> QED BY <2>3, <4>1, TemporalRow
    <3>2. \A r : r \in TemporalRows(o.store) => r \in TemporalRows(s) \cup rows
      <4>1. SUFFICES ASSUME NEW r \in TemporalRows(o.store) PROVE r \in TemporalRows(s) \cup rows
        OBVIOUS
      <4>2. PICK x \in DOMAIN o.store.physical : ~IsStatic(o.store.physical[x]) /\ r \in o.store.physical[x]
        BY TemporalRow
      <4>3. CASE x = new
        <5>1. r \in rows \/ r \in s.physical[elected]
          BY <2>6, <4>2, <4>3 DEF all
        <5>2. r \in s.physical[elected] => r \in TemporalRows(s)
          BY <2>2, TemporalRow
        <5> QED BY <5>1, <5>2
      <4>4. CASE x # new
        <5>1. x \in DOMAIN s.physical /\ o.store.physical[x] = s.physical[x]
          BY <2>6, <4>2, <4>4
        <5>2. r \in TemporalRows(s)
          BY <4>2, <5>1, TemporalRow
        <5> QED BY <5>2
      <4> QED BY <4>3, <4>4
    <3>3. \A r \in TemporalRows(s) : r \in TemporalRows(o.store)
      <4>1. SUFFICES ASSUME NEW r \in TemporalRows(s) PROVE r \in TemporalRows(o.store)
        OBVIOUS
      <4>2. PICK x \in DOMAIN s.physical : ~IsStatic(s.physical[x]) /\ r \in s.physical[x]
        BY TemporalRow
      <4>3. CASE x = elected
        BY <3>a, <4>2, <4>3 DEF all
      <4>4. CASE x # elected
        <5>1. x \in DOMAIN o.store.physical /\ o.store.physical[x] = s.physical[x]
          BY <2>6, <4>2, <4>4
        <5> QED BY <4>2, <5>1, TemporalRow
      <4> QED BY <4>3, <4>4
    <3>4. \A r \in rows : r \in TemporalRows(o.store)
      BY <3>a DEF all
    <3> QED BY <3>2, <3>3, <3>4
  <2> QED BY <2>9, <2>10 DEF o
<1> QED BY <1>1, <1>2

-----------------------------------------------------------------------------
(* Static chunks *)

\* The static chunk of an entity is a root, and is one chunk at most.
LEMMA CurrentStaticFacts ==
    ASSUME NEW s, StoreInv(s), NEW e
    PROVE  /\ \A x \in CurrentStatic(s, e) :
                /\ x \in DOMAIN s.physical /\ x \in Roots /\ IsStatic(s.physical[x])
                /\ x \in DOMAIN s.lineage
                /\ s.lineage[x].direct.parents = {} /\ s.lineage[x].direct.siblings = {}
           /\ \A x, y \in CurrentStatic(s, e) : x = y
<1>1. /\ s \in Stores /\ ChunksSound(s) /\ StaticsSound(s) /\ LineageShaped(s)
      /\ \A f \in DOMAIN s.static : s.static[f] \in Roots
  BY SoundFacts, StoreFacts
<1>2. ASSUME NEW x \in CurrentStatic(s, e)
      PROVE  e \in DOMAIN s.static /\ x = s.static[e] /\ x \in DOMAIN s.physical
  BY <1>2 DEF CurrentStatic
<1>3. ASSUME NEW x \in CurrentStatic(s, e)
      PROVE  /\ x \in DOMAIN s.physical /\ x \in Roots /\ IsStatic(s.physical[x])
             /\ x \in DOMAIN s.lineage
             /\ s.lineage[x].direct.parents = {} /\ s.lineage[x].direct.siblings = {}
  <2>1. e \in DOMAIN s.static /\ x = s.static[e] /\ x \in DOMAIN s.physical /\ x \in Roots
    BY <1>1, <1>2
  <2>2. IsStatic(ChunkRows[x]) /\ s.physical[x] = ChunkRows[x]
    BY <1>1, <2>1 DEF StaticsSound, ChunksSound
  <2>3. x \in DOMAIN s.lineage
    BY <1>1, <2>1 DEF LineageShaped
  <2>4. s.lineage[x].direct.kind \in {"volatile", "manifest"}
    BY <1>1, <2>1, <2>3 DEF LineageShaped
  <2>5. s.lineage[x].direct.parents = {} /\ s.lineage[x].direct.siblings = {}
    BY <1>1, <2>3, <2>4 DEF LineageShaped
  <2> QED BY <2>1, <2>2, <2>3, <2>5
<1> QED BY <1>2, <1>3

\* The loser goes, and its entry at most.
LEMMA RemoveStaticFacts ==
    ASSUME NEW s, StoreInv(s), NEW x \in DOMAIN s.physical, x \in Roots, IsStatic(s.physical[x]),
           s.lineage[x].direct.parents = {}, s.lineage[x].direct.siblings = {}
    PROVE  LET t == RemoveStatic(s, x)
           IN  /\ StoreInv(t) /\ Surplus(t) = Surplus(s) /\ DOMAIN t.physical = DOMAIN s.physical \ {x}
               /\ DOMAIN s.lineage \ {x} \subseteq DOMAIN t.lineage
               /\ t.lastId = s.lastId /\ Shrinks(s, t)
<1> DEFINE p == Without(s.physical, {x})
           st == [s.stats EXCEPT !.static = @ - Cardinality(s.physical[x])]
           u == [s EXCEPT !.physical = p, !.stats = st]
           t == DropLineageReference(u, x)
<1>1. /\ s \in Stores /\ s.lastId \in Nat /\ DOMAIN s.physical \subseteq 0..s.lastId
      /\ IsChunk(s.physical[x]) /\ x \in DOMAIN s.lineage /\ x \in Nat /\ LineageSound(s) /\ IndexSound(s)
      /\ s.stats \in Statistics /\ s.stats.static \in Int /\ s.stats.temporal \in Int
      /\ s.physical \in PhysicalMaps
  BY SoundFacts, StoreFacts DEF Stores
<1>2. Cardinality(s.physical[x]) \in Nat
  BY <1>1, ChunkFacts
<1>3. st \in Statistics /\ st.temporal = s.stats.temporal
  BY <1>1, <1>2 DEF Statistics
<1>4. p \in PhysicalMaps
  BY <1>1, WithoutTyped DEF PhysicalMaps
<1>5. t = RemoveStatic(s, x)
  <2>1. u = [s EXCEPT !.physical = Without(@, {x}), !.stats.static = @ - Cardinality(s.physical[x])]
    BY <1>1 DEF Stores
  <2> HIDE DEF u
  <2> QED BY <2>1 DEF RemoveStatic
<1>6. DOMAIN p = DOMAIN s.physical \ {x} /\ \A y \in DOMAIN p : p[y] = s.physical[y]
  <2>1. DOMAIN p = DOMAIN s.physical \ {x}
    BY WithoutFacts
  <2>2. \A y \in DOMAIN s.physical \ {x} : p[y] = s.physical[y]
    BY WithoutFacts
  <2> QED BY <2>1, <2>2
<1>a. Cardinality(Held(p)) = Cardinality(Held(s.physical)) - 0
  <2>1. Cardinality(Held(Without(s.physical, {x})))
           = Cardinality(Held(s.physical)) - (IF IsStatic(s.physical[x]) THEN 0 ELSE Cardinality(s.physical[x]))
    BY <1>1, HeldWithout
  <2> QED BY <2>1
<1>b. Cardinality(Held(s.physical)) \in Nat
  BY <1>1, HeldFinite
<1> HIDE DEF p, st
<1>7. /\ u \in Stores /\ u.physical = p /\ u.virtual = s.virtual /\ u.maxLength = s.maxLength
      /\ u.static = s.static /\ u.lineage = s.lineage /\ u.lastId = s.lastId
      /\ u.dangling = s.dangling /\ u.stats = st /\ u.leaky = s.leaky
  BY <1>1, <1>3, <1>4 DEF Stores
<1> HIDE DEF u
<1>8. LineageShaped(u) /\ RefsCover(u, <<DropRefOp(x)>>)
  BY <1>1, <1>6, <1>7, OneTooMany
<1>9. t \in Stores /\ LineageSound(t) /\ Forgets(u, t)
  BY <1>1, <1>7, <1>8, DropFacts
<1>10. DOMAIN u.lineage \ {x} \subseteq DOMAIN t.lineage
  BY <1>1, <1>7, <1>8, OthersStay
<1> HIDE DEF t
<1>11. Surplus(u) = Surplus(s)
  BY <1>1, <1>3, <1>7, <1>a, <1>b DEF Surplus
<1>12. Shrinks(s, u)
  BY <1>6, <1>7, <1>11 DEF Shrinks
<1>13. Shrinks(s, t)
  BY <1>9, <1>12, ForgetsShrinks, ShrinksMore
<1>14. \A y \in TemporalPhysical(t) : y \in DOMAIN t.virtual
  <2>1. SUFFICES ASSUME NEW y \in TemporalPhysical(t) PROVE y \in DOMAIN t.virtual
    OBVIOUS
  <2>2. t.physical = p /\ t.virtual = s.virtual
    BY <1>7, <1>9 DEF Forgets
  <2>3. y \in TemporalPhysical(s)
    BY <1>6, <2>1, <2>2 DEF TemporalPhysical
  <2> QED BY <1>1, <2>2, <2>3 DEF IndexSound
<1>15. StoreInv(t)
  BY <1>9, <1>13, <1>14, ShrinkKeeps
<1>16. t.physical = p /\ t.lastId = s.lastId /\ Surplus(t) = Surplus(s)
  BY <1>7, <1>9, <1>13 DEF Forgets, Shrinks
<1> QED BY <1>5, <1>6, <1>7, <1>10, <1>13, <1>15, <1>16

\* The static chunk that an insertion overwrites, as the step of a fold.
LoserOp(cx, acc, x) == RemoveStatic(acc, x)

\* There is one loser at most.
LoserKept(cx, done, acc) ==
    /\ done = {} => acc = cx
    /\ \A x : done = {x} => acc = RemoveStatic(cx, x)

\* The fold over the overwritten static chunks, with that invariant.
Losers == INSTANCE FoldFacts WITH Op <- LoserOp, Inv <- LoserKept

\* The induction that Losers goes by.
LEMMA LosersInduction == Losers!NatInduction
BY NatSetInduction DEF Losers!NatInduction

\* A fold over one loser at most is that one removal, or none.
LEMMA LoserFacts ==
    ASSUME NEW s, NEW loser, \A x, y \in loser : x = y
    PROVE  LET t == Losers!AnyFold(s, s, loser)
           IN  /\ loser = {} => t = s
               /\ \A x \in loser : t = RemoveStatic(s, x)
<1> DEFINE t == Losers!AnyFold(s, s, loser)
<1>2. loser = {} \/ \E x : loser = {x}
  OBVIOUS
<1>3. IsFiniteSet(loser)
  BY <1>2, FS_EmptySet, FS_Singleton
<1>4. PICK size \in [SUBSET loser -> Nat] :
         \A d \in SUBSET loser : size[d] <= size[loser] /\ \A x \in d : size[d \ {x}] < size[d]
  BY <1>3, FiniteSizes
<1>5. LoserKept(s, {}, s)
  BY DEF LoserKept
<1>6. \A a : \A d \in SUBSET loser : \A x \in loser \ d :
         LoserKept(s, d, a) => LoserKept(s, d \cup {x}, LoserOp(s, a, x))
  <2>1. SUFFICES ASSUME NEW a, NEW d \in SUBSET loser, NEW x \in loser \ d, LoserKept(s, d, a)
                 PROVE  LoserKept(s, d \cup {x}, RemoveStatic(a, x))
    BY DEF LoserOp
  <2>2. d = {}
    OBVIOUS
  <2>3. a = s
    BY <2>1, <2>2 DEF LoserKept
  <2>4. d \cup {x} = {x}
    BY <2>2
  <2>5. LoserKept(s, {x}, RemoveStatic(s, x))
    BY DEF LoserKept
  <2> QED BY <2>3, <2>4, <2>5
<1>7. LoserKept(s, loser, t)
  BY <1>4, <1>5, <1>6, LosersInduction, Losers!SetFold
<1> HIDE DEF t
<1>8. loser = {} => t = s
  BY <1>7 DEF LoserKept
<1>9. ASSUME NEW x \in loser PROVE t = RemoveStatic(s, x)
  <2>1. loser = {x}
    OBVIOUS
  <2> QED BY <1>7, <2>1 DEF LoserKept
<1> QED BY <1>8, <1>9 DEF t

\* insert_chunk stores a static chunk.
LEMMA InsertStaticFacts ==
    ASSUME NEW s, StoreInv(s), NEW c \in Roots, c \in DOMAIN s.lineage, c \notin DOMAIN s.physical,
           NEW rows, rows = ChunkRows[c], IsStatic(rows)
    PROVE  Kept(s, InsertStatic(s, c, rows))
<1> DEFINE e == EntityOf(rows)
           w == IF Wins(s, rows) THEN With(s.static, e, c) ELSE s.static
           st == [s.stats EXCEPT !.static = @ + Cardinality(rows)]
           s1 == [s EXCEPT !.static = w, !.stats = st]
           loser == Replaced(s, rows)
           u == Losers!AnyFold(s1, s1, loser)
           t == AddPhysical(u, c, rows)
           dels == [i \in 1..Cardinality(loser) |->
                      LET x == CHOOSE y \in loser : TRUE IN Deletion(x, s.physical[x])]
           adds == <<Addition(c, c, rows, {})>>
           o == InsertStatic(s, c, rows)
<1>1. /\ s \in Stores /\ s.lastId \in Nat /\ DOMAIN s.physical \subseteq 0..s.lastId /\ SplitsSound(s)
      /\ s.stats \in Statistics /\ s.stats.static \in Int /\ s.stats.temporal \in Int
      /\ c \in Nat /\ s.static \in StaticMaps
  BY SoundFacts, StoreFacts, DataAssumption DEF Stores
<1>2. IsChunk(rows)
  BY RootsAreChunks
<1>3. e \in Entities /\ Cardinality(rows) \in Nat /\ rows \in SUBSET Rows
  BY <1>2, ChunkFacts DEF IsChunk
<1>4. o.store = t /\ o.diffs = adds \o dels
  <2>1. s1 = [s EXCEPT !.static = IF Wins(s, rows) THEN With(@, EntityOf(rows), c) ELSE @,
                       !.stats.static = @ + Cardinality(rows)]
    BY <1>1 DEF Stores
  <2> HIDE DEF s1, e, w, st
  <2>2. o = Outcome(t, adds \o dels)
    BY <2>1 DEF InsertStatic, FoldSet, MapThenFoldSet, Losers!AnyFold, Losers!Pick, LoserOp
  <2> HIDE DEF o, t, adds, dels
  <2> QED BY <2>2 DEF Outcome
<1>5. st \in Statistics /\ st.temporal = s.stats.temporal
  BY <1>1, <1>3 DEF Statistics
<1>6. /\ StoreInv(s1) /\ Surplus(s1) = Surplus(s) /\ s1.physical = s.physical /\ s1.lineage = s.lineage
      /\ s1.lastId = s.lastId /\ s1.leaky = s.leaky /\ s1.dangling = s.dangling
  <2> DEFINE v == [s EXCEPT !.static = w]
  <2>1. /\ StoreInv(v) /\ v.physical = s.physical /\ v.lineage = s.lineage /\ v.lastId = s.lastId
        /\ v.stats = s.stats /\ v.leaky = s.leaky /\ v.dangling = s.dangling
    <3>1. CASE Wins(s, rows)
      <4>1. v = [s EXCEPT !.static = With(@, e, c)]
        BY <3>1
      <4> HIDE DEF v, e, w
      <4> QED BY <1>3, <4>1, StaticsGrow
    <3>2. CASE ~Wins(s, rows)
      <4>1. v = s
        BY <1>1, <3>2 DEF Stores
      <4> HIDE DEF v
      <4> QED BY <4>1
    <3> QED BY <3>1, <3>2
  <2>2. s1 = [v EXCEPT !.stats = st]
    BY <1>1 DEF Stores
  <2> HIDE DEF v, s1, st
  <2>3. v \in Stores /\ SplitsSound(v)
    BY <2>1, SoundFacts
  <2>4. /\ s1 \in Stores /\ s1.physical = v.physical /\ s1.virtual = v.virtual /\ s1.maxLength = v.maxLength
        /\ s1.static = v.static /\ s1.lineage = v.lineage /\ s1.lastId = v.lastId
        /\ s1.leaky = v.leaky /\ s1.dangling = v.dangling /\ s1.stats = st
    BY <1>5, <2>2, <2>3 DEF Stores
  <2>5. SplitsSound(s1) /\ s1.lastId >= v.lastId
    BY <1>1, <2>1, <2>3, <2>4 DEF SplitsSound
  <2>6. StoreInv(s1)
    BY <2>1, <2>4, <2>5, NotesFrame
  <2>7. Surplus(s1) = Surplus(s)
    BY <1>5, <2>1, <2>4 DEF Surplus
  <2> QED BY <2>1, <2>4, <2>6, <2>7
<1> HIDE DEF s1, st, w
<1>7. /\ \A x \in loser :
           /\ x \in DOMAIN s.physical /\ x \in Roots /\ IsStatic(s.physical[x])
           /\ x \in DOMAIN s.lineage
           /\ s.lineage[x].direct.parents = {} /\ s.lineage[x].direct.siblings = {}
      /\ \A x, y \in loser : x = y
  <2>1. loser \subseteq CurrentStatic(s, e)
    BY DEF Replaced
  <2> HIDE DEF loser, e
  <2>2. /\ \A x \in CurrentStatic(s, e) :
             /\ x \in DOMAIN s.physical /\ x \in Roots /\ IsStatic(s.physical[x])
             /\ x \in DOMAIN s.lineage
             /\ s.lineage[x].direct.parents = {} /\ s.lineage[x].direct.siblings = {}
        /\ \A x, y \in CurrentStatic(s, e) : x = y
    BY CurrentStaticFacts
  <2> QED BY <2>1, <2>2
<1> HIDE DEF loser, e
<1>8. /\ loser = {} => u = s1
      /\ \A x \in loser : u = RemoveStatic(s1, x)
  BY <1>7, LoserFacts
<1> HIDE DEF u
<1>9. /\ StoreInv(u) /\ Surplus(u) = Surplus(s) /\ DOMAIN u.physical = DOMAIN s.physical \ loser
      /\ c \in DOMAIN u.lineage /\ u.lastId = s.lastId /\ Thins(s, u)
  <2>0. Thins(s, s1)
    BY <1>1, <1>6 DEF Thins
  <2>1. CASE loser = {}
    BY <1>6, <1>8, <2>0, <2>1
  <2>2. CASE loser # {}
    <3>1. PICK x \in loser : TRUE
      BY <2>2
    <3>2. loser = {x}
      BY <1>7
    <3>3. u = RemoveStatic(s1, x)
      BY <1>8
    <3>4. /\ x \in DOMAIN s1.physical /\ x \in Roots /\ IsStatic(s1.physical[x])
          /\ s1.lineage[x].direct.parents = {} /\ s1.lineage[x].direct.siblings = {}
      BY <1>6, <1>7
    <3>5. /\ StoreInv(u) /\ Surplus(u) = Surplus(s1) /\ DOMAIN u.physical = DOMAIN s1.physical \ {x}
          /\ DOMAIN s1.lineage \ {x} \subseteq DOMAIN u.lineage /\ u.lastId = s1.lastId
          /\ Shrinks(s1, u)
      BY <1>6, <3>3, <3>4, RemoveStaticFacts
    <3>6. c # x
      BY <1>7
    <3>7. Thins(s, u)
      <4>1. s1 \in Stores /\ u \in Stores
        BY <1>6, <3>5, SoundFacts
      <4> QED BY <1>1, <2>0, <3>5, <4>1, ShrinksThins, ThinsMore
    <3> QED BY <1>6, <3>2, <3>5, <3>6, <3>7
  <2> QED BY <2>1, <2>2
<1>10. c \notin DOMAIN u.physical
  BY <1>9
<1>11. /\ StoreInv(t) /\ DOMAIN t.physical = DOMAIN u.physical \cup {c}
       /\ Surplus(t) = Surplus(u) - (IF IsStatic(rows) THEN 0 ELSE Cardinality(rows))
  BY <1>2, <1>9, <1>10, PhysicalGrows
<1>12. /\ t.lastId = u.lastId /\ t.physical = With(u.physical, c, rows)
       /\ t.leaky = u.leaky /\ t.dangling = u.dangling
  BY <1>3, <1>9, SoundFacts, AddPhysicalFacts
<1> HIDE DEF t
<1>13. Surplus(s) \in Int
  BY <1>1, HeldFinite DEF Surplus
<1>14. Surplus(t) = Surplus(s)
  BY <1>9, <1>11, <1>13
<1>15. dels \in Seq(Deletions) /\ Gone(dels) = loser
  <2>1. CASE loser = {}
    <3>1. Cardinality(loser) = 0
      BY <2>1, FS_EmptySet
    <3>2. dels = <<>>
      BY <3>1
    <3>3. <<>> \in Seq(Deletions) /\ Gone(<<>>) = {}
      BY DEF Gone
    <3> QED BY <2>1, <3>2, <3>3
  <2>2. CASE loser # {}
    <3>1. PICK x \in loser : TRUE
      BY <2>2
    <3>2. loser = {x}
      BY <1>7
    <3>3. Cardinality(loser) = 1
      BY <3>2, FS_Singleton
    <3>4. (CHOOSE y \in loser : TRUE) = x
      BY <3>2
    <3>5. x \in Nat /\ s.physical[x] \in SUBSET Rows
      BY <1>1, <1>7, StoreFacts
    <3>6. dels = [i \in 1..1 |-> Deletion(x, s.physical[x])]
      BY <3>3, <3>4
    <3>7. Deletion(x, s.physical[x]) \in Deletions /\ Deletion(x, s.physical[x]).chunk = x
      BY <3>5 DEF Deletion, Deletions
    <3> HIDE DEF dels
    <3>8. dels \in [1..1 -> Deletions] /\ DOMAIN dels = {1} /\ dels[1].chunk = x
      BY <3>6, <3>7
    <3>9. dels \in Seq(Deletions)
      <4>1. 1 \in Nat
        OBVIOUS
      <4>2. Seq(Deletions) = UNION {[1..m -> Deletions] : m \in Nat}
        BY SeqDef
      <4> QED BY <3>8, <4>1, <4>2
    <3>10. Gone(dels) = {x}
      BY <3>8 DEF Gone
    <3> QED BY <3>2, <3>9, <3>10
  <2> QED BY <2>1, <2>2
<1> HIDE DEF dels
<1>16. Told(s, o)
  <2> DEFINE p == AddPhysical(s, c, rows)
             first == Outcome(p, adds)
             rest == Outcome(t, dels)
  <2>1. DOMAIN p.physical = DOMAIN s.physical \cup {c}
    BY <1>2, PhysicalGrows
  <2> HIDE DEF p
  <2>2. Told(s, first)
    <3>1. DOMAIN p.physical = (DOMAIN s.physical \ {}) \cup {c}
      BY <2>1
    <3> QED BY <1>1, <1>3, <3>1, AdditionTold
  <2>3. first.store = p /\ first.diffs = adds /\ rest.store = t /\ rest.diffs = dels
    BY DEF Outcome
  <2> HIDE DEF first, rest, adds
  <2>4. DOMAIN t.physical = DOMAIN p.physical \ Gone(dels)
    BY <1>9, <1>11, <1>15, <2>1, <1>7
  <2>5. Told(p, rest)
    BY <1>15, <2>3, <2>4, DeletionsTold
  <2>6. Told(s, After(first.diffs, rest))
    BY <2>2, <2>3, <2>5, ToldAfter
  <2>7. After(first.diffs, rest).store = t /\ After(first.diffs, rest).diffs = adds \o dels
    BY <2>3 DEF After, Outcome
  <2> HIDE DEF o
  <2> QED BY <1>4, <2>6, <2>7 DEF Told
<1> HIDE DEF o
<1>17. RowsSound(s) => RowsSound(t)
  <2>1. SUFFICES ASSUME RowsSound(s) PROVE RowsSound(t)
    OBVIOUS
  <2>2. u \in Stores /\ t \in Stores
    BY <1>9, <1>11, SoundFacts
  <2>3. RowsSound(u)
    BY <1>1, <1>9, <2>1, <2>2, ThinsKeeps
  <2>4. Fresh(u, c)
    BY <1>9, <2>3, RootsFresh
  <2> QED BY <1>1, <1>12, <2>2, <2>3, <2>4, AloneKeepsRows
<1> QED BY <1>1, <1>4, <1>9, <1>11, <1>12, <1>14, <1>16, <1>17 DEF Kept, o

-----------------------------------------------------------------------------
(* Splits *)

\* Multiples are ordered as their factors.
LEMMA Multiples ==
    ASSUME NEW m \in Nat, m # 0, NEW i \in Nat, NEW j \in Nat, i <= j
    PROVE  i * m \in Nat /\ j * m \in Nat /\ i * m <= j * m /\ (i + 1) * m = i * m + m
<1>1. i * m \in Nat /\ j * m \in Nat /\ (j - i) * m \in Nat /\ j - i \in Nat
  OBVIOUS
<1>2. j * m = i * m + (j - i) * m
  OBVIOUS
<1>3. (i + 1) * m = i * m + m
  OBVIOUS
<1> QED BY <1>1, <1>2, <1>3

\* split_chunk_if_needed cuts a chunk into parts, none of them empty.
LEMMA SplitsFacts ==
    ASSUME NEW rows, IsChunk(rows)
    PROVE  \E n \in Nat \ {0} :
             /\ DOMAIN Splits(rows) = 1..n /\ Len(Splits(rows)) = n
             /\ \A i \in 1..n : Splits(rows)[i] \in SUBSET rows /\ Splits(rows)[i] # {}
             /\ \A r \in rows : \E i \in 1..n : r \in Splits(rows)[i]
<1> DEFINE seq == Ascending(rows)
           m == ChunkMaxRows
           run(i) == {k \in DOMAIN seq : (i - 1) * m < k /\ k <= i * m}
           N == {i \in DOMAIN seq : run(i) # {}}
           n == Max(N)
<1>1. m \in Nat /\ m # 0
  BY DataAssumption
<1>2. IsFiniteSet(rows) /\ Cardinality(rows) \in Nat \ {0} /\ rows \subseteq Int
  <2>1. IsFiniteSet(rows) /\ Cardinality(rows) \in Nat \ {0}
    BY ChunkFacts
  <2>2. rows \subseteq Rows /\ Rows \subseteq Nat
    BY DataAssumption DEF IsChunk
  <2> QED BY <2>1, <2>2
<1>3. /\ DOMAIN seq = 1..Cardinality(rows) /\ \A i \in DOMAIN seq : seq[i] \in rows
      /\ \A r \in rows : \E i \in DOMAIN seq : seq[i] = r
  <2>1. /\ seq \in Seq(rows) /\ Len(seq) = Cardinality(rows) /\ DOMAIN seq = 1..Cardinality(rows)
        /\ \A r \in rows : \E i \in DOMAIN seq : seq[i] = r
    BY <1>2, AscendingFacts
  <2> HIDE DEF seq
  <2> QED BY <2>1, ElementOfSeq
<1>4. Splits(rows) = [i \in 1..n |-> {seq[k] : k \in run(i)}]
  BY DEF Splits
<1> HIDE DEF seq, m
<1>5. N \subseteq Int /\ IsFiniteSet(N) /\ N # {}
  <2>1. IsFiniteSet(DOMAIN seq)
    BY <1>2, <1>3, FS_Interval
  <2>2. N \subseteq DOMAIN seq
    OBVIOUS
  <2>3. 1 \in run(1)
    BY <1>1, <1>2, <1>3
  <2>4. 1 \in N
    BY <1>2, <1>3, <2>3
  <2> HIDE DEF N
  <2>5. DOMAIN seq \subseteq Int
    BY <1>2, <1>3
  <2>6. IsFiniteSet(N)
    BY <2>1, <2>2, FS_Subset
  <2> QED BY <2>2, <2>4, <2>5, <2>6
<1>6. n \in N /\ \A i \in N : i <= n
  <2> HIDE DEF N
  <2> QED BY <1>5, MaxFacts
<1>7. n \in Nat \ {0} /\ n \in DOMAIN seq /\ run(n) # {}
  BY <1>2, <1>3, <1>6
<1>a. ASSUME NEW k \in DOMAIN seq PROVE \E i \in 1..n : k \in run(i)
  <2> DEFINE J == {j \in 0..k : k <= j * m}
             i == Min(J)
  <2>1. k \in Nat \ {0} /\ k \in 1..Cardinality(rows)
    BY <1>2, <1>3
  <2>2. k <= k * m
    <3>1. k * m = k + k * (m - 1) /\ m - 1 \in Nat
      BY <1>1, <2>1
    <3>2. k * (m - 1) \in Nat
      BY <2>1, <3>1
    <3> QED BY <2>1, <3>1, <3>2
  <2>3. k \in J
    BY <2>1, <2>2
  <2>4. IsFiniteSet(J) /\ J \subseteq Int
    <3>1. IsFiniteSet(0..k)
      BY <2>1, FS_Interval
    <3>2. J \subseteq 0..k
      OBVIOUS
    <3>3. 0..k \subseteq Int
      OBVIOUS
    <3> HIDE DEF J
    <3>4. IsFiniteSet(J)
      BY <3>1, <3>2, FS_Subset
    <3> QED BY <3>2, <3>3, <3>4
  <2>5. i \in J /\ \A y \in J : i <= y
    <3> HIDE DEF J
    <3> QED BY <2>3, <2>4, MinFacts
  <2> HIDE DEF i
  <2>6. i \in 0..k /\ k <= i * m
    BY <2>5
  <2>7. i # 0
    BY <1>1, <2>1, <2>6
  <2>8. i - 1 \in 0..k /\ ~(i <= i - 1) /\ (i - 1) * m \in Nat
    BY <1>1, <2>1, <2>6, <2>7
  <2>9. (i - 1) * m < k
    <3>1. i - 1 \notin J
      BY <2>5, <2>8
    <3>2. ~(k <= (i - 1) * m)
      BY <2>8, <3>1
    <3> QED BY <2>1, <2>8, <3>2
  <2> HIDE DEF J
  <2>10. k \in run(i)
    BY <2>6, <2>9
  <2>11. i \in DOMAIN seq
    BY <1>2, <1>3, <2>1, <2>6, <2>7
  <2>12. i \in N
    BY <2>10, <2>11
  <2>13. i <= n
    <3> HIDE DEF N, n
    <3> QED BY <1>6, <2>12
  <2>14. i \in 1..n
    BY <1>7, <2>1, <2>6, <2>7, <2>13
  <2> HIDE DEF run, n
  <2> QED BY <2>10, <2>14
<1> HIDE DEF N, n
<1>8. ASSUME NEW i \in 1..n PROVE {seq[k] : k \in run(i)} \in SUBSET rows /\ {seq[k] : k \in run(i)} # {}
  <2>1. PICK k \in DOMAIN seq : (n - 1) * m < k /\ k <= n * m
    BY <1>7
  <2>2. i - 1 \in Nat /\ n - 1 \in Nat /\ i - 1 <= n - 1
    BY <1>7
  <2>3. /\ (i - 1) * m \in Nat /\ (n - 1) * m \in Nat /\ (i - 1) * m <= (n - 1) * m
        /\ ((i - 1) + 1) * m = (i - 1) * m + m
    BY <1>1, <2>2, Multiples
  <2>4. (i - 1) + 1 = i
    OBVIOUS
  <2>5. i * m = (i - 1) * m + m
    BY <2>3, <2>4
  <2>6. (i - 1) * m + 1 \in DOMAIN seq
    BY <1>2, <1>3, <2>1, <2>3
  <2>7. (i - 1) * m < (i - 1) * m + 1 /\ (i - 1) * m + 1 <= i * m
    BY <1>1, <2>3, <2>5
  <2>8. run(i) # {}
    BY <2>6, <2>7
  <2>9. run(i) \subseteq DOMAIN seq
    OBVIOUS
  <2> HIDE DEF run
  <2> QED BY <1>3, <2>8, <2>9
<1>9. DOMAIN Splits(rows) = 1..n /\ Len(Splits(rows)) = n
  <2>1. Splits(rows) \in [1..n -> SUBSET rows]
    BY <1>4, <1>8
  <2>2. Splits(rows) \in Seq(SUBSET rows)
    BY <1>7, <2>1, SeqDef
  <2>3. DOMAIN Splits(rows) = 1..n
    BY <1>4
  <2> QED BY <1>7, <2>2, <2>3, LenProperties
<1>10. \A i \in 1..n : Splits(rows)[i] \in SUBSET rows /\ Splits(rows)[i] # {}
  <2>1. \A i \in 1..n : Splits(rows)[i] = {seq[k] : k \in run(i)}
    BY <1>4
  <2> QED BY <1>8, <2>1
<1>11. \A r \in rows : \E i \in 1..n : r \in Splits(rows)[i]
  <2>1. SUFFICES ASSUME NEW r \in rows PROVE \E i \in 1..n : r \in Splits(rows)[i]
    OBVIOUS
  <2>2. PICK k \in DOMAIN seq : seq[k] = r
    BY <1>3
  <2>3. PICK i \in 1..n : k \in run(i)
    BY <1>a
  <2>4. Splits(rows)[i] = {seq[l] : l \in run(i)}
    BY <1>4
  <2> HIDE DEF run
  <2> QED BY <2>2, <2>3, <2>4
<1> QED BY <1>7, <1>9, <1>10, <1>11

\* One addition more.
LEMMA ToldMore ==
    ASSUME NEW s, NEW o, Told(s, o), NEW t, NEW b \in Nat, NEW a \in Nat, NEW rows \in SUBSET Rows,
           DOMAIN t.physical = DOMAIN o.store.physical \cup {a}
    PROVE  Told(s, Outcome(t, Append(o.diffs, Addition(b, a, rows, {}))))
<1> DEFINE d == Addition(b, a, rows, {})
           p == Outcome(t, <<d>>)
<1>1. DOMAIN t.physical = (DOMAIN o.store.physical \ {}) \cup {a}
  OBVIOUS
<1>2. Told(o.store, p)
  BY <1>1, AdditionTold
<1>3. p.store = t /\ p.diffs = <<d>>
  BY DEF Outcome
<1>4. d \in Diffs
  BY DEF Addition, Diffs, Additions
<1> HIDE DEF d, p
<1>5. Told(s, After(o.diffs, p))
  BY <1>2, ToldAfter
<1>6. o.diffs \o <<d>> = Append(o.diffs, d)
  BY <1>4, AppendIsConcat DEF Told
<1>7. After(o.diffs, p).store = t /\ After(o.diffs, p).diffs = Append(o.diffs, d)
  BY <1>3, <1>6 DEF After, Outcome
<1> QED BY <1>5, <1>7 DEF Told, Outcome, d

\* One split, as the step of a fold.
SplitOp(cx, acc, p) == InsertSplit(acc, p)

\* After n of the cx[3] splits cx[4] of cx[2].
SplitKept(cx, n, acc) ==
    /\ StoreInv(acc.store) /\ Surplus(acc.store) = Surplus(cx[1]) /\ Told(cx[1], acc)
    /\ cx[2] \in DOMAIN acc.store.lineage
    /\ acc.store.lastId = cx[1].lastId + cx[3]
    /\ DOMAIN acc.store.physical = DOMAIN cx[1].physical \cup {cx[1].lastId + i : i \in 1..n}
    /\ \A x \in DOMAIN cx[1].physical : acc.store.physical[x] = cx[1].physical[x]
    /\ \A i \in 1..n : acc.store.physical[cx[1].lastId + i] = cx[4][i]
    /\ acc.store.leaky = cx[1].leaky
    /\ acc.store.dangling = With(cx[1].dangling, cx[2], {cx[1].lastId + i : i \in 1..cx[3]})

\* The fold of the splits, with that invariant.
Split == INSTANCE FoldFacts WITH Op <- SplitOp, Inv <- SplitKept

\* The induction that Split goes by.
LEMMA SplitInduction == Split!NatInduction
BY NatSetInduction DEF Split!NatInduction

\* One split.
LEMMA SplitStep ==
    ASSUME NEW s, StoreInv(s), NEW c, NEW m \in Nat, NEW n \in Nat, n + 1 <= m,
           NEW pieces, NEW acc, SplitKept(<<s, c, m, pieces>>, n, acc),
           NEW part, part = pieces[n + 1], IsChunk(part), ~IsStatic(part), NEW ids \in SUBSET (0..(s.lastId + m))
    PROVE  SplitKept(<<s, c, m, pieces>>, n + 1, InsertSplit(acc, Piece(c, s.lastId + (n + 1), ids, part)))
<1> DEFINE x == s.lastId + (n + 1)
           sib == ids \ {x}
           u == acc.store
           direct == SplitFrom(c, sib)
           v == InsertLineageIfMissing(u, x, direct)
           o == InsertAlone(v, x, part)
           w == o.store
           d == Addition(c, x, part, {})
           next == InsertSplit(acc, Piece(c, x, ids, part))
<1>1. /\ StoreInv(u) /\ Surplus(u) = Surplus(s) /\ Told(s, acc) /\ c \in DOMAIN u.lineage
      /\ u.lastId = s.lastId + m
      /\ DOMAIN u.physical = DOMAIN s.physical \cup {s.lastId + i : i \in 1..n}
      /\ \A y \in DOMAIN s.physical : u.physical[y] = s.physical[y]
      /\ \A i \in 1..n : u.physical[s.lastId + i] = pieces[i]
      /\ u.leaky = s.leaky /\ u.dangling = With(s.dangling, c, {s.lastId + i : i \in 1..m})
  BY DEF SplitKept
<1>2. s.lastId \in Nat /\ DOMAIN s.physical \subseteq 0..s.lastId /\ IdsGiven(s) /\ u \in Stores
  BY <1>1, SoundFacts
<1>3. x \in Nat /\ x > s.lastId /\ x <= u.lastId
  BY <1>1, <1>2
<1>4. c \in Nat
  BY <1>1, <1>2, EntryFacts
<1>5. x \notin Roots
  BY <1>2, <1>3, DataAssumption DEF IdsGiven
<1>6. x \notin DOMAIN u.physical
  <2>1. x \notin DOMAIN s.physical
    BY <1>2, <1>3
  <2>2. \A i \in 1..n : x # s.lastId + i
    BY <1>2
  <2> HIDE DEF x, u
  <2> QED BY <1>1, <2>1, <2>2
<1>7. part \in SUBSET Rows
  BY DEF IsChunk
<1>8. IsFiniteSet(sib) /\ sib \in SUBSET Nat
  <2>1. IsFiniteSet(0..(s.lastId + m))
    <3>1. s.lastId + m \in Int /\ 0 \in Int
      BY <1>2
    <3> QED BY <3>1, FS_Interval
  <2>2. sib \subseteq 0..(s.lastId + m)
    OBVIOUS
  <2> QED BY <1>2, <2>1, <2>2, FS_Subset
<1>9. next = Outcome(w, Append(acc.diffs, d))
  BY DEF InsertSplit, Piece
<1> HIDE DEF sib, x, u
<1>10. /\ direct \in Lineages /\ direct.parents = {c} /\ direct.siblings = sib /\ direct.kind = "split"
  BY <1>4, <1>8 DEF SplitFrom, Lineages
<1>11. Sprouts(u, x, direct)
  <2>1. IsFiniteSet({c})
    BY FS_Singleton
  <2> HIDE DEF direct
  <2> QED BY <1>1, <1>3, <1>5, <1>8, <1>10, <2>1 DEF Sprouts
<1> HIDE DEF direct
<1>12. /\ StoreInv(v) /\ DOMAIN v.lineage = DOMAIN u.lineage \cup {x}
       /\ v.physical = u.physical /\ v.lastId = u.lastId /\ Surplus(v) = Surplus(u)
       /\ v.leaky = u.leaky /\ v.dangling = u.dangling
  BY <1>1, <1>11, LineageGrows
<1> HIDE DEF v
<1>13. /\ StoreInv(w) /\ Surplus(w) = Surplus(v) /\ DOMAIN w.physical = DOMAIN v.physical \cup {x}
       /\ w.lastId = v.lastId /\ DOMAIN w.lineage = DOMAIN v.lineage
       /\ w.physical = With(v.physical, x, part) /\ w.leaky = v.leaky /\ w.dangling = v.dangling
  <2>1. x \in DOMAIN v.lineage /\ x \notin DOMAIN v.physical /\ (x \in Roots => part = ChunkRows[x])
    BY <1>5, <1>6, <1>12
  <2> QED BY <1>12, <2>1, InsertAloneFacts
<1> HIDE DEF o, w
<1>14. DOMAIN w.physical = DOMAIN acc.store.physical \cup {x}
  BY <1>12, <1>13 DEF u
<1>15. Told(s, Outcome(w, Append(acc.diffs, d)))
  BY <1>1, <1>3, <1>4, <1>7, <1>14, ToldMore
<1>16. next.store = w
  BY <1>9 DEF Outcome
<1>17. DOMAIN w.physical = DOMAIN s.physical \cup {s.lastId + i : i \in 1..(n + 1)}
  <2>1. \A y : y \in {s.lastId + i : i \in 1..(n + 1)} <=> y \in {s.lastId + i : i \in 1..n} \/ y = x
    BY <1>2 DEF x
  <2> QED BY <1>1, <1>12, <1>13, <2>1
<1>18. Told(s, next)
  BY <1>9, <1>15
<1> HIDE DEF next
<1>19. SplitKept(<<s, c, m, pieces>>, n + 1, next)
  <2>1. w.physical[x] = part /\ \A y \in DOMAIN u.physical : w.physical[y] = u.physical[y]
    BY <1>6, <1>12, <1>13 DEF With
  <2>2. \A y \in DOMAIN s.physical : w.physical[y] = s.physical[y]
    BY <1>1, <2>1
  <2>3. ASSUME NEW i \in 1..(n + 1) PROVE w.physical[s.lastId + i] = pieces[i]
    <3>1. CASE i = n + 1
      BY <2>1, <3>1 DEF x
    <3>2. CASE i # n + 1
      <4>1. i \in 1..n
        BY <3>2
      <4> QED BY <1>1, <2>1, <4>1
    <3> QED BY <3>1, <3>2
  <2>4. w.leaky = s.leaky /\ w.dangling = With(s.dangling, c, {s.lastId + i : i \in 1..m})
    BY <1>1, <1>12, <1>13
  <2> QED BY <1>1, <1>12, <1>13, <1>16, <1>17, <1>18, <2>2, <2>3, <2>4 DEF SplitKept
<1> QED BY <1>19 DEF next, x

\* insert_chunk stores a large temporal chunk as its splits.
LEMMA InsertSplitsFacts ==
    ASSUME NEW s, StoreInv(s), NEW c \in DOMAIN s.lineage, NEW rows, IsChunk(rows), ~IsStatic(rows),
           c \in Roots => rows = ChunkRows[c]
    PROVE  LET o == InsertSplits(s, c, rows)
           IN  Kept(s, o) /\ TemporalRows(o.store) = TemporalRows(s) \cup rows
<1> DEFINE pieces == Splits(rows)
           ids == {s.lastId + i : i \in DOMAIN pieces}
           s1 == [s EXCEPT !.lastId = @ + Len(pieces),
                           !.dangling = With(@, c, ids), !.splitOnIngest = @ \cup {c}]
           list == [i \in DOMAIN pieces |-> Piece(c, s.lastId + i, ids, pieces[i])]
           base == Outcome(s1, <<>>)
<1>1. PICK m \in Nat \ {0} : /\ DOMAIN pieces = 1..m /\ Len(pieces) = m
                             /\ \A i \in 1..m : pieces[i] \in SUBSET rows /\ pieces[i] # {}
                             /\ \A r \in rows : \E i \in 1..m : r \in pieces[i]
  BY SplitsFacts
<1>2. /\ s.lastId \in Nat /\ DOMAIN s.physical \subseteq 0..s.lastId /\ IdsGiven(s) /\ s \in Stores
      /\ SplitsSound(s) /\ c \in Nat
  BY SoundFacts, EntryFacts
<1> DEFINE cx == <<s, c, m, pieces>>
           o == Split!LeftFold(cx, base, list)
<1>3. InsertSplits(s, c, rows) = o
  BY DEF InsertSplits, FoldLeft, MapThenFoldSet, Split!LeftFold, Split!Top, Max, SplitOp
<1>4. ids \in SUBSET (0..(s.lastId + m)) /\ ids \cap Roots = {} /\ ids \in SUBSET Nat
  <2>1. \A i \in 1..m : s.lastId + i \in 0..(s.lastId + m) /\ s.lastId + i > s.lastId
    BY <1>2
  <2>2. \A r \in Roots : r \in Int /\ r <= s.lastId
    BY <1>2, DataAssumption DEF IdsGiven
  <2>3. \A i \in 1..m : s.lastId + i \notin Roots
    BY <1>2, <2>1, <2>2
  <2>4. ids = {s.lastId + i : i \in 1..m}
    BY <1>1
  <2>5. \A x \in ids : x \in 0..(s.lastId + m) /\ x \notin Roots
    <3> HIDE DEF ids
    <3> QED BY <2>1, <2>3, <2>4
  <2>6. \A x \in 0..(s.lastId + m) : x \in Nat
    OBVIOUS
  <2> HIDE DEF ids
  <2> QED BY <2>5, <2>6
<1>a. ids = {s.lastId + i : i \in 1..m} /\ \A x \in ids : x > s.lastId /\ x <= s.lastId + m
  <2>1. ids = {s.lastId + i : i \in 1..m}
    BY <1>1
  <2>2. \A i \in 1..m : s.lastId + i > s.lastId /\ s.lastId + i <= s.lastId + m
    BY <1>2
  <2> HIDE DEF ids
  <2> QED BY <2>1, <2>2
<1> HIDE DEF pieces, ids
<1>5. /\ s1 \in Stores /\ s1.lastId = s.lastId + m /\ s1.dangling = With(s.dangling, c, ids)
      /\ s1.physical = s.physical /\ s1.virtual = s.virtual /\ s1.maxLength = s.maxLength
      /\ s1.static = s.static /\ s1.lineage = s.lineage /\ s1.stats = s.stats
      /\ s1.leaky = s.leaky
  <2>1. With(s.dangling, c, ids) \in DanglingMaps
    <3>1. s.dangling \in Partial(Nat, SUBSET Nat)
      BY <1>2, StoreFacts DEF DanglingMaps
    <3> QED BY <1>2, <1>4, <3>1, WithTyped DEF DanglingMaps
  <2> DEFINE dm == With(s.dangling, c, ids)
             sp == s.splitOnIngest \cup {c}
             id == s.lastId + m
  <2>2. s1 = [s EXCEPT !.lastId = id, !.dangling = dm, !.splitOnIngest = sp]
    BY <1>1
  <2>3. id \in Nat /\ sp \in SUBSET Nat /\ dm \in DanglingMaps
    BY <1>2, <2>1 DEF Stores
  <2> HIDE DEF dm, sp, id
  <2>4. /\ s1 \in Stores /\ s1.lastId = id /\ s1.dangling = dm
        /\ s1.physical = s.physical /\ s1.virtual = s.virtual /\ s1.maxLength = s.maxLength
        /\ s1.static = s.static /\ s1.lineage = s.lineage /\ s1.stats = s.stats
        /\ s1.leaky = s.leaky
    BY <1>2, <2>2, <2>3 DEF Stores
  <2> QED BY <2>4 DEF id, dm
<1> HIDE DEF s1
<1>6. SplitsSound(s1)
  <2>1. DOMAIN s1.dangling = DOMAIN s.dangling \cup {c} /\ s1.dangling[c] = ids
    BY <1>5 DEF With
  <2>2. \A x \in DOMAIN s.dangling : x # c => s1.dangling[x] = s.dangling[x]
    BY <1>5 DEF With
  <2> QED BY <1>2, <1>4, <2>1, <2>2 DEF SplitsSound
<1>7. StoreInv(s1)
  <2>1. s1.lastId >= s.lastId
    BY <1>2, <1>5
  <2> QED BY <1>5, <1>6, <2>1, NotesFrame
<1>8. Surplus(s1) = Surplus(s)
  BY <1>5 DEF Surplus
<1>9. base.store = s1 /\ Told(s, base)
  BY <1>5, NothingTold
<1>10. SplitKept(cx, 0, base)
  <2>1. {s.lastId + i : i \in 1..0} = {}
    OBVIOUS
  <2>2. DOMAIN base.store.physical = DOMAIN s.physical \cup {s.lastId + i : i \in 1..0}
    BY <1>5, <1>9, <2>1
  <2>3. cx[1] = s /\ cx[2] = c /\ cx[3] = m /\ cx[4] = pieces
    OBVIOUS
  <2> HIDE DEF cx, base
  <2> QED BY <1>5, <1>7, <1>8, <1>9, <1>a, <2>2, <2>3 DEF SplitKept
<1>11. Len(list) = m /\ list \in Seq({list[i] : i \in 1..m})
  <2>1. list \in [1..m -> {list[i] : i \in 1..m}]
    BY <1>1
  <2> HIDE DEF list
  <2> QED BY <2>1, SeqDef
<1>12. \A a : \A i \in 1..m : SplitKept(cx, i - 1, a) => SplitKept(cx, i, SplitOp(cx, a, list[i]))
  <2>1. SUFFICES ASSUME NEW a, NEW i \in 1..m, SplitKept(cx, i - 1, a)
                 PROVE  SplitKept(cx, i, InsertSplit(a, Piece(c, s.lastId + i, ids, pieces[i])))
    BY <1>1 DEF SplitOp
  <2>2. i - 1 \in Nat /\ (i - 1) + 1 = i /\ (i - 1) + 1 <= m
    BY <1>1
  <2>3. IsChunk(pieces[i]) /\ ~IsStatic(pieces[i])
    BY <1>1, PartOfChunk
  <2>4. SplitKept(cx, (i - 1) + 1, InsertSplit(a, Piece(c, s.lastId + ((i - 1) + 1), ids, pieces[i])))
    BY <1>4, <2>1, <2>2, <2>3, SplitStep
  <2> QED BY <2>2, <2>4
<1> HIDE DEF base, cx, list
<1>13. SplitKept(cx, m, o)
  BY <1>10, <1>11, <1>12, SplitInduction, Split!SeqFold
<1> HIDE DEF o
<1>14. /\ StoreInv(o.store) /\ Surplus(o.store) = Surplus(s) /\ Told(s, o)
       /\ o.store.lastId = s.lastId + m
       /\ DOMAIN o.store.physical = DOMAIN s.physical \cup ids
       /\ \A x \in DOMAIN s.physical : o.store.physical[x] = s.physical[x]
       /\ \A k \in 1..m : o.store.physical[s.lastId + k] = pieces[k]
       /\ o.store.leaky = s.leaky /\ o.store.dangling = With(s.dangling, c, ids)
  BY <1>13, <1>a DEF SplitKept, cx
<1>15. o.store.lastId >= s.lastId
  BY <1>2, <1>14
<1>16. \A x \in ids : \E k \in 1..m : x = s.lastId + k /\ o.store.physical[x] = pieces[k]
  BY <1>14, <1>a
<1>17. RowsSound(s) => RowsSound(o.store)
  <2>1. SUFFICES ASSUME RowsSound(s) PROVE RowsSound(o.store)
    OBVIOUS
  <2>2. PICK t \in Stores : t = o.store
    BY <1>14, SoundFacts
  <2>3. /\ t.lastId >= s.lastId /\ t.leaky = s.leaky /\ t.dangling = With(s.dangling, c, ids)
        /\ \A x \in ids : x > s.lastId /\ x <= t.lastId
    BY <1>14, <1>15, <1>a, <2>2
  <2>4. \A x \in DOMAIN t.physical :
           \/ x \in ids /\ t.physical[x] \subseteq rows
           \/ x \in DOMAIN s.physical /\ t.physical[x] = s.physical[x]
    BY <1>1, <1>14, <1>16, <2>2
  <2>5. PICK S \in SUBSET Nat : S = ids
    BY <1>4
  <2>6. RowsSound(t)
    BY <2>1, <2>3, <2>4, <2>5, SplitsKeepRows
  <2> QED BY <2>2, <2>6
<1>18. TemporalRows(o.store) = TemporalRows(s) \cup rows
  <2>1. \A k \in 1..m : ~IsStatic(pieces[k])
    BY <1>1, PartOfChunk
  <2>2. ASSUME NEW r \in TemporalRows(o.store) PROVE r \in TemporalRows(s) \cup rows
    <3>1. PICK x \in DOMAIN o.store.physical : ~IsStatic(o.store.physical[x]) /\ r \in o.store.physical[x]
      BY <2>2, TemporalRow
    <3>2. CASE x \in ids
      BY <1>1, <1>16, <3>1, <3>2
    <3>3. CASE x \in DOMAIN s.physical
      <4>1. o.store.physical[x] = s.physical[x]
        BY <1>14, <3>3
      <4>2. r \in TemporalRows(s)
        BY <3>1, <3>3, <4>1, TemporalRow
      <4> QED BY <4>2
    <3> QED BY <1>14, <3>1, <3>2, <3>3
  <2>3. ASSUME NEW r \in TemporalRows(s) PROVE r \in TemporalRows(o.store)
    <3>1. PICK x \in DOMAIN s.physical : ~IsStatic(s.physical[x]) /\ r \in s.physical[x]
      BY <2>3, TemporalRow
    <3>2. x \in DOMAIN o.store.physical /\ o.store.physical[x] = s.physical[x]
      BY <1>14, <3>1
    <3> QED BY <3>1, <3>2, TemporalRow
  <2>4. ASSUME NEW r \in rows PROVE r \in TemporalRows(o.store)
    <3>1. PICK k \in 1..m : r \in pieces[k]
      BY <1>1
    <3>2. PICK x : x = s.lastId + k
      OBVIOUS
    <3>3. x \in DOMAIN o.store.physical /\ o.store.physical[x] = pieces[k]
      BY <1>14, <1>a, <3>2
    <3> QED BY <2>1, <3>1, <3>3, TemporalRow
  <2> QED BY <2>2, <2>3, <2>4
<1> QED BY <1>3, <1>14, <1>15, <1>17, <1>18 DEF Kept

-----------------------------------------------------------------------------
(* insert_chunk *)

\* remove_chunks_deep keeps the store sound and tells what it does.
LEMMA DeepKept ==
    ASSUME NEW s, StoreInv(s), NEW chunks \in ChunkList, Temporal(s, chunks)
    PROVE  LET o == RemoveChunksDeep(s, chunks)
           IN  /\ Kept(s, o) /\ Thins(s, o.store)
               /\ DOMAIN o.store.physical = DOMAIN s.physical \ Named(chunks, Len(chunks))
<1> DEFINE o == RemoveChunksDeep(s, chunks)
           ids == Named(chunks, Len(chunks))
<1>1. /\ StoreInv(o.store) /\ Shrinks(s, o.store)
      /\ DOMAIN o.store.physical = DOMAIN s.physical \ ids
      /\ o.diffs \in Seq(Deletions)
      /\ ids \cap DOMAIN s.physical \subseteq Gone(o.diffs) /\ Gone(o.diffs) \subseteq ids
  BY DeepFacts
<1> HIDE DEF o, ids
<1>2. DOMAIN o.store.physical = DOMAIN s.physical \ Gone(o.diffs)
  BY <1>1
<1>3. Told(s, o)
  BY <1>1, <1>2, DeletionsTold
<1>4. s.lastId \in Nat /\ s \in Stores /\ o.store \in Stores
  BY <1>1, SoundFacts
<1>5. Surplus(o.store) = Surplus(s) /\ o.store.lastId >= s.lastId
  BY <1>1, <1>4 DEF Shrinks
<1>6. Thins(s, o.store)
  BY <1>1, <1>4, ShrinksThins
<1>7. RowsSound(s) => RowsSound(o.store)
  BY <1>4, <1>6, ThinsKeeps
<1>8. Kept(s, o)
  BY <1>1, <1>3, <1>5, <1>7 DEF Kept
<1> QED BY <1>1, <1>6, <1>8 DEF o, ids

\* Some of the temporal physical chunks, as a list.
LEMMA AsChunksFacts ==
    ASSUME NEW s, StoreInv(s), NEW t, t.physical = s.physical,
           NEW S \in SUBSET TemporalPhysical(s), NEW q \in Seq(S)
    PROVE  /\ AsChunks(s, q) \in ChunkList /\ Temporal(t, AsChunks(s, q))
           /\ Len(AsChunks(s, q)) = Len(q) /\ DOMAIN AsChunks(s, q) = 1..Len(q) /\ Len(q) \in Nat
           /\ \A i \in 1..Len(q) : AsChunks(s, q)[i] = <<q[i], s.physical[q[i]]>>
<1>1. Len(q) \in Nat /\ DOMAIN q = 1..Len(q) /\ \A i \in 1..Len(q) : q[i] \in S
  BY LenProperties, ElementOfSeq
<1>2. \A c \in S : c \in DOMAIN s.physical /\ ~IsStatic(s.physical[c]) /\ c \in Nat /\ s.physical[c] \in SUBSET Rows
  BY SoundFacts, StoreFacts DEF TemporalPhysical
<1> DEFINE list == AsChunks(s, q)
<1>3. DOMAIN list = 1..Len(q) /\ \A i \in 1..Len(q) : list[i] = <<q[i], s.physical[q[i]]>>
  BY <1>1 DEF AsChunks
<1>4. list \in [1..Len(q) -> Nat \X SUBSET Rows]
  <2>1. \A i \in 1..Len(q) : list[i] \in Nat \X SUBSET Rows
    <3> HIDE DEF list
    <3>1. SUFFICES ASSUME NEW i \in 1..Len(q) PROVE list[i] \in Nat \X SUBSET Rows
      OBVIOUS
    <3>2. q[i] \in Nat /\ s.physical[q[i]] \in SUBSET Rows
      BY <1>1, <1>2
    <3>3. <<q[i], s.physical[q[i]]>> \in Nat \X SUBSET Rows
      BY <3>2
    <3>4. list[i] = <<q[i], s.physical[q[i]]>>
      BY <1>3
    <3> QED BY <3>3, <3>4, Zenon
  <2>2. list = [i \in 1..Len(q) |-> list[i]]
    BY <1>1 DEF AsChunks
  <2> HIDE DEF list
  <2> QED BY <2>1, <2>2
<1> HIDE DEF list
<1>5. list \in ChunkList /\ Len(list) = Len(q)
  BY <1>1, <1>4, SeqDef DEF ChunkList
<1>6. Temporal(t, list)
  <2>1. \A i \in DOMAIN list : list[i][1] = q[i] /\ ~IsStatic(t.physical[q[i]])
    BY <1>1, <1>2, <1>3
  <2> QED BY <2>1 DEF Temporal
<1> QED BY <1>1, <1>3, <1>5, <1>6 DEF list

\* insert_chunk forgets the virtual chunk that comes.
LEMMA DropVirtualFacts ==
    ASSUME NEW s, StoreInv(s), NEW c, c \notin DOMAIN s.physical, NEW rows \in SUBSET Rows
    PROVE  LET o == DropVirtual(s, c, rows)
           IN  Kept(s, o) /\ Thins(s, o.store) /\ DOMAIN o.store.physical = DOMAIN s.physical
<1> DEFINE one == <<<<c, rows>>>>
<1>1. CASE c \in DOMAIN s.lineage /\ s.lineage[c].direct.kind = "manifest"
  <2>1. c \in Nat
    BY <1>1, SoundFacts, EntryFacts
  <2>2. one \in ChunkList
    BY <2>1 DEF ChunkList
  <2>3. Temporal(s, one)
    BY DEF Temporal
  <2>4. DropVirtual(s, c, rows) = RemoveChunksDeep(s, one)
    BY <1>1 DEF DropVirtual
  <2>5. Named(one, Len(one)) = {c}
    BY DEF Named
  <2> HIDE DEF one
  <2>6. /\ Kept(s, RemoveChunksDeep(s, one)) /\ Thins(s, RemoveChunksDeep(s, one).store)
        /\ DOMAIN RemoveChunksDeep(s, one).store.physical = DOMAIN s.physical \ {c}
    BY <2>2, <2>3, <2>5, DeepKept
  <2> QED BY <2>4, <2>6
<1>2. CASE ~(c \in DOMAIN s.lineage /\ s.lineage[c].direct.kind = "manifest")
  <2>1. DropVirtual(s, c, rows) = Outcome(s, <<>>)
    BY <1>2 DEF DropVirtual
  <2> QED BY <2>1, NothingKept, ThinsItself
<1> QED BY <1>1, <1>2

\* insert_chunk removes the splits of an earlier insertion.
LEMMA DropSplitsFacts ==
    ASSUME NEW s, StoreInv(s), NEW c
    PROVE  LET o == DropSplits(s, c)
           IN  /\ Kept(s, o) /\ Thins(s, o.store)
               /\ \A x \in DOMAIN s.physical \ DOMAIN o.store.physical : c \in DOMAIN s.dangling /\ x \in s.dangling[c]
<1> DEFINE t == [s EXCEPT !.dangling = Without(@, {c})]
           S == s.dangling[c] \cap DOMAIN s.physical
           list == AsChunks(s, Ascending(S))
<1>1. CASE c \in DOMAIN s.dangling
  <2>1. /\ s \in Stores /\ SplitsSound(s) /\ ChunksSound(s) /\ IsFiniteSet(DOMAIN s.physical)
        /\ s.lastId \in Nat /\ \A x \in DOMAIN s.physical : x \in Nat
    BY SoundFacts
  <2>2. S \in SUBSET TemporalPhysical(s) /\ IsFiniteSet(S) /\ S \subseteq Int
    <3>1. \A x \in S : x \in DOMAIN s.physical /\ x \notin Roots
      BY <1>1, <2>1 DEF SplitsSound
    <3>2. \A x \in S : x \in TemporalPhysical(s)
      BY <2>1, <3>1 DEF TemporalPhysical, ChunksSound
    <3>3. IsFiniteSet(S)
      BY <2>1, FS_Subset
    <3> QED BY <2>1, <3>2, <3>3
  <2>3. /\ t \in Stores /\ t.dangling = Without(s.dangling, {c}) /\ t.lastId = s.lastId /\ t.leaky = s.leaky
        /\ t.physical = s.physical /\ t.virtual = s.virtual /\ t.maxLength = s.maxLength
        /\ t.static = s.static /\ t.lineage = s.lineage /\ t.stats = s.stats
    <3>1. Without(s.dangling, {c}) \in DanglingMaps
      <4>1. s.dangling \in Partial(Nat, SUBSET Nat)
        BY <2>1, StoreFacts DEF DanglingMaps
      <4> QED BY <4>1, WithoutTyped DEF DanglingMaps
    <3> DEFINE dm == Without(s.dangling, {c})
    <3>2. t = [s EXCEPT !.dangling = dm] /\ dm \in DanglingMaps
      BY <3>1
    <3> HIDE DEF dm
    <3>3. /\ t \in Stores /\ t.dangling = dm /\ t.lastId = s.lastId /\ t.leaky = s.leaky
          /\ t.physical = s.physical /\ t.virtual = s.virtual /\ t.maxLength = s.maxLength
          /\ t.static = s.static /\ t.lineage = s.lineage /\ t.stats = s.stats
      BY <2>1, <3>2 DEF Stores
    <3> QED BY <3>3 DEF dm
  <2>4. DropSplits(s, c) = RemoveChunksDeep(t, list)
    BY <1>1 DEF DropSplits
  <2>5. Ascending(S) \in Seq(S)
    BY <2>2, AscendingFacts
  <2> DEFINE q == Ascending(S)
  <2> HIDE DEF t, S
  <2>6. /\ list \in ChunkList /\ Temporal(t, list) /\ Len(list) = Len(q) /\ Len(q) \in Nat
        /\ \A i \in 1..Len(q) : list[i] = <<q[i], s.physical[q[i]]>>
    BY <2>2, <2>3, <2>5, AsChunksFacts
  <2> HIDE DEF list
  <2>a. Named(list, Len(list)) \subseteq S
    <3>1. \A i \in 1..Len(q) : q[i] \in S
      BY <2>5, ElementOfSeq
    <3> HIDE DEF q
    <3>2. \A i \in 1..Len(q) : list[i][1] = q[i]
      BY <2>6
    <3> QED BY <2>6, <3>1, <3>2 DEF Named
  <2> HIDE DEF q
  <2>b. /\ DOMAIN t.dangling \subseteq DOMAIN s.dangling
        /\ \A x \in DOMAIN t.dangling : t.dangling[x] = s.dangling[x]
    <3>1. DOMAIN t.dangling \subseteq DOMAIN s.dangling
      BY <2>3 DEF Without, Restrict
    <3>2. \A x \in DOMAIN t.dangling : t.dangling[x] = s.dangling[x]
      BY <2>3 DEF Without, Restrict
    <3> QED BY <3>1, <3>2
  <2>7. SplitsSound(t)
    BY <2>1, <2>b DEF SplitsSound
  <2>8. StoreInv(t)
    <3>1. t.lastId >= s.lastId
      BY <2>1, <2>3
    <3> QED BY <2>3, <2>7, <3>1, NotesFrame
  <2> DEFINE o == RemoveChunksDeep(t, list)
  <2>9. /\ Kept(t, o) /\ Thins(t, o.store)
        /\ DOMAIN o.store.physical = DOMAIN t.physical \ Named(list, Len(list))
    BY <2>6, <2>8, DeepKept
  <2> HIDE DEF o
  <2>10. Surplus(t) = Surplus(s)
    BY <2>3 DEF Surplus
  <2>11. o.store \in Stores
    BY <2>9, SoundFacts DEF Kept
  <2>12. Thins(s, t)
    <3>1. t.lastId >= s.lastId
      BY <2>1, <2>3
    <3> QED BY <2>3, <2>b, <3>1 DEF Thins
  <2>13. Thins(s, o.store)
    BY <2>1, <2>3, <2>9, <2>11, <2>12, ThinsMore
  <2>14. RowsSound(s) => RowsSound(o.store)
    BY <2>1, <2>11, <2>13, ThinsKeeps
  <2>15. Kept(s, o)
    BY <2>3, <2>9, <2>10, <2>14 DEF Kept, Told
  <2>16. \A x \in DOMAIN s.physical \ DOMAIN o.store.physical : x \in s.dangling[c]
    BY <2>3, <2>9, <2>a DEF S
  <2> QED BY <1>1, <2>4, <2>13, <2>15, <2>16 DEF o
<1>2. CASE c \notin DOMAIN s.dangling
  <2>1. DropSplits(s, c) = Outcome(s, <<>>)
    BY <1>2 DEF DropSplits
  <2> QED BY <2>1, NothingKept, ThinsItself
<1> QED BY <1>1, <1>2

\* What insert_chunk is called with: a root as it is, or a fresh chunk.
Insertable(s, c, rows) ==
    /\ IsChunk(rows) /\ c \in Nat /\ c <= s.lastId
    /\ c \in Roots => rows = ChunkRows[c]
    /\ IsStatic(rows) => c \in Roots
    /\ c \in Roots \/ Fresh(s, c)

\* insert_chunk loses rows of the chunk that comes only.
LEMMA PreparedRows ==
    ASSUME NEW s, StoreInv(s), RowsSound(s), NEW c \in Roots, NEW t, Thins(s, t),
           \A x \in DOMAIN s.physical \ DOMAIN t.physical : c \in DOMAIN s.dangling /\ x \in s.dangling[c]
    PROVE  TemporalRows(t) \cup ChunkRows[c] = TemporalRows(s) \cup ChunkRows[c]
<1>1. SplitsInside(s)
  BY DEF RowsSound
<1>2. ASSUME NEW r \in TemporalRows(t) PROVE r \in TemporalRows(s)
  <2>1. PICK x \in DOMAIN t.physical : ~IsStatic(t.physical[x]) /\ r \in t.physical[x]
    BY <1>2, TemporalRow
  <2>2. x \in DOMAIN s.physical /\ s.physical[x] = t.physical[x]
    BY <2>1 DEF Thins
  <2> QED BY <2>1, <2>2, TemporalRow
<1>3. ASSUME NEW r \in TemporalRows(s) PROVE r \in TemporalRows(t) \cup ChunkRows[c]
  <2>1. PICK x \in DOMAIN s.physical : ~IsStatic(s.physical[x]) /\ r \in s.physical[x]
    BY <1>3, TemporalRow
  <2>2. CASE x \in DOMAIN t.physical
    <3>1. t.physical[x] = s.physical[x]
      BY <2>2 DEF Thins
    <3>2. r \in TemporalRows(t)
      BY <2>1, <2>2, <3>1, TemporalRow
    <3> QED BY <3>2
  <2>3. CASE x \notin DOMAIN t.physical
    <3>1. c \in DOMAIN s.dangling /\ x \in s.dangling[c]
      BY <2>1, <2>3
    <3>2. s.physical[x] \subseteq ChunkRows[c]
      BY <1>1, <2>1, <3>1 DEF SplitsInside
    <3> QED BY <2>1, <3>2
  <2> QED BY <2>2, <2>3
<1> QED BY <1>2, <1>3

\* insert_chunk before it stores the chunk.
LEMMA PrepareFacts ==
    ASSUME NEW s, StoreInv(s), NEW c, NEW rows, Insertable(s, c, rows), c \notin DOMAIN s.physical
    PROVE  LET o == PrepareInsertion(s, c, rows)
           IN  /\ Kept(s, o) /\ Thins(s, o.store)
               /\ c \in DOMAIN o.store.lineage /\ c \notin DOMAIN o.store.physical
               /\ RowsSound(s) /\ c \in Roots
                    => TemporalRows(o.store) \cup ChunkRows[c] = TemporalRows(s) \cup ChunkRows[c]
<1> DEFINE o == DropVirtual(s, c, rows)
           p == DropSplits(o.store, c)
           q == ThenDropSplits(o, c)
           t == InsertLineageIfMissing(q.store, c, Volatile)
           r == RecordVolatile(q, c)
<1>1. rows \in SUBSET Rows /\ c \in Nat /\ c <= s.lastId /\ s.lastId \in Nat
  BY SoundFacts DEF Insertable, IsChunk
<1>2. Kept(s, o) /\ Thins(s, o.store) /\ DOMAIN o.store.physical = DOMAIN s.physical
  BY <1>1, DropVirtualFacts
<1>3. PrepareInsertion(s, c, rows) = r /\ q = After(o.diffs, p)
  BY DEF PrepareInsertion, ThenDropSplits
<1> HIDE DEF o
<1>4. /\ Kept(o.store, p) /\ Thins(o.store, p.store)
      /\ \A x \in DOMAIN o.store.physical \ DOMAIN p.store.physical :
            c \in DOMAIN o.store.dangling /\ x \in o.store.dangling[c]
  BY <1>2, DropSplitsFacts DEF Kept
<1> HIDE DEF p, q
<1>5. Kept(s, q) /\ q.store = p.store
  BY <1>1, <1>2, <1>3, <1>4, KeptAfter
<1>6. StoreInv(q.store) /\ q.store.lastId >= s.lastId /\ Told(s, q) /\ Surplus(q.store) = Surplus(s)
  BY <1>5 DEF Kept
<1>7. q.store.lastId \in Nat
  BY <1>6, SoundFacts
<1>8. Sprouts(q.store, c, Volatile)
  <2>1. Volatile \in Lineages /\ Volatile.parents = {} /\ Volatile.siblings = {} /\ Volatile.kind = "volatile"
    BY DEF Volatile, Lineages
  <2>2. IsFiniteSet({})
    BY FS_EmptySet
  <2>3. c <= q.store.lastId
    BY <1>1, <1>6, <1>7
  <2> QED BY <1>1, <2>1, <2>2, <2>3 DEF Sprouts
<1>9. /\ StoreInv(t) /\ DOMAIN t.lineage = DOMAIN q.store.lineage \cup {c}
      /\ t.physical = q.store.physical /\ t.lastId = q.store.lastId /\ Surplus(t) = Surplus(q.store)
      /\ t.leaky = q.store.leaky /\ t.dangling = q.store.dangling
  BY <1>6, <1>8, LineageGrows
<1>10. r.store = t /\ r.diffs = q.diffs
  BY DEF RecordVolatile, Outcome
<1> HIDE DEF r, t
<1>11. /\ s \in Stores /\ o.store \in Stores /\ p.store \in Stores /\ r.store \in Stores
  BY <1>2, <1>4, <1>9, <1>10, SoundFacts DEF Kept
<1>12. Thins(q.store, r.store)
  <2>1. r.store.lastId >= q.store.lastId
    BY <1>7, <1>9, <1>10
  <2> QED BY <1>9, <1>10, <2>1 DEF Thins
<1>13. Thins(s, p.store)
  BY <1>2, <1>4, <1>11, ThinsMore
<1>14. Thins(s, r.store)
  BY <1>5, <1>11, <1>12, <1>13, ThinsMore
<1>15. RowsSound(s) => RowsSound(r.store)
  BY <1>11, <1>14, ThinsKeeps
<1>16. Kept(s, r)
  BY <1>6, <1>9, <1>10, <1>15 DEF Kept, Told
<1>17. c \in DOMAIN r.store.lineage /\ c \notin DOMAIN r.store.physical
  BY <1>9, <1>10, <1>14 DEF Thins
<1>18. ASSUME NEW x \in DOMAIN s.physical \ DOMAIN r.store.physical
       PROVE  c \in DOMAIN s.dangling /\ x \in s.dangling[c]
  <2>1. x \in DOMAIN o.store.physical \ DOMAIN p.store.physical
    BY <1>2, <1>5, <1>9, <1>10
  <2>2. c \in DOMAIN o.store.dangling /\ x \in o.store.dangling[c]
    BY <1>4, <2>1
  <2> QED BY <1>2, <2>2 DEF Thins
<1>19. RowsSound(s) /\ c \in Roots
          => TemporalRows(r.store) \cup ChunkRows[c] = TemporalRows(s) \cup ChunkRows[c]
  <2>1. PICK v : v = r.store
    OBVIOUS
  <2>2. Thins(s, v) /\ \A x \in DOMAIN s.physical \ DOMAIN v.physical : c \in DOMAIN s.dangling /\ x \in s.dangling[c]
    BY <1>14, <1>18, <2>1
  <2>3. RowsSound(s) /\ c \in Roots => TemporalRows(v) \cup ChunkRows[c] = TemporalRows(s) \cup ChunkRows[c]
    BY <2>2, PreparedRows
  <2> QED BY <2>1, <2>3
<1> QED BY <1>3, <1>14, <1>16, <1>17, <1>19

\* insert_chunk stores a chunk that is not there, whole, split or compacted.
LEMMA StoreChunkFacts ==
    ASSUME NEW s, StoreInv(s), NEW c, NEW rows, Insertable(s, c, rows),
           c \in DOMAIN s.lineage, c \notin DOMAIN s.physical,
           NEW o \in StoreChunk(s, c, rows)
    PROVE  Kept(s, o) /\ (~IsStatic(rows) => TemporalRows(o.store) = TemporalRows(s) \cup rows)
<1>1. /\ IsChunk(rows) /\ (c \in Roots => rows = ChunkRows[c])
      /\ (IsStatic(rows) => c \in Roots) /\ (c \in Roots \/ Fresh(s, c))
  BY DEF Insertable
<1>2. CASE IsStatic(rows)
  <2>1. o = InsertStatic(s, c, rows) /\ c \in Roots /\ rows = ChunkRows[c]
    BY <1>1, <1>2 DEF StoreChunk
  <2> QED BY <1>2, <2>1, InsertStaticFacts
<1>3. CASE ~IsStatic(rows) /\ Cardinality(rows) > ChunkMaxRows
  <2>1. o = InsertSplits(s, c, rows)
    BY <1>3 DEF StoreChunk
  <2> QED BY <1>1, <1>3, <2>1, InsertSplitsFacts
<1>4. CASE ~IsStatic(rows) /\ ~(Cardinality(rows) > ChunkMaxRows)
  <2>1. PICK e \in CompactionCandidates(s, c, rows) : o = InsertTemporal(s, c, rows, e)
    BY <1>4 DEF StoreChunk
  <2> QED BY <1>1, <1>4, <2>1, InsertTemporalFacts
<1> QED BY <1>2, <1>3, <1>4

\* insert_chunk keeps the store sound and tells what it does.
LEMMA InsertChunkFacts ==
    ASSUME NEW s, StoreInv(s), NEW c, NEW rows, Insertable(s, c, rows), NEW o \in InsertChunk(s, c, rows)
    PROVE  /\ Kept(s, o)
           /\ RowsSound(s) /\ c \in Roots /\ ~IsStatic(rows) => TemporalRows(o.store) = TemporalRows(s) \cup rows
<1> DEFINE prep == PrepareInsertion(s, c, rows)
<1>0. rows \subseteq TemporalRows(s) => TemporalRows(s) = TemporalRows(s) \cup rows
  OBVIOUS
<1>1. CASE /\ o = Outcome(s, <<>>)
           /\ \/ ~IsRootChunk(s, c)
              \/ IsPhysical(s, c)
              \/ \E x \in LaterCompactions(s, c) : IsPhysical(s, x)
  <2>1. Kept(s, o) /\ o.store = s
    BY <1>1, NothingKept
  <2>2. ASSUME RowsSound(s), c \in Roots, ~IsStatic(rows)
        PROVE  rows \subseteq TemporalRows(s)
    <3>1. IsRootChunk(s, c) /\ s \in Stores /\ rows = ChunkRows[c] /\ IsChunk(rows)
      BY <2>2, SoundFacts DEF IsRootChunk, LineageShaped, Insertable
    <3>2. PICK x \in DOMAIN s.physical : rows \subseteq s.physical[x]
      <4>1. CASE IsPhysical(s, c)
        BY <2>2, <3>1, <4>1, SoundFacts DEF IsPhysical, ChunksSound
      <4>2. CASE \E x \in LaterCompactions(s, c) : IsPhysical(s, x)
        <5>1. PICK x \in LaterCompactions(s, c) : x \in DOMAIN s.physical
          BY <4>2 DEF IsPhysical
        <5> QED BY <2>2, <3>1, <5>1, CompactionsHold
      <4> QED BY <1>1, <3>1, <4>1, <4>2
    <3>3. ~IsStatic(s.physical[x])
      <4>1. IsChunk(s.physical[x])
        BY SoundFacts
      <4>2. PICK r \in rows : TRUE
        BY <3>1 DEF IsChunk
      <4>3. r \notin StaticRows /\ r \in s.physical[x]
        BY <2>2, <3>1, <3>2, TemporalFacts
      <4> QED BY <4>1, <4>3, TemporalFacts DEF IsChunk
    <3>4. \A r \in rows : r \in TemporalRows(s)
      BY <3>2, <3>3, TemporalRow
    <3> QED BY <3>4
  <2> QED BY <1>0, <2>1, <2>2
<1>2. CASE ~IsPhysical(s, c) /\ o \in StorePrepared(prep, c, rows)
  <2>1. PICK p \in StoreChunk(prep.store, c, rows) : o = After(prep.diffs, p)
    BY <1>2 DEF StorePrepared
  <2>2. c \notin DOMAIN s.physical /\ s.lastId \in Nat
    BY <1>2, SoundFacts DEF IsPhysical
  <2>3. /\ Kept(s, prep) /\ Thins(s, prep.store)
        /\ c \in DOMAIN prep.store.lineage /\ c \notin DOMAIN prep.store.physical
        /\ RowsSound(s) /\ c \in Roots
             => TemporalRows(prep.store) \cup ChunkRows[c] = TemporalRows(s) \cup ChunkRows[c]
    BY <2>2, PrepareFacts
  <2> HIDE DEF prep
  <2>4. StoreInv(prep.store) /\ prep.store.lastId >= s.lastId
    BY <2>3 DEF Kept
  <2>5. Insertable(prep.store, c, rows)
    <3>1. prep.store.lastId \in Nat
      BY <2>4, SoundFacts
    <3>2. c <= prep.store.lastId
      BY <2>2, <2>4, <3>1 DEF Insertable
    <3>3. Fresh(s, c) => Fresh(prep.store, c)
      BY <2>3, ThinsFresh
    <3> QED BY <3>2, <3>3 DEF Insertable
  <2>6. Kept(prep.store, p) /\ (~IsStatic(rows) => TemporalRows(p.store) = TemporalRows(prep.store) \cup rows)
    BY <2>1, <2>3, <2>4, <2>5, StoreChunkFacts
  <2>7. Kept(s, o) /\ o.store = p.store
    BY <2>1, <2>2, <2>3, <2>6, KeptAfter
  <2>8. c \in Roots => rows = ChunkRows[c]
    BY DEF Insertable
  <2> QED BY <2>3, <2>6, <2>7, <2>8
<1>3. \/ /\ o = Outcome(s, <<>>)
         /\ \/ ~IsRootChunk(s, c)
            \/ IsPhysical(s, c)
            \/ \E x \in LaterCompactions(s, c) : IsPhysical(s, x)
      \/ ~IsPhysical(s, c) /\ o \in StorePrepared(prep, c, rows)
  BY DEF InsertChunk
<1> QED BY <1>1, <1>2, <1>3

-----------------------------------------------------------------------------
(* gc: the candidates *)

\* What comes before x by its key, or by its identifier at the same key.
Lower(S, key, x) == {y \in S : key[y] < key[x] \/ (key[y] = key[x] /\ y < x)}

\* A finite set of identifiers in the order of their keys.
LEMMA KeyedFacts ==
    ASSUME NEW S, IsFiniteSet(S), S \subseteq Int, NEW key, \A x \in S : key[x] \in Int,
           NEW q, DOMAIN q = 1..Cardinality(S), q = [i \in DOMAIN q |-> q[i]],
           \A i \in 1..Cardinality(S) :
              (\E x \in S : Cardinality(Lower(S, key, x)) = i - 1)
                 => q[i] \in S /\ Cardinality(Lower(S, key, q[i])) = i - 1
    PROVE  q \in Seq(S) /\ Range(q) = S
<1> DEFINE R == {p \in S \X S : key[p[1]] < key[p[2]] \/ (key[p[1]] = key[p[2]] /\ p[1] < p[2])}
<1>1. Orders(R, S)
  <2>1. \A x, y \in S : <<x, y>> \in R <=> (key[x] < key[y] \/ (key[x] = key[y] /\ x < y))
    OBVIOUS
  <2> HIDE DEF R
  <2>2. \A x \in S : <<x, x>> \notin R
    BY <2>1
  <2>3. \A x, y \in S : x # y => <<x, y>> \in R \/ <<y, x>> \in R
    BY <2>1
  <2>4. \A x, y, z \in S : <<x, y>> \in R /\ <<y, z>> \in R => <<x, z>> \in R
    BY <2>1
  <2> QED BY <2>2, <2>3, <2>4 DEF Orders
<1>2. \A x \in S : Rank(R, S, x) = Cardinality(Lower(S, key, x))
  <2>1. \A x \in S : {y \in S : <<y, x>> \in R} = Lower(S, key, x)
    BY DEF Lower
  <2> QED BY <2>1 DEF Rank
<1> HIDE DEF R
<1>3. Cardinality(S) \in Nat /\ \A k \in 0..(Cardinality(S) - 1) : \E x \in S : Rank(R, S, x) = k
  BY <1>1, RanksCount
<1>4. ASSUME NEW i \in 1..Cardinality(S) PROVE q[i] \in S /\ Rank(R, S, q[i]) = i - 1
  <2>1. i - 1 \in 0..(Cardinality(S) - 1)
    BY <1>3
  <2>2. \E x \in S : Cardinality(Lower(S, key, x)) = i - 1
    BY <1>2, <1>3, <2>1
  <2> QED BY <1>2, <2>2
<1>5. q \in [1..Cardinality(S) -> S]
  BY <1>4
<1>6. \A i \in 1..Cardinality(S) : Rank(R, S, q[i]) = i - 1
  BY <1>4
<1>7. q \in Seq(S)
  BY <1>1, <1>5, <1>6, RankedFacts
<1>8. Range(q) = S
  BY <1>1, <1>5, <1>6, RankedFacts
<1> QED BY <1>7, <1>8

\* The distance of a chunk is a number.
LEMMA DistanceFacts ==
    ASSUME NEW rows, IsChunk(rows), NEW t \in Int
    PROVE  Distance(rows, t) \in Int
<1> DEFINE far == [x \in Times(rows) |-> IF x < t THEN t - x ELSE x - t]
           D == {IF x < t THEN t - x ELSE x - t : x \in Times(rows)}
<1>1. IsFiniteSet(rows) /\ rows # {} /\ rows \subseteq Rows
  BY ChunkFacts DEF IsChunk
<1>2. IsFiniteSet(Times(rows))
  BY <1>1, FiniteValues DEF Times
<1>3. Times(rows) # {} /\ Times(rows) \subseteq Int
  <2>1. \A r \in rows : RowTime[r] \in Int
    BY <1>1, DataAssumption
  <2> QED BY <1>1, <2>1 DEF Times
<1>4. D = {far[x] : x \in Times(rows)}
  OBVIOUS
<1>5. D # {} /\ D \subseteq Int
  BY <1>3
<1>6. IsFiniteSet(D)
  <2> HIDE DEF far, D
  <2>1. IsFiniteSet({far[x] : x \in Times(rows)})
    BY <1>2, FiniteValues
  <2> QED BY <1>4, <2>1
<1> QED BY <1>5, <1>6, MinFacts DEF Distance

\* The chunks by their distance to a time.
LEMMA FurthestFacts ==
    ASSUME NEW s, StoreInv(s), NEW S \in SUBSET DOMAIN s.physical, NEW t \in Int
    PROVE  FurthestFrom(s, S, t) \in Seq(S) /\ Range(FurthestFrom(s, S, t)) = S
<1> DEFINE q == FurthestFrom(s, S, t)
           key == [c \in S |-> 0 - Distance(s.physical[c], t)]
<1>1. IsFiniteSet(S) /\ S \subseteq Int
  BY SoundFacts, FS_Subset
<1>2. \A c \in S : Distance(s.physical[c], t) \in Int
  BY SoundFacts, DistanceFacts
<1>3. \A c \in S : key[c] \in Int /\ key[c] = 0 - Distance(s.physical[c], t)
  BY <1>2
<1> HIDE DEF key
<1>4. DOMAIN q = 1..Cardinality(S) /\ q = [i \in DOMAIN q |-> q[i]]
  <2> DEFINE F(i) == CHOOSE x \in S : Cardinality({y \in S : LET dc == Distance(s.physical[y], t)
                                                                 dd == Distance(s.physical[x], t)
                                                             IN  dc > dd \/ (dc = dd /\ y < x)}) = i - 1
  <2>1. q = [i \in 1..Cardinality(S) |-> F(i)]
    BY DEF FurthestFrom, InOrder
  <2> HIDE DEF F, q
  <2> QED BY <2>1
<1>5. ASSUME NEW i \in 1..Cardinality(S), \E x \in S : Cardinality(Lower(S, key, x)) = i - 1
      PROVE  q[i] \in S /\ Cardinality(Lower(S, key, q[i])) = i - 1
  <2> DEFINE B(x) == {y \in S : LET dc == Distance(s.physical[y], t)
                                    dd == Distance(s.physical[x], t)
                                IN  dc > dd \/ (dc = dd /\ y < x)}
  <2>1. \A x \in S : B(x) = Lower(S, key, x)
    BY <1>2, <1>3 DEF Lower
  <2>2. q[i] = CHOOSE x \in S : Cardinality(B(x)) = i - 1
    BY DEF FurthestFrom, InOrder
  <2>3. \E x \in S : Cardinality(B(x)) = i - 1
    BY <1>5, <2>1
  <2> HIDE DEF B
  <2>4. q[i] \in S /\ Cardinality(B(q[i])) = i - 1
    BY <2>2, <2>3
  <2> QED BY <2>1, <2>4
<1> HIDE DEF q
<1>6. q \in Seq(S) /\ Range(q) = S
  BY <1>1, <1>3, <1>4, <1>5, KeyedFacts
<1> QED BY <1>6 DEF q

\* The chunks by their first row.
LEMMA ByMinRowIdFacts ==
    ASSUME NEW s, StoreInv(s), NEW S \in SUBSET DOMAIN s.physical
    PROVE  ByMinRowId(s, S) \in Seq(S) /\ Range(ByMinRowId(s, S)) = S
<1> DEFINE q == ByMinRowId(s, S)
           key == [c \in S |-> Min(s.physical[c])]
<1>1. IsFiniteSet(S) /\ S \subseteq Int
  BY SoundFacts, FS_Subset
<1>2. \A c \in S : key[c] \in Int /\ key[c] = Min(s.physical[c])
  <2>1. SUFFICES ASSUME NEW c \in S PROVE Min(s.physical[c]) \in Int
    OBVIOUS
  <2>2. IsChunk(s.physical[c])
    BY SoundFacts
  <2>3. IsFiniteSet(s.physical[c])
    BY <2>2, ChunkFacts
  <2>4. Rows \subseteq Int
    BY DataAssumption
  <2>5. s.physical[c] # {} /\ s.physical[c] \subseteq Int
    BY <2>2, <2>4 DEF IsChunk
  <2> QED BY <2>3, <2>5, MinFacts
<1> HIDE DEF key
<1>4. DOMAIN q = 1..Cardinality(S) /\ q = [i \in DOMAIN q |-> q[i]]
  <2> DEFINE F(i) == CHOOSE x \in S : Cardinality({y \in S : \/ Min(s.physical[y]) < Min(s.physical[x])
                                                             \/ /\ Min(s.physical[y]) = Min(s.physical[x])
                                                                /\ y < x}) = i - 1
  <2>1. q = [i \in 1..Cardinality(S) |-> F(i)]
    BY DEF ByMinRowId, InOrder
  <2> HIDE DEF F, q
  <2> QED BY <2>1
<1>5. ASSUME NEW i \in 1..Cardinality(S), \E x \in S : Cardinality(Lower(S, key, x)) = i - 1
      PROVE  q[i] \in S /\ Cardinality(Lower(S, key, q[i])) = i - 1
  <2> DEFINE B(x) == {y \in S : \/ Min(s.physical[y]) < Min(s.physical[x])
                                \/ Min(s.physical[y]) = Min(s.physical[x]) /\ y < x}
  <2>1. \A x \in S : B(x) = Lower(S, key, x)
    BY <1>2 DEF Lower
  <2>2. q[i] = CHOOSE x \in S : Cardinality(B(x)) = i - 1
    BY DEF ByMinRowId, InOrder
  <2>3. \E x \in S : Cardinality(B(x)) = i - 1
    BY <1>5, <2>1
  <2> HIDE DEF B
  <2>4. q[i] \in S /\ Cardinality(B(q[i])) = i - 1
    BY <2>2, <2>3
  <2> QED BY <2>1, <2>4
<1> HIDE DEF q
<1>6. q \in Seq(S) /\ Range(q) = S
  BY <1>1, <1>2, <1>4, <1>5, KeyedFacts
<1> QED BY <1>6 DEF q

\* The number of chunks that reach the target is that of some, if there are any.
LEMMA ReachingFacts ==
    ASSUME NEW s, NEW S, NEW q \in Seq(S), NEW target
    PROVE  /\ Len(q) \in Nat /\ Reaching(s, q, target) \in 0..Len(q)
           /\ q # <<>> => Reaching(s, q, target) >= 1
<1> DEFINE K == {k \in 1..Len(q) : RowsIn(s, SubSeq(q, 1, k)) >= target}
           A == {Len(q)} \cup K
<1>1. Len(q) \in Nat
  BY LenProperties
<1>2. A \subseteq 0..Len(q)
  BY <1>1
<1>3. IsFiniteSet(0..Len(q))
  BY <1>1, FS_Interval
<1>4. IsFiniteSet(A)
  BY <1>2, <1>3, FS_Subset
<1>5. A # {} /\ A \subseteq Int
  BY <1>1, <1>2
<1>6. q # <<>> => A \subseteq 1..Len(q)
  <2>1. q # <<>> => Len(q) # 0
    BY EmptySeq
  <2> QED BY <1>1, <2>1
<1>7. Reaching(s, q, target) = Min(A)
  BY DEF Reaching
<1> HIDE DEF A
<1>8. Min(A) \in A
  BY <1>4, <1>5, MinFacts
<1>9. q # <<>> => Min(A) >= 1
  BY <1>1, <1>6, <1>8
<1> QED BY <1>1, <1>2, <1>7, <1>8, <1>9

\* The first chunks of a list.
LEMMA FirstFacts ==
    ASSUME NEW S, NEW q \in Seq(S), NEW k \in 0..Len(q)
    PROVE  /\ SubSeq(q, 1, k) \in Seq(S) /\ Len(SubSeq(q, 1, k)) = k /\ k \in Nat
           /\ DOMAIN SubSeq(q, 1, k) = 1..k
           /\ \A i \in 1..k : SubSeq(q, 1, k)[i] = q[i]
<1>1. Len(q) \in Nat /\ DOMAIN q = 1..Len(q) /\ \A i \in 1..Len(q) : q[i] \in S
  BY LenProperties, ElementOfSeq
<1>2. k \in Nat /\ k \in Int /\ 1 \in Int /\ \A i \in 1..k : q[i] \in S
  BY <1>1
<1>3. /\ SubSeq(q, 1, k) \in Seq(S) /\ Len(SubSeq(q, 1, k)) = IF 1 <= k THEN k - 1 + 1 ELSE 0
      /\ \A i \in 1..(k - 1 + 1) : SubSeq(q, 1, k)[i] = q[1 + i - 1]
  BY <1>2, SubSeqProperties
<1>4. Len(SubSeq(q, 1, k)) = k
  BY <1>2, <1>3
<1>5. DOMAIN SubSeq(q, 1, k) = 1..k
  BY <1>3, <1>4, LenProperties
<1>6. \A i \in 1..k : SubSeq(q, 1, k)[i] = q[i]
  <2>1. ASSUME NEW i \in 1..k PROVE SubSeq(q, 1, k)[i] = q[i]
    <3>1. i \in 1..(k - 1 + 1) /\ 1 + i - 1 = i
      BY <1>2
    <3>2. SubSeq(q, 1, k)[i] = q[1 + i - 1]
      BY <1>3, <3>1
    <3> QED BY <3>1, <3>2
  <2> QED BY <2>1
<1> QED BY <1>2, <1>3, <1>4, <1>5, <1>6

-----------------------------------------------------------------------------
(* The rows of some chunks *)

\* The temporal rows that the chunks ids hold, each with its chunk.
HeldBy(s, ids) == {p \in Held(s.physical) : p[1] \in ids}

\* The rows of one chunk more, as the step of a fold.
RowsOp(cx, a, c) == a + Cardinality(cx[1].physical[c])

\* After n chunks.
RowsKept(cx, n, a) == a = Cardinality(HeldBy(cx[1], {cx[2][i] : i \in 1..n}))

\* The fold of RowsIn, with that invariant.
Counting == INSTANCE FoldFacts WITH Op <- RowsOp, Inv <- RowsKept

\* The induction that Counting goes by.
LEMMA CountingInduction == Counting!NatInduction
BY NatSetInduction DEF Counting!NatInduction

\* No chunk, no row.
LEMMA RowsInNothing == ASSUME NEW s PROVE RowsIn(s, <<>>) = 0
<1> DEFINE cx == <<s, <<>>>>
<1>1. RowsIn(s, <<>>) = Counting!LeftFold(cx, 0, <<>>)
  BY DEF RowsIn, FoldLeft, MapThenFoldSet, Counting!LeftFold, Counting!Top, Max, RowsOp
<1> HIDE DEF cx
<1> QED BY <1>1, CountingInduction, Counting!FoldNothing

\* The rows of temporal physical chunks, none of them twice.
LEMMA RowsInFacts ==
    ASSUME NEW s, StoreInv(s), NEW q \in Seq(TemporalPhysical(s)),
           \A i, j \in DOMAIN q : q[i] = q[j] => i = j
    PROVE  RowsIn(s, q) = Cardinality(HeldBy(s, {q[i] : i \in DOMAIN q}))
<1> DEFINE cx == <<s, q>>
           o == Counting!LeftFold(cx, 0, q)
           ids(n) == {q[i] : i \in 1..n}
<1>1. RowsIn(s, q) = o
  BY DEF RowsIn, FoldLeft, MapThenFoldSet, Counting!LeftFold, Counting!Top, Max, RowsOp
<1>2. Len(q) \in Nat /\ DOMAIN q = 1..Len(q) /\ \A i \in 1..Len(q) : q[i] \in TemporalPhysical(s)
  BY LenProperties, ElementOfSeq
<1>3. IsFiniteSet(Held(s.physical))
  BY SoundFacts, HeldFinite
<1>4. RowsKept(cx, 0, 0)
  <2>1. HeldBy(s, ids(0)) = {}
    BY DEF HeldBy
  <2>2. Cardinality({}) = 0
    BY FS_EmptySet
  <2>3. Cardinality(HeldBy(s, ids(0))) = 0
    BY <2>1, <2>2
  <2> QED BY <2>3 DEF RowsKept
<1>5. \A a : \A n \in 1..Len(q) : RowsKept(cx, n - 1, a) => RowsKept(cx, n, RowsOp(cx, a, q[n]))
  <2>1. SUFFICES ASSUME NEW n \in 1..Len(q)
                 PROVE  Cardinality(HeldBy(s, ids(n)))
                          = Cardinality(HeldBy(s, ids(n - 1))) + Cardinality(s.physical[q[n]])
    BY DEF RowsKept, RowsOp
  <2> DEFINE c == q[n]
             rows == s.physical[c]
             A == HeldBy(s, ids(n - 1))
             B == {c} \X rows
             C == HeldBy(s, ids(n))
  <2>2. c \in DOMAIN s.physical /\ ~IsStatic(rows) /\ IsChunk(rows)
    BY <1>2, SoundFacts DEF TemporalPhysical
  <2>3. rows \subseteq Rows /\ IsFiniteSet(rows)
    BY <2>2, ChunkFacts DEF IsChunk
  <2>4. \A y : y \in ids(n) <=> y \in ids(n - 1) \/ y = c
    BY <1>2
  <2>5. c \notin ids(n - 1)
    BY <1>2
  <2> HIDE DEF ids
  <2>6. A \cap B = {}
    BY <2>5 DEF HeldBy
  <2>7. C = A \cup B
    <3>1. B \subseteq C
      BY <2>2, <2>3, <2>4 DEF HeldBy, Held
    <3>2. A \subseteq C
      BY <2>4 DEF HeldBy
    <3>3. \A p \in C : p \in A \/ p \in B
      <4>1. SUFFICES ASSUME NEW p \in C, p[1] = c PROVE p \in B
        BY <2>4 DEF HeldBy
      <4>2. p \in (DOMAIN s.physical) \X Rows /\ p[2] \in s.physical[p[1]]
        BY DEF HeldBy, Held
      <4> QED BY <4>1, <4>2
    <3> QED BY <3>1, <3>2, <3>3
  <2>8. IsFiniteSet(A)
    <3>1. A \subseteq Held(s.physical)
      BY DEF HeldBy
    <3> QED BY <1>3, <3>1, FS_Subset
  <2>9. IsFiniteSet(B) /\ Cardinality(B) = Cardinality(rows)
    BY <2>3, OneChunk
  <2> HIDE DEF A, B, C, rows
  <2>10. Cardinality(C) = Cardinality(A) + Cardinality(B) - Cardinality(A \cap B)
    BY <2>7, <2>8, <2>9, FS_Union
  <2>11. Cardinality(A \cap B) = 0 /\ Cardinality(A) \in Nat /\ Cardinality(B) \in Nat
    BY <2>6, <2>8, <2>9, FS_EmptySet, FS_CardinalityType
  <2>12. Cardinality(C) = Cardinality(A) + Cardinality(rows)
    BY <2>9, <2>10, <2>11
  <2> QED BY <2>12 DEF A, C, rows
<1> HIDE DEF cx
<1>6. RowsKept(cx, Len(q), o)
  BY <1>2, <1>4, <1>5, CountingInduction, Counting!SeqFold
<1> HIDE DEF o
<1> QED BY <1>1, <1>2, <1>6 DEF RowsKept, cx

\* gc_find_candidates marks chunks that are neither static nor protected, and
\* some if there are any that it may mark.
LEMMA MarkFacts ==
    ASSUME NEW s, StoreInv(s), NEW opt, opt.furthest \in Int \cup {None}, opt.target \in Nat, NEW protected,
           NEW m \in GcFindCandidates(s, opt, protected)
    PROVE  /\ m \in Seq(TemporalPhysical(s) \ protected)
           /\ (opt.target > 0 /\ TemporalPhysical(s) \ (protected \cup ProtectedLatest(s, opt.protectLatest)) # {})
                 => m # <<>>
<1> DEFINE T == TemporalPhysical(s)
           S == T \ protected
           all == protected \cup ProtectedLatest(s, opt.protectLatest)
           F == T \ all
           marked == MarkByDistance(s, opt, protected)
           free == ByMinRowId(s, F)
           left == opt.target - RowsIn(s, marked)
<1>1. T \subseteq DOMAIN s.physical
  BY DEF TemporalPhysical
<1>2. marked \in Seq(S)
  <2>1. CASE opt.furthest = None
    <3>1. marked = <<>>
      BY <2>1 DEF MarkByDistance
    <3> QED BY <3>1
  <2>2. CASE opt.furthest # None
    <3> DEFINE q == FurthestFrom(s, S, opt.furthest)
    <3>1. marked = SubSeq(q, 1, Reaching(s, q, opt.target))
      BY <2>2 DEF MarkByDistance, UpTo
    <3>2. opt.furthest \in Int /\ S \in SUBSET DOMAIN s.physical
      BY <1>1, <2>2
    <3> HIDE DEF S, T
    <3>3. q \in Seq(S)
      BY <3>2, FurthestFacts
    <3> HIDE DEF q
    <3>4. Reaching(s, q, opt.target) \in 0..Len(q)
      BY <3>3, ReachingFacts
    <3>5. SubSeq(q, 1, Reaching(s, q, opt.target)) \in Seq(S)
      BY <3>3, <3>4, FirstFacts
    <3> QED BY <3>1, <3>5
  <2> QED BY <2>1, <2>2
<1>3. free \in Seq(F) /\ Range(free) = F
  <2>1. F \in SUBSET DOMAIN s.physical
    BY <1>1
  <2> HIDE DEF F
  <2> QED BY <2>1, ByMinRowIdFacts
<1>4. CASE opt.target = 0
  <2>1. m = <<>>
    BY <1>4 DEF GcFindCandidates
  <2> QED BY <1>4, <2>1
<1>5. CASE opt.target # 0 /\ m = marked /\ (left <= 0 \/ free = <<>>)
  <2>1. F # {} => free # <<>>
    <3>1. DOMAIN <<>> = {}
      OBVIOUS
    <3> HIDE DEF F, free
    <3> QED BY <1>3, <3>1 DEF Range
  <2>2. left <= 0 => marked # <<>>
    <3>1. SUFFICES ASSUME marked = <<>> PROVE ~(left <= 0)
      OBVIOUS
    <3>2. left = opt.target
      BY <3>1, RowsInNothing
    <3> HIDE DEF left
    <3> QED BY <1>5, <3>2
  <2> HIDE DEF marked, free, left, F
  <2>3. F # {} => m # <<>>
    BY <1>5, <2>1, <2>2
  <2> QED BY <1>2, <1>5, <2>3 DEF F
<1>6. CASE opt.target # 0 /\ free # <<>> /\ \E k \in 1..Reaching(s, free, left) : m = marked \o SubSeq(free, 1, k)
  <2>1. PICK k \in 1..Reaching(s, free, left) : m = marked \o SubSeq(free, 1, k)
    BY <1>6
  <2> HIDE DEF marked, free, left
  <2>2. Len(free) \in Nat /\ Reaching(s, free, left) \in 0..Len(free)
    BY <1>3, ReachingFacts
  <2>3. k \in 0..Len(free) /\ k >= 1
    BY <2>2
  <2> DEFINE more == SubSeq(free, 1, k)
  <2>4. more \in Seq(F) /\ Len(more) = k
    BY <1>3, <2>3, FirstFacts
  <2> HIDE DEF more
  <2>5. F \subseteq S
    OBVIOUS
  <2> HIDE DEF F, S
  <2>6. more \in Seq(S)
    <3>1. Len(more) \in Nat /\ DOMAIN more = 1..Len(more) /\ \A i \in 1..Len(more) : more[i] \in F
      BY <2>4, LenProperties, ElementOfSeq
    <3>2. more \in [1..Len(more) -> S]
      BY <2>4, <2>5
    <3> QED BY <3>1, <3>2, SeqDef
  <2>7. marked \o more \in Seq(S) /\ Len(marked \o more) = Len(marked) + k
    BY <1>2, <2>4, <2>6, ConcatProperties
  <2>8. m # <<>>
    <3>1. Len(marked) \in Nat /\ k \in Nat
      BY <1>2, <2>3, LenProperties
    <3>2. Len(m) # 0
      BY <2>1, <2>3, <2>7, <3>1 DEF more
    <3>3. Len(<<>>) = 0
      OBVIOUS
    <3> QED BY <3>2, <3>3
  <2> QED BY <2>1, <2>7, <2>8 DEF S, more
<1>7. \/ opt.target = 0
      \/ opt.target # 0 /\ m = marked /\ (left <= 0 \/ free = <<>>)
      \/ opt.target # 0 /\ free # <<>> /\ \E k \in 1..Reaching(s, free, left) : m = marked \o SubSeq(free, 1, k)
  <2>1. CASE opt.target = 0
    BY <2>1
  <2>2. CASE opt.target # 0
    <3>1. m \in MarkByRowId(s, opt, all, marked)
      BY <2>2 DEF GcFindCandidates
    <3>2. m \in IF left <= 0 \/ free = <<>> THEN {marked}
                ELSE {marked \o SubSeq(free, 1, k) : k \in 1..Reaching(s, free, left)}
      BY <3>1 DEF MarkByRowId
    <3> HIDE DEF marked, free, left
    <3> QED BY <2>2, <3>2
  <2> QED BY <2>1, <2>2
<1> QED BY <1>4, <1>5, <1>6, <1>7

-----------------------------------------------------------------------------
(* gc: the removal *)

\* remove_chunks_shallow keeps the store sound and tells what it does.
LEMMA ShallowIsKept ==
    ASSUME NEW s, StoreInv(s), NEW chunks \in ChunkList, Temporal(s, chunks)
    PROVE  Kept(s, RemoveChunksShallow(s, chunks))
<1> DEFINE o == RemoveChunksShallow(s, chunks)
           ids == Named(chunks, Len(chunks))
<1>1. /\ StoreInv(o.store) /\ Shrinks(s, o.store)
      /\ DOMAIN o.store.physical = DOMAIN s.physical \ ids
      /\ o.diffs \in Seq(Deletions) /\ Gone(o.diffs) = ids \cap DOMAIN s.physical
  BY ShallowFacts
<1> HIDE DEF o, ids
<1>2. DOMAIN o.store.physical = DOMAIN s.physical \ Gone(o.diffs)
  BY <1>1
<1>3. Told(s, o)
  BY <1>1, <1>2, DeletionsTold
<1>4. s.lastId \in Nat /\ s \in Stores /\ o.store \in Stores
  BY <1>1, SoundFacts
<1>5. Surplus(o.store) = Surplus(s) /\ o.store.lastId >= s.lastId
  BY <1>1, <1>4 DEF Shrinks
<1>6. RowsSound(s) => RowsSound(o.store)
  BY <1>1, <1>4, ShrinksThins, ThinsKeeps
<1> QED BY <1>1, <1>3, <1>5, <1>6 DEF Kept, o

\* The chunks that the first k of a list of chunks name.
LEMMA NamedFirst ==
    ASSUME NEW s, StoreInv(s), NEW S \in SUBSET TemporalPhysical(s), NEW a \in Seq(S), NEW k \in 0..Len(a)
    PROVE  LET chunks == SubSeq(AsChunks(s, a), 1, k)
           IN  /\ chunks \in ChunkList /\ Temporal(s, chunks) /\ Len(chunks) = k
               /\ \A y : y \in Named(chunks, k) <=> \E i \in 1..k : y = a[i]
<1> DEFINE list == AsChunks(s, a)
           chunks == SubSeq(list, 1, k)
<1>1. /\ list \in ChunkList /\ Temporal(s, list) /\ Len(list) = Len(a) /\ Len(a) \in Nat
      /\ DOMAIN list = 1..Len(a)
      /\ \A i \in 1..Len(a) : list[i] = <<a[i], s.physical[a[i]]>>
  BY AsChunksFacts
<1> HIDE DEF list
<1>2. /\ chunks \in ChunkList /\ Len(chunks) = k /\ k \in Nat /\ DOMAIN chunks = 1..k
      /\ \A i \in 1..k : chunks[i] = list[i]
  BY <1>1, FirstFacts DEF ChunkList
<1> HIDE DEF chunks
<1>3. \A i \in 1..k : i \in DOMAIN list /\ chunks[i] = list[i] /\ list[i][1] = a[i]
  BY <1>1, <1>2
<1>4. Temporal(s, chunks)
  BY <1>1, <1>2, <1>3 DEF Temporal
<1>5. \A y : y \in Named(chunks, k) <=> \E i \in 1..k : y = a[i]
  BY <1>3 DEF Named
<1> QED BY <1>2, <1>4, <1>5 DEF chunks, list

\* The sweep removes marked chunks only, and some if some are marked.
LEMMA SweepFacts ==
    ASSUME NEW s, StoreInv(s), NEW S \in SUBSET TemporalPhysical(s), NEW a \in Seq(S), NEW b \in Seq(S),
           NEW o \in Sweep(s, AsChunks(s, a), AsChunks(s, b))
    PROVE  /\ Kept(s, o)
           /\ \E ids \in SUBSET S : /\ DOMAIN o.store.physical = DOMAIN s.physical \ ids
                                    /\ a # <<>> \/ b # <<>> => ids # {}
<1> DEFINE roots == AsChunks(s, a)
           derived == AsChunks(s, b)
<1>1. /\ Len(a) \in Nat /\ DOMAIN a = 1..Len(a) /\ \A i \in 1..Len(a) : a[i] \in S
      /\ Len(b) \in Nat /\ DOMAIN b = 1..Len(b) /\ \A i \in 1..Len(b) : b[i] \in S
  BY LenProperties, ElementOfSeq
<1>2. Len(roots) = Len(a) /\ (roots = <<>> <=> a = <<>>)
  <2>1. Len(roots) = Len(a) /\ roots \in ChunkList
    BY AsChunksFacts
  <2> HIDE DEF roots
  <2>2. (roots = <<>> <=> Len(roots) = 0) /\ (a = <<>> <=> Len(a) = 0)
    BY <2>1, EmptySeq DEF ChunkList
  <2> QED BY <2>1, <2>2
<1>3. PICK k \in (IF roots = <<>> THEN {0} ELSE 1..Len(roots)) :
           o = ThenRemoveDeep(RemoveChunksShallow(s, SubSeq(roots, 1, k)), derived)
  BY DEF Sweep
<1>4. k \in 0..Len(a) /\ (a # <<>> => k >= 1)
  BY <1>1, <1>2, <1>3
<1> DEFINE first == SubSeq(roots, 1, k)
           p == RemoveChunksShallow(s, first)
           one == {a[i] : i \in 1..k}
           two == {b[i] : i \in 1..Len(b)}
           q == RemoveChunksDeep(p.store, derived)
<1>5. first \in ChunkList /\ Temporal(s, first) /\ Named(first, Len(first)) = one
  <2>1. first \in ChunkList
    BY <1>4, NamedFirst
  <2>2. Temporal(s, first)
    BY <1>4, NamedFirst
  <2>3. Named(first, Len(first)) = one
    <3>1. Len(first) = k
      BY <1>4, NamedFirst
    <3>2. \A y : y \in Named(first, k) <=> \E i \in 1..k : y = a[i]
      BY <1>4, NamedFirst
    <3> HIDE DEF first
    <3> QED BY <3>1, <3>2
  <2> QED BY <2>1, <2>2, <2>3
<1>6. derived \in ChunkList /\ Temporal(s, derived) /\ Len(derived) = Len(b)
  BY AsChunksFacts
<1>7. Named(derived, Len(derived)) = two
  <2>1. \A i \in 1..Len(b) : derived[i] = <<b[i], s.physical[b[i]]>>
    BY AsChunksFacts
  <2>2. \A i \in 1..Len(b) : derived[i][1] = b[i]
    BY <2>1
  <2> HIDE DEF derived
  <2> QED BY <1>6, <2>2 DEF Named
<1> HIDE DEF roots, derived, first
<1>8. /\ StoreInv(p.store) /\ Shrinks(s, p.store)
      /\ DOMAIN p.store.physical = DOMAIN s.physical \ one
  BY <1>5, ShallowFacts
<1>9. Kept(s, p)
  BY <1>5, ShallowIsKept
<1>10. o = After(p.diffs, q)
  BY <1>3 DEF ThenRemoveDeep, first
<1> HIDE DEF p
<1>11. Temporal(p.store, derived)
  <2>1. \A c \in DOMAIN p.store.physical : c \in DOMAIN s.physical /\ p.store.physical[c] = s.physical[c]
    BY <1>8 DEF Shrinks
  <2> QED BY <1>6, <2>1 DEF Temporal
<1>12. DOMAIN q.store.physical = DOMAIN p.store.physical \ two
  BY <1>6, <1>7, <1>8, <1>11, DeepFacts
<1>13. Kept(p.store, q)
  BY <1>6, <1>8, <1>11, DeepKept
<1> HIDE DEF q
<1>14. Kept(s, o) /\ o.store = q.store
  <2>1. s.lastId \in Nat
    BY SoundFacts
  <2> QED BY <1>9, <1>10, <1>13, <2>1, KeptAfter
<1>15. DOMAIN o.store.physical = DOMAIN s.physical \ (one \cup two)
  BY <1>8, <1>12, <1>14
<1>16. one \cup two \in SUBSET S
  BY <1>1, <1>4
<1>17. a # <<>> \/ b # <<>> => one \cup two # {}
  <2>1. a # <<>> => a[1] \in one
    BY <1>1, <1>4
  <2>2. b # <<>> => b[1] \in two
    <3>1. b # <<>> => Len(b) # 0
      BY EmptySeq
    <3> QED BY <1>1, <3>1
  <2> QED BY <2>1, <2>2
<1> HIDE DEF one, two
<1> QED BY <1>14, <1>15, <1>16, <1>17

\* gc removes no static and no protected chunk, and some if it may remove some.
LEMMA GcFacts ==
    ASSUME NEW s, StoreInv(s), NEW opt, opt.furthest \in Int \cup {None}, opt.target \in Nat, NEW protected,
           NEW o \in Gc(s, opt, protected)
    PROVE  /\ Kept(s, o)
           /\ \E ids \in SUBSET (TemporalPhysical(s) \ protected) :
                /\ DOMAIN o.store.physical = DOMAIN s.physical \ ids
                /\ (opt.target > 0
                     /\ TemporalPhysical(s) \ (protected \cup ProtectedLatest(s, opt.protectLatest)) # {})
                       => ids # {}
<1> DEFINE S == TemporalPhysical(s) \ protected
           roots(m) == {c \in Range(m) : ~opt.deep /\ IsRootChunk(s, c)}
           busy == /\ opt.target > 0
                   /\ TemporalPhysical(s) \ (protected \cup ProtectedLatest(s, opt.protectLatest)) # {}
<1>1. PICK m \in GcFindCandidates(s, opt, protected) :
           o \in Sweep(s, AsChunks(s, Among(m, roots(m))), AsChunks(s, Among(m, Range(m) \ roots(m))))
  BY DEF Gc
<1>2. m \in Seq(S) /\ (busy => m # <<>>)
  BY MarkFacts
<1>3. S \in SUBSET TemporalPhysical(s)
  OBVIOUS
<1> DEFINE r == roots(m)
           a == Among(m, r)
           b == Among(m, Range(m) \ r)
<1>4. r \subseteq Range(m)
  OBVIOUS
<1>5. o \in Sweep(s, AsChunks(s, a), AsChunks(s, b))
  BY <1>1
<1> HIDE DEF roots, r, S, busy
<1>6. a \in Seq(S) /\ Range(a) = Range(m) \cap r
  BY <1>2, AmongFacts
<1>7. b \in Seq(S) /\ Range(b) = Range(m) \cap (Range(m) \ r)
  BY <1>2, AmongFacts
<1>8. m # <<>> => a # <<>> \/ b # <<>>
  <2>1. SUFFICES ASSUME m # <<>>, a = <<>>, b = <<>> PROVE FALSE
    OBVIOUS
  <2>2. Range(<<>>) = {}
    BY DEF Range
  <2> HIDE DEF a, b
  <2>3. Range(m) = {}
    BY <1>4, <1>6, <1>7, <2>1, <2>2
  <2>4. Len(m) # 0 /\ Len(m) \in Nat /\ DOMAIN m = 1..Len(m)
    BY <1>2, <2>1, EmptySeq, LenProperties
  <2>5. m[1] \in Range(m)
    BY <2>4 DEF Range
  <2> QED BY <2>3, <2>5
<1> HIDE DEF a, b
<1>9. Kept(s, o)
  BY <1>3, <1>5, <1>6, <1>7, SweepFacts
<1>10. PICK ids \in SUBSET S : /\ DOMAIN o.store.physical = DOMAIN s.physical \ ids
                               /\ a # <<>> \/ b # <<>> => ids # {}
  BY <1>3, <1>5, <1>6, <1>7, SweepFacts
<1>11. busy => ids # {}
  BY <1>2, <1>8, <1>10
<1> QED BY <1>9, <1>10, <1>11 DEF S, busy

-----------------------------------------------------------------------------
(* drop_entity_path *)

\* The rows of one chunk more, as the step of a fold.
ChunkRowsOp(s, n, c) == n + Cardinality(s.physical[c])

\* After the chunks done.
ChunkRowsKept(s, done, n) ==
    /\ n \in Int
    /\ done \subseteq TemporalPhysical(s) => n = Cardinality(HeldBy(s, done))

\* The fold of drop_entity_path over the entity's chunks, with that invariant.
Summing == INSTANCE FoldFacts WITH Op <- ChunkRowsOp, Inv <- ChunkRowsKept

\* The induction that Summing goes by.
LEMMA SummingInduction == Summing!NatInduction
BY NatSetInduction DEF Summing!NatInduction

\* The rows of one more temporal chunk.
LEMMA HeldByMore ==
    ASSUME NEW s, StoreInv(s), NEW done, NEW c \in TemporalPhysical(s), c \notin done
    PROVE  Cardinality(HeldBy(s, done \cup {c})) = Cardinality(HeldBy(s, done)) + Cardinality(s.physical[c])
<1> DEFINE rows == s.physical[c]
           A == HeldBy(s, done)
           B == {c} \X rows
           C == HeldBy(s, done \cup {c})
<1>1. IsFiniteSet(Held(s.physical))
  BY SoundFacts, HeldFinite
<1>2. c \in DOMAIN s.physical /\ ~IsStatic(rows) /\ IsChunk(rows)
  BY SoundFacts DEF TemporalPhysical
<1>3. rows \subseteq Rows /\ IsFiniteSet(rows)
  BY <1>2, ChunkFacts DEF IsChunk
<1>4. A \cap B = {}
  BY DEF HeldBy
<1>5. C = A \cup B
  <2>1. B \subseteq C
    BY <1>2, <1>3 DEF HeldBy, Held
  <2>2. A \subseteq C
    BY DEF HeldBy
  <2>3. \A p \in C : p \in A \/ p \in B
    <3>1. SUFFICES ASSUME NEW p \in C, p[1] = c PROVE p \in B
      BY DEF HeldBy
    <3>2. p \in (DOMAIN s.physical) \X Rows /\ p[2] \in s.physical[p[1]]
      BY DEF HeldBy, Held
    <3> QED BY <3>1, <3>2
  <2> QED BY <2>1, <2>2, <2>3
<1>6. IsFiniteSet(A)
  <2>1. A \subseteq Held(s.physical)
    BY DEF HeldBy
  <2> QED BY <1>1, <2>1, FS_Subset
<1>7. IsFiniteSet(B) /\ Cardinality(B) = Cardinality(rows)
  BY <1>3, OneChunk
<1> HIDE DEF A, B, C, rows
<1>8. Cardinality(C) = Cardinality(A) + Cardinality(B) - Cardinality(A \cap B)
  BY <1>5, <1>6, <1>7, FS_Union
<1>9. Cardinality(A \cap B) = 0 /\ Cardinality(A) \in Nat /\ Cardinality(B) \in Nat
  BY <1>4, <1>6, <1>7, FS_EmptySet, FS_CardinalityType
<1>10. Cardinality(C) = Cardinality(A) + Cardinality(rows)
  BY <1>7, <1>8, <1>9
<1> QED BY <1>10 DEF A, C, rows

\* The number of rows of some physical chunks.
LEMMA SummingFacts ==
    ASSUME NEW s, StoreInv(s), NEW cs \in SUBSET DOMAIN s.physical
    PROVE  LET n == Summing!AnyFold(s, 0, cs)
           IN  /\ n \in Int
               /\ cs \subseteq TemporalPhysical(s) => n = Cardinality(HeldBy(s, cs))
<1> DEFINE n == Summing!AnyFold(s, 0, cs)
<1>1. PICK size \in [SUBSET cs -> Nat] :
         \A d \in SUBSET cs : size[d] <= size[cs] /\ \A x \in d : size[d \ {x}] < size[d]
  <2>1. IsFiniteSet(cs)
    BY SoundFacts, FS_Subset
  <2> QED BY <2>1, FiniteSizes
<1>2. ChunkRowsKept(s, {}, 0)
  <2>1. HeldBy(s, {}) = {}
    BY DEF HeldBy
  <2>2. Cardinality({}) = 0
    BY FS_EmptySet
  <2>3. Cardinality(HeldBy(s, {})) = 0
    BY <2>1, <2>2
  <2> QED BY <2>3 DEF ChunkRowsKept
<1>3. \A a : \A d \in SUBSET cs : \A x \in cs \ d :
         ChunkRowsKept(s, d, a) => ChunkRowsKept(s, d \cup {x}, ChunkRowsOp(s, a, x))
  <2>1. SUFFICES ASSUME NEW a, NEW d \in SUBSET cs, NEW x \in cs \ d, ChunkRowsKept(s, d, a)
                 PROVE  ChunkRowsKept(s, d \cup {x}, a + Cardinality(s.physical[x]))
    BY DEF ChunkRowsOp
  <2>2. Cardinality(s.physical[x]) \in Nat
    BY SoundFacts, ChunkFacts
  <2>3. a + Cardinality(s.physical[x]) \in Int
    BY <2>1, <2>2 DEF ChunkRowsKept
  <2>4. ASSUME d \cup {x} \subseteq TemporalPhysical(s)
        PROVE  a + Cardinality(s.physical[x]) = Cardinality(HeldBy(s, d \cup {x}))
    <3>1. a = Cardinality(HeldBy(s, d))
      BY <2>1, <2>4 DEF ChunkRowsKept
    <3> QED BY <2>4, <3>1, HeldByMore
  <2> QED BY <2>3, <2>4 DEF ChunkRowsKept
<1>4. ChunkRowsKept(s, cs, Summing!AnyFold(s, 0, cs))
  BY <1>1, <1>2, <1>3, SummingInduction, Summing!SetFold
<1> HIDE DEF n
<1> QED BY <1>4 DEF ChunkRowsKept, n

\* A chunk of the index that is physical is temporal.
LEMMA IndexedIsTemporal ==
    ASSUME NEW s, StoreInv(s), NEW c \in DOMAIN s.virtual, c \in DOMAIN s.physical
    PROVE  c \in TemporalPhysical(s)
<1>1. IndexSound(s) /\ ChunksSound(s)
  BY SoundFacts
<1>2. SUFFICES ASSUME IsStatic(s.physical[c]) PROVE FALSE
  BY DEF TemporalPhysical
<1>3. c \in Roots /\ s.physical[c] = ChunkRows[c]
  BY <1>1, <1>2 DEF ChunksSound
<1>4. s.virtual[c] = ChunkRows[c] /\ ~IsStatic(s.virtual[c])
  BY <1>1, <1>3 DEF IndexSound
<1> QED BY <1>2, <1>3, <1>4

\* Some physical chunks go at once, temporal ones and static ones.
LEMMA HeldWithoutMany ==
    ASSUME NEW s, StoreInv(s), NEW some \in SUBSET TemporalPhysical(s), NEW others,
           \A c \in others : c \in DOMAIN s.physical /\ IsStatic(s.physical[c])
    PROVE  Cardinality(Held(Without(s.physical, some \cup others)))
              = Cardinality(Held(s.physical)) - Cardinality(HeldBy(s, some))
<1> DEFINE f == s.physical
           g == Without(f, some \cup others)
           A == HeldBy(s, some)
           H == Held(f)
<1>1. DOMAIN g = DOMAIN f \ (some \cup others) /\ \A c \in DOMAIN g : g[c] = f[c]
  BY DEF Without, Restrict
<1>2. IsFiniteSet(H)
  BY SoundFacts, HeldFinite
<1>3. A \subseteq H
  BY DEF HeldBy
<1>4. Held(g) = H \ A
  <2> HIDE DEF g, f
  <2>1. \A p \in Held(g) : p \in H \ A
    <3>1. SUFFICES ASSUME NEW p \in Held(g) PROVE p \in H \ A
      OBVIOUS
    <3>2. p \in (DOMAIN g) \X Rows /\ ~IsStatic(g[p[1]]) /\ p[2] \in g[p[1]]
      BY DEF Held
    <3>3. p \in (DOMAIN f) \X Rows /\ p[1] \in DOMAIN g /\ p[1] \notin some
      BY <1>1, <3>2
    <3>4. p \in H
      BY <1>1, <3>2, <3>3 DEF Held
    <3> QED BY <3>3, <3>4 DEF HeldBy
  <2>2. \A p \in H \ A : p \in Held(g)
    <3>1. SUFFICES ASSUME NEW p \in H \ A PROVE p \in Held(g)
      OBVIOUS
    <3>2. p \in (DOMAIN f) \X Rows /\ ~IsStatic(f[p[1]]) /\ p[2] \in f[p[1]]
      BY DEF Held
    <3>3. p[1] \notin some
      BY DEF HeldBy, f
    <3>4. p[1] \notin others
      BY <3>2 DEF f
    <3>5. p[1] \in DOMAIN g
      BY <1>1, <3>2, <3>3, <3>4
    <3>6. p \in (DOMAIN g) \X Rows
      BY <3>2, <3>5
    <3> QED BY <1>1, <3>2, <3>5, <3>6 DEF Held
  <2> QED BY <2>1, <2>2
<1>5. Cardinality(H \ A) = Cardinality(H) - Cardinality(H \cap A)
  <2> HIDE DEF H, A
  <2> QED BY <1>2, FS_Difference
<1>6. H \cap A = A
  BY <1>3
<1> HIDE DEF H, A, g
<1>7. Cardinality(Held(g)) = Cardinality(H) - Cardinality(A)
  BY <1>4, <1>5, <1>6
<1> QED BY <1>7 DEF H, A, g

\* drop_entity_path keeps the store sound and tells what it does.
LEMMA DropEntityFacts ==
    ASSUME NEW s, StoreInv(s), NEW e \in Entities
    PROVE  Kept(s, DropEntityPath(s, e))
<1> DEFINE statics == IF e \in DOMAIN s.static THEN {s.static[e]} \cap DOMAIN s.physical ELSE {}
           indexed == {c \in DOMAIN s.virtual : EntityOf(s.virtual[c]) = e}
           temporal == indexed \cap DOMAIN s.physical
           sum(cs) == Summing!AnyFold(s, 0, cs)
           gone == Ascending(statics) \o Ascending(temporal)
           diffs == [i \in DOMAIN gone |-> Deletion(gone[i], s.physical[gone[i]])]
           ph == Without(s.physical, statics \cup temporal)
           vi == Without(s.virtual, indexed)
           st == Without(s.static, {e})
           ml == [s.maxLength EXCEPT ![e] = 0]
           nu == [static   |-> s.stats.static - sum(statics),
                  temporal |-> s.stats.temporal - sum(temporal)]
           u == [s EXCEPT !.virtual = vi, !.physical = ph, !.stats = nu]
           t == [s EXCEPT !.static = st, !.virtual = vi, !.maxLength = ml, !.physical = ph, !.stats = nu]
<1>1. DropEntityPath(s, e) = Outcome(t, diffs)
  <2> DEFINE rows(cs) == FoldSet(LAMBDA c, n : n + Cardinality(s.physical[c]), 0, cs)
  <2>1. rows(statics) = sum(statics) /\ rows(temporal) = sum(temporal)
    BY DEF FoldSet, MapThenFoldSet, Summing!AnyFold, Summing!Pick, ChunkRowsOp
  <2>2. DropEntityPath(s, e)
          = Outcome([s EXCEPT !.static    = Without(@, {e}),
                              !.virtual   = Without(@, indexed),
                              !.maxLength = [@ EXCEPT ![e] = 0],
                              !.physical  = Without(@, statics \cup temporal),
                              !.stats     = [static   |-> @.static - rows(statics),
                                             temporal |-> @.temporal - rows(temporal)]],
                    diffs)
    BY DEF DropEntityPath
  <2> HIDE DEF rows, sum, statics, temporal, indexed, diffs
  <2> QED BY <2>1, <2>2
<1>2. /\ s \in Stores /\ ChunksSound(s) /\ IndexSound(s) /\ StaticsSound(s) /\ LineageSound(s) /\ s.lastId \in Nat
      /\ IsFiniteSet(DOMAIN s.physical) /\ \A c \in DOMAIN s.physical : c \in Nat /\ s.physical[c] \in SUBSET Rows
  BY SoundFacts, StoreFacts
<1>3. temporal \in SUBSET TemporalPhysical(s) /\ temporal \subseteq DOMAIN s.physical
  BY IndexedIsTemporal
<1>4. \A c \in statics : c \in DOMAIN s.physical /\ IsStatic(s.physical[c])
  <2>1. SUFFICES ASSUME NEW c \in statics PROVE c \in DOMAIN s.physical /\ IsStatic(s.physical[c])
    OBVIOUS
  <2>2. e \in DOMAIN s.static /\ c = s.static[e] /\ c \in DOMAIN s.physical
    BY <2>1
  <2>3. c \in Roots /\ IsStatic(ChunkRows[c])
    BY <1>2, <2>2, StoreFacts DEF StaticsSound
  <2> QED BY <1>2, <2>2, <2>3 DEF ChunksSound
<1>5. statics \subseteq DOMAIN s.physical
  BY <1>4
<1>6. sum(statics) \in Int /\ sum(temporal) \in Int /\ sum(temporal) = Cardinality(HeldBy(s, temporal))
  BY <1>3, <1>5, SummingFacts
<1> HIDE DEF sum, statics
<1>7. /\ DOMAIN ph = DOMAIN s.physical \ (statics \cup temporal)
      /\ \A c \in DOMAIN ph : ph[c] = s.physical[c]
  BY DEF Without, Restrict
<1>8. /\ DOMAIN vi = DOMAIN s.virtual \ indexed
      /\ \A c \in DOMAIN vi : vi[c] = s.virtual[c]
  BY DEF Without, Restrict
<1>9. /\ DOMAIN st = DOMAIN s.static \ {e}
      /\ \A x \in DOMAIN st : st[x] = s.static[x]
  BY DEF Without, Restrict
<1>10. ph \in PhysicalMaps /\ vi \in PhysicalMaps
  <2>1. s.physical \in Partial(Nat, SUBSET Rows) /\ s.virtual \in Partial(Nat, SUBSET Rows)
    BY <1>2, StoreFacts DEF PhysicalMaps
  <2>2. ph \in Partial(Nat, SUBSET Rows)
    BY <2>1, WithoutTyped
  <2>3. vi \in Partial(Nat, SUBSET Rows)
    BY <2>1, WithoutTyped
  <2> QED BY <2>2, <2>3 DEF PhysicalMaps
<1>11. st \in StaticMaps
  <2>1. s.static \in Partial(Entities, Roots)
    BY <1>2, StoreFacts DEF StaticMaps
  <2> QED BY <2>1, WithoutTyped DEF StaticMaps
<1>12. /\ ml \in [Entities -> Int] /\ \A x \in Entities : x # e => ml[x] = s.maxLength[x]
  BY <1>2, StoreFacts
<1>13. nu \in Statistics /\ nu.temporal = s.stats.temporal - Cardinality(HeldBy(s, temporal))
  BY <1>2, <1>6, StoreFacts DEF Statistics
<1>14. Cardinality(Held(ph)) = Cardinality(Held(s.physical)) - Cardinality(HeldBy(s, temporal))
  <2>1. Cardinality(Held(Without(s.physical, temporal \cup statics)))
          = Cardinality(Held(s.physical)) - Cardinality(HeldBy(s, temporal))
    BY <1>3, <1>4, HeldWithoutMany
  <2>2. temporal \cup statics = statics \cup temporal
    OBVIOUS
  <2> QED BY <2>1, <2>2
<1>15. nu.temporal - Cardinality(Held(ph)) = s.stats.temporal - Cardinality(Held(s.physical))
  <2>1. Cardinality(Held(s.physical)) \in Nat /\ s.stats.temporal \in Int
    BY <1>2, SoundFacts, HeldFinite, StoreFacts
  <2>2. Cardinality(HeldBy(s, temporal)) \in Int
    BY <1>6
  <2> QED BY <1>13, <1>14, <2>1, <2>2
<1>16. IsFiniteSet(statics) /\ IsFiniteSet(temporal) /\ statics \subseteq Int /\ temporal \subseteq Int
  BY <1>2, <1>3, <1>5, FS_Subset
<1>17. diffs \in Seq(Deletions) /\ Gone(diffs) = statics \cup temporal
  <2> DEFINE A == Ascending(statics)
             B == Ascending(temporal)
             all == statics \cup temporal
  <2>1. A \in Seq(statics) /\ Range(A) = statics
    BY <1>16, AscendingFacts
  <2>2. B \in Seq(temporal) /\ Range(B) = temporal
    BY <1>16, AscendingFacts
  <2>3. gone = A \o B
    OBVIOUS
  <2>4. \A c \in all : c \in Nat /\ s.physical[c] \in SUBSET Rows
    BY <1>2, <1>3, <1>5
  <2> HIDE DEF A, B, gone, temporal
  <2>5. A \in Seq(all) /\ B \in Seq(all)
    <3>1. Len(A) \in Nat /\ A \in [1..Len(A) -> statics] /\ Len(B) \in Nat /\ B \in [1..Len(B) -> temporal]
      BY <2>1, <2>2, LenProperties, ElementOfSeq
    <3>2. A \in [1..Len(A) -> all] /\ B \in [1..Len(B) -> all]
      BY <3>1
    <3> QED BY <3>1, <3>2, SeqDef
  <2>6. gone \in Seq(all) /\ Range(gone) = statics \cup temporal
    <3>1. A \o B \in Seq(all)
      BY <2>5, ConcatProperties
    <3>2. Range(A \o B) = Range(A) \cup Range(B)
      <4>1. ToSet(A \o B) = ToSet(A) \cup ToSet(B)
        BY <2>5, ConcatFacts
      <4> QED BY <4>1 DEF ToSet, Range
    <3> QED BY <2>1, <2>2, <2>3, <3>1, <3>2
  <2> HIDE DEF all
  <2>7. Len(gone) \in Nat /\ DOMAIN gone = 1..Len(gone) /\ \A i \in 1..Len(gone) : gone[i] \in all
    BY <2>6, LenProperties, ElementOfSeq
  <2>8. DOMAIN diffs = 1..Len(gone)
    BY <2>7
  <2>9. \A i \in 1..Len(gone) : diffs[i] \in Deletions /\ diffs[i].chunk = gone[i]
    BY <2>4, <2>7 DEF Deletion, Deletions
  <2>10. diffs = [i \in 1..Len(gone) |-> diffs[i]]
    BY <2>7
  <2> HIDE DEF diffs
  <2>11. diffs \in [1..Len(gone) -> Deletions]
    BY <2>9, <2>10
  <2>12. diffs \in Seq(Deletions)
    BY <2>7, <2>11, SeqDef
  <2>13. \A y : y \in Gone(diffs) <=> y \in Range(gone)
    BY <2>7, <2>8, <2>9 DEF Gone, Range
  <2> QED BY <2>6, <2>12, <2>13
<1> HIDE DEF ph, vi, st, ml, nu, diffs
<1>18. /\ u \in Stores /\ u.virtual = vi /\ u.physical = ph /\ u.stats = nu
       /\ u.static = s.static /\ u.maxLength = s.maxLength /\ u.lineage = s.lineage
       /\ u.lastId = s.lastId /\ u.dangling = s.dangling /\ u.leaky = s.leaky
  BY <1>2, <1>10, <1>13 DEF Stores
<1>19. /\ t \in Stores /\ t.virtual = vi /\ t.physical = ph /\ t.stats = nu
       /\ t.static = st /\ t.maxLength = ml /\ t.lineage = s.lineage
       /\ t.lastId = s.lastId /\ t.dangling = s.dangling /\ t.leaky = s.leaky
  BY <1>2, <1>10, <1>11, <1>12, <1>13 DEF Stores
<1>20. Outcome(t, diffs).store = t /\ Outcome(t, diffs).diffs = diffs
  BY DEF Outcome
<1> HIDE DEF u, t
<1>21. Shrinks(s, u)
  <2>1. Surplus(u) = Surplus(s)
    BY <1>15, <1>18 DEF Surplus
  <2>2. DOMAIN u.physical \subseteq DOMAIN s.physical /\ \A c \in DOMAIN u.physical : u.physical[c] = s.physical[c]
    BY <1>7, <1>18
  <2>3. DOMAIN u.virtual \subseteq DOMAIN s.virtual /\ \A c \in DOMAIN u.virtual : u.virtual[c] = s.virtual[c]
    BY <1>8, <1>18
  <2> QED BY <1>18, <2>1, <2>2, <2>3 DEF Shrinks
<1>22. \A c \in TemporalPhysical(u) : c \in DOMAIN u.virtual
  <2>1. SUFFICES ASSUME NEW c \in TemporalPhysical(u) PROVE c \in DOMAIN u.virtual
    OBVIOUS
  <2>2. c \in DOMAIN ph /\ ~IsStatic(ph[c])
    BY <1>18 DEF TemporalPhysical
  <2>3. c \in TemporalPhysical(s) /\ c \notin temporal
    BY <1>7, <2>2 DEF TemporalPhysical
  <2>4. c \in DOMAIN s.virtual /\ c \in DOMAIN s.physical
    BY <1>2, <2>3 DEF IndexSound, TemporalPhysical
  <2>5. c \notin indexed
    BY <2>3, <2>4
  <2> QED BY <1>8, <1>18, <2>4, <2>5
<1>23. LineageSound(u)
  <2>1. LineageShaped(s) /\ RefsCover(s, <<>>)
    BY <1>2 DEF LineageSound
  <2>2. LineageShaped(u)
    BY <1>7, <1>18, <2>1 DEF LineageShaped
  <2>3. RefsCover(u, <<>>)
    <3>1. SUFFICES ASSUME NEW c \in DOMAIN u.lineage
                   PROVE  u.lineage[c].refs >= (IF IsPhysical(u, c) THEN 1 ELSE 0)
                             + Cardinality(Children(u, c)) + Cardinality(Pending(<<>>, c))
      BY DEF RefsCover
    <3>2. Children(u, c) = Children(s, c)
      BY <1>18 DEF Children
    <3>3. s.lineage[c].refs >= (IF IsPhysical(s, c) THEN 1 ELSE 0)
             + Cardinality(Children(s, c)) + Cardinality(Pending(<<>>, c))
      BY <1>18, <2>1 DEF RefsCover
    <3>4. IsPhysical(u, c) => IsPhysical(s, c)
      BY <1>7, <1>18 DEF IsPhysical
    <3>5. Cardinality(Children(s, c)) \in Nat
      BY <1>2, <2>1, LineageFinite
    <3>6. Cardinality(Pending(<<>>, c)) = 0
      <4>1. Pending(<<>>, c) = {}
        BY DEF Pending
      <4> QED BY <4>1, FS_EmptySet
    <3>7. s.lineage[c].refs \in Nat
      BY <1>2, <1>18, EntryFacts
    <3> QED BY <1>18, <3>2, <3>3, <3>4, <3>5, <3>6, <3>7
  <2> QED BY <2>2, <2>3 DEF LineageSound
<1>24. StoreInv(u)
  BY <1>18, <1>21, <1>22, <1>23, ShrinkKeeps
<1>25. StoreInv(t)
  <2>1. /\ IdsGiven(u) /\ ChunksSound(u) /\ IndexSound(u) /\ SplitsSound(u) /\ LineageSound(u)
    BY <1>24, SoundFacts
  <2>2. IdsGiven(t)
    BY <1>18, <1>19, <2>1 DEF IdsGiven
  <2>3. ChunksSound(t)
    BY <1>18, <1>19, <2>1 DEF ChunksSound
  <2>4. SplitsSound(t)
    BY <1>18, <1>19, <2>1 DEF SplitsSound
  <2>5. LineageSound(t)
    BY <1>18, <1>19, <2>1, LineageFrame
  <2>6. StaticsSound(t)
    BY <1>2, <1>9, <1>19 DEF StaticsSound
  <2>7. IndexSound(t)
    <3>1. TemporalPhysical(t) = TemporalPhysical(u)
      BY <1>18, <1>19 DEF TemporalPhysical
    <3>2. \A c \in DOMAIN t.virtual : EntityOf(t.virtual[c]) # e /\ EntityOf(t.virtual[c]) \in Entities
      <4>1. SUFFICES ASSUME NEW c \in DOMAIN vi PROVE EntityOf(vi[c]) # e /\ EntityOf(vi[c]) \in Entities
        BY <1>19
      <4>2. c \in DOMAIN s.virtual /\ c \notin indexed /\ vi[c] = s.virtual[c]
        BY <1>8
      <4>3. IsChunk(vi[c])
        BY <1>2, <4>2 DEF IndexSound
      <4>4. EntityOf(vi[c]) \in Entities
        BY <4>3, ChunkFacts
      <4> QED BY <4>2, <4>4
    <3>3. \A c \in DOMAIN t.virtual : t.maxLength[EntityOf(t.virtual[c])] = u.maxLength[EntityOf(t.virtual[c])]
      BY <1>12, <1>18, <1>19, <3>2
    <3> HIDE DEF indexed, temporal
    <3> QED BY <1>18, <1>19, <2>1, <3>1, <3>3 DEF IndexSound
  <2> QED BY <1>19, <2>2, <2>3, <2>4, <2>5, <2>6, <2>7 DEF StoreInv
<1>26. Surplus(t) = Surplus(s)
  BY <1>15, <1>19 DEF Surplus
<1> DEFINE o == Outcome(t, diffs)
<1>27. o.store = t /\ o.diffs = diffs
  BY <1>20
<1> HIDE DEF o
<1>28. Told(s, o)
  <2>1. DOMAIN o.store.physical = DOMAIN s.physical \ Gone(o.diffs)
    BY <1>7, <1>17, <1>19, <1>27
  <2> QED BY <1>17, <1>27, <2>1, DeletionsTold
<1>29. o.store.lastId >= s.lastId
  BY <1>2, <1>19, <1>27
<1>30. Thins(s, t)
  <2>1. t.lastId >= s.lastId
    BY <1>2, <1>19
  <2> QED BY <1>7, <1>19, <2>1 DEF Thins
<1>31. RowsSound(s) => RowsSound(t)
  BY <1>2, <1>19, <1>30, ThinsKeeps
<1>32. Kept(s, o)
  BY <1>25, <1>26, <1>27, <1>28, <1>29, <1>31 DEF Kept
<1> QED BY <1>1, <1>32 DEF o

-----------------------------------------------------------------------------
(* drop_time_range_deep *)

\* One chunk that meets the range, as the step of a fold.
RangeOp(cx, o, chunk) == DropOne(o, chunk)

\* After n chunks.
RangeKept(cx, n, o) == Kept(cx, o) /\ Shrinks(cx, o.store)

\* The fold of drop_time_range over the chunks, with that invariant.
Dropping == INSTANCE FoldFacts WITH Op <- RangeOp, Inv <- RangeKept

\* The induction that Dropping goes by.
LEMMA DroppingInduction == Dropping!NatInduction
BY NatSetInduction DEF Dropping!NatInduction

\* The chunks that the range meets are removed one by one.
LEMMA DroppedFacts ==
    ASSUME NEW s, StoreInv(s), NEW chunks \in ChunkList, Temporal(s, chunks)
    PROVE  Kept(s, FoldLeft(DropOne, Outcome(s, <<>>), chunks))
<1> DEFINE base == Outcome(s, <<>>)
           o == Dropping!LeftFold(s, base, chunks)
<1>1. FoldLeft(DropOne, Outcome(s, <<>>), chunks) = o
  BY DEF FoldLeft, MapThenFoldSet, Dropping!LeftFold, Dropping!Top, Max, RangeOp
<1>2. Len(chunks) \in Nat /\ DOMAIN chunks = 1..Len(chunks) /\ \A i \in 1..Len(chunks) : chunks[i] \in Nat \X SUBSET Rows
  BY LenProperties, ElementOfSeq DEF ChunkList
<1>3. RangeKept(s, 0, base)
  <2>1. Shrinks(s, s)
    BY DEF Shrinks
  <2>2. Kept(s, base) /\ base.store = s
    BY NothingKept
  <2> HIDE DEF base
  <2> QED BY <2>1, <2>2 DEF RangeKept
<1>4. \A a : \A i \in 1..Len(chunks) : RangeKept(s, i - 1, a) => RangeKept(s, i, RangeOp(s, a, chunks[i]))
  <2>1. SUFFICES ASSUME NEW a, NEW i \in 1..Len(chunks), RangeKept(s, i - 1, a)
                 PROVE  RangeKept(s, i, DropOne(a, chunks[i]))
    BY DEF RangeOp
  <2> DEFINE one == <<chunks[i]>>
             p == RemoveChunksDeep(a.store, one)
             next == DropOne(a, chunks[i])
  <2>2. next = After(a.diffs, p)
    BY DEF DropOne, ThenRemoveDeep
  <2>3. one \in ChunkList /\ Len(one) = 1 /\ DOMAIN one = 1..1 /\ one[1] = chunks[i]
    BY <1>2 DEF ChunkList
  <2> HIDE DEF one
  <2>4. Kept(s, a) /\ Shrinks(s, a.store) /\ StoreInv(a.store)
    BY <2>1 DEF RangeKept, Kept
  <2>5. Temporal(a.store, one)
    <3>1. \A c \in DOMAIN a.store.physical : c \in DOMAIN s.physical /\ a.store.physical[c] = s.physical[c]
      BY <2>4 DEF Shrinks
    <3>2. chunks[i][1] \in DOMAIN s.physical => ~IsStatic(s.physical[chunks[i][1]])
      BY <1>2 DEF Temporal
    <3> QED BY <2>3, <3>1, <3>2 DEF Temporal
  <2>6. Kept(a.store, p)
    BY <2>3, <2>4, <2>5, DeepKept
  <2>7. Shrinks(a.store, p.store)
    BY <2>3, <2>4, <2>5, DeepFacts
  <2> HIDE DEF p, next
  <2>8. s.lastId \in Nat
    BY SoundFacts
  <2>9. Kept(s, next) /\ next.store = p.store
    BY <2>2, <2>4, <2>6, <2>8, KeptAfter
  <2>10. Shrinks(s, next.store)
    BY <2>4, <2>7, <2>9, ShrinksMore
  <2> QED BY <2>9, <2>10 DEF RangeKept, next
<1> HIDE DEF base
<1>5. RangeKept(s, Len(chunks), o)
  BY <1>2, <1>3, <1>4, DroppingInduction, Dropping!SeqFold
<1> HIDE DEF o
<1> QED BY <1>1, <1>5 DEF RangeKept

\* One slice that is left of a chunk, as the step of a fold.
SliceOp(cx, outcomes, rows) == InsertSlice(outcomes, rows)

\* After n slices, whatever the outcome.
SliceKept(cx, n, outcomes) == \A o \in outcomes : Kept(cx, o)

\* The fold of drop_time_range over the slices, with that invariant.
Slicing == INSTANCE FoldFacts WITH Op <- SliceOp, Inv <- SliceKept

\* The induction that Slicing goes by.
LEMMA SlicingInduction == Slicing!NatInduction
BY NatSetInduction DEF Slicing!NatInduction

\* What is left of a chunk is inserted as a new one.
LEMMA InsertFreshFacts ==
    ASSUME NEW s, StoreInv(s), RowsSound(s), NEW o, Kept(s, o), NEW rows, IsChunk(rows), ~IsStatic(rows),
           NEW r \in InsertFresh(o, rows)
    PROVE  Kept(s, r)
<1> DEFINE u == o.store
           t == [u EXCEPT !.lastId = @ + 1]
           c == NextId(u)
<1>1. PICK p \in InsertChunk(t, c, rows) : r = After(o.diffs, p)
  BY DEF InsertFresh
<1>2. StoreInv(u) /\ RowsSound(u)
  BY DEF Kept
<1>3. u \in Stores /\ u.lastId \in Nat /\ SplitsSound(u) /\ IdsGiven(u)
  BY <1>2, SoundFacts
<1>4. c = u.lastId + 1
  BY DEF NextId
<1> HIDE DEF u, c
<1>5. /\ t \in Stores /\ t.lastId = c /\ c \in Nat /\ t.dangling = u.dangling
      /\ t.physical = u.physical /\ t.virtual = u.virtual /\ t.maxLength = u.maxLength
      /\ t.static = u.static /\ t.lineage = u.lineage /\ t.stats = u.stats /\ t.leaky = u.leaky
  <2>1. t = [u EXCEPT !.lastId = c] /\ c \in Nat
    BY <1>3, <1>4
  <2> HIDE DEF t
  <2> QED BY <1>3, <2>1 DEF Stores
<1> HIDE DEF t
<1>6. StoreInv(t)
  <2>1. t.lastId >= u.lastId
    BY <1>3, <1>4, <1>5
  <2>2. SplitsSound(t)
    BY <1>3, <1>5 DEF SplitsSound
  <2> QED BY <1>2, <1>5, <2>1, <2>2, NotesFrame
<1>7. Insertable(t, c, rows)
  <2>1. c \notin Roots
    BY <1>3, <1>4, DataAssumption DEF IdsGiven
  <2>2. c <= t.lastId
    BY <1>5
  <2>3. PICK K \in [Nat -> SUBSET Rows] : Carries(u, K)
    BY <1>2 DEF RowsSound
  <2>4. \A x \in DOMAIN u.leaky : u.leaky[x] \in Nat /\ u.leaky[x] <= u.lastId
    BY <1>3, <2>3, NoteFacts DEF Carries
  <2>5. \A x \in DOMAIN u.dangling : \A y \in u.dangling[x] : y \in Nat /\ y <= u.lastId
    BY <1>2, <1>3, NoteFacts DEF RowsSound, SplitsInside
  <2>6. \A y \in Nat : y <= u.lastId => y # c
    BY <1>3, <1>4
  <2>7. Fresh(t, c)
    BY <1>5, <2>4, <2>5, <2>6 DEF Fresh
  <2> QED BY <1>5, <2>1, <2>2, <2>7 DEF Insertable
<1>8. Kept(t, p)
  BY <1>6, <1>7, InsertChunkFacts
<1>9. Kept(u, p)
  <2>1. Surplus(t) = Surplus(u)
    BY <1>5 DEF Surplus
  <2>2. Told(u, p)
    BY <1>5, <1>8 DEF Kept, Told
  <2>3. StoreInv(p.store) /\ p.store.lastId >= t.lastId
    BY <1>8 DEF Kept
  <2>4. p.store.lastId \in Nat
    BY <2>3, SoundFacts
  <2>5. p.store.lastId >= u.lastId
    BY <1>3, <1>4, <1>5, <2>3, <2>4
  <2>6. Thins(u, t)
    <3>1. t.lastId >= u.lastId
      BY <1>3, <1>4, <1>5
    <3> QED BY <1>5, <3>1 DEF Thins
  <2>7. RowsSound(t)
    BY <1>2, <1>3, <1>5, <2>6, ThinsKeeps
  <2>8. RowsSound(p.store)
    BY <1>8, <2>7 DEF Kept
  <2> QED BY <1>8, <2>1, <2>2, <2>5, <2>8 DEF Kept
<1>10. s.lastId \in Nat
  BY SoundFacts
<1> QED BY <1>1, <1>9, <1>10, KeptAfter DEF u

\* drop_time_range_deep keeps the store sound and tells what it does.
LEMMA DropTimeRangeFacts ==
    ASSUME NEW s, StoreInv(s), RowsSound(s), NEW lo, NEW hi, NEW o \in DropTimeRange(s, lo, hi)
    PROVE  Kept(s, o)
<1> DEFINE hit == {c \in TemporalPhysical(s) :
                     \E r \in s.physical[c] : lo <= RowTime[r] /\ RowTime[r] <= hi}
           q == Ascending(hit)
           chunks == AsChunks(s, q)
           base == {FoldLeft(DropOne, Outcome(s, <<>>), chunks)}
           slices == Slices(chunks, lo, hi)
           all == Slicing!LeftFold(s, base, slices)
<1>1. DropTimeRange(s, lo, hi) = all
  <2>1. DropTimeRange(s, lo, hi) = FoldLeft(InsertSlice, base, slices)
    BY DEF DropTimeRange
  <2> HIDE DEF base, slices
  <2>2. FoldLeft(InsertSlice, base, slices) = all
    BY DEF FoldLeft, MapThenFoldSet, Slicing!LeftFold, Slicing!Top, Max, SliceOp
  <2> QED BY <2>1, <2>2
<1>2. hit \in SUBSET TemporalPhysical(s) /\ IsFiniteSet(hit) /\ hit \subseteq Int
  <2>1. hit \subseteq DOMAIN s.physical
    BY DEF TemporalPhysical
  <2> QED BY <2>1, SoundFacts, FS_Subset
<1> HIDE DEF hit
<1>3. q \in Seq(hit)
  BY <1>2, AscendingFacts
<1> HIDE DEF q
<1>4. /\ chunks \in ChunkList /\ Temporal(s, chunks) /\ Len(q) \in Nat
      /\ Len(chunks) = Len(q) /\ \A i \in 1..Len(q) : chunks[i] = <<q[i], s.physical[q[i]]>>
  BY <1>2, <1>3, AsChunksFacts
<1>5. \A i \in 1..Len(q) : IsChunk(chunks[i][2]) /\ ~IsStatic(chunks[i][2])
  <2>1. SUFFICES ASSUME NEW i \in 1..Len(q) PROVE IsChunk(chunks[i][2]) /\ ~IsStatic(chunks[i][2])
    OBVIOUS
  <2>2. q[i] \in TemporalPhysical(s)
    BY <1>2, <1>3, ElementOfSeq
  <2>3. chunks[i][2] = s.physical[q[i]]
    BY <1>4
  <2> QED BY <2>2, <2>3, SoundFacts DEF TemporalPhysical
<1> HIDE DEF chunks
<1>6. SliceKept(s, 0, base)
  BY <1>4, DroppedFacts DEF SliceKept
<1> HIDE DEF base
<1> DEFINE n == 2 * Len(chunks)
<1>7. n \in Nat /\ DOMAIN slices = 1..n
  BY <1>4 DEF Slices
<1>8. \A i \in 1..n : slices[i] # {} => IsChunk(slices[i]) /\ ~IsStatic(slices[i])
  <2>1. SUFFICES ASSUME NEW i \in 1..n, slices[i] # {} PROVE IsChunk(slices[i]) /\ ~IsStatic(slices[i])
    OBVIOUS
  <2>2. (i + 1) \div 2 \in 1..Len(q)
    BY <1>4
  <2>3. slices[i] \subseteq chunks[(i + 1) \div 2][2]
    BY DEF Slices
  <2> HIDE DEF slices
  <2> QED BY <1>5, <2>1, <2>2, <2>3, PartOfChunk
<1> HIDE DEF slices, n
<1>9. \A a : \A i \in 1..n : SliceKept(s, i - 1, a) => SliceKept(s, i, SliceOp(s, a, slices[i]))
  <2>1. SUFFICES ASSUME NEW a, NEW i \in 1..n, \A x \in a : Kept(s, x), NEW r \in InsertSlice(a, slices[i])
                 PROVE  Kept(s, r)
    BY DEF SliceKept, SliceOp
  <2>2. CASE slices[i] = {}
    BY <2>1, <2>2 DEF InsertSlice
  <2>3. CASE slices[i] # {}
    <3>1. PICK x \in a : r \in InsertFresh(x, slices[i])
      BY <2>1, <2>3 DEF InsertSlice
    <3>2. Kept(s, x) /\ IsChunk(slices[i]) /\ ~IsStatic(slices[i])
      BY <1>8, <2>1, <2>3
    <3> QED BY <3>1, <3>2, InsertFreshFacts
  <2> QED BY <2>2, <2>3
<1>10. SliceKept(s, n, all)
  BY <1>6, <1>7, <1>9, SlicingInduction, Slicing!SeqFold
<1> HIDE DEF all
<1> QED BY <1>1, <1>10 DEF SliceKept

-----------------------------------------------------------------------------
(* The invariant of the specification *)

\* Between two operations the store is sound, the statistics count exactly the
\* rows of the temporal physical chunks, the rows of a root are found again, and
\* whoever replayed the events knows exactly the physical chunks.
IInv ==
    /\ StoreInv(store)
    /\ RowsSound(store)
    /\ Surplus(store) = 0
    /\ replica = DOMAIN store.physical

\* No chunk, no row, no entry.
LEMMA EmptyStoreFacts ==
    /\ StoreInv(EmptyStore) /\ RowsSound(EmptyStore)
    /\ Surplus(EmptyStore) = 0 /\ DOMAIN EmptyStore.physical = {}
<1> DEFINE s == EmptyStore
<1>1. \A D, R : <<>> \in Partial(D, R)
  <2>1. SUFFICES ASSUME NEW D, NEW R PROVE <<>> \in Partial(D, R)
    OBVIOUS
  <2>2. DOMAIN <<>> = {} /\ <<>> \in [{} -> R]
    OBVIOUS
  <2> QED BY <2>2, PartialFacts
<1>2. Max(Roots) \in Roots /\ \A c \in Roots : c <= Max(Roots)
  <2>1. IsFiniteSet(Roots) /\ Roots # {} /\ Roots \subseteq Int
    BY DataAssumption
  <2>2. Max(Roots) \in Roots /\ Max(Roots) \in Int /\ \A c \in Roots : Max(Roots) >= c
    BY <2>1, MaxFacts
  <2> QED BY <2>1, <2>2
<1>3. Max(Roots) \in Nat
  BY <1>2, DataAssumption
<1>4. /\ s.physical = <<>> /\ s.virtual = <<>> /\ s.maxLength = [e \in Entities |-> 0]
      /\ s.static = <<>> /\ s.lineage = <<>> /\ s.leaky = <<>> /\ s.dangling = <<>>
      /\ s.splitOnIngest = {} /\ s.lastId = Max(Roots) /\ s.stats = [static |-> 0, temporal |-> 0]
  BY DEF EmptyStore
<1>5. s \in Stores
  <2>1. /\ <<>> \in PhysicalMaps /\ <<>> \in StaticMaps /\ <<>> \in LineageMaps /\ <<>> \in LeakyMaps
        /\ <<>> \in DanglingMaps
    BY <1>1 DEF PhysicalMaps, StaticMaps, LineageMaps, LeakyMaps, DanglingMaps
  <2>2. [static |-> 0, temporal |-> 0] \in Statistics
    BY DEF Statistics
  <2>3. [e \in Entities |-> 0] \in [Entities -> Int]
    OBVIOUS
  <2> QED BY <1>3, <2>1, <2>2, <2>3 DEF Stores, EmptyStore
<1>6. DOMAIN <<>> = {}
  OBVIOUS
<1> HIDE DEF s
<1>7. IdsGiven(s)
  BY <1>2, <1>4, <1>6 DEF IdsGiven
<1>8. ChunksSound(s)
  BY <1>4, <1>6 DEF ChunksSound
<1>9. IndexSound(s)
  BY <1>4, <1>6 DEF IndexSound, TemporalPhysical
<1>10. StaticsSound(s) /\ SplitsSound(s)
  BY <1>4, <1>6 DEF StaticsSound, SplitsSound
<1>11. LineageSound(s)
  BY <1>4, <1>6 DEF LineageSound, LineageShaped, RefsCover
<1>12. Surplus(s) = 0
  <2>1. Held(s.physical) = {}
    BY <1>4, <1>6 DEF Held
  <2>2. Cardinality({}) = 0
    BY FS_EmptySet
  <2>3. Cardinality(Held(s.physical)) = 0
    BY <2>1, <2>2
  <2> QED BY <1>4, <2>3 DEF Surplus
<1>13. RowsSound(s)
  <2> DEFINE K == [x \in Nat |-> IF x \in Roots THEN ChunkRows[x] ELSE {}]
  <2>1. \A c \in Roots : c \in Nat /\ ChunkRows[c] \in SUBSET Rows
    BY DataAssumption
  <2>2. K \in [Nat -> SUBSET Rows] /\ \A c \in Roots : K[c] = ChunkRows[c]
    BY <2>1
  <2> HIDE DEF K
  <2>3. Carries(s, K)
    BY <1>4, <1>6, <2>2 DEF Carries
  <2>4. SplitsInside(s)
    BY <1>4, <1>6 DEF SplitsInside
  <2> QED BY <2>2, <2>3, <2>4 DEF RowsSound
<1> QED BY <1>4, <1>5, <1>6, <1>7, <1>8, <1>9, <1>10, <1>11, <1>12, <1>13 DEF StoreInv, s

\* The operations keep the invariant, whatever their outcome.
LEMMA ApplyKeeps ==
    ASSUME IInv, NEW o, StoreInv(o.store), RowsSound(o.store), Surplus(o.store) = Surplus(store),
           Told(store, o), Apply(o)
    PROVE  IInv'
<1>1. store' = o.store /\ replica' = Replay(replica, o.diffs)
  BY DEF Apply
<1>2. Replay(DOMAIN store.physical, o.diffs) = DOMAIN o.store.physical
  BY DEF Told
<1>3. replica' = DOMAIN store'.physical
  BY <1>1, <1>2 DEF IInv
<1>4. StoreInv(store') /\ RowsSound(store') /\ Surplus(store') = 0
  BY <1>1 DEF IInv
<1> QED BY <1>3, <1>4 DEF IInv

\* insert_rrd_manifest.
LEMMA ManifestActionKeeps ==
    ASSUME IInv, NEW part \in ManifestParts, InsertManifestAction(part)
    PROVE  IInv'
<1> DEFINE t == InsertDlrManifest(store, part)
<1>1. part \in SUBSET Roots /\ part \cap DOMAIN store.lineage = {} /\ StoreInv(store)
  BY OpsAssumption DEF InsertManifestAction, IInv
<1>2. PICK u : u = t
  OBVIOUS
<1>3. /\ StoreInv(u) /\ Surplus(u) = Surplus(store) /\ u.physical = store.physical
      /\ u.leaky = store.leaky /\ u.dangling = store.dangling /\ u.lastId = store.lastId
  BY <1>1, <1>2, ManifestFacts
<1>4. PICK o : o = Outcome(u, <<>>)
  OBVIOUS
<1>5. o.store = u /\ Told(store, o)
  <2>1. DOMAIN u.physical = DOMAIN store.physical
    BY <1>3
  <2> QED BY <1>4, <2>1, NothingTold
<1>6. Apply(o)
  BY <1>2, <1>4 DEF InsertManifestAction
<1>7. RowsSound(u)
  <2>1. store \in Stores /\ u \in Stores /\ store.lastId \in Nat
    BY <1>1, <1>3, SoundFacts
  <2>2. Thins(store, u)
    BY <1>3, <2>1 DEF Thins
  <2> QED BY <2>1, <2>2, ThinsKeeps DEF IInv
<1> QED BY <1>3, <1>5, <1>6, <1>7, ApplyKeeps

\* Whatever an operation does, if its diffs tell it.
LEMMA KeptKeeps ==
    ASSUME IInv, NEW o, Kept(store, o), Apply(o)
    PROVE  IInv'
<1>1. StoreInv(o.store) /\ RowsSound(o.store) /\ Surplus(o.store) = Surplus(store) /\ Told(store, o)
  BY DEF Kept, IInv
<1> QED BY <1>1, ApplyKeeps

\* insert_chunk, whatever it does with the chunk: skip, split, compact, replace.
LEMMA InsertActionFacts ==
    ASSUME IInv, NEW c \in Roots, InsertAction(c)
    PROVE  /\ IInv'
           /\ ~IsStatic(ChunkRows[c]) => TemporalRows(store') = TemporalRows(store) \cup ChunkRows[c]
<1>1. PICK o \in InsertChunk(store, c, ChunkRows[c]) : Apply(o)
  BY DEF InsertAction
<1>2. StoreInv(store) /\ RowsSound(store)
  BY DEF IInv
<1>3. Insertable(store, c, ChunkRows[c])
  <2>1. IdsGiven(store) /\ c \in Nat
    BY <1>2, SoundFacts, DataAssumption
  <2>2. IsChunk(ChunkRows[c])
    BY RootsAreChunks
  <2> QED BY <2>1, <2>2 DEF Insertable, IdsGiven
<1>4. Kept(store, o) /\ (~IsStatic(ChunkRows[c]) => TemporalRows(o.store) = TemporalRows(store) \cup ChunkRows[c])
  BY <1>1, <1>2, <1>3, InsertChunkFacts
<1>5. IInv'
  BY <1>1, <1>4, KeptKeeps
<1>6. store' = o.store
  BY <1>1 DEF Apply
<1> QED BY <1>4, <1>5, <1>6

\* gc, whatever its options and whatever chunks it picks.
LEMMA GcActionKeeps ==
    ASSUME IInv, NEW opt \in GcOptions, NEW p, GcAction(opt, p)
    PROVE  IInv'
<1>1. PICK o \in Gc(store, opt, p) : Apply(o)
  BY DEF GcAction
<1>2. StoreInv(store) /\ opt.furthest \in Int \cup {None} /\ opt.target \in Nat
  BY OpsAssumption DEF IInv
<1>3. Kept(store, o)
  BY <1>1, <1>2, GcFacts
<1> QED BY <1>1, <1>3, KeptKeeps

\* drop_entity_path.
LEMMA DropEntityActionKeeps ==
    ASSUME IInv, NEW e \in Entities, DropEntityAction(e)
    PROVE  IInv'
<1>1. PICK o : o = DropEntityPath(store, e)
  OBVIOUS
<1>2. Apply(o)
  BY <1>1 DEF DropEntityAction
<1>3. Kept(store, o)
  BY <1>1, DropEntityFacts DEF IInv
<1> QED BY <1>2, <1>3, KeptKeeps

\* drop_time_range.
LEMMA DropTimeRangeActionKeeps ==
    ASSUME IInv, NEW range, DropTimeRangeAction(range)
    PROVE  IInv'
<1>1. PICK o \in DropTimeRange(store, range[1], range[2]) : Apply(o)
  BY DEF DropTimeRangeAction
<1>2. Kept(store, o)
  BY <1>1, DropTimeRangeFacts DEF IInv
<1> QED BY <1>1, <1>2, KeptKeeps

\* The invariant holds in every state of every behaviour.
THEOREM Invariance == Spec => []IInv
<1>1. Init => IInv
  BY EmptyStoreFacts DEF Init, IInv
<1>2. IInv /\ [Next]_vars => IInv'
  <2>1. SUFFICES ASSUME IInv, [Next]_vars PROVE IInv'
    OBVIOUS
  <2>2. ASSUME NEW part \in ManifestParts, InsertManifestAction(part) PROVE IInv'
    BY <2>1, <2>2, ManifestActionKeeps
  <2>3. ASSUME NEW c \in Roots, InsertAction(c) PROVE IInv'
    BY <2>1, <2>3, InsertActionFacts
  <2>4. ASSUME NEW opt \in GcOptions, NEW p \in ProtectedSets, GcAction(opt, p) PROVE IInv'
    BY <2>1, <2>4, GcActionKeeps
  <2>5. ASSUME NEW e \in Entities, DropEntityAction(e) PROVE IInv'
    BY <2>1, <2>5, DropEntityActionKeeps
  <2>6. ASSUME NEW range \in DropRanges, DropTimeRangeAction(range) PROVE IInv'
    BY <2>1, <2>6, DropTimeRangeActionKeeps
  <2>7. CASE UNCHANGED vars
    <3>1. store' = store /\ replica' = replica
      BY <2>7 DEF vars
    <3> QED BY <2>1, <3>1 DEF IInv
  <2> QED BY <2>1, <2>2, <2>3, <2>4, <2>5, <2>6, <2>7 DEF Next
<1> QED BY <1>1, <1>2, PTL DEF Spec

-----------------------------------------------------------------------------
(* The theorems *)

\* Replaying the events of the store yields its physical chunks, whatever the
\* sequence of operations (ChunkStoreEvent, ChunkStoreDiff).
THEOREM EventsTellTheWholeStory == Spec => []EventsTellAll
<1>1. IInv => EventsTellAll
  BY DEF IInv, EventsTellAll
<1> QED BY <1>1, Invariance, PTL

\* Inserting a chunk makes all its rows physical and loses no other row, whether
\* insert_chunk stores it, splits it, compacts it or refuses it because a later
\* compaction already holds it.
THEOREM InsertLosesNoRows == Spec => InsertKeepsRows
<1> DEFINE Kept1 == \A c \in Roots :
                      (InsertAction(c) /\ ~IsStatic(ChunkRows[c]))
                        => TemporalRows(store') = TemporalRows(store) \cup ChunkRows[c]
<1>1. IInv /\ [Next]_vars => [Kept1]_vars
  BY InsertActionFacts
<1> QED BY <1>1, Invariance, PTL DEF Spec, InsertKeepsRows

\* The statistics are the rows of the temporal physical chunks.
LEMMA StatisticsFacts ==
    ASSUME NEW s, StoreInv(s), Surplus(s) = 0
    PROVE  s.stats.temporal = RowsIn(s, SetToSeq(TemporalPhysical(s)))
<1> DEFINE T == TemporalPhysical(s)
           q == SetToSeq(T)
<1>1. IsFiniteSet(T)
  <2>1. T \subseteq DOMAIN s.physical
    BY DEF TemporalPhysical
  <2> QED BY <2>1, SoundFacts, FS_Subset
<1> HIDE DEF T
<1>2. /\ Cardinality(T) \in Nat /\ q \in Seq(T) /\ Len(q) = Cardinality(T)
      /\ \A i, j \in 1..Cardinality(T) : q[i] = q[j] => i = j
      /\ \A x \in T : \E i \in 1..Cardinality(T) : q[i] = x
  BY <1>1, SetToSeqFacts
<1> HIDE DEF q
<1>3. DOMAIN q = 1..Cardinality(T) /\ \A i \in DOMAIN q : q[i] \in T
  BY <1>2, LenProperties, ElementOfSeq
<1>4. RowsIn(s, q) = Cardinality(HeldBy(s, {q[i] : i \in DOMAIN q}))
  <2>1. q \in Seq(TemporalPhysical(s)) /\ \A i, j \in DOMAIN q : q[i] = q[j] => i = j
    BY <1>2, <1>3 DEF T
  <2> QED BY <2>1, RowsInFacts
<1>5. {q[i] : i \in DOMAIN q} = T
  BY <1>2, <1>3
<1>6. HeldBy(s, T) = Held(s.physical)
  <2>1. \A p \in Held(s.physical) : p[1] \in T
    BY DEF Held, T, TemporalPhysical
  <2> QED BY <2>1 DEF HeldBy
<1>7. RowsIn(s, q) = Cardinality(Held(s.physical))
  BY <1>4, <1>5, <1>6
<1>8. Cardinality(Held(s.physical)) \in Nat /\ s.stats.temporal \in Int
  BY SoundFacts, HeldFinite, StoreFacts
<1> QED BY <1>7, <1>8 DEF Surplus, q, T

\* Every physical chunk has a referenced lineage entry, a temporal one is in the
\* index under its own range, and the statistics count exactly what is loaded
\* (assert_store_invariants of the tests of lineage.rs).
THEOREM PhysicalChunksAreIndexed == Spec => []PhysicalIsIndexed
<1>1. IInv => PhysicalIsIndexed
  <2>1. SUFFICES ASSUME IInv PROVE PhysicalIsIndexed
    OBVIOUS
  <2>2. StoreInv(store) /\ Surplus(store) = 0
    BY <2>1 DEF IInv
  <2>3. store \in Stores /\ IndexSound(store) /\ LineageSound(store) /\ LineageShaped(store)
    BY <2>2, SoundFacts
  <2>4. ASSUME NEW c \in DOMAIN store.physical
        PROVE  /\ c \in DOMAIN store.lineage /\ store.lineage[c].refs >= 1
               /\ ~IsStatic(store.physical[c]) =>
                     c \in DOMAIN store.virtual /\ store.virtual[c] = store.physical[c]
    <3>1. c \in DOMAIN store.lineage
      BY <2>3 DEF LineageShaped
    <3>2. store.lineage[c].refs >= 1 + Cardinality(Children(store, c)) + Cardinality(Pending(<<>>, c))
      BY <2>3, <3>1 DEF LineageSound, RefsCover, IsPhysical
    <3>3. Cardinality(Children(store, c)) \in Nat
      BY <2>3, LineageFinite
    <3>4. Cardinality(Pending(<<>>, c)) \in Nat
      <4>1. <<>> \in Seq(WorkOps)
        OBVIOUS
      <4> QED BY <4>1, PendingFinite
    <3>5. store.lineage[c].refs \in Nat
      BY <2>3, <3>1, EntryFacts
    <3>6. store.lineage[c].refs >= 1
      BY <3>2, <3>3, <3>4, <3>5
    <3>7. ~IsStatic(store.physical[c]) => c \in TemporalPhysical(store)
      BY DEF TemporalPhysical
    <3> QED BY <2>3, <3>1, <3>6, <3>7 DEF IndexSound
  <2>5. store.stats.temporal = RowsIn(store, SetToSeq(TemporalPhysical(store)))
    BY <2>2, StatisticsFacts
  <2> QED BY <2>4, <2>5 DEF PhysicalIsIndexed
<1> QED BY <1>1, Invariance, PTL

\* No entry has fewer references than the physical chunk and the entries that
\* refer to it, so drop_lineage_reference never removes one that is in use.
ReferencesCovered ==
    \A c \in DOMAIN store.lineage :
        store.lineage[c].refs >= (IF IsPhysical(store, c) THEN 1 ELSE 0) + Cardinality(Children(store, c))

\* The reference counts of the lineage cover what refers to it, and the parents
\* of an entry are known as long as it is.
THEOREM LineageIsCovered ==
    Spec => [](/\ ReferencesCovered
               /\ \A c \in DOMAIN store.lineage : store.lineage[c].direct.parents \subseteq DOMAIN store.lineage)
<1>1. IInv => /\ ReferencesCovered
              /\ \A c \in DOMAIN store.lineage : store.lineage[c].direct.parents \subseteq DOMAIN store.lineage
  <2>1. SUFFICES ASSUME IInv
                 PROVE  /\ ReferencesCovered
                        /\ \A c \in DOMAIN store.lineage :
                              store.lineage[c].direct.parents \subseteq DOMAIN store.lineage
    OBVIOUS
  <2>2. store \in Stores /\ LineageSound(store) /\ LineageShaped(store)
    BY <2>1, SoundFacts DEF IInv
  <2>3. ASSUME NEW c \in DOMAIN store.lineage
        PROVE  store.lineage[c].refs >= (IF IsPhysical(store, c) THEN 1 ELSE 0) + Cardinality(Children(store, c))
    <3>1. store.lineage[c].refs >= (IF IsPhysical(store, c) THEN 1 ELSE 0)
             + Cardinality(Children(store, c)) + Cardinality(Pending(<<>>, c))
      BY <2>2 DEF LineageSound, RefsCover
    <3>2. Cardinality(Children(store, c)) \in Nat
      BY <2>2, LineageFinite
    <3>3. Cardinality(Pending(<<>>, c)) \in Nat
      <4>1. <<>> \in Seq(WorkOps)
        OBVIOUS
      <4> QED BY <4>1, PendingFinite
    <3>4. store.lineage[c].refs \in Nat
      BY <2>2, EntryFacts
    <3> QED BY <3>1, <3>2, <3>3, <3>4
  <2> QED BY <2>2, <2>3 DEF ReferencesCovered, LineageShaped
<1> QED BY <1>1, Invariance, PTL

\* A row of the index of an entity is in a chunk of that entity.
LEMMA IndexedRow ==
    ASSUME NEW s, StoreInv(s), NEW e, NEW r \in UNION Range(s.virtual), RowEntity[r] = e
    PROVE  \E c \in DOMAIN s.virtual : r \in s.virtual[c] /\ EntityOf(s.virtual[c]) = e
<1>1. PICK c \in DOMAIN s.virtual : r \in s.virtual[c]
  BY DEF Range
<1>2. IsChunk(s.virtual[c])
  BY SoundFacts DEF IndexSound
<1>3. RowEntity[r] = EntityOf(s.virtual[c])
  BY <1>1, <1>2, ChunkFacts
<1> QED BY <1>1, <1>3

\* A chunk has a row at its start.
LEMMA FirstRow ==
    ASSUME NEW rows, IsChunk(rows)
    PROVE  \E r \in rows : RowTime[r] = StartOf(rows)
<1>1. \A r \in rows : RowTime[r] \in Int
  BY DataAssumption DEF IsChunk
<1>2. Times(rows) \subseteq Int /\ Times(rows) # {}
  BY <1>1 DEF Times, IsChunk
<1>3. IsFiniteSet(Times(rows))
  BY ChunkFacts, FiniteValues DEF Times
<1>4. StartOf(rows) \in Times(rows)
  BY <1>2, <1>3, MinFacts DEF StartOf
<1> QED BY <1>4 DEF Times

\* The latest row, if there is a row in the past.
LEMMA LatestFacts ==
    ASSUME NEW rows \in SUBSET Rows, NEW t \in Int, Latest(rows, t) # None
    PROVE  /\ Latest(rows, t) \in rows /\ RowTime[Latest(rows, t)] <= t
           /\ \A r \in rows : RowTime[r] <= t => RowTime[r] <= RowTime[Latest(rows, t)]
<1> DEFINE past == {r \in rows : RowTime[r] <= t}
           last == {r \in past : RowTime[r] = Max(Times(past))}
           row == Latest(rows, t)
<1>1. past # {} /\ row = Max(last)
  BY DEF Latest
<1>2. \A r \in past : r \in Rows /\ RowTime[r] \in Int
  BY DataAssumption
<1>3. past \subseteq Rows /\ IsFiniteSet(past) /\ IsFiniteSet(Rows)
  BY DataAssumption, FS_Subset
<1>4. IsFiniteSet(Times(past))
  BY <1>3, FiniteValues DEF Times
<1>5. Times(past) # {} /\ Times(past) \subseteq Int
  BY <1>1, <1>2 DEF Times
<1>6. Max(Times(past)) \in Times(past) /\ \A y \in Times(past) : Max(Times(past)) >= y
  BY <1>4, <1>5, MaxFacts
<1>7. last # {} /\ last \subseteq Int /\ IsFiniteSet(last)
  <2>1. last # {}
    BY <1>6 DEF Times
  <2>2. last \subseteq Rows /\ Rows \subseteq Int
    BY <1>3, DataAssumption
  <2> QED BY <1>3, <2>1, <2>2, FS_Subset
<1>8. row \in last
  <2> HIDE DEF last, row
  <2> QED BY <1>1, <1>7, MaxFacts
<1>9. row \in past /\ RowTime[row] = Max(Times(past))
  BY <1>8
<1>10. \A r \in past : RowTime[r] \in Times(past)
  BY DEF Times
<1> HIDE DEF row
<1>11. \A r \in past : RowTime[r] <= RowTime[row]
  BY <1>2, <1>5, <1>6, <1>9, <1>10
<1> QED BY <1>9, <1>11 DEF row

\* A latest-at query looks at a chunk that holds the latest row of the index.
LEMMA LatestAtLooks ==
    ASSUME NEW s, StoreInv(s), NEW e \in Entities \ DOMAIN s.static, NEW t \in Int, NEW row,
           row = Latest({r \in UNION Range(s.virtual) : RowEntity[r] = e}, t), row # None
    PROVE  \E c \in LatestAtRelevantChunks(s, e, t) : row \in s.virtual[c]
<1> DEFINE rows == {r \in UNION Range(s.virtual) : RowEntity[r] = e}
           indexed == {c \in DOMAIN s.virtual : EntityOf(s.virtual[c]) = e /\ StartOf(s.virtual[c]) <= t}
           starts == {StartOf(s.virtual[c]) : c \in indexed}
           upper == Max(starts)
<1>1. s \in Stores /\ IndexSound(s)
  BY SoundFacts
<1>2. \A c \in DOMAIN s.virtual : /\ IsChunk(s.virtual[c])
                                  /\ Length(s.virtual[c]) <= s.maxLength[EntityOf(s.virtual[c])]
  BY <1>1 DEF IndexSound
<1>3. rows \in SUBSET Rows
  BY <1>2 DEF IsChunk, Range
<1>4. /\ row \in rows /\ RowTime[row] <= t
      /\ \A r \in rows : RowTime[r] <= t => RowTime[r] <= RowTime[row]
  BY <1>3, LatestFacts
<1>5. PICK c \in DOMAIN s.virtual : row \in s.virtual[c] /\ EntityOf(s.virtual[c]) = e
  BY <1>4, IndexedRow
<1>6. /\ StartOf(s.virtual[c]) \in Int /\ EndOf(s.virtual[c]) \in Int
      /\ Length(s.virtual[c]) = EndOf(s.virtual[c]) - StartOf(s.virtual[c])
      /\ RowTime[row] \in Int /\ StartOf(s.virtual[c]) <= RowTime[row] /\ RowTime[row] <= EndOf(s.virtual[c])
  BY <1>2, <1>5, RangeFacts
<1>7. c \in indexed
  BY <1>4, <1>5, <1>6
<1>8. \A x \in indexed : StartOf(s.virtual[x]) \in Int /\ StartOf(s.virtual[x]) <= RowTime[row]
  <2>1. SUFFICES ASSUME NEW x \in indexed
                 PROVE  StartOf(s.virtual[x]) \in Int /\ StartOf(s.virtual[x]) <= RowTime[row]
    OBVIOUS
  <2>2. IsChunk(s.virtual[x])
    BY <1>2
  <2>3. PICK r \in s.virtual[x] : RowTime[r] = StartOf(s.virtual[x])
    BY <2>2, FirstRow
  <2>4. RowEntity[r] = e
    BY <2>2, ChunkFacts
  <2>5. r \in rows
    BY <2>4 DEF Range
  <2>6. StartOf(s.virtual[x]) \in Int /\ StartOf(s.virtual[x]) <= t
    BY <2>2, RangeFacts
  <2> QED BY <1>4, <2>3, <2>5, <2>6
<1>9. upper \in Int /\ upper <= RowTime[row]
  <2>1. starts # {} /\ starts \subseteq Int
    BY <1>7, <1>8
  <2>2. IsFiniteSet(starts)
    <3> DEFINE f == [x \in DOMAIN s.virtual |-> StartOf(s.virtual[x])]
    <3>1. starts = {f[x] : x \in indexed}
      OBVIOUS
    <3>2. \A x \in DOMAIN s.virtual : StartOf(s.virtual[x]) \in Times(Rows)
      <4>1. SUFFICES ASSUME NEW x \in DOMAIN s.virtual PROVE StartOf(s.virtual[x]) \in Times(Rows)
        OBVIOUS
      <4>2. IsChunk(s.virtual[x])
        BY <1>2
      <4>3. PICK r \in s.virtual[x] : RowTime[r] = StartOf(s.virtual[x])
        BY <4>2, FirstRow
      <4>4. r \in Rows
        BY <4>2, <4>3 DEF IsChunk
      <4> QED BY <4>3, <4>4 DEF Times
    <3>3. starts \subseteq Times(Rows)
      BY <3>2
    <3>4. IsFiniteSet(Rows)
      BY DataAssumption
    <3>5. IsFiniteSet(Times(Rows))
      BY <3>4, FiniteValues DEF Times
    <3> QED BY <3>3, <3>5, FS_Subset
  <2>3. upper \in starts /\ upper \in Int
    BY <2>1, <2>2, MaxFacts
  <2> QED BY <1>8, <2>3
<1>10. s.maxLength[e] \in Int
  BY <1>1, StoreFacts
<1>11. StartOf(s.virtual[c]) >= upper - s.maxLength[e]
  BY <1>2, <1>5, <1>6, <1>9, <1>10
<1>12. c \in LatestAtRelevantChunks(s, e, t)
  BY <1>7, <1>11 DEF LatestAtRelevantChunks
<1> QED BY <1>5, <1>12

\* latest_at_relevant_chunks never misses the chunk with the latest row, however
\* compaction stretched the chunks and overlapped their ranges.
THEOREM LatestAtNeverMisses == Spec => []LatestAtFindsLatest
<1>1. IInv => LatestAtFindsLatest
  <2>1. SUFFICES ASSUME IInv PROVE LatestAtFindsLatest
    OBVIOUS
  <2>2. StoreInv(store)
    BY <2>1 DEF IInv
  <2>3. \A t \in Times(Rows \ StaticRows) : t \in Int
    <3>1. \A r \in Rows : RowTime[r] \in Int
      BY DataAssumption
    <3> QED BY <3>1 DEF Times
  <2>4. SUFFICES ASSUME NEW e \in Entities \ DOMAIN store.static, NEW t \in Times(Rows \ StaticRows), NEW row,
                        row = Latest({r \in UNION Range(store.virtual) : RowEntity[r] = e}, t), row # None
                 PROVE  \E c \in LatestAtRelevantChunks(store, e, t) : row \in store.virtual[c]
    BY DEF LatestAtFindsLatest
  <2> QED BY <2>2, <2>3, <2>4, LatestAtLooks
<1> QED BY <1>1, Invariance, PTL

\* A collection spares what is protected and what is static, and makes progress.
THEOREM CollectionsProtectAndProgress == Spec => []GcProtectsAndProgresses
<1>1. IInv => GcProtectsAndProgresses
  <2>1. SUFFICES ASSUME IInv PROVE GcProtectsAndProgresses
    OBVIOUS
  <2>2. StoreInv(store) /\ IsFiniteSet(DOMAIN store.physical)
    BY <2>1, SoundFacts DEF IInv
  <2>3. ASSUME NEW opt \in GcOptions, NEW p \in ProtectedSets, NEW o \in Gc(store, opt, p)
        PROVE  /\ p \cup (DOMAIN store.physical \ TemporalPhysical(store)) \subseteq DOMAIN o.store.physical
               /\ (opt.target > 0
                    /\ TemporalPhysical(store) \ (p \cup ProtectedLatest(store, opt.protectLatest)) # {})
                      => Cardinality(DOMAIN o.store.physical) < Cardinality(DOMAIN store.physical)
    <3>1. opt.furthest \in Int \cup {None} /\ opt.target \in Nat
      BY OpsAssumption
    <3>2. PICK ids \in SUBSET (TemporalPhysical(store) \ p) :
             /\ DOMAIN o.store.physical = DOMAIN store.physical \ ids
             /\ (opt.target > 0
                  /\ TemporalPhysical(store) \ (p \cup ProtectedLatest(store, opt.protectLatest)) # {})
                    => ids # {}
      BY <2>2, <3>1, GcFacts
    <3>3. p \subseteq DOMAIN store.physical
      BY DEF ProtectedSets
    <3>4. ids \subseteq DOMAIN store.physical
      BY DEF TemporalPhysical
    <3>5. ids # {} => Cardinality(DOMAIN o.store.physical) < Cardinality(DOMAIN store.physical)
      <4>1. SUFFICES ASSUME ids # {}
                     PROVE  Cardinality(DOMAIN o.store.physical) < Cardinality(DOMAIN store.physical)
        OBVIOUS
      <4>2. /\ DOMAIN o.store.physical \subseteq DOMAIN store.physical
            /\ DOMAIN o.store.physical # DOMAIN store.physical
        BY <3>2, <3>4, <4>1
      <4>3. /\ IsFiniteSet(DOMAIN o.store.physical)
            /\ Cardinality(DOMAIN o.store.physical) <= Cardinality(DOMAIN store.physical)
            /\ Cardinality(DOMAIN o.store.physical) # Cardinality(DOMAIN store.physical)
        BY <2>2, <4>2, FS_Subset
      <4>4. Cardinality(DOMAIN o.store.physical) \in Nat /\ Cardinality(DOMAIN store.physical) \in Nat
        BY <2>2, <4>3, FS_CardinalityType
      <4> QED BY <4>3, <4>4
    <3> QED BY <3>2, <3>3, <3>5
  <2> QED BY <2>3 DEF GcProtectsAndProgresses
<1> QED BY <1>1, Invariance, PTL

=============================================================================
