------------------------- MODULE MCRecordingStream --------------------------
(* Bounded instances of RecordingStream. *)
EXTENDS RecordingStream, TLC

\* A buffered sink lets rows accumulate; the others flush every second row.
MCRowThreshold == [k \in SinkKinds |-> IF k = "buffered" THEN 3 ELSE 2]

\* Rows 1, 3, 4, 5 and 6 have the same timeline, on which the time goes back
\* twice; row 2 is static; row 5 has another datatype.
MCRowData ==
    LET at(time) == [frame |-> time]
    IN  << [times |-> at(2), types |-> "float"], [times |-> <<>>, types |-> "float"],
           [times |-> at(1), types |-> "float"], [times |-> at(3), types |-> "float"],
           [times |-> at(4), types |-> "int"],   [times |-> at(2), types |-> "float"] >>

\* Threads are interchangeable: no property chooses among them.
MCSymmetry == Permutations(Threads)

-----------------------------------------------------------------------------
(* What many_into_chunks promises of any rows, in any order of arrival. *)

MCRow(n) == [from |-> 0, nr |-> n, kind |-> "row", entity |-> 0, after |-> 0]

\* Bound: rows of an accumulator.
MCMaxRows == 4

\* Each row is in one chunk, a chunk has one shape, and a row joins a chunk of
\* MaxUnsorted rows or more only while its times are in order.  (That their ids
\* are ascending is in RowOrder.)
ASSUME ChunksOfRows ==
    \A numbers \in UNION {kSubset(k, DOMAIN MCRowData) : k \in 0..MCMaxRows} :
      \A arrival \in SetToSeqs(numbers) :
        \A out \in ManyIntoChunks([i \in 1..Len(arrival) |-> MCRow(arrival[i])]) :
            LET rows == FlattenSeq(out) IN
            /\ IsInjective(rows) /\ {r.nr : r \in ToSet(rows)} = numbers
            /\ \A k \in 1..Len(out) :
                  /\ out[k] # <<>>
                  /\ \A i, j \in 1..Len(out[k]) : Shape(out[k][i]) = Shape(out[k][j])
                  /\ Len(out[k]) > MaxUnsorted => TimesSorted(Front(out[k]))
=============================================================================
