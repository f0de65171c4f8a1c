------------------------------ MODULE MCChunkStore ------------------------------
(* Small instances of ChunkStore.                                          *)
EXTENDS ChunkStore, TLC

(* Entity "a" is offered by a manifest, entity "b" is logged live: each    *)
(* has two chunks of one row that are compacted when they are neighbours,  *)
(* and one of three rows that is split; their ranges overlap.  Entity "s"  *)
(* holds static data, an older chunk from the manifest and a newer one.    *)
MCChunkRows == (1 :> {1}) @@ (2 :> {2}) @@ (3 :> {3, 4, 5})
               @@ (4 :> {6}) @@ (5 :> {7}) @@ (6 :> {8, 9, 10})
               @@ (7 :> {11}) @@ (8 :> {12})
MCRowTime   == <<4, 1, 2, 2, 3, 4, 1, 2, 3, 3, 0, 0>>
MCRowEntity == <<"a", "a", "a", "a", "a", "b", "b", "b", "b", "b", "s", "s">>
MCParts     == {{1, 3}, {2, 7}}
MCGc        == {[target |-> 1, furthest |-> None, protectLatest |-> 1, deep |-> FALSE],
                [target |-> 3, furthest |-> 1, protectLatest |-> 0, deep |-> FALSE],
                [target |-> 9, furthest |-> None, protectLatest |-> 0, deep |-> TRUE]}
MCRanges    == {<<3, 3>>}
===============================================================================
