----------------------------- MODULE MCQueryCache -----------------------------
(* Small instances of QueryCache.                                          *)
EXTENDS QueryCache, TLC

(* One entity with all kinds of data: two chunks of a manifest that are    *)
(* compacted when both are loaded, a live chunk of three rows that is      *)
(* split, and static data that shadows the rest, one chunk of it with two  *)
(* rows.                                                                   *)
MCChunkRows == (1 :> {1}) @@ (2 :> {2}) @@ (3 :> {3, 4, 5}) @@ (4 :> {6}) @@ (5 :> {7, 8})
MCRowTime   == <<4, 1, 2, 2, 3, 0, 0, 0>>
MCRowEntity == <<"a", "a", "a", "a", "a", "a", "a", "a">>
MCParts     == {{1, 2}}
MCGc        == {[target |-> 1, furthest |-> 1, protectLatest |-> 0, deep |-> FALSE]}
MCRanges    == {<<3, 3>>}
===============================================================================
