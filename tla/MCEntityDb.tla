------------------------------- MODULE MCEntityDb -------------------------------
(* Small instances of EntityDb.                                            *)
EXTENDS EntityDb, TLC

(* Entity "a" has two chunks of one row that are compacted once both are   *)
(* loaded and one of three rows that is split; entity "s" is static.       *)
MCChunkRows == (1 :> {1}) @@ (2 :> {2}) @@ (3 :> {3, 4, 5}) @@ (4 :> {6})
MCRowTime   == <<1, 2, 4, 4, 5, 0>>
MCRowEntity == <<"a", "a", "a", "a", "a", "s">>
MCParts     == {{1, 3}, {2, 4}}
===============================================================================
