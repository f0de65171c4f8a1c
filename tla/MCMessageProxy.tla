--------------------------- MODULE MCMessageProxy ---------------------------
(* Bounded instances of MessageProxy. *)
EXTENDS MessageProxy

\* Sizes that make the limits below fall between and on message boundaries.
MCSize == [store_info |-> 1, static |-> 2, temporal |-> 1]

\* A history that overflows, replayed in order; one that does not, replayed
\* newest first; and none at all.
MCOptions == {[limited |-> TRUE, limit |-> 2, newest_first |-> FALSE],
              [limited |-> FALSE, limit |-> 0, newest_first |-> TRUE],
              [limited |-> TRUE, limit |-> 0, newest_first |-> FALSE]}
=============================================================================
