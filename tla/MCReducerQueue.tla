--------------------------- MODULE MCReducerQueue ---------------------------
(***************************************************************************)
(* Small instances of ReducerQueue.                                        *)
(***************************************************************************)
EXTENDS ReducerQueue, TLC

\* Two domains of one graph family.
CodeDomains == <<"semantic_entity_materialization", "sql_relationship_materialization">>

\* Worker goroutines are interchangeable.
ReducerSymmetry == Permutations(Workers)
=============================================================================
