------------------------- MODULE MCScopeProjection -------------------------
(***************************************************************************)
(* Small instances of ScopeProjection.                                     *)
(***************************************************************************)
EXTENDS ScopeProjection, TLC

CONSTANTS s1, w1, w2

\* Every worker of one binary claims under the same lease owner name.
SharedOwner == [w \in Workers |-> "ingester"]

\* Every generation has the hint of the one before it: what is committed then
\* was checked before that one was activated, or after it failed.
SameHint == [s \in Scopes |-> [n \in GenNo |-> "unchanged"]]

\* Workers of one binary are interchangeable.
WorkerSymmetry == Permutations(Workers)
=============================================================================
