------------------------ MODULE MCClaimedCollector ------------------------
(***************************************************************************)
(* Small instances of ClaimedCollector.                                    *)
(***************************************************************************)
EXTENDS ClaimedCollector, TLC

\* Items, claim ids and processes are interchangeable.
CollectorSymmetry == Permutations(Items) \union Permutations(ClaimIds) \union Permutations(Owners)
=============================================================================
