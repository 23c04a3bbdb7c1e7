------------------------- MODULE MCWorkflowControl -------------------------
(***************************************************************************)
(* Small instances of WorkflowControl.                                     *)
(***************************************************************************)
EXTENDS WorkflowControl, TLC

\* Items, claim ids and owners are interchangeable.
StoreSymmetry == Permutations(Items) \union Permutations(ClaimIds) \union Permutations(Owners)
=============================================================================
