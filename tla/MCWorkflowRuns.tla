--------------------------- MODULE MCWorkflowRuns ---------------------------
(***************************************************************************)
(* Small instances of WorkflowRuns: a run of one git and one               *)
(* terraform-state slice, and phases that stand for their contracts.       *)
(***************************************************************************)
EXTENDS WorkflowRuns, TLC

CONSTANTS i1, i2, canonical, anchor

SliceKinds == i1 :> "git" @@ i2 :> "terraform_state"
Contracts == [t \in Kinds |-> IF t = "git" THEN {canonical, anchor} ELSE {canonical}]
OwnPhase == [t \in Kinds |-> IF t = "git" THEN {canonical} ELSE {anchor}]
OneBatch == <<Items>>
TwoBatches == <<{i1}, {i2}>>

RunSymmetry == Permutations(Coordinators)
=============================================================================
