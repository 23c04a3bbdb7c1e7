--------------------------- MODULE WorkItemLease ---------------------------
(***************************************************************************)
(* What the workflow control store promises a collector, without tables,   *)
(* claim identifiers, clocks or fencing checks: every work item has at     *)
(* most one owner at a time, each ownership is a new, higher epoch, only   *)
(* the owning epoch can settle the item, and a settled item is settled for *)
(* good.  The design record lists these as concurrency invariants 1, 2, 3  *)
(* and 5 (docs/docs/adrs/2026-04-20-workflow-coordinator-claiming-         *)
(* fencing-and-convergence.md, "Concurrency Invariants").                  *)
(***************************************************************************)
EXTENDS Naturals

CONSTANT Items          \* work item ids

VARIABLES
  outcome,              \* outcome[i]: "absent", "open", "completed" or "failed"
  epoch,                \* epoch[i]: the number of ownerships i has had
  holder                \* holder[i]: the epoch that owns i now, 0 when nobody does

leaseVars == <<outcome, epoch, holder>>

LeaseInit ==
  /\ outcome = [i \in Items |-> "absent"]
  /\ epoch = [i \in Items |-> 0]
  /\ holder = [i \in Items |-> 0]

\* Work items of one batch become known.
Submit(S) ==
  /\ \A i \in S : outcome[i] = "absent"
  /\ outcome' = [i \in Items |-> IF i \in S THEN "open" ELSE outcome[i]]
  /\ UNCHANGED <<epoch, holder>>

\* A free, unsettled item gets an owner; the ownership is a new epoch.
Acquire(i) ==
  /\ outcome[i] = "open" /\ holder[i] = 0
  /\ epoch' = [epoch EXCEPT ![i] = epoch[i] + 1]
  /\ holder' = [holder EXCEPT ![i] = epoch[i] + 1]
  /\ UNCHANGED outcome

\* Ownership of some items ends without settling them.
GiveUp(S) ==
  /\ \A i \in S : holder[i] # 0
  /\ holder' = [i \in Items |-> IF i \in S THEN 0 ELSE holder[i]]
  /\ UNCHANGED <<outcome, epoch>>

\* The owner settles its item.
Settle(i, result) ==
  /\ holder[i] # 0 /\ outcome[i] = "open"
  /\ outcome' = [outcome EXCEPT ![i] = result]
  /\ holder' = [holder EXCEPT ![i] = 0]
  /\ UNCHANGED epoch

LeaseNext ==
  \/ \E S \in SUBSET Items : Submit(S) \/ GiveUp(S)
  \/ \E i \in Items : Acquire(i)
  \/ \E i \in Items, result \in {"completed", "failed"} : Settle(i, result)

LeaseSpec == LeaseInit /\ [][LeaseNext]_leaseVars
=============================================================================
