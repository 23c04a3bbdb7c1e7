---------------------------- MODULE WorkflowRuns ----------------------------
(***************************************************************************)
(* How the coordinator turns work-item progress and published reducer      *)
(* phases into the status of one workflow run                              *)
(* (go/internal/storage/postgres/workflow_run_reconciliation.go,           *)
(* go/internal/workflow/progress.go).  Collectors and reaper appear as the *)
(* abstract lease of WorkItemLease, which the store implements (theorem    *)
(* StoreImplementsLease): a work item is pending or claimed while it is    *)
(* open, and the reconciler sees nothing else of it.                       *)
(* Runs do not influence each other: each is reconciled in a transaction   *)
(* of its own.                                                             *)
(*                                                                         *)
(* The transaction is READ COMMITTED: work items are counted by one        *)
(* statement and published phases by a later one, and the run listed       *)
(* before it may have been finished by another coordinator meanwhile.  The *)
(* producer inserts the items of the run in batches, one statement each.   *)
(***************************************************************************)
EXTENDS WorkItemLease, Sequences, FiniteSets

CONSTANTS
  Kinds,                \* collector kinds
  KindOf,               \* KindOf[i]: collector_kind of work item i
  Phases,               \* (keyspace, phase) pairs
  Required,             \* Required[t]: the phases of collectorContracts[t]
  Batches,              \* the items of the run, as EnqueueWorkItems cuts them
  Coordinators,         \* workflow-coordinator processes
  MaxEpochs,            \* bound: how often one item is claimed
  MaxAborts,            \* bound: reconcile transactions that are rolled back
  Null

ASSUME ContractAssumption ==
  /\ IsFiniteSet(Items)
  /\ KindOf \in [Items -> Kinds]
  /\ Required \in [Kinds -> SUBSET Phases]
  /\ Batches \in Seq(SUBSET Items)
  /\ MaxEpochs \in Nat /\ MaxAborts \in Nat

VARIABLES
  run,                  \* workflow_runs.status
  enqueued,             \* how many of Batches are inserted
  published,            \* graph_projection_phase_state: <<item's slice, phase>> rows
  completeness,         \* workflow_run_completeness: status per kind and phase
  coord,                \* what each coordinator has read so far
  aborts                \* transactions rolled back so far

runVars == <<run, enqueued, published, completeness, coord, aborts>>
allVars == <<leaseVars, runVars>>

Finished == {"complete", "failed"}
RunStatus == {"absent", "collection_pending", "collection_active", "reducer_converging"}
             \union Finished
Nothing == [pc |-> "idle", progress |-> Null, counts |-> Null]

RunInit ==
  /\ LeaseInit
  /\ run = "absent"
  /\ enqueued = 0
  /\ published = {}
  /\ completeness = [t \in Kinds |-> [p \in Phases |-> "absent"]]
  /\ coord = [k \in Coordinators |-> Nothing]
  /\ aborts = 0

-----------------------------------------------------------------------------
(* The producer of the run; work items refer to the run row.               *)

\* A run id is created once.  The statement is an upsert that would write the
\* status again, but nothing in the repository creates a run a second time.
CreateRun ==
  /\ run = "absent"
  /\ run' = "collection_pending"
  /\ UNCHANGED <<leaseVars, enqueued, published, completeness, coord, aborts>>

EnqueueWorkItems ==
  /\ run # "absent" /\ enqueued < Len(Batches)
  /\ enqueued' = enqueued + 1
  /\ Submit(Batches[enqueued + 1])
  /\ UNCHANGED <<run, published, completeness, coord, aborts>>

\* Collectors claim, lose, give back, complete and fail items.
Collect ==
  /\ \/ \E i \in Items : epoch[i] < MaxEpochs /\ Acquire(i)
     \/ \E S \in SUBSET Items \ {{}} : GiveUp(S)
     \/ \E i \in Items, result \in {"completed", "failed"} : Settle(i, result)
  /\ UNCHANGED runVars

\* The projector or the reducer publishes a phase of item i's slice.  Its rows
\* refer to a committed generation, so i was claimed; they are never deleted.
\* Phases outside the contract of the kind are never looked at.
PublishPhase(i, p) ==
  /\ epoch[i] > 0 /\ p \in Required[KindOf[i]]
  /\ published' = published \union {<<i, p>>}
  /\ UNCHANGED <<leaseVars, run, enqueued, completeness, coord, aborts>>

-----------------------------------------------------------------------------
(* workflow.ReconcileRunProgress, of the two result sets.  A kind without  *)
(* work items has no row.                                                  *)

Seen(progress) == {t \in Kinds : progress[t].total > 0}

\* Fault variant: a failed slice gives the phase the status of a run.
PhaseStatusFailed(progress, counts, t, p) ==
  IF progress[t].failed > 0 THEN "failed"
  ELSE IF counts[t][p] >= progress[t].total THEN "ready" ELSE "pending"

PhaseStatus(progress, counts, t, p) ==
  IF progress[t].failed > 0 THEN "blocked"
  ELSE IF counts[t][p] >= progress[t].total THEN "ready"
  ELSE "pending"

CollectionComplete(progress) ==
  \A t \in Seen(progress) :
    /\ progress[t].pending = 0 /\ progress[t].claimed = 0 /\ progress[t].failed = 0
    /\ progress[t].completed >= progress[t].total

\* Fault variant: one converged collector kind is taken for all.
PhasesReadyForSome(progress, counts) ==
  \E t \in Seen(progress) : \A p \in Phases :
    p \in Required[t] => PhaseStatus(progress, counts, t, p) = "ready"

PhasesReady(progress, counts) ==
  \A t \in Seen(progress), p \in Phases :
    p \in Required[t] => PhaseStatus(progress, counts, t, p) = "ready"

ReconcileRunProgress(progress, counts) ==
  LET Any(column) == \E t \in Seen(progress) : progress[t][column] > 0
  IN CASE Seen(progress) = {} -> "collection_pending"
       [] Any("failed") -> "failed"
       [] CollectionComplete(progress) /\ PhasesReady(progress, counts) -> "complete"
       [] CollectionComplete(progress) -> "reducer_converging"
       [] Any("claimed") \/ (Any("pending") /\ Any("completed")) -> "collection_active"
       [] OTHER -> "collection_pending"

-----------------------------------------------------------------------------
(* ReconcileWorkflowRuns.                                                  *)

\* The status column of a work item.
Status(i) == IF outcome[i] # "open" THEN outcome[i]
             ELSE IF holder[i] = 0 THEN "pending" ELSE "claimed"

ItemsWith(t, S) == Cardinality({i \in Items : KindOf[i] = t /\ Status(i) \in S})

\* Fault variant: converging runs are not listed any more.
ListCollectingRuns(k) ==
  /\ coord[k].pc = "idle" /\ run \in {"collection_pending", "collection_active"}
  /\ coord' = [coord EXCEPT ![k].pc = "listed"]
  /\ UNCHANGED <<leaseVars, run, enqueued, published, completeness, aborts>>

ListRuns(k) ==
  /\ coord[k].pc = "idle"
  /\ run \notin Finished \union {"absent"}
  /\ coord' = [coord EXCEPT ![k].pc = "listed"]
  /\ UNCHANGED <<leaseVars, run, enqueued, published, completeness, aborts>>

ListCollectorProgress(k) ==
  /\ coord[k].pc = "listed"
  /\ coord' = [coord EXCEPT ![k].pc = "progress", ![k].progress = [t \in Kinds |->
       [total |-> ItemsWith(t, {"pending", "claimed", "completed", "failed"}),
        pending |-> ItemsWith(t, {"pending"}),
        claimed |-> ItemsWith(t, {"claimed"}), completed |-> ItemsWith(t, {"completed"}),
        failed |-> ItemsWith(t, {"failed"})]]]
  /\ UNCHANGED <<leaseVars, run, enqueued, published, completeness, aborts>>

ListPhaseCounts(k) ==
  /\ coord[k].pc = "progress"
  /\ coord' = [coord EXCEPT ![k].pc = "counted", ![k].counts = [t \in Kinds |-> [p \in Phases |->
       Cardinality({i \in Items : KindOf[i] = t /\ <<i, p>> \in published})]]]
  /\ UNCHANGED <<leaseVars, run, enqueued, published, completeness, aborts>>

\* Fault variant: an existing completeness row is kept (DO NOTHING).
WriteRunKeepsRows(k) ==
  LET progress == coord[k].progress
      counts == coord[k].counts
  IN /\ coord[k].pc = "counted"
     /\ run' = ReconcileRunProgress(progress, counts)
     /\ completeness' = [t \in Kinds |-> [p \in Phases |->
          IF t \in Seen(progress) /\ p \in Required[t] /\ completeness[t][p] = "absent"
            THEN PhaseStatus(progress, counts, t, p) ELSE completeness[t][p]]]
     /\ coord' = [coord EXCEPT ![k] = Nothing]
     /\ UNCHANGED <<leaseVars, enqueued, published, aborts>>

\* Status and completeness rows are written and committed together.
WriteRun(k) ==
  LET progress == coord[k].progress
      counts == coord[k].counts
  IN /\ coord[k].pc = "counted"
     /\ run' = ReconcileRunProgress(progress, counts)
     /\ completeness' = [t \in Kinds |-> [p \in Phases |->
          IF t \in Seen(progress) /\ p \in Required[t] THEN PhaseStatus(progress, counts, t, p)
          ELSE completeness[t][p]]]
     /\ coord' = [coord EXCEPT ![k] = Nothing]
     /\ UNCHANGED <<leaseVars, enqueued, published, aborts>>

\* An error or a crash: the transaction is rolled back.
Abort(k) ==
  /\ coord[k].pc # "idle" /\ aborts < MaxAborts
  /\ aborts' = aborts + 1
  /\ coord' = [coord EXCEPT ![k] = Nothing]
  /\ UNCHANGED <<leaseVars, run, enqueued, published, completeness>>

Reconcile(k) == ListRuns(k) \/ ListCollectorProgress(k) \/ ListPhaseCounts(k) \/ WriteRun(k)

RunNext ==
  \/ CreateRun
  \/ EnqueueWorkItems
  \/ Collect
  \/ \E i \in Items, p \in Phases : PublishPhase(i, p)
  \/ \E k \in Coordinators : Reconcile(k) \/ Abort(k)

RunSpec == RunInit /\ [][RunNext]_allVars

(* The reconcile ticker keeps firing, a coordinator that stops is          *)
(* restarted, and transactions fail finitely often.                        *)
FairRunSpec ==
  /\ RunSpec
  /\ \A k \in Coordinators : WF_allVars(Reconcile(k))

-----------------------------------------------------------------------------
(* Properties.                                                             *)

\* The run row, its completeness rows and what a coordinator has read.
RunTypeOK ==
  /\ run \in RunStatus
  /\ enqueued \in 0 .. Len(Batches)
  /\ published \subseteq Items \X Phases
  /\ completeness \in [Kinds -> [Phases -> {"absent", "pending", "ready", "blocked"}]]
  /\ \A k \in Coordinators : coord[k].pc \in {"idle", "listed", "progress", "counted"}
  /\ aborts \in 0 .. MaxAborts

\* "A run may not transition to complete while required downstream reducer
\* phases remain incomplete for any bounded slice in the run": also when the
\* two result sets were read at different times and coordinators race.
CompleteIsConverged ==
  run = "complete" => \A i \in UNION {Batches[b] : b \in 1 .. Len(Batches)} :
    /\ outcome[i] = "completed"
    /\ \A p \in Required[KindOf[i]] : <<i, p>> \in published

\* A run is failed only if one of its items is, so the operator who is told
\* to look finds it; and the completeness rows of a complete run all say so.
StatusIsExplained ==
  /\ run = "failed" => \E i \in Items : outcome[i] = "failed"
  /\ run = "complete" => \A t \in Kinds, p \in Phases : completeness[t][p] \in {"absent", "ready"}

Settled ==
  /\ enqueued = Len(Batches)
  /\ \A i \in Items : outcome[i] \in {"completed", "failed"}
  /\ \/ \E i \in Items : outcome[i] = "failed"
     \/ \A i \in Items, p \in Phases : p \in Required[KindOf[i]] => <<i, p>> \in published

\* Once everything a run waits for is there, its status becomes final and
\* stays final, although a slow coordinator may still write what it read
\* before.
RunSettles == [](Settled => <>[](run \in Finished))
=============================================================================
