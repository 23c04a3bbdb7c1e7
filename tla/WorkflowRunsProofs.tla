------------------------- MODULE WorkflowRunsProofs -------------------------
(***************************************************************************)
(* Proofs about the reconciliation of a run, for any numbers of work       *)
(* items, kinds, phases, coordinators, epochs and rolled-back              *)
(* transactions.                                                           *)
(*                                                                         *)
(* A run whose items are inserted by one statement (Len(Batches) = 1, the  *)
(* hypothesis; run early_complete shows that it is needed) is seen by a    *)
(* coordinator as a whole or not at all.  So a nonempty result set has the *)
(* totals of the whole run; a count that reaches the total of its kind     *)
(* counts every item of the kind; and completed items and published phases *)
(* never go back, so what was read is still true when it is written,       *)
(* however late that is (ReadIsTrue).                                      *)
(***************************************************************************)
EXTENDS WorkflowRuns, FiniteSetTheorems, SequenceTheorems, TLAPS

\* The items of kind t in the first batch.
OfKind(t) == {i \in Batches[1] : KindOf[i] = t}

ProgressRow == [total : Nat, pending : Nat, claimed : Nat, completed : Nat, failed : Nat]
Progress == [Kinds -> ProgressRow]
Counts == [Kinds -> [Phases -> Nat]]

CoordRow == [pc : {"idle", "listed", "progress", "counted"}, progress : Progress \union {Null},
             counts : Counts \union {Null}]

HasProgress(k) == coord[k].pc \in {"progress", "counted"}

LeaseTypeOK ==
  /\ outcome \in [Items -> {"absent", "open", "completed", "failed"}]
  /\ epoch \in [Items -> Nat]
  /\ holder \in [Items -> Nat]

CoordTypeOK ==
  /\ coord \in [Coordinators -> CoordRow]
  /\ \A k \in Coordinators : /\ HasProgress(k) => coord[k].progress \in Progress
                             /\ coord[k].pc = "counted" => coord[k].counts \in Counts

\* A failed item that a coordinator has counted is there.
FailureIsTrue == \A k \in Coordinators, t \in Kinds :
  HasProgress(k) /\ coord[k].progress[t].failed > 0 => \E i \in Items : outcome[i] = "failed"

FailedHasItem == run = "failed" => \E i \in Items : outcome[i] = "failed"

RunTypeInv == LeaseTypeOK /\ CoordTypeOK /\ RunTypeOK /\ FailureIsTrue /\ FailedHasItem

\* The items of the batch are known together, and only they are worked on.
SubmittedTogether ==
  /\ \A i \in Items : outcome[i] # "absent" => i \in Batches[1] /\ enqueued = 1
  /\ enqueued = 1 => \A i \in Batches[1] : outcome[i] # "absent"
  /\ \A i \in Items : epoch[i] > 0 => i \in Batches[1]
  /\ \A i \in Items, p \in Phases : <<i, p>> \in published => i \in Batches[1]

\* What coordinator k has read holds of the run as it is now.
ReadIsTrue(k) ==
  /\ HasProgress(k) /\ Seen(coord[k].progress) # {} => \A t \in Kinds :
       /\ coord[k].progress[t].total = Cardinality(OfKind(t))
       /\ coord[k].progress[t].completed >= coord[k].progress[t].total =>
            \A i \in OfKind(t) : outcome[i] = "completed"
  /\ coord[k].pc = "counted" => \A t \in Kinds, p \in Phases :
       coord[k].counts[t][p] >= Cardinality(OfKind(t)) =>
         \A i \in OfKind(t) : <<i, p>> \in published

\* A completeness row is about a kind of the run and a phase of its contract.
RowsAreRequired == \A t \in Kinds, p \in Phases :
  completeness[t][p] # "absent" => OfKind(t) # {} /\ p \in Required[t]

RunInv ==
  /\ RunTypeInv
  /\ SubmittedTogether
  /\ \A k \in Coordinators : ReadIsTrue(k)
  /\ RowsAreRequired
  /\ CompleteIsConverged
  /\ StatusIsExplained
-----------------------------------------------------------------------------
(* Operators.                                                              *)

\* The columns of the first result set are numbers.
LEMMA ItemsWithType ==
  ASSUME NEW t, NEW S
  PROVE  ItemsWith(t, S) \in Nat
<1>1. {i \in Items : KindOf[i] = t /\ Status(i) \in S} \in SUBSET Items
  OBVIOUS
<1> QED BY <1>1, ContractAssumption, FS_Subset, FS_CardinalityType DEF ItemsWith

\* A column above zero counts an item.
LEMMA ItemsWithSome ==
  ASSUME NEW t, NEW S, ItemsWith(t, S) > 0
  PROVE  \E i \in Items : KindOf[i] = t /\ Status(i) \in S
<1> DEFINE T == {i \in Items : KindOf[i] = t /\ Status(i) \in S}
<1>1. T # {}
  BY FS_EmptySet DEF ItemsWith
<1> QED BY <1>1

\* What the status of a run that was computed says of the result sets.
LEMMA ReconcileCases ==
  ASSUME NEW progress \in Progress, NEW counts \in Counts
  PROVE  LET result == ReconcileRunProgress(progress, counts)
         IN /\ result \in RunStatus
            /\ result = "failed" => \E t \in Kinds : progress[t].failed > 0
            /\ result = "complete" => /\ Seen(progress) # {}
                                      /\ CollectionComplete(progress)
                                      /\ PhasesReady(progress, counts)
  BY DEF ReconcileRunProgress, RunStatus, Finished, Seen, Progress, ProgressRow

\* A completeness row is written with one of three values.
LEMMA PhaseStatusType ==
  ASSUME NEW progress, NEW counts, NEW t, NEW p
  PROVE  PhaseStatus(progress, counts, t, p) \in {"pending", "ready", "blocked"}
  BY DEF PhaseStatus

-----------------------------------------------------------------------------
(* Types, failures and what never goes back: for any batches.              *)

\* The tables are empty and no coordinator has read anything.
LEMMA RunInitTypeInv == RunInit => RunTypeInv
<1> SUFFICES ASSUME RunInit PROVE RunTypeInv
  OBVIOUS
<1>1. LeaseTypeOK
  BY DEF RunInit, LeaseInit, LeaseTypeOK
<1>2. CoordTypeOK
  BY DEF RunInit, Nothing, CoordTypeOK, CoordRow, HasProgress
<1>3. RunTypeOK
  BY ContractAssumption DEF RunInit, RunTypeOK, RunStatus, Nothing
<1>4. FailureIsTrue /\ FailedHasItem
  BY DEF RunInit, FailureIsTrue, FailedHasItem, HasProgress, Nothing
<1> QED BY <1>1, <1>2, <1>3, <1>4 DEF RunTypeInv

\* Collectors keep the lease well typed, settle only what is open and leave
\* the tables of the run alone.
LEMMA CollectStep ==
  ASSUME LeaseTypeOK, Collect
  PROVE  /\ LeaseTypeOK' /\ UNCHANGED runVars
         /\ \A i \in Items : outcome[i] # "open" => outcome'[i] = outcome[i]
         /\ \A i \in Items : outcome[i] = "open" => outcome'[i] # "absent"
         /\ \A i \in Items : epoch'[i] > 0 => epoch[i] > 0 \/ outcome[i] = "open"
<1> USE DEF LeaseTypeOK
<1> DEFINE Kept == /\ LeaseTypeOK'
                   /\ \A i \in Items : outcome[i] # "open" => outcome'[i] = outcome[i]
                   /\ \A i \in Items : outcome[i] = "open" => outcome'[i] # "absent"
                   /\ \A i \in Items : epoch'[i] > 0 => epoch[i] > 0 \/ outcome[i] = "open"
<1>1. ASSUME NEW i \in Items, Acquire(i) PROVE Kept
  BY <1>1 DEF Acquire
<1>2. ASSUME NEW S \in SUBSET Items, GiveUp(S) PROVE Kept
  BY <1>2 DEF GiveUp
<1>3. ASSUME NEW i \in Items, NEW result \in {"completed", "failed"}, Settle(i, result) PROVE Kept
  BY <1>3 DEF Settle
<1> QED BY <1>1, <1>2, <1>3 DEF Collect

\* Enqueueing makes absent items open.
LEMMA EnqueueStep ==
  ASSUME LeaseTypeOK, RunTypeOK, EnqueueWorkItems
  PROVE  /\ LeaseTypeOK' /\ enqueued' \in 0 .. Len(Batches)
         /\ \A i \in Items : outcome[i] # "absent" => outcome'[i] = outcome[i]
<1>1. Len(Batches) \in Nat
  BY ContractAssumption
<1> QED BY <1>1 DEF EnqueueWorkItems, Submit, LeaseTypeOK, RunTypeOK

\* What a step may do to a coordinator: nothing, forget, list, or read one
\* result set more.
LEMMA CoordStep ==
  ASSUME CoordTypeOK, NEW k \in Coordinators, Reconcile(k) \/ Abort(k)
  PROVE  /\ CoordTypeOK'
         /\ \A j \in Coordinators \ {k} : coord'[j] = coord[j]
         /\ \/ coord'[k].pc \in {"idle", "listed"}
            \/ ListCollectorProgress(k)
            \/ ListPhaseCounts(k) /\ coord'[k].progress = coord[k].progress
<1> USE DEF CoordTypeOK, HasProgress
<1>0. Nothing \in CoordRow /\ Nothing.pc = "idle"
  BY DEF Nothing, CoordRow
<1>1. CASE WriteRun(k) \/ Abort(k)
  BY <1>0, <1>1 DEF WriteRun, Abort
<1>2. CASE ListRuns(k)
  BY <1>2 DEF ListRuns, CoordRow
<1>3. CASE ListCollectorProgress(k)
  <2> DEFINE read == [t \in Kinds |->
       [total |-> ItemsWith(t, {"pending", "claimed", "completed", "failed"}),
        pending |-> ItemsWith(t, {"pending"}),
        claimed |-> ItemsWith(t, {"claimed"}), completed |-> ItemsWith(t, {"completed"}),
        failed |-> ItemsWith(t, {"failed"})]]
  <2>1. read \in Progress
    BY ItemsWithType DEF Progress, ProgressRow
  <2> HIDE DEF read
  <2>2. coord' = [coord EXCEPT ![k].pc = "progress", ![k].progress = read]
    BY <1>3 DEF ListCollectorProgress, read
  <2> QED BY <1>3, <2>1, <2>2 DEF CoordRow
<1>4. CASE ListPhaseCounts(k)
  <2> DEFINE read == [t \in Kinds |-> [p \in Phases |->
       Cardinality({i \in Items : KindOf[i] = t /\ <<i, p>> \in published})]]
  <2>1. read \in Counts
    <3> SUFFICES ASSUME NEW t \in Kinds, NEW p \in Phases
                 PROVE  Cardinality({i \in Items : KindOf[i] = t /\ <<i, p>> \in published}) \in Nat
      BY DEF Counts
    <3>1. {i \in Items : KindOf[i] = t /\ <<i, p>> \in published} \in SUBSET Items
      OBVIOUS
    <3> QED BY <3>1, ContractAssumption, FS_Subset, FS_CardinalityType
  <2> HIDE DEF read
  <2>2. coord' = [coord EXCEPT ![k].pc = "counted", ![k].counts = read] /\ coord[k].pc = "progress"
    BY <1>4 DEF ListPhaseCounts, read
  <2> QED BY <1>4, <2>1, <2>2 DEF CoordRow
<1> QED BY <1>1, <1>2, <1>3, <1>4 DEF Reconcile

\* A settled item stays settled, a known item known, a published phase
\* published, and only collectors and the producer touch the lease.
LEMMA NothingGoesBack ==
  ASSUME LeaseTypeOK, RunTypeOK, [RunNext]_allVars
  PROVE  /\ LeaseTypeOK'
         /\ \A i \in Items : outcome[i] \in {"completed", "failed"} => outcome'[i] = outcome[i]
         /\ published \subseteq published'
<1> DEFINE Kept == /\ LeaseTypeOK'
                   /\ \A i \in Items : outcome[i] \in {"completed", "failed"} => outcome'[i] = outcome[i]
                   /\ published \subseteq published'
<1>1. CASE EnqueueWorkItems
  BY <1>1, EnqueueStep DEF EnqueueWorkItems
<1>2. CASE Collect
  BY <1>2, CollectStep DEF runVars
<1>3. CASE UNCHANGED leaseVars /\ published \subseteq published'
  BY <1>3 DEF leaseVars, LeaseTypeOK
<1>4. ASSUME NEW k \in Coordinators, Reconcile(k) \/ Abort(k)
      PROVE  UNCHANGED leaseVars /\ published \subseteq published'
  BY <1>4 DEF Reconcile, ListRuns, ListCollectorProgress, ListPhaseCounts, WriteRun, Abort
<1>5. CASE CreateRun \/ UNCHANGED allVars
  BY <1>3, <1>5 DEF CreateRun, allVars, runVars
<1>6. CASE \E i \in Items, p \in Phases : PublishPhase(i, p)
  BY <1>3, <1>6 DEF PublishPhase
<1> QED BY <1>1, <1>2, <1>3, <1>4, <1>5, <1>6 DEF RunNext

\* Steps other than a coordinator's leave what coordinators have read alone.
LEMMA OthersKeepCoord ==
  ASSUME \/ CreateRun \/ EnqueueWorkItems \/ Collect
         \/ \E i \in Items, p \in Phases : PublishPhase(i, p)
         \/ UNCHANGED allVars
  PROVE  UNCHANGED <<coord, completeness, aborts>>
  BY DEF CreateRun, EnqueueWorkItems, Collect, PublishPhase, runVars, allVars

\* Every step keeps the types, and a failure that is reported stays one.
LEMMA RunTypeStep ==
  ASSUME RunTypeInv, [RunNext]_allVars
  PROVE  RunTypeInv'
<1>0. LeaseTypeOK /\ CoordTypeOK /\ RunTypeOK /\ FailureIsTrue /\ FailedHasItem
  BY DEF RunTypeInv
<1>1. LeaseTypeOK' /\ ((\E i \in Items : outcome[i] = "failed") => \E i \in Items : outcome'[i] = "failed")
  BY <1>0, NothingGoesBack
<1>2. ASSUME NEW k \in Coordinators, Reconcile(k) \/ Abort(k)
      PROVE  CoordTypeOK' /\ RunTypeOK' /\ FailureIsTrue' /\ FailedHasItem'
  <2>1. CoordTypeOK'
    BY <1>0, <1>2, CoordStep
  <2>2. FailureIsTrue'
    <3> SUFFICES ASSUME NEW j \in Coordinators, NEW t \in Kinds,
                        coord'[j].pc \in {"progress", "counted"}, coord'[j].progress[t].failed > 0
                 PROVE  \E i \in Items : outcome'[i] = "failed"
      BY DEF FailureIsTrue, HasProgress
    <3>1. CASE j # k
      <4>1. coord'[j] = coord[j]
        BY <1>0, <1>2, <3>1, CoordStep
      <4> QED BY <1>0, <1>1, <4>1 DEF FailureIsTrue, HasProgress
    <3>2. CASE j = k /\ ListCollectorProgress(k)
      <4>1. ItemsWith(t, {"failed"}) > 0
        BY <1>0, <3>2 DEF ListCollectorProgress, CoordTypeOK, CoordRow
      <4>2. PICK i \in Items : Status(i) \in {"failed"}
        BY <4>1, ItemsWithSome
      <4> QED BY <1>1, <4>2 DEF Status
    <3>3. CASE j = k /\ ListPhaseCounts(k)
      <4>1. coord'[k].progress = coord[k].progress /\ coord[k].pc = "progress"
        BY <1>0, <3>3 DEF ListPhaseCounts, CoordTypeOK, CoordRow
      <4> QED BY <1>0, <1>1, <3>3, <4>1 DEF FailureIsTrue, HasProgress
    <3> QED BY <1>0, <1>2, <3>1, <3>2, <3>3, CoordStep
  <2>3. CASE WriteRun(k)
    <3>1. coord[k].progress \in Progress /\ coord[k].counts \in Counts
      BY <1>0, <2>3 DEF WriteRun, CoordTypeOK, HasProgress
    <3>2. run' \in RunStatus /\ (run' = "failed" => \E i \in Items : outcome[i] = "failed")
      BY <1>0, <2>3, <3>1, ReconcileCases DEF WriteRun, FailureIsTrue, HasProgress
    <3>3. completeness' \in [Kinds -> [Phases -> {"absent", "pending", "ready", "blocked"}]]
      BY <1>0, <2>3, PhaseStatusType DEF WriteRun, RunTypeOK
    <3>4. UNCHANGED <<enqueued, published, aborts>>
      BY <2>3 DEF WriteRun
    <3>5. \A j \in Coordinators : coord'[j].pc \in {"idle", "listed", "progress", "counted"}
      BY <2>1 DEF CoordTypeOK, CoordRow
    <3> QED BY <1>0, <1>1, <2>1, <2>2, <3>2, <3>3, <3>4, <3>5 DEF RunTypeOK, FailedHasItem
  <2>4. CASE ~WriteRun(k)
    <3>1. UNCHANGED <<run, enqueued, published, completeness>> /\ aborts' \in 0 .. MaxAborts
      BY <1>0, <1>2, <2>4, ContractAssumption
      DEF Reconcile, ListRuns, ListCollectorProgress, ListPhaseCounts, Abort, RunTypeOK
    <3>5. \A j \in Coordinators : coord'[j].pc \in {"idle", "listed", "progress", "counted"}
      BY <2>1 DEF CoordTypeOK, CoordRow
    <3> QED BY <1>0, <1>1, <2>1, <2>2, <3>1, <3>5 DEF RunTypeOK, FailedHasItem
  <2> QED BY <2>3, <2>4
<1>3. CASE \/ CreateRun \/ EnqueueWorkItems \/ Collect
           \/ \E i \in Items, p \in Phases : PublishPhase(i, p)
           \/ UNCHANGED allVars
  <2>1. UNCHANGED <<coord, completeness, aborts>>
    BY <1>3, OthersKeepCoord
  <2>2. run' \in RunStatus /\ (run' = "failed" => run = "failed")
    BY <1>0, <1>3 DEF CreateRun, EnqueueWorkItems, Collect, PublishPhase, runVars, allVars, RunTypeOK, RunStatus
  <2>3. enqueued' \in 0 .. Len(Batches)
    BY <1>0, <1>3, EnqueueStep DEF CreateRun, Collect, PublishPhase, runVars, allVars, RunTypeOK
  <2>4. published' \subseteq Items \X Phases
    BY <1>0, <1>3 DEF CreateRun, EnqueueWorkItems, Collect, PublishPhase, runVars, allVars, RunTypeOK
  <2>5. CoordTypeOK'
    BY <1>0, <2>1 DEF CoordTypeOK, HasProgress
  <2>6. RunTypeOK'
    BY <1>0, <2>1, <2>2, <2>3, <2>4 DEF RunTypeOK
  <2>7. FailureIsTrue' /\ FailedHasItem'
    BY <1>0, <1>1, <2>1, <2>2 DEF FailureIsTrue, FailedHasItem, HasProgress
  <2> QED BY <1>1, <2>5, <2>6, <2>7 DEF RunTypeInv
<1> QED BY <1>1, <1>2, <1>3 DEF RunNext, RunTypeInv

-----------------------------------------------------------------------------
(* A run of one batch.                                                     *)

\* The kinds of the one batch are finite sets of items.
LEMMA OfKindFinite ==
  ASSUME Len(Batches) = 1
  PROVE  /\ Batches[1] \subseteq Items
         /\ \A t : IsFiniteSet(OfKind(t)) /\ Cardinality(OfKind(t)) \in Nat
         /\ \A t : Cardinality(OfKind(t)) > 0 <=> OfKind(t) # {}
<1>1. Batches[1] \in SUBSET Items
  <2>1. Batches \in Seq(SUBSET Items) /\ 1 \in 1 .. Len(Batches)
    BY ContractAssumption
  <2> QED BY <2>1, ElementOfSeq
<1>2. ASSUME NEW t PROVE IsFiniteSet(OfKind(t)) /\ Cardinality(OfKind(t)) \in Nat
  <2>1. OfKind(t) \in SUBSET Items
    BY <1>1 DEF OfKind
  <2> QED BY <2>1, ContractAssumption, FS_Subset, FS_CardinalityType
<1>3. ASSUME NEW t PROVE Cardinality(OfKind(t)) > 0 <=> OfKind(t) # {}
  BY <1>2, FS_EmptySet
<1> QED BY <1>1, <1>2, <1>3

\* A part of a kind that is as large as the kind is all of it.
LEMMA ReachesTotal ==
  ASSUME Len(Batches) = 1, NEW t, NEW T \in SUBSET OfKind(t),
         Cardinality(T) >= Cardinality(OfKind(t))
  PROVE  T = OfKind(t)
<1>1. IsFiniteSet(OfKind(t)) /\ Cardinality(OfKind(t)) \in Nat
  BY OfKindFinite
<1>2. IsFiniteSet(T) /\ Cardinality(T) <= Cardinality(OfKind(t))
  BY <1>1, FS_Subset
<1>3. Cardinality(T) \in Nat
  BY <1>2, FS_CardinalityType
<1>4. Cardinality(OfKind(t)) = Cardinality(T)
  BY <1>1, <1>2, <1>3
<1> QED BY <1>1, <1>4, FS_Subset

\* The items become known in one statement; only known items are claimed and
\* only claimed ones have phases published.
LEMMA SubmittedStep ==
  ASSUME Len(Batches) = 1, RunTypeInv, SubmittedTogether, [RunNext]_allVars
  PROVE  SubmittedTogether'
<1> USE DEF SubmittedTogether
<1>0. LeaseTypeOK /\ RunTypeOK
  BY DEF RunTypeInv
<1>1. CASE EnqueueWorkItems
  <2>1. enqueued = 0 /\ enqueued' = 1 /\ Submit(Batches[1]) /\ published' = published
    BY <1>0, <1>1 DEF EnqueueWorkItems, RunTypeOK
  <2> QED BY <1>0, <2>1, OfKindFinite DEF Submit, LeaseTypeOK
<1>2. CASE Collect
  <2>1. UNCHANGED <<enqueued, published>>
    BY <1>0, <1>2, CollectStep DEF runVars
  <2>2. \A i \in Items : outcome'[i] = "absent" <=> outcome[i] = "absent"
    BY <1>0, <1>2, CollectStep
  <2>3. \A i \in Items : epoch'[i] > 0 => epoch[i] > 0 \/ outcome[i] = "open"
    BY <1>0, <1>2, CollectStep
  <2> QED BY <2>1, <2>2, <2>3, OfKindFinite
<1>3. CASE \E i \in Items, p \in Phases : PublishPhase(i, p)
  BY <1>3 DEF PublishPhase, leaseVars
<1>4. CASE CreateRun \/ UNCHANGED allVars
  BY <1>4 DEF CreateRun, allVars, runVars, leaseVars
<1>5. ASSUME NEW k \in Coordinators, Reconcile(k) \/ Abort(k) PROVE SubmittedTogether'
  <2>1. UNCHANGED <<leaseVars, enqueued, published>>
    BY <1>5 DEF Reconcile, ListRuns, ListCollectorProgress, ListPhaseCounts, WriteRun, Abort
  <2> QED BY <2>1 DEF leaseVars
<1> QED BY <1>1, <1>2, <1>3, <1>4, <1>5 DEF RunNext

\* A status is read exactly for the items that are known.
LEMMA KnownStatus ==
  ASSUME LeaseTypeOK, NEW i \in Items
  PROVE  /\ Status(i) \in {"pending", "claimed", "completed", "failed"} <=> outcome[i] # "absent"
         /\ Status(i) = "completed" <=> outcome[i] = "completed"
  BY DEF Status, LeaseTypeOK

\* A nonempty first result set has the totals of the whole run, and one that
\* says that a kind is completed is right.
LEMMA ProgressIsTrue ==
  ASSUME Len(Batches) = 1, LeaseTypeOK, SubmittedTogether, NEW s \in Kinds,
         ItemsWith(s, {"pending", "claimed", "completed", "failed"}) > 0, NEW t \in Kinds
  PROVE  /\ ItemsWith(t, {"pending", "claimed", "completed", "failed"}) = Cardinality(OfKind(t))
         /\ ItemsWith(t, {"completed"}) >= Cardinality(OfKind(t)) =>
              \A i \in OfKind(t) : outcome[i] = "completed"
<1>1. PICK j \in Items : Status(j) \in {"pending", "claimed", "completed", "failed"}
  BY ItemsWithSome
<1>2. \A i \in Items : outcome[i] # "absent" <=> i \in Batches[1]
  BY <1>1, KnownStatus DEF SubmittedTogether
<1>3. {i \in Items : KindOf[i] = t /\ Status(i) \in {"pending", "claimed", "completed", "failed"}} = OfKind(t)
  BY <1>2, KnownStatus, OfKindFinite DEF OfKind
<1>4. ASSUME ItemsWith(t, {"completed"}) >= Cardinality(OfKind(t)), NEW i \in OfKind(t)
      PROVE  outcome[i] = "completed"
  <2> DEFINE T == {k \in Items : KindOf[k] = t /\ Status(k) \in {"completed"}}
  <2>1. T \in SUBSET OfKind(t)
    BY <1>2, KnownStatus DEF OfKind
  <2>2. T = OfKind(t)
    BY <1>4, <2>1, ReachesTotal DEF ItemsWith
  <2> QED BY <1>4, <2>2, KnownStatus
<1> QED BY <1>3, <1>4 DEF ItemsWith

\* A count that reaches the total of its kind counts every item of it.
LEMMA CountIsTrue ==
  ASSUME Len(Batches) = 1, SubmittedTogether, NEW t \in Kinds, NEW p \in Phases,
         Cardinality({i \in Items : KindOf[i] = t /\ <<i, p>> \in published}) >= Cardinality(OfKind(t)),
         NEW i \in OfKind(t)
  PROVE  <<i, p>> \in published
<1> DEFINE T == {j \in Items : KindOf[j] = t /\ <<j, p>> \in published}
<1>1. T \in SUBSET OfKind(t)
  BY DEF OfKind, SubmittedTogether
<1>2. Cardinality(T) >= Cardinality(OfKind(t))
  OBVIOUS
<1>3. \A j \in T : <<j, p>> \in published
  OBVIOUS
<1> HIDE DEF T
<1>4. T = OfKind(t)
  BY <1>1, <1>2, ReachesTotal
<1> QED BY <1>3, <1>4

\* What a coordinator read stays true until it writes.
LEMMA ReadStep ==
  ASSUME Len(Batches) = 1, RunTypeInv, SubmittedTogether, \A k \in Coordinators : ReadIsTrue(k),
         [RunNext]_allVars, NEW k \in Coordinators
  PROVE  ReadIsTrue(k)'
<1>0. LeaseTypeOK /\ RunTypeOK /\ CoordTypeOK
  BY DEF RunTypeInv
<1>1. /\ \A i \in Items : outcome[i] = "completed" => outcome'[i] = "completed"
      /\ published \subseteq published'
  BY <1>0, NothingGoesBack
<1>2. \A t : OfKind(t) \subseteq Items
  BY OfKindFinite DEF OfKind
<1>3. CASE coord'[k] = coord[k]
  BY <1>1, <1>2, <1>3 DEF ReadIsTrue, HasProgress
<1>4. CASE coord'[k].pc \in {"idle", "listed"}
  BY <1>4 DEF ReadIsTrue, HasProgress
<1>5. CASE ListCollectorProgress(k)
  <2> DEFINE read == [t \in Kinds |->
       [total |-> ItemsWith(t, {"pending", "claimed", "completed", "failed"}),
        pending |-> ItemsWith(t, {"pending"}),
        claimed |-> ItemsWith(t, {"claimed"}), completed |-> ItemsWith(t, {"completed"}),
        failed |-> ItemsWith(t, {"failed"})]]
  <2>1. \A t \in Kinds : /\ read[t].total = ItemsWith(t, {"pending", "claimed", "completed", "failed"})
                         /\ read[t].completed = ItemsWith(t, {"completed"})
    OBVIOUS
  <2>2. coord'[k].progress = read /\ coord'[k].pc = "progress" /\ UNCHANGED outcome
    BY <1>0, <1>5 DEF ListCollectorProgress, CoordTypeOK, CoordRow, leaseVars
  <2> HIDE DEF read
  <2>3. ASSUME Seen(read) # {}, NEW t \in Kinds
        PROVE  /\ read[t].total = Cardinality(OfKind(t))
               /\ read[t].completed >= read[t].total => \A i \in OfKind(t) : outcome[i] = "completed"
    <3>1. PICK s \in Kinds : read[s].total > 0
      BY <2>3 DEF Seen
    <3> QED BY <1>0, <2>1, <3>1, ProgressIsTrue
  <2> QED BY <2>2, <2>3 DEF ReadIsTrue, HasProgress
<1>6. CASE ListPhaseCounts(k)
  <2> DEFINE read == [t \in Kinds |-> [p \in Phases |->
       Cardinality({i \in Items : KindOf[i] = t /\ <<i, p>> \in published})]]
  <2>1. \A t \in Kinds, p \in Phases :
          read[t][p] = Cardinality({i \in Items : KindOf[i] = t /\ <<i, p>> \in published})
    OBVIOUS
  <2>2. /\ coord'[k].counts = read /\ coord'[k].progress = coord[k].progress
        /\ coord[k].pc = "progress" /\ UNCHANGED <<outcome, published>>
    BY <1>0, <1>6 DEF ListPhaseCounts, CoordTypeOK, CoordRow, leaseVars
  <2> HIDE DEF read
  <2>3. \A t \in Kinds, p \in Phases : read[t][p] >= Cardinality(OfKind(t)) =>
          \A i \in OfKind(t) : <<i, p>> \in published
    BY <2>1, CountIsTrue
  <2> QED BY <2>2, <2>3 DEF ReadIsTrue, HasProgress
<1>7. ASSUME NEW j \in Coordinators, Reconcile(j) \/ Abort(j) PROVE ReadIsTrue(k)'
  BY <1>0, <1>3, <1>4, <1>5, <1>6, <1>7, CoordStep
<1> QED BY <1>3, <1>7, OthersKeepCoord DEF RunNext

\* The status that is written when the result sets say so: everything is
\* there, and every row that is written says ready.
LEMMA WriteStep ==
  ASSUME Len(Batches) = 1, RunInv, NEW k \in Coordinators, WriteRun(k)
  PROVE  RowsAreRequired' /\ CompleteIsConverged' /\ StatusIsExplained'
<1> DEFINE progress == coord[k].progress
           counts == coord[k].counts
<1>1. /\ progress \in Progress /\ counts \in Counts
      /\ run' = ReconcileRunProgress(progress, counts)
      /\ completeness' = [t \in Kinds |-> [p \in Phases |->
           IF t \in Seen(progress) /\ p \in Required[t] THEN PhaseStatus(progress, counts, t, p)
           ELSE completeness[t][p]]]
      /\ UNCHANGED <<outcome, published>>
  BY DEF WriteRun, RunInv, RunTypeInv, CoordTypeOK, HasProgress, leaseVars
<1>2. Seen(progress) # {} => \A t \in Kinds :
        /\ progress[t].total = Cardinality(OfKind(t))
        /\ progress[t].completed >= progress[t].total => \A i \in OfKind(t) : outcome[i] = "completed"
        /\ \A p \in Phases : counts[t][p] >= progress[t].total => \A i \in OfKind(t) : <<i, p>> \in published
  BY DEF RunInv, ReadIsTrue, HasProgress, WriteRun
<1> HIDE DEF progress, counts
<1>3. \A t \in Kinds : t \in Seen(progress) => OfKind(t) # {}
  BY <1>2, OfKindFinite DEF Seen
<1>4. Seen(progress) # {} => \A t \in Kinds : OfKind(t) # {} => t \in Seen(progress)
  BY <1>2, OfKindFinite DEF Seen
<1>5. RowsAreRequired'
  BY <1>1, <1>3 DEF RowsAreRequired, RunInv
<1>6. CASE run' = "complete"
  <2>1. Seen(progress) # {} /\ CollectionComplete(progress) /\ PhasesReady(progress, counts)
    BY <1>1, <1>6, ReconcileCases
  <2>2. \A t \in Kinds, p \in Phases : t \in Seen(progress) /\ p \in Required[t] =>
          PhaseStatus(progress, counts, t, p) = "ready" /\ counts[t][p] >= progress[t].total
    BY <2>1 DEF PhasesReady, PhaseStatus
  <2>3. \A t \in Kinds, p \in Phases : completeness'[t][p] \in {"absent", "ready"}
    <3> SUFFICES ASSUME NEW t \in Kinds, NEW p \in Phases PROVE completeness'[t][p] \in {"absent", "ready"}
      OBVIOUS
    <3>1. CASE t \in Seen(progress) /\ p \in Required[t]
      BY <1>1, <2>2, <3>1
    <3>2. CASE ~(t \in Seen(progress) /\ p \in Required[t])
      <4>1. completeness'[t][p] = completeness[t][p]
        BY <1>1, <3>2
      <4> QED BY <1>4, <2>1, <3>2, <4>1 DEF RunInv, RowsAreRequired
    <3> QED BY <3>1, <3>2
  <2>4. ASSUME NEW i \in Batches[1]
        PROVE  outcome'[i] = "completed" /\ \A p \in Required[KindOf[i]] : <<i, p>> \in published'
    <3>1. i \in Items /\ KindOf[i] \in Kinds /\ i \in OfKind(KindOf[i])
      BY OfKindFinite, ContractAssumption DEF OfKind
    <3>2. KindOf[i] \in Seen(progress)
      BY <1>4, <2>1, <3>1
    <3>3. progress[KindOf[i]].completed >= progress[KindOf[i]].total
      BY <2>1, <3>2 DEF CollectionComplete
    <3>4. Required[KindOf[i]] \subseteq Phases
      BY <3>1, ContractAssumption
    <3> QED BY <1>1, <1>2, <2>1, <2>2, <3>1, <3>2, <3>3, <3>4
  <2>5. CompleteIsConverged'
    BY <2>4 DEF CompleteIsConverged
  <2> QED BY <1>5, <1>6, <2>3, <2>5 DEF StatusIsExplained
<1>7. CASE run' # "complete"
  <2>1. FailedHasItem'
    BY RunTypeStep DEF RunInv, RunTypeInv, RunNext, Reconcile
  <2> QED BY <1>5, <1>7, <2>1 DEF CompleteIsConverged, StatusIsExplained, FailedHasItem
<1> QED BY <1>6, <1>7

\* The invariant of a run of one batch is kept by every step.
LEMMA RunNextInv ==
  ASSUME Len(Batches) = 1, RunInv, [RunNext]_allVars
  PROVE  RunInv'
<1>1. RunTypeInv'
  BY RunTypeStep DEF RunInv
<1>2. SubmittedTogether'
  BY SubmittedStep DEF RunInv
<1>3. \A k \in Coordinators : ReadIsTrue(k)'
  BY ReadStep DEF RunInv
<1>4. CASE \E k \in Coordinators : WriteRun(k)
  BY <1>1, <1>2, <1>3, <1>4, WriteStep DEF RunInv
<1>5. CASE ~\E k \in Coordinators : WriteRun(k)
  <2>1. UNCHANGED completeness /\ (run' = "complete" => run = "complete")
    BY <1>5 DEF RunNext, CreateRun, EnqueueWorkItems, Collect, PublishPhase, Reconcile, ListRuns,
       ListCollectorProgress, ListPhaseCounts, Abort, runVars, allVars
  <2>2. /\ \A i \in Items : outcome[i] = "completed" => outcome'[i] = "completed"
        /\ published \subseteq published'
    BY NothingGoesBack DEF RunInv, RunTypeInv
  <2>3. RowsAreRequired'
    BY <2>1 DEF RunInv, RowsAreRequired
  <2>4. CompleteIsConverged'
    BY <2>1, <2>2, OfKindFinite DEF RunInv, CompleteIsConverged
  <2>5. StatusIsExplained'
    BY <1>1, <2>1 DEF RunInv, StatusIsExplained, RunTypeInv, FailedHasItem
  <2> QED BY <1>1, <1>2, <1>3, <2>3, <2>4, <2>5 DEF RunInv
<1> QED BY <1>4, <1>5

\* A run that does not exist yet satisfies the invariant.
LEMMA RunInitInv == RunInit => RunInv
<1> SUFFICES ASSUME RunInit PROVE RunInv
  OBVIOUS
<1>1. RunTypeInv
  BY RunInitTypeInv
<1>2. SubmittedTogether
  BY DEF RunInit, LeaseInit, SubmittedTogether
<1>3. \A k \in Coordinators : ReadIsTrue(k)
  BY DEF RunInit, Nothing, ReadIsTrue, HasProgress
<1>4. RowsAreRequired /\ CompleteIsConverged /\ StatusIsExplained
  BY DEF RunInit, RowsAreRequired, CompleteIsConverged, StatusIsExplained
<1> QED BY <1>1, <1>2, <1>3, <1>4 DEF RunInv

-----------------------------------------------------------------------------
\* Whatever the batches, the run and what coordinators have read of it keep
\* their types.
THEOREM RunTypes == RunSpec => []RunTypeOK
<1>1. RunTypeInv => RunTypeOK
  BY DEF RunTypeInv
<1> QED BY RunInitTypeInv, RunTypeStep, <1>1, PTL DEF RunSpec

\* Whatever the batches, a run is failed only when one of its items is
\* (ReconcileWorkflowRuns over counts that are out of date when they are
\* written).
THEOREM FailedRunHasFailedItem == RunSpec => []FailedHasItem
<1>1. RunTypeInv => FailedHasItem
  BY DEF RunTypeInv
<1> QED BY RunInitTypeInv, RunTypeStep, <1>1, PTL DEF RunSpec

\* A run whose items one statement inserts is complete only when every item
\* is completed and every required phase of every item is published, however
\* many coordinators reconcile it at once and however old their counts are.
THEOREM CompleteRunIsConverged ==
  ASSUME Len(Batches) = 1
  PROVE  RunSpec => []CompleteIsConverged
<1>1. RunInv => CompleteIsConverged
  BY DEF RunInv
<1>2. RunInv /\ [RunNext]_allVars => RunInv'
  BY RunNextInv
<1> QED BY RunInitInv, <1>1, <1>2, PTL DEF RunSpec

\* The completeness rows of such a run agree with its status.
THEOREM RunStatusIsExplained ==
  ASSUME Len(Batches) = 1
  PROVE  RunSpec => []StatusIsExplained
<1>1. RunInv => StatusIsExplained
  BY DEF RunInv
<1>2. RunInv /\ [RunNext]_allVars => RunInv'
  BY RunNextInv
<1> QED BY RunInitInv, <1>1, <1>2, PTL DEF RunSpec
=============================================================================
