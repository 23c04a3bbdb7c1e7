----------------------- MODULE ClaimedCollectorProofs -----------------------
(***************************************************************************)
(* Proofs about the collector processes, for any numbers of items, claim   *)
(* ids, processes and faults.                                              *)
(*                                                                         *)
(* Every step of a process, of the reaper or of time is a step of the      *)
(* store or leaves its tables alone, since a process only sends the        *)
(* mutation of an epoch it was handed out (Fenced).  So what is proved of  *)
(* StoreSpec holds here.  On top of it, a process that is past its commit  *)
(* is booked under its own token (Committed); the store lets only the      *)
(* holder of the item's token complete it.                                 *)
(***************************************************************************)
EXTENDS ClaimedCollector, WorkflowControlProofs

\* m is the mutation of an epoch that was handed out to process w.
IssuedTo(m, w) ==
  /\ m.claim \in ClaimIds /\ m.item \in Items
  /\ claims[m.claim].status # "unused"
  /\ m = MutationOf(m.claim) /\ m.owner = w

Holding == {"claimed", "collecting", "committed"}

Fenced == \A w \in Workers :
  /\ IF pc[w] \in Holding THEN IssuedTo(held[w], w) ELSE held[w] = Null
  /\ hb[w] # "off" => pc[w] \in Holding
  /\ late[w] = Null \/ IssuedTo(late[w], w)

Committed == \A w \in Workers :
  pc[w] = "committed" => held[w].token \in committedBy[held[w].item]

CollectorInv == StoreInv /\ CollectorTypeOK /\ Fenced /\ Committed /\ CompletedWasCommitted

-----------------------------------------------------------------------------
\* The tables are empty and no process holds anything.
LEMMA CollectorInitInv == CollectorInit => CollectorInv
<1> SUFFICES ASSUME CollectorInit PROVE CollectorInv
  OBVIOUS
<1>1. StoreInv
  BY StoreInitInv DEF CollectorInit
<1>2. CollectorTypeOK
  BY MaxFaultsAssumption DEF CollectorInit, CollectorTypeOK
<1>3. Fenced /\ Committed /\ CompletedWasCommitted
  BY DEF CollectorInit, StoreInit, Fenced, Committed, CompletedWasCommitted, Holding
<1> QED BY <1>1, <1>2, <1>3 DEF CollectorInv

\* A mutation that a process holds is one the store expects from a client.
LEMMA IssuedToIssued ==
  ASSUME NEW w \in Workers, NEW m, IssuedTo(m, w)
  PROVE  m \in Issued
  BY DEF IssuedTo, Issued

\* What the actions of a process do to the two tables.
MutatesStore(w) ==
  \/ UNCHANGED storeVars
  \/ pc[w] \in Holding /\ ClientMutation(held[w])
  \/ late[w] # Null /\ ClientMutation(late[w])

\* Between claim and claim a process only sends mutations it holds.
LEMMA ProcessMutates ==
  ASSUME Fenced, NEW w \in Workers,
         Progress(w) \/ HeartbeatTick(w) \/ LateHeartbeat(w) \/ Setback(w)
  PROVE  MutatesStore(w)
<1> USE DEF MutatesStore, Holding
<1>1. CASE FirstHeartbeat(w)
  BY <1>1 DEF FirstHeartbeat, ClientMutation
<1>2. CASE Commit(w) \/ HeartbeatErrorFound(w) \/ Restart(w) \/ CancelledHeartbeatFound(w) \/ Crash(w)
  BY <1>2 DEF Commit, HeartbeatErrorFound, Restart, CancelledHeartbeatFound, Crash, storeVars
<1>3. CASE Complete(w)
  BY <1>3 DEF Complete, ClientMutation
<1>4. CASE HeartbeatTick(w)
  BY <1>4 DEF HeartbeatTick, ClientMutation, Fenced
<1>5. CASE LateHeartbeat(w)
  BY <1>5 DEF LateHeartbeat, ClientMutation
<1>6. CASE CollectOrCommitFails(w)
  BY <1>6 DEF CollectOrCommitFails, ClientMutation
<1>7. CASE NothingCollected(w)
  BY <1>7 DEF NothingCollected, ClientMutation
<1>8. CASE IdentityMismatch(w)
  BY <1>8 DEF IdentityMismatch, ClientMutation
<1> QED BY <1>1, <1>2, <1>3, <1>4, <1>5, <1>6, <1>7, <1>8 DEF Progress, Setback

\* Every step is one of the store, or leaves its tables alone.
LEMMA CollectorStepStore ==
  ASSUME Fenced, [CollectorNext]_collectorVars
  PROVE  [StoreNext]_storeVars
<1>1. ASSUME NEW S \in SUBSET Items, Enqueue(S) PROVE StoreNext
  BY <1>1 DEF Enqueue, StoreNext
<1>2. ASSUME NEW w \in Workers, NEW i \in Items, NEW c \in ClaimIds, Claim(w, i, c) PROVE StoreNext
  BY <1>2 DEF Claim, StoreNext, Workers
<1>3. ASSUME NEW w \in Workers, Progress(w) \/ HeartbeatTick(w) \/ LateHeartbeat(w) \/ Setback(w)
      PROVE  [StoreNext]_storeVars
  <2>1. CASE pc[w] \in Holding /\ ClientMutation(held[w])
    <3>1. held[w] \in Issued
      BY <2>1, IssuedToIssued DEF Fenced
    <3> QED BY <2>1, <3>1 DEF StoreNext
  <2>2. CASE late[w] # Null /\ ClientMutation(late[w])
    <3>1. late[w] \in Issued
      BY <2>2, IssuedToIssued DEF Fenced
    <3> QED BY <2>2, <3>1 DEF StoreNext
  <2> QED BY <1>3, <2>1, <2>2, ProcessMutates DEF MutatesStore
<1>4. ASSUME NEW R \in SUBSET ClaimIds, Reap(R) PROVE StoreNext
  BY <1>4 DEF Reap, StoreNext
<1>5. ASSUME NEW c \in ClaimIds, Lapse(c) PROVE StoreNext
  BY <1>5 DEF Lapse, StoreNext
<1>6. ASSUME NEW i \in Items, Visible(i) PROVE StoreNext
  BY <1>6 DEF Visible, StoreNext
<1>7. CASE UNCHANGED collectorVars
  BY <1>7 DEF collectorVars, storeVars
<1> QED BY <1>1, <1>2, <1>3, <1>4, <1>5, <1>6, <1>7 DEF CollectorNext

\* An epoch that was handed out keeps its item, token and owner for good.
LEMMA EpochStays ==
  ASSUME StoreInv, [StoreNext]_storeVars, NEW c \in ClaimIds, claims[c].status # "unused"
  PROVE  /\ claims'[c].status # "unused"
         /\ claims'[c].item = claims[c].item
         /\ claims'[c].token = claims[c].token
         /\ claims'[c].owner = claims[c].owner
<1> DEFINE Stays == /\ claims'[c].status # "unused"
                    /\ claims'[c].item = claims[c].item
                    /\ claims'[c].token = claims[c].token
                    /\ claims'[c].owner = claims[c].owner
<1> USE DEF StoreInv, StoreTypeOK, ClaimRow
<1>1. ASSUME NEW S \in SUBSET Items, NEW visible \in BOOLEAN, EnqueueWorkItemBatch(S, visible) PROVE Stays
  BY <1>1 DEF EnqueueWorkItemBatch
<1>2. ASSUME NEW i \in Items, NEW d \in ClaimIds, NEW o \in Owners, ClaimNextEligible(i, d, o) PROVE Stays
  BY <1>2 DEF ClaimNextEligible
<1>3. ASSUME NEW m \in Issued, ClientMutation(m) PROVE Stays
  <2>1. ASSUME NEW cs \in FinishedClaim, NEW is, NEW visible, EndEpoch(m, cs, is, visible) PROVE Stays
    BY <2>1 DEF EndEpoch, FinishedClaim
  <2>2. CASE HeartbeatClaim(m) \/ Rejected(m)
    BY <2>2 DEF HeartbeatClaim, Rejected, storeVars
  <2> QED
    BY <1>3, <2>1, <2>2 DEF ClientMutation, CompleteClaim, ReleaseClaim, FailClaimRetryable,
       FailClaimTerminal, FinishedClaim
<1>4. ASSUME NEW R \in SUBSET ClaimIds, ReapExpiredClaims(R) PROVE Stays
  BY <1>4 DEF ReapExpiredClaims
<1>5. ASSUME NEW d \in ClaimIds, LeaseLapses(d) PROVE Stays
  BY <1>5 DEF LeaseLapses
<1>6. ASSUME NEW i \in Items, BecomesVisible(i) PROVE Stays
  BY <1>6 DEF BecomesVisible
<1>7. CASE UNCHANGED storeVars
  BY <1>7 DEF storeVars
<1> QED BY <1>1, <1>2, <1>3, <1>4, <1>5, <1>6, <1>7 DEF StoreNext

\* m is one in the next state.
IssuedToNext(m, w) ==
  /\ m.claim \in ClaimIds /\ m.item \in Items
  /\ claims'[m.claim].status # "unused"
  /\ m = [item |-> claims'[m.claim].item, claim |-> m.claim, token |-> claims'[m.claim].token,
          owner |-> claims'[m.claim].owner]
  /\ m.owner = w

\* So a mutation handed out to w stays one.
LEMMA IssuedStays ==
  ASSUME StoreInv, [StoreNext]_storeVars, NEW w \in Workers, NEW m, IssuedTo(m, w)
  PROVE  IssuedToNext(m, w)
  BY EpochStays DEF IssuedTo, IssuedToNext, MutationOf

\* Where w is in processClaimed is of a known shape, whatever step it takes.
LEMMA LeaveCases ==
  ASSUME NEW w \in Workers, NEW next, Leave(w, next), CollectorTypeOK
  PROVE  /\ pc'[w] = next /\ held'[w] = Null /\ hb'[w] = "off"
         /\ late'[w] \in {late[w], held[w]} /\ (late'[w] # late[w] => hb[w] = "on")
         /\ \A v \in Workers \ {w} : /\ pc'[v] = pc[v] /\ held'[v] = held[v]
                                     /\ hb'[v] = hb[v] /\ late'[v] = late[v]
         /\ late' \in [Workers -> Mutation \union {Null}]
  BY DEF Leave, CancelHeartbeat, CollectorTypeOK

\* The mutation of an epoch handed out is well typed.
LEMMA IssuedType ==
  ASSUME StoreInv, NEW w \in Workers, NEW m, IssuedTo(m, w)
  PROVE  m \in Mutation
  BY DEF IssuedTo, MutationOf, Mutation, StoreInv, StoreTypeOK, ClaimRow, Workers

\* The mutation a claim returns is that of the epoch it opens.
LEMMA ClaimIssues ==
  ASSUME StoreInv, NEW w \in Workers, NEW i \in Items, NEW c \in ClaimIds, ClaimNextEligible(i, c, w)
  PROVE  IssuedToNext(Epoch(i, c, w), w)
  BY DEF ClaimNextEligible, IssuedToNext, Epoch, StoreInv, StoreTypeOK

\* What a process does to its own state, and to nobody else's.
Moves(w) ==
  /\ \A v \in Workers \ {w} : /\ pc'[v] = pc[v] /\ held'[v] = held[v]
                              /\ hb'[v] = hb[v] /\ late'[v] = late[v]
  /\ \/ pc'[w] \in {"idle", "stopped"} /\ held'[w] = Null /\ hb'[w] = "off"
     \/ pc[w] \in Holding /\ pc'[w] \in Holding /\ held'[w] = held[w]
  /\ \/ late'[w] \in {Null, late[w]}
     \/ pc[w] \in Holding /\ late'[w] = held[w]

\* Every step of a process other than a claim is of this kind.
LEMMA ProcessMoves ==
  ASSUME StoreInv, CollectorTypeOK, Fenced, NEW w \in Workers,
         Progress(w) \/ HeartbeatTick(w) \/ LateHeartbeat(w) \/ Setback(w)
  PROVE  Moves(w) /\ CollectorTypeOK'
<1> DEFINE Ok == Moves(w) /\ CollectorTypeOK'
<1>0. ASSUME NEW next \in {"idle", "stopped"}, Leave(w, next), committedBy' \in [Items -> SUBSET Nat],
             faults' \in 0 .. MaxFaults
      PROVE  Ok
  <2>1. CollectorTypeOK'
    BY <1>0, LeaveCases DEF CollectorTypeOK, Leave
  <2>2. Moves(w)
    BY <1>0, LeaveCases DEF Moves, Fenced
  <2> QED BY <2>1, <2>2
<1>a. Fault => faults' \in 0 .. MaxFaults
  BY MaxFaultsAssumption DEF Fault, CollectorTypeOK
<1>b. UNCHANGED faults => faults' \in 0 .. MaxFaults
  BY DEF CollectorTypeOK
<1>c. NoCommit => committedBy' \in [Items -> SUBSET Nat]
  BY DEF NoCommit, CollectorTypeOK
<1>d. pc[w] \in Holding /\ Landed(w) => committedBy' \in [Items -> SUBSET Nat]
  <2> SUFFICES ASSUME pc[w] \in Holding, Landed(w) PROVE committedBy' \in [Items -> SUBSET Nat]
    OBVIOUS
  <2>1. held[w] \in Mutation
    BY IssuedType DEF Fenced
  <2> QED BY <2>1 DEF Landed, CollectorTypeOK, Mutation
<1>1. CASE FirstHeartbeat(w)
  <2>1. CASE Leave(w, "stopped")
    BY <1>1, <1>0, <1>b, <1>c, <2>1 DEF FirstHeartbeat
  <2>2. CASE ~Leave(w, "stopped")
    BY <1>1, <2>2, <1>c DEF FirstHeartbeat, CollectorTypeOK, Moves, Holding, NoCommit
  <2> QED BY <2>1, <2>2
<1>2. CASE Commit(w)
  <2>1. committedBy' \in [Items -> SUBSET Nat]
    BY <1>2, <1>d DEF Commit, Holding
  <2> QED BY <1>2, <2>1 DEF Commit, CollectorTypeOK, Moves, Holding
<1>3. CASE Restart(w)
  BY <1>3 DEF Restart, CollectorTypeOK, Moves, Holding, NoCommit, Fenced
<1>4. CASE HeartbeatErrorFound(w)
  BY <1>4, <1>0, <1>b, <1>c DEF HeartbeatErrorFound
<1>5. CASE Complete(w)
  BY <1>5, <1>0, <1>b, <1>c DEF Complete
<1>6. CASE HeartbeatTick(w)
  BY <1>6 DEF HeartbeatTick, CollectorTypeOK, Moves, Holding, NoCommit, Fenced
<1>7. CASE LateHeartbeat(w)
  BY <1>7 DEF LateHeartbeat, CollectorTypeOK, Moves, Holding, NoCommit, Fenced
<1>8. CASE CollectOrCommitFails(w)
  BY <1>8, <1>0, <1>a, <1>c, <1>d DEF CollectOrCommitFails, Holding
<1>9. CASE NothingCollected(w)
  BY <1>9, <1>0, <1>a, <1>c DEF NothingCollected
<1>10. CASE IdentityMismatch(w)
  BY <1>10, <1>0, <1>b, <1>c DEF IdentityMismatch
<1>11. CASE CancelledHeartbeatFound(w) \/ Crash(w)
  BY <1>11, <1>0, <1>a, <1>c DEF CancelledHeartbeatFound, Crash
<1> QED
  BY <1>1, <1>2, <1>3, <1>4, <1>5, <1>6, <1>7, <1>8, <1>9, <1>10, <1>11 DEF Progress, Setback

\* A claim gives w the epoch it opens and leaves the others as they were.
LEMMA ClaimMoves ==
  ASSUME StoreInv, CollectorTypeOK, NEW w \in Workers, NEW i \in Items, NEW c \in ClaimIds,
         Claim(w, i, c)
  PROVE  /\ CollectorTypeOK'
         /\ pc'[w] = "claimed" /\ held'[w] = Epoch(i, c, w) /\ UNCHANGED <<hb, late, committedBy>>
         /\ \A v \in Workers \ {w} : pc'[v] = pc[v] /\ held'[v] = held[v]
<1>1. Epoch(i, c, w) \in Mutation
  BY DEF Epoch, Mutation, StoreInv, StoreTypeOK, ItemRow, Workers
<1> QED BY <1>1 DEF Claim, NoCommit, CollectorTypeOK

\* Steps outside the processes leave them and what they committed alone.
LEMMA OutsideMoves ==
  ASSUME CollectorTypeOK,
         \/ \E S \in SUBSET Items : Enqueue(S)
         \/ \E R \in SUBSET ClaimIds : Reap(R)
         \/ \E c \in ClaimIds : Lapse(c)
         \/ \E i \in Items : Visible(i)
         \/ UNCHANGED collectorVars
  PROVE  CollectorTypeOK' /\ UNCHANGED <<pc, held, hb, late, committedBy>>
<1>1. UNCHANGED <<pc, held, hb, late, committedBy>>
  BY DEF Enqueue, Reap, Lapse, Visible, UnchangedWorkers, workerVars, NoCommit, collectorVars
<1>2. UNCHANGED faults \/ Fault
  BY DEF Enqueue, Reap, Lapse, Visible, collectorVars
<1>3. faults' \in 0 .. MaxFaults
  BY <1>2, MaxFaultsAssumption DEF Fault, CollectorTypeOK
<1> QED BY <1>1, <1>3 DEF CollectorTypeOK

\* Every step keeps what the processes hold theirs, and well typed.
LEMMA FencedStep ==
  ASSUME StoreInv, CollectorTypeOK, Fenced, [CollectorNext]_collectorVars
  PROVE  CollectorTypeOK' /\ Fenced'
<1>1. [StoreNext]_storeVars
  BY CollectorStepStore
<1>2. ASSUME NEW v \in Workers, pc[v] \in Holding PROVE IssuedToNext(held[v], v)
  BY <1>1, <1>2, IssuedStays DEF Fenced
<1>3. ASSUME NEW v \in Workers, late[v] # Null PROVE IssuedToNext(late[v], v)
  BY <1>1, <1>3, IssuedStays DEF Fenced
<1>4. SUFFICES /\ CollectorTypeOK'
               /\ \A v \in Workers :
                    /\ IF pc'[v] \in Holding THEN IssuedToNext(held'[v], v) ELSE held'[v] = Null
                    /\ hb'[v] # "off" => pc'[v] \in Holding
                    /\ late'[v] = Null \/ IssuedToNext(late'[v], v)
  BY DEF Fenced, IssuedTo, IssuedToNext, MutationOf
<1>5. ASSUME NEW w \in Workers, NEW i \in Items, NEW c \in ClaimIds, Claim(w, i, c)
      PROVE  /\ CollectorTypeOK'
             /\ \A v \in Workers :
                    /\ IF pc'[v] \in Holding THEN IssuedToNext(held'[v], v) ELSE held'[v] = Null
                    /\ hb'[v] # "off" => pc'[v] \in Holding
                    /\ late'[v] = Null \/ IssuedToNext(late'[v], v)
  <2>1. IssuedToNext(held'[w], w)
    BY <1>5, ClaimMoves, ClaimIssues DEF Claim
  <2>2. pc'[w] \in Holding
    BY <1>5, ClaimMoves DEF Holding
  <2> QED BY <1>2, <1>3, <1>5, <2>1, <2>2, ClaimMoves DEF Fenced
<1>6. ASSUME NEW w \in Workers, Progress(w) \/ HeartbeatTick(w) \/ LateHeartbeat(w) \/ Setback(w)
      PROVE  /\ CollectorTypeOK'
             /\ \A v \in Workers :
                    /\ IF pc'[v] \in Holding THEN IssuedToNext(held'[v], v) ELSE held'[v] = Null
                    /\ hb'[v] # "off" => pc'[v] \in Holding
                    /\ late'[v] = Null \/ IssuedToNext(late'[v], v)
  <2>1. Moves(w) /\ CollectorTypeOK'
    BY <1>6, ProcessMoves
  <2>2. {"idle", "stopped"} \intersect Holding = {}
    BY DEF Holding
  <2> QED BY <1>2, <1>3, <2>1, <2>2 DEF Moves, Fenced
<1>7. CASE \/ \E S \in SUBSET Items : Enqueue(S)
           \/ \E R \in SUBSET ClaimIds : Reap(R)
           \/ \E c \in ClaimIds : Lapse(c)
           \/ \E i \in Items : Visible(i)
           \/ UNCHANGED collectorVars
  BY <1>2, <1>3, <1>7, OutsideMoves DEF Fenced
<1> QED BY <1>5, <1>6, <1>7 DEF CollectorNext

\* Nothing that landed is forgotten, and a process is past its commit only
\* when that commit landed.
LEMMA CommittedStep ==
  ASSUME StoreInv, CollectorTypeOK, Fenced, Committed, [CollectorNext]_collectorVars
  PROVE  Committed' /\ \A i \in Items : committedBy[i] \subseteq committedBy'[i]
<1> DEFINE Kept == \A i \in Items : committedBy[i] \subseteq committedBy'[i]
<1>1. ASSUME NEW w \in Workers, NEW i \in Items, NEW c \in ClaimIds, Claim(w, i, c)
      PROVE  Committed' /\ Kept
  BY <1>1, ClaimMoves DEF Committed
<1>2. ASSUME NEW w \in Workers, Progress(w) \/ HeartbeatTick(w) \/ LateHeartbeat(w) \/ Setback(w)
      PROVE  Committed' /\ Kept
  <2>1. Moves(w)
    BY <1>2, ProcessMoves
  <2>2. NoCommit \/ (pc[w] = "collecting" /\ Landed(w))
    BY <1>2 DEF Progress, Setback, FirstHeartbeat, Commit, HeartbeatErrorFound, Complete, Restart,
       HeartbeatTick, LateHeartbeat, CollectOrCommitFails, NothingCollected, IdentityMismatch,
       CancelledHeartbeatFound, Crash
  <2>3. pc'[w] = "committed" => pc[w] = "committed" \/ Commit(w)
    <3>1. ASSUME NEW next \in {"idle", "stopped"}, Leave(w, next) PROVE pc'[w] # "committed"
      BY <3>1, LeaveCases
    <3>2. CASE FirstHeartbeat(w)
      BY <3>1, <3>2 DEF FirstHeartbeat, CollectorTypeOK
    <3>3. CASE HeartbeatErrorFound(w) \/ CancelledHeartbeatFound(w) \/ Crash(w) \/ IdentityMismatch(w)
      BY <3>1, <3>3 DEF HeartbeatErrorFound, CancelledHeartbeatFound, Crash, IdentityMismatch
    <3>4. CASE Complete(w) \/ NothingCollected(w) \/ CollectOrCommitFails(w)
      BY <3>1, <3>4 DEF Complete, NothingCollected, CollectOrCommitFails
    <3>5. CASE Restart(w)
      BY <3>5 DEF Restart, CollectorTypeOK
    <3>6. CASE HeartbeatTick(w) \/ LateHeartbeat(w)
      BY <3>6 DEF HeartbeatTick, LateHeartbeat
    <3> QED BY <1>2, <3>2, <3>3, <3>4, <3>5, <3>6 DEF Progress, Setback
  <2>4. Kept
    BY <2>2 DEF NoCommit, Landed, CollectorTypeOK
  <2>5. Commit(w) => /\ held'[w] = held[w] /\ held[w].item \in Items
                     /\ held[w].token \in committedBy'[held[w].item]
    BY DEF Commit, Landed, CollectorTypeOK, Fenced, Holding, IssuedTo
  <2>6. \A v \in Workers : pc[v] = "committed" => held[v].item \in Items
    BY DEF Fenced, Holding, IssuedTo
  <2> QED BY <2>1, <2>3, <2>4, <2>5, <2>6 DEF Moves, Committed
<1>3. CASE \/ \E S \in SUBSET Items : Enqueue(S)
           \/ \E R \in SUBSET ClaimIds : Reap(R)
           \/ \E c \in ClaimIds : Lapse(c)
           \/ \E i \in Items : Visible(i)
           \/ UNCHANGED collectorVars
  BY <1>3, OutsideMoves DEF Committed
<1> QED BY <1>1, <1>2, <1>3 DEF CollectorNext

\* Item i keeps its status and token, or does not become completed.
NotCompleted(i) == \/ items'[i].status # "completed"
                   \/ items'[i].status = items[i].status /\ items'[i].token = items[i].token

\* Ending an epoch other than by CompleteClaim completes nothing, and neither
\* does a heartbeat or a rejected call.
LEMMA OtherMutations ==
  ASSUME StoreInv, NEW i \in Items, NEW m,
         \/ \E cs \in FinishedClaim, is \in {"pending", "failed_terminal"}, v \in BOOLEAN :
              EndEpoch(m, cs, is, v)
         \/ HeartbeatClaim(m) \/ Rejected(m)
  PROVE  NotCompleted(i)
<1>1. ASSUME NEW cs \in FinishedClaim, NEW is \in {"pending", "failed_terminal"}, NEW v \in BOOLEAN,
             EndEpoch(m, cs, is, v)
      PROVE  NotCompleted(i)
  BY <1>1 DEF EndEpoch, NotCompleted, StoreInv, StoreTypeOK
<1>2. CASE HeartbeatClaim(m) \/ Rejected(m)
  BY <1>2 DEF HeartbeatClaim, Rejected, storeVars, NotCompleted
<1> QED BY <1>1, <1>2

\* Only a process past its commit completes an item, under the item's token.
LEMMA CompletesOnlyCommitted ==
  ASSUME StoreInv, CollectorTypeOK, Fenced, [CollectorNext]_collectorVars, NEW i \in Items
  PROVE  \/ NotCompleted(i)
         \/ \E w \in Workers : /\ pc[w] = "committed" /\ held[w].item = i
                               /\ items'[i].token = held[w].token
<1> DEFINE Done == \/ NotCompleted(i)
                   \/ \E w \in Workers : /\ pc[w] = "committed" /\ held[w].item = i
                                         /\ items'[i].token = held[w].token
<1> USE DEF StoreInv, StoreTypeOK
<1>1. ASSUME NEW S \in SUBSET Items, Enqueue(S) PROVE Done
  BY <1>1 DEF Enqueue, EnqueueWorkItemBatch, NotCompleted, ItemRow
<1>2. ASSUME NEW w \in Workers, NEW j \in Items, NEW c \in ClaimIds, Claim(w, j, c) PROVE Done
  BY <1>2 DEF Claim, ClaimNextEligible, NotCompleted
<1>3. ASSUME NEW w \in Workers, Complete(w) PROVE Done
  <2>1. CASE CompleteClaim(held[w])
    <3>1. CASE held[w].item = i
      BY <1>3, <2>1, <3>1 DEF Complete, CompleteClaim, EndEpoch, Accepted
    <3>2. CASE held[w].item # i
      BY <2>1, <3>2 DEF CompleteClaim, EndEpoch, NotCompleted
    <3> QED BY <3>1, <3>2
  <2>2. CASE Rejected(held[w])
    BY <2>2, OtherMutations
  <2> QED BY <1>3, <2>1, <2>2 DEF Complete
<1>4. ASSUME NEW w \in Workers,
             \/ FirstHeartbeat(w) \/ HeartbeatTick(w) \/ LateHeartbeat(w)
             \/ CollectOrCommitFails(w) \/ NothingCollected(w) \/ IdentityMismatch(w)
      PROVE  Done
  <2>1. \E m \in {held[w], late[w]} :
           \/ HeartbeatClaim(m) \/ Rejected(m) \/ FailClaimRetryable(m, TRUE)
           \/ ReleaseClaim(m) \/ FailClaimTerminal(m)
    BY <1>4 DEF FirstHeartbeat, HeartbeatTick, LateHeartbeat, CollectOrCommitFails, NothingCollected,
       IdentityMismatch
  <2>2. PICK m \in {held[w], late[w]} :
           \/ HeartbeatClaim(m) \/ Rejected(m) \/ FailClaimRetryable(m, TRUE)
           \/ ReleaseClaim(m) \/ FailClaimTerminal(m)
    BY <2>1
  <2>3. CASE HeartbeatClaim(m) \/ Rejected(m)
    BY <2>3, OtherMutations
  <2>4. CASE FailClaimRetryable(m, TRUE) \/ ReleaseClaim(m)
    BY <2>4, OtherMutations DEF FailClaimRetryable, ReleaseClaim, FinishedClaim
  <2>5. CASE FailClaimTerminal(m)
    BY <2>5 DEF FailClaimTerminal, EndEpoch, NotCompleted
  <2> QED BY <2>2, <2>3, <2>4, <2>5
<1>5. ASSUME NEW w \in Workers,
             \/ Commit(w) \/ HeartbeatErrorFound(w) \/ Restart(w) \/ CancelledHeartbeatFound(w) \/ Crash(w)
      PROVE  Done
  BY <1>5 DEF Commit, HeartbeatErrorFound, Restart, CancelledHeartbeatFound, Crash, NotCompleted
<1>6. ASSUME NEW R \in SUBSET ClaimIds, Reap(R) PROVE Done
  BY <1>6 DEF Reap, ReapExpiredClaims, NotCompleted
<1>7. ASSUME NEW d \in ClaimIds, Lapse(d) PROVE Done
  BY <1>7 DEF Lapse, LeaseLapses, NotCompleted
<1>8. ASSUME NEW j \in Items, Visible(j) PROVE Done
  BY <1>8 DEF Visible, BecomesVisible, NotCompleted
<1>9. CASE UNCHANGED collectorVars
  BY <1>9 DEF collectorVars, NotCompleted
<1> QED
  BY <1>1, <1>2, <1>3, <1>4, <1>5, <1>6, <1>7, <1>8, <1>9 DEF CollectorNext, Progress, Setback

\* The collector's invariant is kept by every step.
LEMMA CollectorNextInv ==
  ASSUME CollectorInv, [CollectorNext]_collectorVars
  PROVE  CollectorInv'
<1>1. StoreInv'
  BY CollectorStepStore, StoreNextInv DEF CollectorInv
<1>2. CollectorTypeOK' /\ Fenced'
  BY FencedStep DEF CollectorInv
<1>3. Committed' /\ \A i \in Items : committedBy[i] \subseteq committedBy'[i]
  BY CommittedStep DEF CollectorInv
<1>4. CompletedWasCommitted'
  <2> SUFFICES ASSUME NEW i \in Items, items'[i].status = "completed"
               PROVE  items'[i].token \in committedBy'[i]
    BY DEF CompletedWasCommitted
  <2>1. CASE NotCompleted(i)
    BY <1>3, <2>1 DEF NotCompleted, CollectorInv, CompletedWasCommitted
  <2>2. CASE ~NotCompleted(i)
    <3>1. PICK w \in Workers : pc[w] = "committed" /\ held[w].item = i /\ items'[i].token = held[w].token
      BY <2>2, CompletesOnlyCommitted DEF CollectorInv
    <3> QED BY <1>3, <3>1 DEF CollectorInv, Committed
  <2> QED BY <2>1, <2>2
<1> QED BY <1>1, <1>2, <1>3, <1>4 DEF CollectorInv

\* Two processes never hold the same epoch: equal tokens on one item are
\* equal claims, and a claim has one owner.
LEMMA HoldersDiffer == CollectorInv => OneCurrentHolder
<1> SUFFICES ASSUME CollectorInv, NEW v \in Workers, NEW w \in Workers, v # w,
                    held[v] # Null, held[w] # Null, held[v].item = held[w].item,
                    held[v].token = held[w].token
             PROVE  FALSE
  BY DEF OneCurrentHolder
<1>1. IssuedTo(held[v], v) /\ IssuedTo(held[w], w)
  BY DEF CollectorInv, Fenced
<1>2. held[v].claim # held[w].claim
  BY <1>1 DEF IssuedTo, MutationOf
<1>3. TokensNeverReused
  BY DEF CollectorInv, StoreInv
<1> QED BY <1>1, <1>2, <1>3 DEF IssuedTo, MutationOf, TokensNeverReused

-----------------------------------------------------------------------------
\* The invariant holds in every reachable state of any number of collector
\* processes, with any number of crashes, failed calls and late heartbeats.
LEMMA CollectorInvHolds == CollectorSpec => []CollectorInv
BY CollectorInitInv, CollectorNextInv, PTL DEF CollectorSpec

\* Processes, heartbeats and recorded commits keep their types.
THEOREM CollectorTypes == CollectorSpec => []CollectorTypeOK
<1>1. CollectorInv => CollectorTypeOK
  BY DEF CollectorInv
<1> QED BY CollectorInvHolds, <1>1, PTL

\* An item is completed only under a token whose own CommitScopeGeneration
\* landed (processClaimed over the fenced statements of the store).
THEOREM CompletionFollowsCommit == CollectorSpec => []CompletedWasCommitted
<1>1. CollectorInv => CompletedWasCommitted
  BY DEF CollectorInv
<1> QED BY CollectorInvHolds, <1>1, PTL

\* Of the processes that go on working on one item, after leases lapsed and
\* were reaped under them, no two hold the same token.
THEOREM HoldersAreFenced == CollectorSpec => []OneCurrentHolder
BY CollectorInvHolds, HoldersDiffer, PTL

\* The collector processes, the reaper and time together are a client of the
\* workflow control store and no more: what StoreSpec promises holds of them.
THEOREM CollectorImplementsStore == CollectorSpec => StoreSpec
<1>1. CollectorInit => StoreInit
  BY DEF CollectorInit
<1>2. CollectorInv /\ [CollectorNext]_collectorVars => [StoreNext]_storeVars
  BY CollectorStepStore DEF CollectorInv
<1> QED BY CollectorInitInv, CollectorNextInv, <1>1, <1>2, PTL DEF CollectorSpec, StoreSpec
=============================================================================
