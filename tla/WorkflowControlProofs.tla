----------------------- MODULE WorkflowControlProofs -----------------------
(***************************************************************************)
(* Proofs about WorkflowControl, for any sets of items, claim ids and      *)
(* owners and any reap limit.                                              *)
(*                                                                         *)
(* The inductive invariant is the conjunction of the three invariants the  *)
(* run workflow_control checks.  ExclusiveOwnership needs the types; the   *)
(* first half of TokensNeverReused (no token above the item row's) is what *)
(* makes the next token fresh, hence its second half.                      *)
(***************************************************************************)
EXTENDS WorkflowControl, TLAPS

StoreInv == StoreTypeOK /\ ExclusiveOwnership /\ TokensNeverReused

\* The empty tables satisfy the invariant.
LEMMA StoreInitInv == StoreInit => StoreInv
  BY NullAssumption DEF StoreInit, StoreInv, StoreTypeOK, ExclusiveOwnership, OwnedBy,
     TokensNeverReused, ItemRow, ClaimRow, ItemStatus, ClaimStatus, FinishedClaim

\* What a client can still send names an existing item and claim row, and is
\* exactly what the claim row says.
LEMMA IssuedMutation ==
  ASSUME StoreInv, NEW m \in Issued
  PROVE  /\ m.item \in Items /\ m.claim \in ClaimIds
         /\ m = MutationOf(m.claim)
         /\ claims[m.claim].status # "unused"
  BY DEF StoreInv, TokensNeverReused, Issued, MutationOf

\* An accepted mutation comes from the owner of its item.
LEMMA AcceptedOwns ==
  ASSUME StoreInv, NEW m, m.item \in Items, m.claim \in ClaimIds, Accepted(m)
  PROVE  /\ claims[m.claim].status = "active"
         /\ claims[m.claim].item = m.item
         /\ OwnedBy(m.item, m.claim)
  BY DEF Accepted, OwnedBy

\* New batches of work items preserve the invariant.
LEMMA EnqueueInv ==
  ASSUME StoreInv, NEW S \in SUBSET Items, NEW visible \in BOOLEAN,
         EnqueueWorkItemBatch(S, visible)
  PROVE  StoreInv'
<1> USE DEF EnqueueWorkItemBatch
<1>1. StoreTypeOK'
  BY DEF StoreInv, StoreTypeOK, ItemRow, ItemStatus
<1>2. ExclusiveOwnership'
  <2>1. \A i \in Items : items[i].status # "absent" => items'[i] = items[i]
    OBVIOUS
  <2>2. \A i \in Items : items[i].status = "absent" => items'[i].status # "claimed"
    BY DEF StoreInv, StoreTypeOK, ItemRow
  <2> QED BY <2>1, <2>2 DEF StoreInv, ExclusiveOwnership, OwnedBy
<1>3. TokensNeverReused'
  BY DEF StoreInv, StoreTypeOK, TokensNeverReused, ItemRow
<1> QED BY <1>1, <1>2, <1>3 DEF StoreInv

\* A claim opens a fresh epoch on an item nobody owns.
LEMMA ClaimInv ==
  ASSUME StoreInv, NEW i \in Items, NEW c \in ClaimIds, NEW o \in Owners,
         ClaimNextEligible(i, c, o)
  PROVE  StoreInv'
<1> USE DEF ClaimNextEligible, Eligible
<1>1. StoreTypeOK'
  BY DEF StoreInv, StoreTypeOK, ItemRow, ItemStatus, ClaimRow, ClaimStatus
<1>2. \A d \in ClaimIds : claims[d].status = "active" => claims[d].item # i
  BY DEF StoreInv, ExclusiveOwnership, OwnedBy
<1>3. ExclusiveOwnership'
  BY <1>2 DEF StoreInv, StoreTypeOK, ExclusiveOwnership, OwnedBy
<1>4. \A d \in ClaimIds : claims[d].status # "unused" /\ claims[d].item = i
        => claims[d].token < items[i].token + 1
  BY DEF StoreInv, StoreTypeOK, TokensNeverReused, ItemRow, ClaimRow
<1>5. TokensNeverReused'
  <2>1. /\ items'[i].token = items[i].token + 1
        /\ \A j \in Items : j # i => items'[j] = items[j]
        /\ items[i].token \in Nat
    BY DEF StoreInv, StoreTypeOK, ItemRow
  <2>2. /\ claims'[c].item = i /\ claims'[c].token = items[i].token + 1
        /\ \A d \in ClaimIds : d # c => claims'[d] = claims[d]
        /\ \A d \in ClaimIds : claims[d].token \in Nat
    BY DEF StoreInv, StoreTypeOK, ClaimRow
  <2> QED BY <1>4, <2>1, <2>2 DEF StoreInv, TokensNeverReused
<1> QED BY <1>1, <1>3, <1>5 DEF StoreInv

\* Every way an epoch ends closes the claim row and frees the item together.
LEMMA EndEpochInv ==
  ASSUME StoreInv, NEW m, m.item \in Items, m.claim \in ClaimIds,
         NEW cs \in FinishedClaim, NEW is \in {"pending", "completed", "failed_terminal"},
         NEW visible \in BOOLEAN, EndEpoch(m, cs, is, visible)
  PROVE  StoreInv'
<1>0. Accepted(m) BY DEF EndEpoch
<1>1. /\ claims[m.claim].item = m.item
      /\ OwnedBy(m.item, m.claim)
  BY <1>0, AcceptedOwns
<1>2. StoreTypeOK'
  <2>1. [status |-> is, claim |-> Null, owner |-> Null, token |-> items[m.item].token,
         visible |-> visible] \in ItemRow
    BY DEF StoreInv, StoreTypeOK, ItemRow, ItemStatus
  <2>2. items' \in [Items -> ItemRow]
    BY <2>1 DEF EndEpoch, StoreInv, StoreTypeOK
  <2>3. [claims[m.claim] EXCEPT !.status = cs] \in ClaimRow
    BY DEF StoreInv, StoreTypeOK, ClaimRow, ClaimStatus
  <2>4. claims' \in [ClaimIds -> ClaimRow]
    BY <2>3 DEF EndEpoch, StoreInv, StoreTypeOK
  <2> QED BY <2>2, <2>4 DEF StoreTypeOK
<1>3. \A d \in ClaimIds : d # m.claim /\ claims[d].status = "active" => claims[d].item # m.item
  BY <1>1 DEF StoreInv, ExclusiveOwnership, OwnedBy
<1>4. ExclusiveOwnership'
  BY <1>1, <1>3 DEF EndEpoch, StoreInv, StoreTypeOK, ExclusiveOwnership, OwnedBy, FinishedClaim
<1>5. TokensNeverReused'
  BY <1>0, <1>1 DEF EndEpoch, Accepted, StoreInv, StoreTypeOK, TokensNeverReused, ItemRow, ClaimRow
<1> QED BY <1>2, <1>4, <1>5 DEF StoreInv

\* A change of a lease column touches nothing the invariant speaks of.
LEMMA LeaseColumnInv ==
  ASSUME StoreInv, NEW c \in ClaimIds, NEW b \in BOOLEAN,
         claims' = [claims EXCEPT ![c] = [claims[c] EXCEPT !.lapsed = b]], UNCHANGED items
  PROVE  StoreInv'
<1>1. StoreTypeOK'
  BY DEF StoreInv, StoreTypeOK, ClaimRow
<1>2. \A d \in ClaimIds : /\ claims'[d].status = claims[d].status
                          /\ claims'[d].item = claims[d].item
                          /\ claims'[d].token = claims[d].token
                          /\ claims'[d].owner = claims[d].owner
  BY DEF StoreInv, StoreTypeOK, ClaimRow
<1>3. ExclusiveOwnership' /\ TokensNeverReused'
  BY <1>2 DEF StoreInv, ExclusiveOwnership, OwnedBy, TokensNeverReused
<1> QED BY <1>1, <1>3 DEF StoreInv

\* No call of a client, stale or not, breaks the invariant.
LEMMA ClientMutationInv ==
  ASSUME StoreInv, NEW m \in Issued, ClientMutation(m)
  PROVE  StoreInv'
<1>1. m.item \in Items /\ m.claim \in ClaimIds
  BY IssuedMutation
<1>2. items[m.item].visible \in BOOLEAN
  BY <1>1 DEF StoreInv, StoreTypeOK, ItemRow
<1>3. CASE HeartbeatClaim(m)
  BY <1>1, <1>3, LeaseColumnInv DEF HeartbeatClaim
<1>4. CASE CompleteClaim(m)
  BY <1>1, <1>2, <1>4, EndEpochInv DEF CompleteClaim, FinishedClaim
<1>5. CASE ReleaseClaim(m)
  BY <1>1, <1>5, EndEpochInv DEF ReleaseClaim, FinishedClaim
<1>6. ASSUME NEW visible \in BOOLEAN, FailClaimRetryable(m, visible) PROVE StoreInv'
  BY <1>1, <1>6, EndEpochInv DEF FailClaimRetryable, FinishedClaim
<1>7. CASE FailClaimTerminal(m)
  BY <1>1, <1>2, <1>7, EndEpochInv DEF FailClaimTerminal, FinishedClaim
<1>8. CASE Rejected(m)
  BY <1>8 DEF Rejected, storeVars, StoreInv, StoreTypeOK, ExclusiveOwnership, OwnedBy,
     TokensNeverReused
<1> QED BY <1>3, <1>4, <1>5, <1>6, <1>7, <1>8 DEF ClientMutation

\* Reaping a set of lapsed epochs closes each claim row with its own item.
LEMMA ReapInv ==
  ASSUME StoreInv, NEW R \in SUBSET ClaimIds, ReapExpiredClaims(R)
  PROVE  StoreInv'
<1>1. \A c \in R : /\ claims[c].status = "active"
                   /\ claims[c].item \in Items /\ OwnedBy(claims[c].item, c)
  BY DEF ReapExpiredClaims, Reapable, StoreInv, ExclusiveOwnership
<1>2. StoreTypeOK'
  <2>1. items' \in [Items -> ItemRow]
    BY DEF ReapExpiredClaims, StoreInv, StoreTypeOK, ItemRow, ItemStatus
  <2>2. ASSUME NEW c \in ClaimIds PROVE [claims[c] EXCEPT !.status = "expired"] \in ClaimRow
    BY DEF StoreInv, StoreTypeOK, ClaimRow, ClaimStatus, FinishedClaim
  <2>3. claims' \in [ClaimIds -> ClaimRow]
    BY <2>2 DEF ReapExpiredClaims, StoreInv, StoreTypeOK
  <2> QED BY <2>1, <2>3 DEF StoreTypeOK
<1>3. \A c \in R, d \in ClaimIds :
        claims[d].status = "active" /\ claims[d].item = claims[c].item => d = c
  BY <1>1 DEF StoreInv, ExclusiveOwnership, OwnedBy
<1>4. /\ \A d \in ClaimIds \ R : claims'[d] = claims[d]
      /\ \A d \in R : claims'[d].status = "expired"
      /\ \A d \in ClaimIds : /\ claims'[d].item = claims[d].item
                             /\ claims'[d].token = claims[d].token
                             /\ claims'[d].status = "unused" => claims[d].status = "unused"
  BY DEF ReapExpiredClaims, StoreInv, StoreTypeOK, ClaimRow
<1>5. \A i \in Items : items'[i].token = items[i].token
  BY DEF ReapExpiredClaims, StoreInv, StoreTypeOK, ItemRow
<1>6. \A i \in Items : IF \E c \in R : claims[c].item = i THEN items'[i].status = "pending"
                                                       ELSE items'[i] = items[i]
  BY DEF ReapExpiredClaims
<1>7. ExclusiveOwnership'
  BY <1>1, <1>3, <1>4, <1>6 DEF StoreInv, ExclusiveOwnership, OwnedBy
<1>8. TokensNeverReused'
  <2>1. \A d \in ClaimIds : claims'[d].status # "unused" => claims[d].status # "unused"
    BY <1>1, <1>4
  <2> QED BY <1>4, <1>5, <2>1 DEF StoreInv, TokensNeverReused
<1> QED BY <1>2, <1>7, <1>8 DEF StoreInv

\* The invariant is inductive.
LEMMA StoreNextInv == StoreInv /\ [StoreNext]_storeVars => StoreInv'
<1> SUFFICES ASSUME StoreInv, [StoreNext]_storeVars PROVE StoreInv'
  OBVIOUS
<1>1. ASSUME NEW S \in SUBSET Items, NEW visible \in BOOLEAN, EnqueueWorkItemBatch(S, visible)
      PROVE  StoreInv'
  BY <1>1, EnqueueInv
<1>2. ASSUME NEW i \in Items, NEW c \in ClaimIds, NEW o \in Owners, ClaimNextEligible(i, c, o)
      PROVE  StoreInv'
  BY <1>2, ClaimInv
<1>3. ASSUME NEW m \in Issued, ClientMutation(m) PROVE StoreInv'
  BY <1>3, ClientMutationInv
<1>4. ASSUME NEW R \in SUBSET ClaimIds, ReapExpiredClaims(R) PROVE StoreInv'
  BY <1>4, ReapInv
<1>5. ASSUME NEW c \in ClaimIds, LeaseLapses(c) PROVE StoreInv'
  BY <1>5, LeaseColumnInv DEF LeaseLapses
<1>6. ASSUME NEW i \in Items, BecomesVisible(i) PROVE StoreInv'
  <2>1. \A j \in Items : /\ items'[j].status = items[j].status
                         /\ items'[j].claim = items[j].claim
                         /\ items'[j].token = items[j].token
                         /\ items'[j].owner = items[j].owner
    BY <1>6 DEF BecomesVisible, StoreInv, StoreTypeOK, ItemRow
  <2>2. StoreTypeOK'
    BY <1>6 DEF BecomesVisible, StoreInv, StoreTypeOK, ItemRow
  <2> QED BY <1>6, <2>1, <2>2 DEF BecomesVisible, StoreInv, ExclusiveOwnership, OwnedBy,
             TokensNeverReused
<1>7. CASE UNCHANGED storeVars
  BY <1>7 DEF storeVars, StoreInv, StoreTypeOK, ExclusiveOwnership, OwnedBy, TokensNeverReused
<1> QED BY <1>1, <1>2, <1>3, <1>4, <1>5, <1>6, <1>7 DEF StoreNext

\* The invariant holds in every behaviour of the store, whatever its clients
\* send and whenever leases lapse.
LEMMA StoreInvHolds == StoreSpec => []StoreInv
  BY StoreInitInv, StoreNextInv, PTL DEF StoreSpec

\* The rows of both tables keep their types.
THEOREM StoreTypes == StoreSpec => []StoreTypeOK
  BY StoreInvHolds, PTL DEF StoreInv

\* Each work item has at most one open epoch, and both tables agree on it
\* (the claim, heartbeat, complete, release and fail statements and the reap).
THEOREM OwnershipIsExclusive == StoreSpec => []ExclusiveOwnership
  BY StoreInvHolds, PTL DEF StoreInv

\* No two claims of an item carry the same fencing token, and none exceeds the
\* item's: the next claim's token is fresh.
THEOREM TokensStayFresh == StoreSpec => []TokensNeverReused
  BY StoreInvHolds, PTL DEF StoreInv

\* No step ever changes the row of a finished claim or of a settled item.
THEOREM FinishedStaysFinal == StoreSpec => FinishedIsFinal
<1>1. StoreInv /\ [StoreNext]_storeVars =>
        [/\ \A c \in ClaimIds : claims[c].status \in FinishedClaim => claims'[c] = claims[c]
         /\ \A i \in Items : items[i].status \in {"completed", "failed_terminal"} =>
              items'[i] = items[i]]_storeVars
  <2> SUFFICES ASSUME StoreInv, StoreNext
               PROVE  /\ \A c \in ClaimIds : claims[c].status \in FinishedClaim =>
                           claims'[c] = claims[c]
                      /\ \A i \in Items : items[i].status \in {"completed", "failed_terminal"} =>
                           items'[i] = items[i]
    OBVIOUS
  <2> DEFINE Final == /\ \A c \in ClaimIds : claims[c].status \in FinishedClaim =>
                           claims'[c] = claims[c]
                      /\ \A i \in Items : items[i].status \in {"completed", "failed_terminal"} =>
                           items'[i] = items[i]
  <2>1. ASSUME NEW S \in SUBSET Items, NEW visible \in BOOLEAN, EnqueueWorkItemBatch(S, visible)
        PROVE  Final
    BY <2>1 DEF EnqueueWorkItemBatch, StoreInv, StoreTypeOK
  <2>2. ASSUME NEW i \in Items, NEW c \in ClaimIds, NEW o \in Owners, ClaimNextEligible(i, c, o)
        PROVE  Final
    BY <2>2 DEF ClaimNextEligible, Eligible, FinishedClaim, StoreInv, StoreTypeOK
  <2>3. ASSUME NEW m \in Issued, ClientMutation(m) PROVE Final
    <3>1. m.item \in Items /\ m.claim \in ClaimIds
      BY IssuedMutation
    <3>2. CASE Accepted(m)
      <4>1. /\ items[m.item].status = "claimed" /\ claims[m.claim].status = "active"
        BY <3>2 DEF Accepted
      <4>2. /\ \A d \in ClaimIds : d # m.claim => claims'[d] = claims[d]
            /\ \A j \in Items : j # m.item => items'[j] = items[j]
        BY <2>3, <3>1, <3>2 DEF ClientMutation, HeartbeatClaim, CompleteClaim, ReleaseClaim,
           FailClaimRetryable, FailClaimTerminal, Rejected, EndEpoch, storeVars, StoreInv, StoreTypeOK
      <4> QED BY <4>1, <4>2 DEF FinishedClaim
    <3>3. CASE ~Accepted(m)
      BY <2>3, <3>3 DEF ClientMutation, HeartbeatClaim, CompleteClaim, ReleaseClaim,
         FailClaimRetryable, FailClaimTerminal, Rejected, EndEpoch, storeVars
    <3> QED BY <3>2, <3>3
  <2>4. ASSUME NEW R \in SUBSET ClaimIds, ReapExpiredClaims(R) PROVE Final
    <3>1. \A c \in R : /\ claims[c].status = "active"
                       /\ items[claims[c].item].status = "claimed"
      BY <2>4 DEF ReapExpiredClaims, Reapable, StoreInv, ExclusiveOwnership, OwnedBy
    <3> QED BY <2>4, <3>1 DEF ReapExpiredClaims, FinishedClaim
  <2>5. ASSUME NEW c \in ClaimIds, LeaseLapses(c) PROVE Final
    BY <2>5 DEF LeaseLapses, FinishedClaim, StoreInv, StoreTypeOK
  <2>6. ASSUME NEW i \in Items, BecomesVisible(i) PROVE Final
    BY <2>6 DEF BecomesVisible, StoreInv, StoreTypeOK
  <2> QED BY <2>1, <2>2, <2>3, <2>4, <2>5, <2>6 DEF StoreNext
<1> QED BY <1>1, StoreInitInv, StoreNextInv, PTL DEF StoreSpec, FinishedIsFinal

-----------------------------------------------------------------------------
(* Refinement: the tables implement the abstract lease.                    *)

\* An item that is held is held by the epoch its row names.
LEMMA HolderIsToken ==
  ASSUME StoreInv, NEW i \in Items
  PROVE  Holder[i] = IF items[i].status = "claimed" THEN items[i].token ELSE 0
  BY DEF Holder, StoreInv, ExclusiveOwnership, OwnedBy

\* The same in the next state.
LEMMA HolderIsTokenNext ==
  ASSUME StoreInv', NEW i \in Items
  PROVE  Holder'[i] = IF items'[i].status = "claimed" THEN items'[i].token ELSE 0
  BY DEF Holder, StoreInv, ExclusiveOwnership, OwnedBy

\* Every way an epoch ends is the owner giving up or settling its item.
LEMMA EndEpochLease ==
  ASSUME StoreInv, StoreInv', NEW m, m.item \in Items, m.claim \in ClaimIds,
         NEW cs, NEW is \in {"pending", "completed", "failed_terminal"}, NEW visible,
         EndEpoch(m, cs, is, visible)
  PROVE  Lease!LeaseNext
<1> DEFINE Tokens == [i \in Items |-> items[i].token]
<1>1. /\ \A j \in Items : j # m.item => items'[j] = items[j]
      /\ items'[m.item].status = is
      /\ \A j \in Items : items'[j].token = items[j].token
      /\ items[m.item].status = "claimed"
  BY DEF EndEpoch, Accepted, StoreInv, StoreTypeOK, ItemRow
<1>2. \A j \in Items : Holder'[j] = IF j = m.item THEN 0 ELSE Holder[j]
  BY <1>1, HolderIsToken, HolderIsTokenNext
<1>3. Holder[m.item] # 0
  <2>1. claims[m.claim].item = m.item /\ claims[m.claim].status # "unused"
        /\ claims[m.claim].token = items[m.item].token
    BY AcceptedOwns DEF EndEpoch, OwnedBy
  <2>2. items[m.item].token >= 1
    BY <2>1 DEF StoreInv, TokensNeverReused
  <2> QED BY <1>1, <2>2, HolderIsToken
<1>4. Tokens' = Tokens
  BY <1>1
<1>5. Holder' = [j \in Items |-> IF j \in {m.item} THEN 0 ELSE Holder[j]]
  BY <1>2 DEF Holder
<1>6. CASE is = "pending"
  <2>1. Outcome' = Outcome
    BY <1>1, <1>6 DEF Outcome
  <2>2. Lease!GiveUp({m.item})
    BY <1>3, <1>4, <1>5, <2>1 DEF Lease!GiveUp
  <2> QED BY <2>2 DEF Lease!LeaseNext
<1>7. CASE is # "pending"
  <2> DEFINE result == IF is = "completed" THEN "completed" ELSE "failed"
  <2>1. Outcome[m.item] = "open" /\ Outcome' = [Outcome EXCEPT ![m.item] = result]
    BY <1>1, <1>7 DEF Outcome
  <2>2. Holder' = [Holder EXCEPT ![m.item] = 0]
    BY <1>2 DEF Holder
  <2>3. Lease!Settle(m.item, result)
    BY <1>3, <1>4, <2>1, <2>2 DEF Lease!Settle
  <2> QED BY <2>3 DEF Lease!LeaseNext
<1> QED BY <1>6, <1>7

\* Every statement of the store is a step of the lease, or none.
LEMMA StoreStepLease ==
  ASSUME StoreInv, StoreInv', StoreNext
  PROVE  Lease!LeaseNext \/ UNCHANGED Lease!leaseVars
<1> DEFINE Tokens == [i \in Items |-> items[i].token]
<1>s. ASSUME \A j \in Items : items'[j].status = items[j].status /\ items'[j].token = items[j].token
      PROVE  UNCHANGED Lease!leaseVars
  <2>1. Outcome' = Outcome BY <1>s DEF Outcome
  <2>2. Tokens' = Tokens BY <1>s
  <2>3. \A j \in Items : Holder'[j] = Holder[j]
    BY <1>s, HolderIsToken, HolderIsTokenNext
  <2>4. Holder' = Holder BY <2>3 DEF Holder
  <2> QED BY <2>1, <2>2, <2>4 DEF Lease!leaseVars
<1>1. ASSUME NEW S \in SUBSET Items, NEW visible \in BOOLEAN, EnqueueWorkItemBatch(S, visible)
      PROVE  Lease!LeaseNext
  <2> DEFINE New == {i \in S : items[i].status = "absent"}
  <2>1. \A j \in Items : /\ items'[j].token = items[j].token
                         /\ items'[j].status = IF j \in New THEN "pending" ELSE items[j].status
    BY <1>1 DEF EnqueueWorkItemBatch, StoreInv, StoreTypeOK, ItemRow
  <2>2. Tokens' = Tokens BY <2>1
  <2>3. \A j \in Items : Holder'[j] = Holder[j]
    BY <2>1, HolderIsToken, HolderIsTokenNext
  <2>4. Holder' = Holder BY <2>3 DEF Holder
  <2>5. Outcome' = [i \in Items |-> IF i \in New THEN "open" ELSE Outcome[i]]
    BY <2>1 DEF Outcome
  <2>6. \A i \in New : Outcome[i] = "absent"
    BY DEF Outcome
  <2>7. Lease!Submit(New) BY <2>2, <2>4, <2>5, <2>6 DEF Lease!Submit
  <2> QED BY <2>7 DEF Lease!LeaseNext
<1>2. ASSUME NEW i \in Items, NEW c \in ClaimIds, NEW o \in Owners, ClaimNextEligible(i, c, o)
      PROVE  Lease!LeaseNext
  <2>1. /\ items[i].status = "pending" /\ items'[i].status = "claimed"
        /\ items'[i].token = items[i].token + 1
        /\ \A j \in Items : j # i => items'[j] = items[j]
    BY <1>2 DEF ClaimNextEligible, Eligible, StoreInv, StoreTypeOK
  <2>2. Outcome' = Outcome /\ Outcome[i] = "open" BY <2>1 DEF Outcome
  <2>3. Tokens' = [Tokens EXCEPT ![i] = Tokens[i] + 1] BY <2>1
  <2>4. Holder[i] = 0 BY <2>1, HolderIsToken
  <2>5. \A j \in Items : Holder'[j] = IF j = i THEN Tokens[i] + 1 ELSE Holder[j]
    BY <2>1, HolderIsToken, HolderIsTokenNext
  <2>6. Holder' = [Holder EXCEPT ![i] = Tokens[i] + 1] BY <2>5 DEF Holder
  <2>7. Lease!Acquire(i) BY <2>2, <2>3, <2>4, <2>6 DEF Lease!Acquire
  <2> QED BY <2>7 DEF Lease!LeaseNext
<1>3. ASSUME NEW m \in Issued, ClientMutation(m)
      PROVE  Lease!LeaseNext \/ UNCHANGED Lease!leaseVars
  <2>1. m.item \in Items /\ m.claim \in ClaimIds BY IssuedMutation
  <2>2. CASE UNCHANGED items
    BY <2>2, <1>s
  <2>3. CASE \E cs, visible : \E is \in {"pending", "completed", "failed_terminal"} :
               EndEpoch(m, cs, is, visible)
    BY <2>1, <2>3, EndEpochLease
  <2> QED BY <1>3, <2>2, <2>3 DEF ClientMutation, HeartbeatClaim, CompleteClaim, ReleaseClaim,
             FailClaimRetryable, FailClaimTerminal, Rejected, storeVars
<1>4. ASSUME NEW R \in SUBSET ClaimIds, ReapExpiredClaims(R) PROVE Lease!LeaseNext
  <2> DEFINE Freed == {claims[c].item : c \in R}
  <2>1. \A c \in R : /\ claims[c].item \in Items /\ claims[c].status = "active"
                     /\ OwnedBy(claims[c].item, c)
    BY <1>4 DEF ReapExpiredClaims, Reapable, StoreInv, ExclusiveOwnership
  <2>2. \A j \in Items : /\ items'[j].token = items[j].token
                         /\ items'[j].status = IF j \in Freed THEN "pending" ELSE items[j].status
    BY <1>4 DEF ReapExpiredClaims, StoreInv, StoreTypeOK, ItemRow
  <2>3. Tokens' = Tokens BY <2>2
  <2>4. Freed \in SUBSET Items /\ \A j \in Freed : items[j].status = "claimed" /\ items[j].token >= 1
    BY <2>1 DEF OwnedBy, StoreInv, TokensNeverReused
  <2>5. Outcome' = Outcome BY <2>2, <2>4 DEF Outcome
  <2>6. \A j \in Items : Holder'[j] = IF j \in Freed THEN 0 ELSE Holder[j]
    BY <2>2, HolderIsToken, HolderIsTokenNext
  <2>7. Holder' = [j \in Items |-> IF j \in Freed THEN 0 ELSE Holder[j]] BY <2>6 DEF Holder
  <2>8. \A j \in Freed : Holder[j] # 0 BY <2>4, HolderIsToken
  <2>9. Lease!GiveUp(Freed) BY <2>3, <2>5, <2>7, <2>8 DEF Lease!GiveUp
  <2> QED BY <2>4, <2>9 DEF Lease!LeaseNext
<1>5. ASSUME NEW c \in ClaimIds, LeaseLapses(c) PROVE UNCHANGED Lease!leaseVars
  BY <1>5, <1>s DEF LeaseLapses
<1>6. ASSUME NEW i \in Items, BecomesVisible(i) PROVE UNCHANGED Lease!leaseVars
  <2>1. \A j \in Items : items'[j].status = items[j].status /\ items'[j].token = items[j].token
    BY <1>6 DEF BecomesVisible, StoreInv, StoreTypeOK, ItemRow
  <2> QED BY <2>1, <1>s
<1> QED BY <1>1, <1>2, <1>3, <1>4, <1>5, <1>6 DEF StoreNext

\* The two tables with their fenced statements implement exclusive ownership
\* in strictly increasing epochs, for every number of items and clients.
THEOREM StoreImplementsLease == StoreSpec => ImplementsLease
<1>1. StoreInit => Lease!LeaseInit
  BY DEF StoreInit, Lease!LeaseInit, Outcome, Holder
<1>2. StoreInv /\ StoreInv' /\ [StoreNext]_storeVars => [Lease!LeaseNext]_Lease!leaseVars
  <2>1. UNCHANGED storeVars => UNCHANGED Lease!leaseVars
    BY DEF storeVars, Lease!leaseVars, Outcome, Holder
  <2> QED BY <2>1, StoreStepLease
<1> QED BY <1>1, <1>2, StoreInitInv, StoreNextInv, PTL DEF StoreSpec, ImplementsLease, Lease!LeaseSpec
=============================================================================
