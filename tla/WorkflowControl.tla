-------------------------- MODULE WorkflowControl --------------------------
(***************************************************************************)
(* The durable workflow control store: the tables workflow_work_items and  *)
(* workflow_claims and the statements of                                   *)
(* go/internal/storage/postgres/workflow_control*.go that change them.     *)
(* Each statement locks the rows it changes (FOR UPDATE, re-checking its   *)
(* WHERE on the locked version), so each is one action.                    *)
(*                                                                         *)
(* Clients are not modelled here: any claim that was ever handed out may   *)
(* be used in any mutation at any later time, which covers stalled         *)
(* collectors, late heartbeats, retries of what was already done and       *)
(* processes that died between two calls.  Module ClaimedCollector adds    *)
(* the collector process.                                                  *)
(*                                                                         *)
(* Time is kept as what the statements compare: claims[c].lapsed is        *)
(* lease_expires_at < now, items[i].visible is visible_at <= now.  The     *)
(* clock of a client is never trusted for safety, so both may change at    *)
(* any moment.  attempt_count always equals the fencing token and nothing  *)
(* reads it; failure texts and timestamps are left out.                    *)
(***************************************************************************)
EXTENDS Naturals, FiniteSets

CONSTANTS
  Items,                \* work_item_id
  ClaimIds,             \* claim_id, fresh for each call of ClaimNextEligible
  Owners,               \* owner_id of a collector process
  ReapLimit,            \* limit argument of ReapExpiredClaims
  Null                  \* SQL NULL

ASSUME ReapLimitAssumption == ReapLimit \in Nat \ {0}
ASSUME NullAssumption == Null \notin Items \union ClaimIds \union Owners

VARIABLES
  items,                \* workflow_work_items, keyed by work_item_id
  claims                \* workflow_claims, keyed by claim_id

storeVars == <<items, claims>>

ItemStatus == {"absent", "pending", "claimed", "completed", "failed_terminal"}
FinishedClaim == {"completed", "released", "failed_retryable", "failed_terminal", "expired"}
ClaimStatus == {"unused", "active"} \union FinishedClaim

ItemRow == [status : ItemStatus, claim : ClaimIds \union {Null}, token : Nat,
            owner : Owners \union {Null}, visible : BOOLEAN]
ClaimRow == [status : ClaimStatus, item : Items \union {Null}, token : Nat,
             owner : Owners \union {Null}, lapsed : BOOLEAN]

\* What a client sends to prove that it owns a work item (workflow.ClaimMutation).
Mutation == [item : Items, claim : ClaimIds, token : Nat, owner : Owners]

StoreInit ==
  /\ items = [i \in Items |-> [status |-> "absent", claim |-> Null, token |-> 0,
                               owner |-> Null, visible |-> FALSE]]
  /\ claims = [c \in ClaimIds |-> [status |-> "unused", item |-> Null, token |-> 0,
                                   owner |-> Null, lapsed |-> FALSE]]

-----------------------------------------------------------------------------
(* EnqueueWorkItems: one statement per batch, ON CONFLICT DO NOTHING.      *)

EnqueueWorkItemBatch(S, visible) ==
  /\ items' = [i \in Items |->
                 IF i \in S /\ items[i].status = "absent"
                   THEN [items[i] EXCEPT !.status = "pending", !.visible = visible]
                   ELSE items[i]]
  /\ UNCHANGED claims

-----------------------------------------------------------------------------
(* ClaimNextEligible.  The order of the candidates is left open: a row     *)
(* another claim holds is skipped (SKIP LOCKED).                           *)

Eligible(i) == items[i].status = "pending" /\ items[i].visible

Epoch(i, c, o) == [item |-> i, claim |-> c, token |-> items[i].token + 1, owner |-> o]

ClaimNextEligible(i, c, o) ==
  /\ Eligible(i)
  /\ claims[c].status = "unused"
  /\ items' = [items EXCEPT ![i] = [status |-> "claimed", claim |-> c, owner |-> o,
                                    token |-> items[i].token + 1,
                                    visible |-> items[i].visible]]
  /\ claims' = [claims EXCEPT ![c] = [status |-> "active", item |-> i, owner |-> o,
                                      token |-> items[i].token + 1, lapsed |-> FALSE]]

-----------------------------------------------------------------------------
(* The mutations of an ownership epoch.  Each one finds the item and the   *)
(* claim row by all of claim id, fencing token and owner and asks for an   *)
(* open epoch; otherwise it changes nothing and the client gets            *)
(* ErrWorkflowClaimRejected.  None of them looks at the lease.             *)

\* Fault variant: the fencing token alone proves ownership.
AcceptedByToken(m) ==
  items[m.item].token = m.token /\ claims[m.claim].token = m.token

Accepted(m) ==
  /\ items[m.item].status = "claimed"
  /\ items[m.item].claim = m.claim
  /\ items[m.item].token = m.token
  /\ items[m.item].owner = m.owner
  /\ claims[m.claim].item = m.item
  /\ claims[m.claim].token = m.token
  /\ claims[m.claim].owner = m.owner
  /\ claims[m.claim].status = "active"

Rejected(m) == ~Accepted(m) /\ UNCHANGED storeVars

\* Fault variants: the fencing token starts again, or moves on, at the end of
\* an epoch.
EndEpochRestartsToken(m, claimStatus, itemStatus, visible) ==
  /\ Accepted(m)
  /\ items' = [items EXCEPT ![m.item] = [status |-> itemStatus, claim |-> Null, owner |-> Null,
                                         token |-> 0, visible |-> visible]]
  /\ claims' = [claims EXCEPT ![m.claim] = [claims[m.claim] EXCEPT !.status = claimStatus]]

EndEpochBumpsToken(m, claimStatus, itemStatus, visible) ==
  /\ Accepted(m)
  /\ items' = [items EXCEPT ![m.item] = [status |-> itemStatus, claim |-> Null, owner |-> Null,
                                         token |-> items[m.item].token + 1, visible |-> visible]]
  /\ claims' = [claims EXCEPT ![m.claim] = [claims[m.claim] EXCEPT !.status = claimStatus]]

\* The claim row of m ends as claimStatus, its item moves on to itemStatus.
EndEpoch(m, claimStatus, itemStatus, visible) ==
  /\ Accepted(m)
  /\ items' = [items EXCEPT ![m.item] = [status |-> itemStatus, claim |-> Null,
                                         owner |-> Null, token |-> items[m.item].token,
                                         visible |-> visible]]
  /\ claims' = [claims EXCEPT ![m.claim] = [claims[m.claim] EXCEPT !.status = claimStatus]]

HeartbeatClaim(m) ==
  /\ Accepted(m)
  /\ claims' = [claims EXCEPT ![m.claim] = [claims[m.claim] EXCEPT !.lapsed = FALSE]]
  /\ UNCHANGED items

CompleteClaim(m) == EndEpoch(m, "completed", "completed", items[m.item].visible)

\* Fault variant: only the work item is updated.
ReleaseItemOnly(m) ==
  /\ Accepted(m)
  /\ items' = [items EXCEPT ![m.item] = [items[m.item] EXCEPT !.status = "pending", !.claim = Null,
                                                              !.owner = Null]]
  /\ UNCHANGED claims

ReleaseClaim(m) == EndEpoch(m, "released", "pending", TRUE)

\* Fault variant: only the claim is updated.
FailClaimRowOnly(m, visible) ==
  /\ Accepted(m)
  /\ claims' = [claims EXCEPT ![m.claim] = [claims[m.claim] EXCEPT !.status = "failed_retryable"]]
  /\ UNCHANGED items

\* visible: whether the VisibleAt the caller asks for has come.
FailClaimRetryable(m, visible) == EndEpoch(m, "failed_retryable", "pending", visible)

FailClaimTerminal(m) == EndEpoch(m, "failed_terminal", "failed_terminal", items[m.item].visible)

-----------------------------------------------------------------------------
(* ReapExpiredClaims: at most ReapLimit lapsed epochs end in one           *)
(* statement; their items come back after the requeue delay.               *)

MutationOf(c) == [item |-> claims[c].item, claim |-> c, token |-> claims[c].token,
                  owner |-> claims[c].owner]

Reapable(c) ==
  /\ claims[c].status = "active"
  /\ claims[c].lapsed
  /\ Accepted(MutationOf(c))

\* Fault variants: the item gets the status of the claim; its token starts
\* again.
ReapIntoExpired(R) ==
  /\ R # {} /\ Cardinality(R) <= ReapLimit /\ \A c \in R : Reapable(c)
  /\ claims' = [c \in ClaimIds |->
                  IF c \in R THEN [claims[c] EXCEPT !.status = "expired"] ELSE claims[c]]
  /\ items' = [i \in Items |->
                 IF \E c \in R : claims[c].item = i
                   THEN [items[i] EXCEPT !.status = "expired", !.claim = Null, !.owner = Null]
                   ELSE items[i]]

ReapRestartsToken(R) ==
  /\ R # {} /\ Cardinality(R) <= ReapLimit /\ \A c \in R : Reapable(c)
  /\ claims' = [c \in ClaimIds |->
                  IF c \in R THEN [claims[c] EXCEPT !.status = "expired"] ELSE claims[c]]
  /\ items' = [i \in Items |->
                 IF \E c \in R : claims[c].item = i
                   THEN [status |-> "pending", claim |-> Null, owner |-> Null, token |-> 0,
                         visible |-> FALSE]
                   ELSE items[i]]

ReapExpiredClaims(R) ==
  /\ R # {} /\ Cardinality(R) <= ReapLimit
  /\ \A c \in R : Reapable(c)
  /\ claims' = [c \in ClaimIds |->
                  IF c \in R THEN [claims[c] EXCEPT !.status = "expired"] ELSE claims[c]]
  /\ items' = [i \in Items |->
                 IF \E c \in R : claims[c].item = i
                   THEN [status |-> "pending", claim |-> Null, owner |-> Null,
                         token |-> items[i].token, visible |-> FALSE]
                   ELSE items[i]]

-----------------------------------------------------------------------------
(* The passage of time.                                                    *)

LeaseLapses(c) ==
  /\ claims[c].status = "active" /\ ~claims[c].lapsed
  /\ claims' = [claims EXCEPT ![c] = [claims[c] EXCEPT !.lapsed = TRUE]]
  /\ UNCHANGED items

BecomesVisible(i) ==
  /\ items[i].status = "pending" /\ ~items[i].visible
  /\ items' = [items EXCEPT ![i] = [items[i] EXCEPT !.visible = TRUE]]
  /\ UNCHANGED claims

-----------------------------------------------------------------------------
\* The mutations some client may still send: those of every epoch handed out.
Issued == {MutationOf(c) : c \in {d \in ClaimIds : claims[d].status # "unused"}}

ClientMutation(m) ==
  \/ HeartbeatClaim(m)
  \/ CompleteClaim(m)
  \/ ReleaseClaim(m)
  \/ \E visible \in BOOLEAN : FailClaimRetryable(m, visible)
  \/ FailClaimTerminal(m)
  \/ Rejected(m)

StoreNext ==
  \/ \E S \in SUBSET Items, visible \in BOOLEAN : EnqueueWorkItemBatch(S, visible)
  \/ \E i \in Items, c \in ClaimIds, o \in Owners : ClaimNextEligible(i, c, o)
  \/ \E m \in Issued : ClientMutation(m)
  \/ \E R \in SUBSET ClaimIds : ReapExpiredClaims(R)
  \/ \E c \in ClaimIds : LeaseLapses(c)
  \/ \E i \in Items : BecomesVisible(i)

StoreSpec == StoreInit /\ [][StoreNext]_storeVars

-----------------------------------------------------------------------------
(* Properties.                                                             *)

\* Every row of the two tables has the columns and the statuses that the
\* schema and the statements of workflow_control_sql.go give it.
StoreTypeOK ==
  /\ items \in [Items -> ItemRow]
  /\ claims \in [ClaimIds -> ClaimRow]

\* The item row points at claim c and c's row agrees with it on everything.
OwnedBy(i, c) ==
  /\ items[i].status = "claimed"
  /\ items[i].claim = c
  /\ items[i].token = claims[c].token
  /\ items[i].owner = claims[c].owner

\* At most one open epoch owns a work item (ADR invariant 1), and the two
\* tables never disagree about it.  An active claim row whose item no longer
\* points back at it could neither be settled by its collector nor be reaped
\* (both look for the pair), and a claimed item without its active claim row
\* would never be claimed again.
ExclusiveOwnership ==
  /\ \A c \in ClaimIds : claims[c].status = "active" =>
       claims[c].item \in Items /\ OwnedBy(claims[c].item, c)
  /\ \A i \in Items : items[i].status = "claimed" =>
       /\ items[i].claim \in ClaimIds
       /\ claims[items[i].claim].status = "active"
       /\ claims[items[i].claim].item = i

\* No fencing token is ever handed out twice for a work item, none is above
\* the one in the item row (ADR invariant 2), and all are positive, as
\* validateClaimMutation asks: a token that comes back after a release, a
\* failure or a reap would let a stale owner pass every fencing check.
TokensNeverReused ==
  /\ \A c \in ClaimIds : claims[c].status # "unused" =>
       claims[c].item \in Items /\ claims[c].token \in 1 .. items[claims[c].item].token
  /\ \A c, d \in ClaimIds :
       /\ c # d
       /\ claims[c].status # "unused" /\ claims[d].status # "unused"
       /\ claims[c].item = claims[d].item
       => claims[c].token # claims[d].token

\* A finished epoch is history: whatever a stale owner sends, or the reaper
\* does, no row of a finished claim and no settled item ever changes again
\* (ADR invariant 3).
FinishedIsFinal ==
  [][/\ \A c \in ClaimIds : claims[c].status \in FinishedClaim => claims'[c] = claims[c]
     /\ \A i \in Items : items[i].status \in {"completed", "failed_terminal"} =>
          items'[i] = items[i]]_storeVars

\* The abstract lease that the two tables implement.
Outcome == [i \in Items |-> IF items[i].status \in {"pending", "claimed"} THEN "open"
                           ELSE IF items[i].status = "failed_terminal" THEN "failed"
                           ELSE items[i].status]

Holder == [i \in Items |-> IF items[i].status = "claimed" THEN claims[items[i].claim].token ELSE 0]

Lease == INSTANCE WorkItemLease WITH
  outcome <- Outcome, epoch <- [i \in Items |-> items[i].token], holder <- Holder

\* The store implements exclusive, epoch-numbered ownership: every statement
\* is one step of the abstract lease, or changes nothing it promises.
ImplementsLease == Lease!LeaseSpec
=============================================================================
