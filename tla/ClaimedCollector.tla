-------------------------- MODULE ClaimedCollector --------------------------
(***************************************************************************)
(* Collector processes that work through durable claims                    *)
(* (go/internal/collector/claimed_service.go) over the tables of           *)
(* WorkflowControl, with the coordinator's reaper beside them.             *)
(*                                                                         *)
(* A process claims an item, heartbeats once, starts a heartbeat           *)
(* goroutine, collects, commits the generation, stops the goroutine and    *)
(* completes the claim.  The commit goes to the ingestion tables and       *)
(* carries no fencing token.  Every error ends Run, so the process stops   *)
(* and its supervisor restarts it; a crash may come at any point.          *)
(* A heartbeat that is on its way to Postgres when the goroutine is        *)
(* cancelled, or the process dies, may still be executed: late[w].         *)
(***************************************************************************)
EXTENDS WorkflowControl

CONSTANT MaxFaults      \* bound on crashes, failed calls and missed heartbeats

ASSUME MaxFaultsAssumption == MaxFaults \in Nat

VARIABLES
  pc,                   \* pc[w]: where process w is in Run / processClaimed
  held,                 \* held[w]: the ClaimMutation w works under, or Null
  hb,                   \* hb[w]: heartbeat goroutine "off", "on", or "failed" (error reported)
  late,                 \* late[w]: a cancelled heartbeat still in flight, or Null
  committedBy,          \* committedBy[i]: the epochs whose CommitScopeGeneration landed
  faults                \* faults so far

workerVars == <<pc, held, hb, late>>
collectorVars == <<items, claims, pc, held, hb, late, committedBy, faults>>

\* A process is named by the owner id it claims under.
Workers == Owners

CollectorInit ==
  /\ StoreInit
  /\ pc = [w \in Workers |-> "idle"]
  /\ held = [w \in Workers |-> Null]
  /\ hb = [w \in Workers |-> "off"]
  /\ late = [w \in Workers |-> Null]
  /\ committedBy = [i \in Items |-> {}]
  /\ faults = 0

-----------------------------------------------------------------------------
(* Steps of processClaimed end in one of these local states.               *)

Fault == faults < MaxFaults /\ faults' = faults + 1

NoCommit == UNCHANGED committedBy

\* A heartbeat of the goroutine being cancelled may be left in flight.
CancelHeartbeat(w) ==
  IF hb[w] = "on"
    THEN \E m \in {late[w], held[w]} : late' = [late EXCEPT ![w] = m]
    ELSE UNCHANGED late

\* processClaimed is over: the claim is forgotten and the goroutine cancelled.
Leave(w, next) ==
  /\ pc' = [pc EXCEPT ![w] = next]
  /\ held' = [held EXCEPT ![w] = Null]
  /\ hb' = [hb EXCEPT ![w] = "off"]
  /\ CancelHeartbeat(w)

-----------------------------------------------------------------------------
\* Fault variant: the process keeps the claim id, without item, owner and token.
ClaimKeepsId(w, i, c) ==
  /\ pc[w] = "idle"
  /\ ClaimNextEligible(i, c, w)
  /\ held' = [held EXCEPT ![w] = c]
  /\ pc' = [pc EXCEPT ![w] = "claimed"]
  /\ UNCHANGED <<hb, late, faults>> /\ NoCommit

\* claimMutation: everything the process sends later names item, claim, owner
\* and token.
Claim(w, i, c) ==
  /\ pc[w] = "idle"
  /\ ClaimNextEligible(i, c, w)
  /\ held' = [held EXCEPT ![w] = Epoch(i, c, w)]
  /\ pc' = [pc EXCEPT ![w] = "claimed"]
  /\ UNCHANGED <<hb, late, faults>> /\ NoCommit

\* The heartbeat that opens processClaimed; a rejection ends Run.
FirstHeartbeat(w) ==
  /\ pc[w] = "claimed"
  /\ \/ /\ HeartbeatClaim(held[w])
        /\ pc' = [pc EXCEPT ![w] = "collecting"]
        /\ hb' = [hb EXCEPT ![w] = "on"]
        /\ UNCHANGED <<held, late>>
     \/ Rejected(held[w]) /\ Leave(w, "stopped")
  /\ UNCHANGED faults /\ NoCommit

\* The goroutine: the first error is reported and ends it, the collection
\* itself goes on.
HeartbeatTick(w) ==
  /\ hb[w] = "on"
  /\ \/ HeartbeatClaim(held[w]) /\ UNCHANGED hb
     \/ Rejected(held[w]) /\ hb' = [hb EXCEPT ![w] = "failed"]
  /\ UNCHANGED <<pc, held, late, faults>> /\ NoCommit

\* A cancelled heartbeat reaches the database after all.
LateHeartbeat(w) ==
  /\ late[w] # Null
  /\ HeartbeatClaim(late[w]) \/ Rejected(late[w])
  /\ late' = [late EXCEPT ![w] = Null]
  /\ UNCHANGED <<pc, held, hb, faults>> /\ NoCommit

Landed(w) ==
  committedBy' = [committedBy EXCEPT ![held[w].item] = @ \union {held[w].token}]

\* Fault variant: the commit settles the item by itself.
CommitSettlesItem(w) ==
  /\ pc[w] = "collecting"
  /\ Landed(w)
  /\ pc' = [pc EXCEPT ![w] = "committed"]
  /\ items' = [items EXCEPT ![held[w].item] = [items[held[w].item] EXCEPT !.status = "completed"]]
  /\ UNCHANGED <<claims, held, hb, late, faults>>

\* CommitScopeGeneration lands.
Commit(w) ==
  /\ pc[w] = "collecting"
  /\ Landed(w)
  /\ pc' = [pc EXCEPT ![w] = "committed"]
  /\ UNCHANGED <<items, claims, held, hb, late, faults>>

\* NextClaimed or CommitScopeGeneration returns an error; the commit may have
\* landed although its answer was lost.
CollectOrCommitFails(w) ==
  /\ pc[w] = "collecting"
  /\ FailClaimRetryable(held[w], TRUE) \/ Rejected(held[w])
  /\ NoCommit \/ Landed(w)
  /\ Leave(w, "stopped")
  /\ Fault

\* NextClaimed has nothing for this item: the claim is given back.
NothingCollected(w) ==
  /\ pc[w] = "collecting"
  /\ \/ ReleaseClaim(held[w]) /\ Leave(w, "idle")
     \/ Rejected(held[w]) /\ Leave(w, "stopped")
  /\ Fault /\ NoCommit

\* validateClaimedGeneration fails: the item is failed for good.
IdentityMismatch(w) ==
  /\ pc[w] = "collecting"
  /\ FailClaimTerminal(held[w]) \/ Rejected(held[w])
  /\ Leave(w, "stopped")
  /\ UNCHANGED faults /\ NoCommit

\* A heartbeat error is found after the commit: the claim is not completed.
HeartbeatErrorFound(w) ==
  /\ pc[w] = "committed" /\ hb[w] = "failed"
  /\ Leave(w, "stopped")
  /\ UNCHANGED <<items, claims, faults>> /\ NoCommit

\* stopHeartbeat cancels a heartbeat in flight; its context error reaches the
\* channel before drainHeartbeatError looks, as if the claim had been lost.
CancelledHeartbeatFound(w) ==
  /\ pc[w] = "committed" /\ hb[w] = "on"
  /\ Leave(w, "stopped")
  /\ UNCHANGED <<items, claims>> /\ Fault /\ NoCommit

\* Fault variant: the claim is completed without waiting for the commit.
CompleteEarly(w) ==
  /\ pc[w] \in {"collecting", "committed"} /\ hb[w] = "on"
  /\ \/ CompleteClaim(held[w]) /\ Leave(w, "idle")
     \/ Rejected(held[w]) /\ Leave(w, "stopped")
  /\ UNCHANGED faults /\ NoCommit

Complete(w) ==
  /\ pc[w] = "committed" /\ hb[w] = "on"
  /\ \/ CompleteClaim(held[w]) /\ Leave(w, "idle")
     \/ Rejected(held[w]) /\ Leave(w, "stopped")
  /\ UNCHANGED faults /\ NoCommit

Crash(w) ==
  /\ pc[w] # "stopped"
  /\ Leave(w, "stopped")
  /\ UNCHANGED <<items, claims>> /\ Fault /\ NoCommit

Restart(w) ==
  /\ pc[w] = "stopped"
  /\ pc' = [pc EXCEPT ![w] = "idle"]
  /\ UNCHANGED <<items, claims, held, hb, late, faults>> /\ NoCommit

-----------------------------------------------------------------------------
(* Around the processes: the producer of work, the coordinator, time.      *)

UnchangedWorkers == UNCHANGED workerVars /\ NoCommit

Enqueue(S) ==
  /\ \E i \in S : items[i].status = "absent"
  /\ EnqueueWorkItemBatch(S, TRUE)
  /\ UnchangedWorkers /\ UNCHANGED faults

Reap(R) == ReapExpiredClaims(R) /\ UnchangedWorkers /\ UNCHANGED faults

\* A live process is heartbeating claim c.
Attended(c) == \E w \in Workers : held[w] # Null /\ held[w].claim = c /\ hb[w] # "failed"

\* An attended lease lapses only when heartbeats are missed.
Lapse(c) ==
  /\ LeaseLapses(c)
  /\ IF Attended(c) THEN Fault ELSE UNCHANGED faults
  /\ UnchangedWorkers

Visible(i) == BecomesVisible(i) /\ UnchangedWorkers /\ UNCHANGED faults

Progress(w) ==
  \/ FirstHeartbeat(w) \/ Commit(w) \/ HeartbeatErrorFound(w) \/ Complete(w) \/ Restart(w)

Setback(w) ==
  \/ CollectOrCommitFails(w) \/ NothingCollected(w) \/ IdentityMismatch(w)
  \/ CancelledHeartbeatFound(w) \/ Crash(w)

CollectorNext ==
  \/ \E S \in SUBSET Items : Enqueue(S)
  \/ \E w \in Workers, i \in Items, c \in ClaimIds : Claim(w, i, c)
  \/ \E w \in Workers : Progress(w) \/ HeartbeatTick(w) \/ LateHeartbeat(w) \/ Setback(w)
  \/ \E R \in SUBSET ClaimIds : Reap(R)
  \/ \E c \in ClaimIds : Lapse(c)
  \/ \E i \in Items : Visible(i)

CollectorSpec == CollectorInit /\ [][CollectorNext]_collectorVars

(* Run polls forever, a stopped process is restarted by its supervisor, the *)
(* coordinator's reap ticker keeps firing and time passes.                  *)
CollectorFairness ==
  /\ WF_collectorVars(\E w \in Workers, i \in Items, c \in ClaimIds : Claim(w, i, c))
  /\ \A w \in Workers : WF_collectorVars(Progress(w))
  /\ WF_collectorVars(\E R \in SUBSET ClaimIds : Reap(R))
  /\ \A c \in ClaimIds : WF_collectorVars(~Attended(c) /\ Lapse(c))
  /\ \A i \in Items : WF_collectorVars(Visible(i))

FairCollectorSpec == CollectorSpec /\ CollectorFairness

-----------------------------------------------------------------------------
(* Properties.                                                             *)

\* Each process is in a known state and holds, at most, one mutation.
CollectorTypeOK ==
  /\ pc \in [Workers -> {"idle", "claimed", "collecting", "committed", "stopped"}]
  /\ hb \in [Workers -> {"off", "on", "failed"}]
  /\ held \in [Workers -> Mutation \union {Null}]
  /\ late \in [Workers -> Mutation \union {Null}]
  /\ committedBy \in [Items -> SUBSET Nat]
  /\ faults \in 0 .. MaxFaults

\* An item is completed only by an epoch whose own commit landed: lost
\* answers, zombies and re-claims never let processClaimed complete a claim
\* on the strength of another epoch's work, or of none.
CompletedWasCommitted ==
  \A i \in Items : items[i].status = "completed" => items[i].token \in committedBy[i]

\* Two processes that both go on working on an item hold different tokens,
\* and only one of them holds the item's own: the other is fenced out.
OneCurrentHolder ==
  \A v, w \in Workers :
    /\ v # w
    /\ held[v] # Null /\ held[w] # Null
    /\ held[v].item = held[w].item
    => ~(held[v].token = items[held[v].item].token /\ held[w].token = items[held[w].item].token)

\* Every work item is eventually completed or terminally failed, when the
\* faults are finitely many: no crash, lost heartbeat error or lost answer
\* leaves an item claimed for ever.
ItemsSettle ==
  \A i \in Items :
    items[i].status # "absent" ~> items[i].status \in {"completed", "failed_terminal"}
=============================================================================
