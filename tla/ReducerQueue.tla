---------------------------- MODULE ReducerQueue ----------------------------
(***************************************************************************)
(* The reducer (resolution engine): the intents that source projection     *)
(* leaves in fact_work_items (stage reducer), and one reducer process that *)
(* drains them in batch mode (go/internal/reducer/service_batch.go,        *)
(* go/internal/storage/postgres/reducer_queue*.go).                        *)
(*                                                                         *)
(* One goroutine claims, so claim statements never overlap; workers run    *)
(* the handlers and heartbeat; results wait in a channel for one acker.    *)
(* Every row the process claims carries the same lease owner, so its       *)
(* heartbeat, ack and fail statements find a row by its id and by being    *)
(* claimed, whichever worker claimed it.                                   *)
(*                                                                         *)
(* Source projection of a scope (module ScopeProjection) is taken here as  *)
(* running in generation order, one generation at a time.                  *)
(*                                                                         *)
(* lapsed is claim_until <= now, visible is visible_at <= now; claimed and *)
(* running are never told apart by a statement and are one status.         *)
(***************************************************************************)
EXTENDS Naturals, Sequences, FiniteSets

CONSTANTS
  NScopes,              \* scopes, numbered in the order of their ids
  MaxGen,               \* bound: generations per scope
  Domains,              \* the domains a projection emits, in the order of their names
  Workers,              \* worker goroutines
  EnqueueBatchSize,     \* reducerEnqueueBatchSize
  MaxAttempts,          \* ReducerQueue.maxAttempts
  Gate,                 \* RequireProjectorDrainBeforeClaim
  Expected,             \* ExpectedSourceLocalProjectors, 0 for none
  SemanticLimit,        \* semanticEntityClaimLimit
  MaxFaults,            \* bound: crashes, failures, leases and acks not served in time
  MaxLate,              \* bound: how many of these are leases and acks
  MaxReopens,           \* bound: rows reopened or replayed
  MaxReplays,           \* bound: dead-lettered projections replayed
  Null

ASSUME ReducerAssumption ==
  /\ NScopes \in Nat /\ MaxGen \in Nat /\ MaxAttempts \in Nat
  /\ Domains \in Seq(STRING)
  /\ EnqueueBatchSize \in Nat \ {0}
  /\ Gate \in BOOLEAN /\ Expected \in Nat /\ SemanticLimit \in Nat
  /\ MaxFaults \in Nat /\ MaxLate \in Nat /\ MaxReopens \in Nat /\ MaxReplays \in Nat

VARIABLES
  proj,                 \* projector work items: status, and how many intents were enqueued
  active,               \* ingestion_scopes.active_generation_id, 0 for NULL
  queue,                \* fact_work_items of stage reducer
  order,                \* the pairs <<x, y>> with x before y by (updated_at, work_item_id)
  wk,                   \* workers: pc, the row they hold and the attempt they hold it under
  acks,                 \* results that wait for the acker
  applied,              \* applied[s][d]: the generation whose handler completed last,
                        \* 0 if one was begun since
  done,                 \* rows handled or skipped since they were last opened
  budget                \* what is left of the bounds

vars == <<proj, active, queue, order, wk, acks, applied, done, budget>>

Scopes == 1 .. NScopes
GenNo == 1 .. MaxGen
Doms == 1 .. Len(Domains)
Rows == [scope : Scopes, gen : GenNo, dom : Doms]
OpenStatus == {"pending", "retrying", "claimed"}

\* An idle worker holds no row.
ASSUME NullAssumption == Null \notin Rows

ReadyWorker == [pc |-> "ready", item |-> Null, attempt |-> 0]

Init ==
  /\ proj = [s \in Scopes |-> [n \in GenNo |-> [status |-> "absent", sent |-> 0]]]
  /\ active = [s \in Scopes |-> 0]
  /\ queue = [x \in Rows |-> [status |-> "absent", attempts |-> 0, visible |-> FALSE,
                              lapsed |-> FALSE]]
  /\ order = {}
  /\ wk = [w \in Workers |-> ReadyWorker]
  /\ acks = {}
  /\ applied = [s \in Scopes |-> [d \in Doms |-> 0]]
  /\ done = {}
  /\ budget = [faults |-> MaxFaults, late |-> MaxLate, reopens |-> MaxReopens,
               replays |-> MaxReplays]

Fault == budget.faults > 0 /\ budget' = [budget EXCEPT !.faults = @ - 1]
Late == /\ budget.late > 0 /\ budget.faults > 0
        /\ budget' = [faults |-> budget.faults - 1, late |-> budget.late - 1,
                      reopens |-> budget.reopens, replays |-> budget.replays]

\* work_item_id, by which rows of equal updated_at are ordered.
IdBefore(x, y) ==
  \/ x.scope < y.scope
  \/ x.scope = y.scope /\ x.gen < y.gen
  \/ x.scope = y.scope /\ x.gen = y.gen /\ x.dom < y.dom

\* order after the rows S were updated by one statement.
Touched(S) == {e \in order : e[1] \notin S /\ e[2] \notin S} \union ((Rows \ S) \X S)
              \union {e \in S \X S : IdBefore(e[1], e[2])}

Row(status, attempts, visible) ==
  [status |-> status, attempts |-> attempts, visible |-> visible, lapsed |-> FALSE]

-----------------------------------------------------------------------------
(* Source projection, as far as the reducer sees it.                       *)

ProjOpen(s) == \E n \in GenNo : proj[s][n].status = "open"

CommitGeneration(s, n) ==
  /\ proj[s][n].status = "absent"
  /\ \A k \in 1 .. n - 1 : proj[s][k].status # "absent"
  /\ proj' = [proj EXCEPT ![s][n].status = "open"]
  /\ UNCHANGED <<active, queue, order, wk, acks, applied, done, budget>>

\* Generation n is the one under projection.
Projecting(s, n) == proj[s][n].status = "open" /\ \A k \in 1 .. n - 1 : proj[s][k].status # "open"

\* ReducerQueue.Enqueue: one statement per batch, ON CONFLICT DO NOTHING.
EnqueueReducerBatch(s, n) ==
  LET sent == proj[s][n].sent
      upto == IF sent + EnqueueBatchSize < Len(Domains) THEN sent + EnqueueBatchSize
              ELSE Len(Domains)
      new == {x \in Rows : /\ x.scope = s /\ x.gen = n /\ x.dom > sent /\ x.dom <= upto
                           /\ queue[x].status = "absent"}
  IN /\ Projecting(s, n) /\ sent < Len(Domains)
     /\ proj' = [proj EXCEPT ![s][n].sent = upto]
     /\ queue' = [x \in Rows |-> IF x \in new THEN Row("pending", 0, TRUE) ELSE queue[x]]
     /\ order' = Touched(new)
     /\ UNCHANGED <<active, wk, acks, applied, done, budget>>

\* ProjectorQueue.Ack, after Project has enqueued all intents.
Activate(s, n) ==
  /\ Projecting(s, n) /\ proj[s][n].sent = Len(Domains)
  /\ proj' = [proj EXCEPT ![s][n].status = "succeeded"]
  /\ active' = [active EXCEPT ![s] = n]
  /\ UNCHANGED <<queue, order, wk, acks, applied, done, budget>>

\* Project fails, also between two batches: it is retried or dead-lettered.
ProjectionFails(s, n) ==
  /\ Projecting(s, n)
  /\ \E status \in {"open", "dead_letter"} :
       proj' = [proj EXCEPT ![s][n] = [status |-> status, sent |-> 0]]
  /\ Fault
  /\ UNCHANGED <<active, queue, order, wk, acks, applied, done>>

\* An operator replays a dead-lettered projection.
ReplayProjection(s, n) ==
  /\ proj[s][n].status = "dead_letter"
  /\ proj' = [proj EXCEPT ![s][n].status = "open"]
  /\ budget.replays > 0 /\ budget' = [budget EXCEPT !.replays = @ - 1]
  /\ UNCHANGED <<active, queue, order, wk, acks, applied, done>>

-----------------------------------------------------------------------------
(* ReducerQueue.ClaimBatch.                                                *)

Semantic(x) == Domains[x.dom] = "semantic_entity_materialization"

\* reducerConflictDomainKey.
ConflictDomain(x) ==
  CASE Domains[x.dom] \in {"code_call_materialization", "semantic_entity_materialization",
                           "sql_relationship_materialization", "inheritance_materialization"}
         -> "code_graph"
    [] Domains[x.dom] \in {"workload_identity", "deployable_unit_correlation",
                           "cloud_asset_resolution", "deployment_mapping",
                           "workload_materialization"}
         -> "platform_graph"
    [] OTHER -> "scope"
ConflictKey(x) == <<ConflictDomain(x), x.scope>>

\* Fault variant: a claimed row is never taken over.
ReadyIfUnclaimed(x) == queue[x].status \in {"pending", "retrying"} /\ queue[x].visible

\* Status, visible_at and claim_until allow a claim.
Ready(x) == \/ queue[x].status \in {"pending", "retrying"} /\ queue[x].visible
            \/ queue[x].status = "claimed" /\ queue[x].lapsed

InFlight(x) == queue[x].status = "claimed" /\ ~queue[x].lapsed

Older(x, y) == <<x, y>> \in order

\* The projector drain gate and the cap on semantic claims.
Succeeded == {p \in Scopes \X GenNo : proj[p[1]][p[2]].status = "succeeded"}
SemanticInFlight == Cardinality({x \in Rows : Semantic(x) /\ InFlight(x)})

\* Fault variant: the cap is checked row by row only.
SemanticRankOfOne(x) == 1

SemanticRank(x) == Cardinality({y \in Rows : Semantic(y) /\ Ready(y) /\ ~Older(x, y)})

PassesGate(x) ==
  Gate => /\ ~ProjOpen(x.scope)
          /\ Semantic(x) => /\ \A s \in Scopes : ~ProjOpen(s)
                            /\ Expected = 0 \/ Cardinality(Succeeded) >= Expected
                            /\ SemanticInFlight < SemanticLimit
                            /\ SemanticRank(x) + SemanticInFlight <= SemanticLimit

KeyFree(x) == \A y \in Rows : y # x /\ ConflictKey(y) = ConflictKey(x) => ~InFlight(y)

\* Fault variant: a batch may hold several rows of one conflict key.
AnyOfKey(x) == Ready(x)

HeadOfKey(x) == \A y \in Rows : ConflictKey(y) = ConflictKey(x) /\ Ready(y) => ~Older(y, x)

Claimable(x) == Ready(x) /\ PassesGate(x) /\ KeyFree(x) /\ HeadOfKey(x)

\* The first candidates go to the workers that have signalled; others that are
\* ready may not have yet.  A lapsed row is claimed again like a free one.
ClaimBatch(W) ==
  LET candidates == {x \in Rows : Claimable(x)}
      count == IF Cardinality(candidates) < Cardinality(W) THEN Cardinality(candidates)
               ELSE Cardinality(W)
  IN /\ \A w \in W : wk[w].pc = "ready"
     /\ \E batch \in SUBSET candidates, V \in SUBSET W :
          /\ batch # {} /\ Cardinality(batch) = count
          /\ \A x \in batch, y \in candidates \ batch : ~Older(y, x)
          /\ queue' = [x \in Rows |-> IF x \in batch
                                        THEN Row("claimed", queue[x].attempts + 1, TRUE)
                                        ELSE queue[x]]
          /\ order' = Touched(batch)
          /\ \E item \in [V -> batch] :
               /\ \A v, w \in V : item[v] = item[w] => v = w
               /\ \A x \in batch : \E w \in V : item[w] = x
               /\ wk' = [w \in Workers |->
                    IF w \in V THEN [pc |-> "claimed", item |-> item[w],
                                    attempt |-> queue[item[w]].attempts + 1]
                    ELSE wk[w]]
     /\ UNCHANGED <<proj, active, acks, applied, done, budget>>

-----------------------------------------------------------------------------
(* A worker: executeAndReport.  Whatever the result, it is sent to the     *)
(* acker, also when Fail was called.                                       *)

Report(w, ok) ==
  /\ acks' = acks \union {[item |-> wk[w].item, attempt |-> wk[w].attempt, ok |-> ok]}
  /\ wk' = [wk EXCEPT ![w] = ReadyWorker]

\* Fault variant: no generation guard.
CurrentAlways(x) == x \in Rows

\* The generation guard of Runtime.execute: no active generation is current too.
Current(x) == active[x.scope] \in {0, x.gen}

Skip(w) ==
  /\ wk[w].pc = "claimed" /\ ~Current(wk[w].item)
  /\ Report(w, TRUE)
  /\ done' = done \union {wk[w].item}
  /\ UNCHANGED <<proj, active, queue, order, applied, budget>>

StartHandler(w) ==
  LET x == wk[w].item
  IN /\ wk[w].pc = "claimed" /\ Current(x)
     /\ wk' = [wk EXCEPT ![w].pc = "running"]
     /\ applied' = [applied EXCEPT ![x.scope][x.dom] = 0]
     /\ UNCHANGED <<proj, active, queue, order, acks, done, budget>>

Wrote(x) ==
  /\ applied' = [applied EXCEPT ![x.scope][x.dom] = x.gen]
  /\ done' = done \union {x}

HandlerSucceeds(w) ==
  /\ wk[w].pc = "running"
  /\ Wrote(wk[w].item)
  /\ Report(w, TRUE)
  /\ UNCHANGED <<proj, active, queue, order, budget>>

\* Fault variant: a status the claim statements do not know.
FailIntoFailed(x, attempt, retryable) ==
  IF queue[x].status = "claimed"
    THEN queue' = [queue EXCEPT ![x] = Row("failed", @.attempts, FALSE)] /\ order' = Touched({x})
    ELSE UNCHANGED <<queue, order>>

\* failIntent: found by row id and the shared lease owner.
Fail(x, attempt, retryable) ==
  IF queue[x].status = "claimed"
    THEN /\ queue' = [queue EXCEPT ![x] =
              IF retryable /\ attempt < MaxAttempts THEN Row("retrying", @.attempts, FALSE)
              ELSE Row("dead_letter", @.attempts, FALSE)]
         /\ order' = Touched({x})
    ELSE UNCHANGED <<queue, order>>

HandlerFails(w, retryable) ==
  /\ wk[w].pc \in {"claimed", "running"}
  /\ Fail(wk[w].item, wk[w].attempt, retryable)
  /\ Report(w, FALSE)
  /\ Fault
  /\ UNCHANGED <<proj, active, applied, done>>

\* The heartbeat goroutine extends the lease of a claimed row.
Heartbeat(w) ==
  LET x == wk[w].item
  IN /\ wk[w].pc # "ready" /\ queue[x].status = "claimed"
     /\ queue' = [queue EXCEPT ![x].lapsed = FALSE]
     /\ order' = Touched({x})
     /\ UNCHANGED <<proj, active, wk, acks, applied, done, budget>>

\* Workers, channels and the acker are gone; claimed rows stay claimed.
Stop ==
  /\ wk' = [w \in Workers |-> ReadyWorker]
  /\ acks' = {}

\* A rejected heartbeat cancels the handler: it returns an error and Fail finds
\* nothing, or it completes all the same and the process stops.
HeartbeatRejected(w) ==
  /\ wk[w].pc # "ready" /\ queue[wk[w].item].status # "claimed"
  /\ \/ Report(w, FALSE) /\ UNCHANGED <<applied, done>>
     \/ wk[w].pc = "running" /\ Wrote(wk[w].item) /\ Stop
  /\ UNCHANGED <<proj, active, queue, order, budget>>

\* Fault variant: the lease owner alone selects the rows.
AckOwner(S) ==
  LET rows == {x \in Rows : queue[x].status = "claimed"}
  IN /\ S # {}
     /\ queue' = [x \in Rows |-> IF x \in rows THEN Row("succeeded", queue[x].attempts, FALSE)
                                 ELSE queue[x]]
     /\ order' = Touched(rows)
     /\ acks' = acks \ S
     /\ UNCHANGED <<proj, active, wk, applied, done, budget>>

\* AckBatch of the results the acker has received.
AckBatch(S) ==
  LET rows == {x \in Rows : queue[x].status = "claimed" /\ \E a \in S : a.item = x}
  IN /\ S # {}
     /\ queue' = [x \in Rows |-> IF x \in rows THEN Row("succeeded", queue[x].attempts, FALSE)
                                 ELSE queue[x]]
     /\ order' = Touched(rows)
     /\ acks' = acks \ S
     /\ UNCHANGED <<proj, active, wk, applied, done, budget>>

\* Crash, shutdown or a fatal error (also of a claim, an ack or a fail): the
\* acker's last flush runs under a cancelled context and is lost.
Crash ==
  /\ acks # {} \/ \E w \in Workers : wk[w].pc # "ready"
  /\ Stop
  /\ Fault
  /\ UNCHANGED <<proj, active, queue, order, applied, done>>

-----------------------------------------------------------------------------
(* Reopened and replayed rows.                                             *)

\* The result of an earlier attempt at x still waits for the acker.
Waiting(x) == \E a \in acks : a.item = x

\* ReopenSucceeded (and ReplayDomain), ReplayFailedWorkItems.
Reopen(x) ==
  /\ queue[x].status \in {"succeeded", "dead_letter"}
  /\ queue' = [queue EXCEPT ![x] = Row("pending", 0, TRUE)]
  /\ order' = Touched({x})
  /\ done' = done \ {x}
  /\ budget.reopens > 0 /\ (Waiting(x) => budget.late > 0)
  /\ budget' = [faults |-> budget.faults,
                late |-> IF Waiting(x) THEN budget.late - 1 ELSE budget.late,
                reopens |-> budget.reopens - 1, replays |-> budget.replays]
  /\ UNCHANGED <<proj, active, wk, acks, applied>>

-----------------------------------------------------------------------------
(* Time.  A lease lapses under a live worker, and a row comes up again     *)
(* while a result of it still waits for the acker, only when something is  *)
(* late: leases last a minute, retries wait 30 seconds, the acker flushes  *)
(* every 100 ms.                                                           *)

Attended(x) == Waiting(x) \/ \E w \in Workers : wk[w].item = x

Lapse(x) ==
  /\ InFlight(x)
  /\ queue' = [queue EXCEPT ![x].lapsed = TRUE]
  /\ IF Attended(x) THEN Late ELSE UNCHANGED budget
  /\ UNCHANGED <<proj, active, order, wk, acks, applied, done>>

Visible(x) ==
  /\ queue[x].status = "retrying" /\ ~queue[x].visible
  /\ queue' = [queue EXCEPT ![x].visible = TRUE]
  /\ IF Waiting(x) THEN Late ELSE UNCHANGED budget
  /\ UNCHANGED <<proj, active, order, wk, acks, applied, done>>

-----------------------------------------------------------------------------
Work(w) == Skip(w) \/ StartHandler(w) \/ HandlerSucceeds(w) \/ HeartbeatRejected(w)

Next ==
  \/ \E s \in Scopes, n \in GenNo :
       \/ CommitGeneration(s, n) \/ EnqueueReducerBatch(s, n) \/ Activate(s, n)
       \/ ProjectionFails(s, n) \/ ReplayProjection(s, n)
  \/ \E W \in SUBSET Workers : ClaimBatch(W)
  \/ \E w \in Workers : Work(w) \/ Heartbeat(w)
  \/ \E w \in Workers, retryable \in BOOLEAN : HandlerFails(w, retryable)
  \/ \E S \in SUBSET acks : AckBatch(S)
  \/ Crash
  \/ \E x \in Rows : Reopen(x) \/ Lapse(x) \/ Visible(x)

Spec == Init /\ [][Next]_vars

(* The claimer polls, handlers return, the acker's timer fires, time       *)
(* passes and projection goes on.                                          *)
Fairness ==
  /\ WF_vars(\E W \in SUBSET Workers : ClaimBatch(W))
  /\ \A w \in Workers : WF_vars(Work(w))
  /\ WF_vars(AckBatch(acks))
  /\ \A x \in Rows : WF_vars(~Attended(x) /\ Lapse(x)) /\ WF_vars(~Waiting(x) /\ Visible(x))
  /\ \A s \in Scopes, n \in GenNo : WF_vars(EnqueueReducerBatch(s, n) \/ Activate(s, n))

FairSpec == Spec /\ Fairness

-----------------------------------------------------------------------------
(* Properties.                                                             *)

\* Rows, workers and results have the shapes of the schema and of
\* runBatchConcurrent.
TypeOK ==
  /\ proj \in [Scopes -> [GenNo -> [status : {"absent", "open", "succeeded", "dead_letter"},
                                    sent : 0 .. Len(Domains)]]]
  /\ active \in [Scopes -> 0 .. MaxGen]
  /\ queue \in [Rows -> [status : {"absent", "pending", "retrying", "claimed", "succeeded",
                                   "dead_letter"},
                         attempts : Nat, visible : BOOLEAN, lapsed : BOOLEAN]]
  /\ order \subseteq Rows \X Rows
  /\ wk \in [Workers -> [pc : {"ready", "claimed", "running"}, item : Rows \union {Null},
                         attempt : Nat]]
  /\ acks \subseteq [item : Rows, attempt : Nat, ok : BOOLEAN]
  /\ applied \in [Scopes -> [Doms -> 0 .. MaxGen]]
  /\ done \subseteq Rows

\* No lease has lapsed under a live worker and no retry has overtaken an ack.
OnTime == budget.late = MaxLate

\* Handlers that touch the same graph family of a scope never run at the same
\* time, across generations, retries, crashes and rows claimed in one batch,
\* as long as leases are renewed in time.
ConflictFence ==
  OnTime =>
  \A v, w \in Workers :
    /\ v # w /\ wk[v].pc = "running" /\ wk[w].pc = "running"
    => ConflictKey(wk[v].item) # ConflictKey(wk[w].item)

\* A row counts as succeeded only if its handler completed, or it was skipped,
\* since the row was last opened: no retry, crash or reopening makes the queue
\* forget work, as long as results are acked before a retry comes up.
SucceededWasHandled == OnTime => \A x \in Rows : queue[x].status = "succeeded" => x \in done

\* As long as leases are renewed in time, at most SemanticLimit semantic
\* handlers run at once, also when one statement claims for several idle
\* workers or leases of a crashed process lapse.
SemanticCap ==
  Gate /\ OnTime =>
  Cardinality({w \in Workers : wk[w].pc = "running" /\ Semantic(wk[w].item)}) <= SemanticLimit

\* Nothing is left to do for s, and nothing was given up on.
Drained(s) ==
  /\ ~ProjOpen(s)
  /\ \A x \in Rows : x.scope = s => queue[x].status \in {"absent", "succeeded"}

\* "graph/API truth must match persisted fact intent after the run completes":
\* once a scope is drained, what each domain wrote last, and completely, is the
\* active generation, whatever was retried, skipped or fenced on the way.  Under
\* the drain gate, without which an intent can be skipped before its own
\* generation is activated; with leases renewed and results acked in time; and
\* up to the replay of a dead-lettered projection: intents it had enqueued before
\* it was given up on and that were skipped are not enqueued again.
DrainedIsConverged ==
  Gate /\ OnTime /\ budget.replays = MaxReplays =>
  \A s \in Scopes : Drained(s) /\ active[s] # 0 => \A d \in Doms : applied[s][d] = active[s]

\* Every intent is eventually handled or dead-lettered: the projector gate, the
\* cap on semantic claims, the conflict fence and the head-of-key rule never
\* wait for each other in a circle.
IntentsSettle ==
  \A x \in Rows : queue[x].status \in OpenStatus ~> queue[x].status \in {"succeeded", "dead_letter"}

-----------------------------------------------------------------------------
(* What the repository says of this code and the code does not keep.       *)

\* Superseded means "skipped because a newer generation is already active".
SupersededMeansNewer ==
  [][\A w \in Workers : wk[w].pc = "claimed" /\ wk'[w].pc = "ready" /\ wk[w].item \in done' \ done
       => active[wk[w].item.scope] > wk[w].item.gen]_vars
=============================================================================
