# Verification of PlatformContextGraph

TLA+ models of the durable pipeline that turns observed source state into the
active graph: workflow claims, collector processes, run reconciliation, scope
projection, the reducer queue, the shared projection lanes and the bootstrap
pipeline. Small instances are checked with TLC, liveness included; every safety
property and both refinements are also proved with TLAPS, for every size.

All paths below are relative to the repository root; Go code is under
`go/internal/` unless a path says otherwise.

## 1. Inventory

The system is facts-first. Collectors observe a *scope* (a repository, a state
file) and commit a *generation* of facts to Postgres. Source projection rewrites
the canonical graph of the scope from the facts, writes content and leaves
*reducer intents*. The reducer drains the intents by domain. A workflow
coordinator owns runs made of work items that collectors claim. Postgres holds
all queues; processes coordinate only through its tables.

| Component | State | Operations | What is hard | What makes it correct |
|---|---|---|---|---|
| Claim store (`storage/postgres/workflow_control*.go`) | `workflow_work_items`, `workflow_claims` | enqueue, claim, heartbeat, complete, release, fail, reap | stale owners, lapsed but unreaped leases, two tables in step | one owner, fresh tokens, finished is final |
| Claimed collector (`collector/claimed_service.go`) | the claim it works under, a heartbeat goroutine | claim, collect, commit, complete, every error path | crash between commit and complete, lost answers, cancelled heartbeats | only what was committed is completed; every item settles |
| Run reconciliation (`workflow/progress.go`, `storage/postgres/workflow_run_reconciliation.go`) | `workflow_runs`, `workflow_run_completeness` | list, count, derive, write | two statements read at different times, several coordinators, batched enqueue | complete means converged; a settled run becomes final |
| Coordinator (`coordinator/service.go`) | tickers, collector instances | reconcile instances, reap, reconcile runs | repeated ticks, failing steps | reaping and reconciling keep happening |
| Ingestion commit (`storage/postgres/ingestion.go`) | scopes, generations, facts | commit, skip unchanged, backfill, reopen | redelivery, check outside the transaction | generation and work item appear together |
| Projector (`storage/postgres/projector_queue.go`, `projector/service.go`) | projector rows of `fact_work_items` | claim, project, heartbeat, ack, fail | shared lease owner, snapshot claims, overlapping acks, retries out of order | readers see complete generations; nothing is stranded |
| Recovery (`storage/postgres/recovery.go`) | the same rows | replay, refinalize | racing live workers | dead letters come back once |
| Reducer (`reducer/service*.go`, `storage/postgres/reducer_queue*.go`) | reducer rows, channels | claim batch, guard, handle, ack batch, fail, reopen | gate, cap, fence and head-of-key rule together; late acks; intents older than activation | conflicting handlers never overlap; drained means converged |
| Projection lanes (`reducer/code_call_projection_*.go`, `reducer/repo_dependency_projection_runner.go`, `storage/postgres/shared_intents*.go`) | intent, acceptance and lease tables; a runner in every reducer process | emit and accept, claim lane, select, load, filter, retract, write, replay, mark, heartbeat | a rewrite in several calls, rows that arrive during it, lapsed leases, several generations of one repository | one runner at a time; a drained repository has the accepted edges; changes reach the workloads |
| Bootstrap pipeline (`go/cmd/bootstrap-index/main.go`) | goroutines, `errc`, `collectorDone`, a shared count of empty polls | collect, drain, backfill, reachability pass, reopen | unlabelled results, empty polls older than the last commit, reducers running beside it | passes wait for what they need; success means drained; it always ends |
| Phase repair, fairness scheduler, local owner lock, graph executors | repair rows, lock file | | see section 7 | not modelled |
| Parsers, relationship evidence, query API, MCP, status, content store | | | pure functions or reads | not modelled, see section 7 |

`PROJECT.json` lists every component with its status, and the hazards with the
line at which each one bites.

## 2. Modules and plan

| Module | Models | Uses |
|---|---|---|
| `WorkItemLease` | abstract: exclusive, epoch-numbered ownership of work items | |
| `WorkflowControl` | the claim store, one action per statement | implements `WorkItemLease` |
| `WorkflowControlProofs` | theorems about `WorkflowControl` | |
| `ClaimedCollector` | collector processes, reaper, time | extends `WorkflowControl`; implements `StoreSpec` |
| `ClaimedCollectorProofs` | theorems about `ClaimedCollector` | extends `WorkflowControlProofs` |
| `WorkflowRuns` | producer, coordinators, phases | extends `WorkItemLease`: collectors appear as the abstract lease |
| `WorkflowRunsProofs` | theorems about `WorkflowRuns` | |
| `ScopeProjection` | ingestion commit, projector queue and workers, recovery | |
| `ScopeProjectionProofs` | theorems about `ScopeProjection` | |
| `ReducerQueue` | reducer queue and one batch-mode process | takes projection in generation order |
| `ReducerQueueProofs` | theorems about `ReducerQueue` | |
| `ProjectionLane` | the code-call and repository-dependency lanes, in several processes | takes handlers in the order `ReducerQueue` runs them |
| `ProjectionLaneProofs` | theorems about `ProjectionLane` | |
| `BootstrapIndex` | `runPipelined` and the reducers beside it | takes claims and activation from `ScopeProjection`, one generation per scope |
| `BootstrapIndexProofs` | theorems about `BootstrapIndex` | |
| `MC*` | definitions for TLC instances | |

Definitions named "fault variant" are plausible mistakes in the definition that
follows them. `PROJECT.json` pairs each checked property with one; putting the
variant in the place of the original must violate the property.

Still to do, in order:

1. several reducer replicas and the one-at-a-time claim; the insert of
   `ReplayWorkloadMaterialization` beside a running handler;
2. coordinator instance reconciliation and the fairness scheduler, once a binary
   depends on them;
3. proofs: every safety property that a run checks is a theorem now. What is
   left is to drop hypotheses where a stronger statement holds, for instance
   what redelivery and late acks can do at worst.

## 3. How the models correspond to the code

*Time.* No clock is modelled. A row keeps the two comparisons statements make:
`lapsed` (lease expired) and `visible` (visible_at passed). They change by
actions of their own at any moment. A lease that a live process renews lapses
only as a counted fault; an abandoned one lapses freely.

*Isolation.* Postgres READ COMMITTED. A statement that locks and re-checks its
rows is one action (`WorkflowControl`). The projector claim is two,
`ClaimSelect` (snapshot, lock with SKIP LOCKED) and `ClaimCommit`, since its
NOT EXISTS is not re-checked; so is the Ack. The reconciler's reads are one
action per statement. The reducer claims from a single goroutine, so
`ClaimBatch` is one action.

*WorkflowControl.* `items` and `claims` are the two tables. `Accepted` is the
WHERE of the mutation statements, `EndEpoch` what complete, release and both
failures share. Any mutation that was ever handed out may be sent at any time.

*ClaimedCollector.* `pc` follows `processClaimed`; `hb` is the heartbeat
goroutine, `late` a cancelled heartbeat that still reaches the database.
`committedBy` records which epochs' commits landed. Every error
ends `Run`; `Restart` is the process supervisor. `NextClaimed` has no
implementation in the repository yet; its outcomes (a generation, nothing, an
error, a wrong identity) are all allowed.

*WorkflowRuns.* `coord[k]` holds what a coordinator has read. The work items
are the abstract lease, which `StoreImplementsLease` justifies. `CreateRun` is an
upsert in the code; it is modelled as an insert, because nothing in the repository
creates a run id twice.

*ScopeProjection.* `gens`, `scopes` and `work` are the three tables, `order` is
`updated_at`: the pairs of rows of which the first was updated earlier (rows that
one statement updated share a timestamp and are not ordered). `graph` and `projected` record what the rewrite did. A
generation's number is its order of observation. `LeaseOwner` gives each worker
the lease owner name of its binary: one constant string per binary in the code.
An ingestion commit is two steps. `CheckFreshness` is the query outside the
transaction that skips a delivery whose hint (`Hint`) is not empty and equals that of
the active generation; `checked` holds the deliveries that passed and whose
transaction, `CommitScopeGeneration`, is still to come. Anything may happen between
the two. The instances give all generations of a scope the same hint. As long as each is
delivered once that loses no behaviour: a delivery with another hint passes whenever it is checked, and one with
the same hint passes as long as nothing is active, so all that can follow a late
check can also follow an early one.

*ReducerQueue.* `queue` and `order` are the reducer rows (`order` holds the pairs
that `updated_at`, then `work_item_id` put in sequence), `proj` and `active`
what the reducer sees of projection, `acks` the results between workers and
acker. A claimed row always carries the lease owner `reducer`, so rows are
matched by id and status. `applied` is reset when a handler starts and set when
it completes. `Reopen` stands for `ReopenSucceeded`, `ReplayDomain` and the
replay of dead letters.

*ProjectionLane.* `lane` is chosen in `Init`: both runners follow the same steps
and differ where the code does. `intents`, `accepted` and `lease` are the three
tables, `proc` is what each runner has in memory, `graph` the edges. All
generations of a scope share a run id in the repository-dependency lane, so the
one accepted last makes rows of the others stale; a code-call generation has a
run id of its own, so each counts for itself and the oldest goes first
(`AcceptedGen`, `Selectable`). A failed or cancelled retract or write may have
been applied in part (`Partly`). The code-call runner releases its lease under a
context that it has just cancelled, so that lease is left to expire; the other
runner's is freed. A repeated resolution of a generation finds at least the edges it
found before: evidence is only added, and the assertions that could reject an edge
are read but written by nothing in the repository. `LoadSlice` may take any unit,
which includes the first by `created_at` that the code takes. `replayed` records whether workload materialization was asked
for after the last change. Every process has a lease owner name of its own.

*BootstrapIndex.* `errc` holds results without a sender, as in the code, and
`main` is where `runPipelined` stands. `empties` is the count the workers share;
the claim and the count are two steps, since the collector may finish between
them. An item whose worker failed is `held`: the lease stays and `Fail` is never
called. An item that an earlier run left behind may have its mapping enqueued
already, since projection enqueues it before the Ack. `foreign` items were leased by a process that died before this run;
`older` scopes had an active generation already, which decides both what the
backfill loads and what the reducer's generation guard skips. `mapping` is the
deployment mapping of a scope with the readiness gate as its handler found it
(a handler that fails and is retried reads the gate again, which is not modelled),
`stragglers` those that had passed the closed gate and were still running when
the reopening listed its rows.

## 4. Runs

Passing runs:

| Run | Shows | Bounds |
|---|---|---|
| `workflow_control` | ownership, tokens, finality, refinement of `WorkItemLease` | 2 items, 4 claims, 2 owners, reaps of up to 2: one item can be claimed four times, two items can be reaped together |
| `claimed_collector` | completion only after an own commit; one current holder; refinement of the store; every item settles | 1 item, 3 claims, 2 processes, 2 faults, so that a claim id is left after the faults |
| `scope_projection` | readers see complete generations; pointer and status agree; nothing pending is stranded; every projector item settles; without overlapping rewrites one generation is active and a quiet graph is the active one | 2 workers of one binary, 2 generations, 2 faults, 1 operator action |
| `workflow_runs` | complete means converged; a status can be explained; a settled run becomes final for good | 2 coordinators, 2 slices of two kinds, one batch, 1 claim of each, 1 aborted reconciliation |
| `reducer_queue` | conflict fence; succeeded was handled; drained is converged | 1 scope, 2 generations, 2 domains of one conflict key, intents enqueued one by one, 2 faults, 1 replayed projection, 1 reopened row |
| `reducer_queue_live` | cap on semantic handlers; every intent settles | 2 scopes, 2 domains, 1 fault, which may be a lease or an ack that is late |
| `projection_lanes` | cycles exclude each other; a drained repository has exactly the accepted edges; changes reach the workloads; rows are worked off | both lanes, 2 scopes that share a repository, 2 edges, 2 generations, 2 processes, 1 crash or failed call, 1 late lease, 1 handler that runs again; a scan cap of 4, small enough to be reached |
| `bootstrap_index` | backfill after collection; reopening after the drain; success means drained; no loaded mapping is left behind the gate; the pipeline ends | 2 scopes, one or both collected, 2 workers, 2 empty polls, 1 failing call |

Some properties hold only under a condition, which their comments state:

* `OneActiveGeneration` and `QuietGraphIsActive`: no two rewrites of one scope
  overlapped so far (`overlapped`). Two workers can claim two generations of one
  scope, see `overlapping_rewrites`.
* `CompleteIsConverged`: the items of the run arrive in one batch, see
  `early_complete`.
* `PendingHasWork` and `ActivePointerAgrees`: no generation is committed twice
  (`Redelivery = FALSE`), see `redelivered_generation`.
* `ConflictFence`, `SucceededWasHandled` and `SemanticCap`: leases are renewed
  and results acked in time (a lease lasts a minute, a retry waits 30 seconds,
  the acker flushes every 100 ms). After that, results of failed attempts and of
  lost claims, which go to the acker like all others, ack the attempt that
  replaced them, since every row carries the same lease owner.
* `DrainedIsConverged`: the drain gate is on, see `reducer_ungated`, and no
  dead-lettered projection was replayed. Intents that a projection enqueued
  before it was given up on are skipped as superseded and acked; the replayed
  projection enqueues them with ON CONFLICT DO NOTHING, so they never run.
* `LaneIsExclusive`, `DrainedMatchesAccepted` and `ChangesAreReplayed`: leases are
  renewed in time (`OnTime`) and each process has its own lease owner name. The
  default name is the same for all; the chart runs one reducer.
* `IntentsDrain`: up to a repository whose rows reach the scan cap (`Wedged`).
  The cap counts completed rows too and nothing removes them, so from then on
  the lane's cycles that select this repository fail.
* `SuccessIsDrained`: not for items under the lease of another process, for which
  no worker waits.
* `NoMappingLeftGated`: for generations the backfill loaded, apart from the
  stragglers, which a comment of the code concedes, and foreign items.

Deadlock checking is off, except in `workflow_control`, because the inputs are
bounded: when all generations, claims and faults are used up the system rests.

Violation runs: each states what a comment or a design record of the repository
says and finds a behaviour of the code that does not keep it.

| Run | Statement | What happens |
|---|---|---|
| `overlapping_rewrites` | rewrites of one scope must not overlap | two claims read before either writes |
| `redelivered_generation` | retries are idempotent | a second commit makes a failed generation pending again, but leaves its work item dead-lettered |
| `early_complete` | no complete run with open slices | a run converges between two enqueue batches |
| `reducer_ungated` | superseded means a newer generation is active | intents are claimed before their generation is activated |

`overlapping_rewrites`, `early_complete` and `reducer_ungated` need no fault.
`redelivered_generation` needs a claimed collector in front of the ingestion
store, which the repository has as a service but not yet as a binary: the answer to
`CompleteClaim` is lost, the projection fails for good, and the redelivered
generation is committed again. It is then pending for ever, because the insert of
its work item does nothing on conflict. A generation that is active when it is
delivered again is skipped by the unchanged check, unless its freshness hint is empty
or the check ran before it was activated.

What the models follow the code in, although a reader of the comments may expect
otherwise: the commit of a claimed collector carries no fencing token, so it can
land after the commit of a newer owner; while a newer generation waits to be
projected, a delivery that goes back to the content of the active one is skipped as
unchanged, and the scope shows the newer one until it is observed again; the Ack of a retried older generation
supersedes a newer active one; a failed generation becomes active when its dead
letter is replayed; the limit of a replay cuts only the list of returned ids; a
semantic intent that waits for other scopes' projections holds back the
non-semantic rows behind it in its conflict key, until those projections are
done (`IntentsSettle`); a generation that finds no dependency of a repository
accepts nothing for it, so the edges of the generation before stay; the newest
generation of a scope with an older active one, if it is activated after the
backfill loaded the scopes, stays behind the closed gate; a semantic intent waits
for a number of succeeded projections that one dead letter keeps out of reach
until it is replayed; a workload materialization that runs when its replay is
asked for is neither reopened nor repeated.

## 5. Fairness

* `CollectorFairness`: `Run` polls for ever, a stopped process is restarted by
  its supervisor (the chart's deployments restart containers), the coordinator's
  reap ticker fires, unattended leases lapse and delays pass. Weak fairness is
  enough: once possible, each of these stays possible until it happens.
* `Fairness` of `ScopeProjection`: workers poll and finish what they began, the
  heartbeat ticker fires, unattended leases lapse, retry delays pass.
* `FairRunSpec`: weak fairness of each coordinator's next statement. The ticker
  fires, a coordinator that stops is restarted, and transactions fail finitely
  often.
* `Fairness` of `ReducerQueue`: the claimer polls, handlers return, the acker's
  100 ms timer fires, time passes, projection goes on.
* `Fairness` of `ProjectionLane`: runners poll, calls return, unattended leases
  lapse. Handlers need not run.
* `Fairness` of `BootstrapIndex`: goroutines are scheduled, calls return, a reducer
  is up. Leases of other processes need not expire.

Faults are bounded, so liveness is shown for behaviours with finitely many.

## 6. Proofs

`WorkflowControlProofs` is about `WorkflowControl` for any sets of items, claim
ids and owners and any positive reap limit, assuming only that `Null` is none of
them.

* `StoreTypes`, `OwnershipIsExclusive`, `TokensStayFresh`: the conjunction of the
  three is the inductive invariant (`StoreInv`). Exclusive ownership needs the
  types, and that no token exceeds the item row's is what makes the next
  token fresh. There is one lemma per statement; `AcceptedOwns` is the common
  fact that an accepted mutation comes from the owner of its item, and
  `IssuedMutation` that a client can only send what a claim row says.
* `FinishedStaysFinal`: the action property, from the same invariant.
* `StoreImplementsLease`: initial tables map to the initial lease, and every
  statement to a step of `WorkItemLease` or a stutter. The mapping reads the
  holder from the claim row, so the proof needs that the tables agree.

`ClaimedCollectorProofs` is about `ClaimedCollector` for any numbers of items,
claims, processes and faults.

* `CollectorImplementsStore`: every step of a process, the reaper or time is a
  statement of the store or leaves its tables alone. That needs an invariant of
  the processes: what a process, its heartbeat or a cancelled heartbeat sends is
  the mutation of an epoch it was handed out (`Fenced`).
* `CompletionFollowsCommit`: a process past its commit is recorded under its own
  token (`Committed`), and the store lets only the token of the item complete it.
* `HoldersAreFenced`: two processes on one item have different claims, so by the
  store's `TokensNeverReused` different tokens. `CollectorTypes`: the types.

`WorkflowRunsProofs` is about `WorkflowRuns` for any items, kinds, phases,
contracts, coordinators and rolled-back transactions, under `ContractAssumption`.

* `RunTypes` and `FailedRunHasFailedItem` hold for any batches.
* `CompleteRunIsConverged` and `RunStatusIsExplained` have the hypothesis that
  the items come in one batch, which `early_complete` shows to be needed. Then a
  coordinator sees the run as a whole or not at all (`SubmittedTogether`), so a
  nonempty result has the totals of the whole run and a count equal to the total
  counts every item. Completed items and published phases never go back, so what
  a coordinator has read is still true when it writes it, however late
  (`ReadIsTrue`); that is why a transaction of several READ COMMITTED statements
  beside other coordinators does no harm.

`ScopeProjectionProofs` is about `ScopeProjection` for any scopes, generations,
workers, lease owner names, attempts, faults and operator actions.

* `ProjectionTypes` and `ActiveIsAlwaysProjected` hold without a condition:
  a worker's record says that it has projected what it acks (`WorkersOK`).
* `PointerAgrees` and `PendingIsNeverStranded` have the hypothesis that no
  generation is delivered twice, which `redelivered_generation` shows to be
  needed. A generation then never goes back to pending and its work item is new
  when it is committed (`AbsentHasNoWork`).
* `OneActive` and `QuietIsActive` are about scopes in which no two rewrites
  overlapped so far. The holder of such a scope keeps an open row until it closes
  it itself, since claims skip scopes with a row in flight; the graph is the
  holder's from its projection on; and nobody activates another generation
  between the two statements of its ack (`HoldersOK`). Between holders, a scope
  with no open row and no dead letter shows its active generation
  (`RestIsActive`).

`ReducerQueueProofs` is about `ReducerQueue` for any scopes, generations,
domains, workers, batch size, semantic limit and bounds.

* `HandlersAreFenced`: the fence is a fact about rows, no two rows of a conflict
  key in flight (`KeysApart`). It carries over to handlers because on time a held
  row is in flight and held once, and a row whose result waits for the acker
  cannot be claimed (`Timely`). Two rows of one batch have different keys because
  rows are totally ordered (`OrderOK`) and only the head of a key qualifies.
* `SucceededRowsWereHandled`: `ResultIsDone` extends the property to results that
  wait for the acker.
* `DrainedMeansConverged`: needs to know in which order things happened
  (`InOrder`): under the gate no intent is claimed before its generation is
  activated (`NotBeforeActivation`); while a handler of another generation runs,
  the active one of its domain has not succeeded yet (`OldRunsBefore`); so a
  settled row of the active generation has the last word in its domain
  (`ActiveHasLastWord`). The gate and the absence of replays are part of the
  property, see section 4.
* `SemanticHandlersAreCapped`: the rows in flight, not only the handlers, stay
  within the limit. The last semantic row of a batch is ranked behind all the
  others; that there is a last one is the place where finiteness is used.
  `ReducerTypes`: the types.

`ProjectionLaneProofs` is about `ProjectionLane` for any lanes, scopes,
repositories, edges, generations, processes, scan cap and numbers of faults,
under `LaneAssumption`: a repository's files are in one scope, generations
resolve to sets of edges, and the special values are distinct.

* `LaneTypes`: the types, also after leases were lost.
* `LaneExclusion`: no two runners are in a cycle at once while leases are renewed
  in time. The invariant needed is that a runner in a cycle holds the lease
  (`Leased`).
* `DrainedIsAccepted`: a repository without pending rows has exactly the edges of
  the generations that count. Neither half of the cycle keeps this by itself, so
  the invariant says what the graph holds for each place a cycle can be in
  (`Cycle`): a pending row stays pending until the mark, so a cycle that fails
  leaves its repository undrained; the rows and acceptance are what handlers
  resolved (`Stored`, `Known`). The lanes then differ. In the repository lane the
  active rows are the accepted ones unless a row arrived since the load, and then
  that row is pending (`RepoLane`). In the code-call lane generations are
  completed in order, each one whole, so the one whose mark drains the repository
  is the newest (`CodeLane`).
* `ChangesReachWorkloads`: a drained repository with dependency edges was replayed
  after its last change (`Asked`, on top of the same invariant).

`BootstrapIndexProofs` is about `BootstrapIndex` for any scopes, selections and
finite, non-empty set of workers, and any limit of at least two empty polls.

* `BackfillWaitsForCollection` and `ReopenWaitsForDrain`: `Wiring` relates the
  goroutines to the channels and flags they set, `ResultsInv` says for each place
  of `main` what is on `errc`: a pool can return "ok" only after
  `collectorDone`, which is closed after the collector's result was sent, so an
  "ok" read first is the collector's.
* `SuccessMeansDrained`: `Draining` says that as long as an item can be claimed
  some worker will look again. An empty claim shows that nothing was pending, and
  an empty claim older than the last commit counts at most one, which is less
  than the limit; with a limit of one the theorem would be false.

* `NoMappingStaysGated`: `GateInv` follows the mappings. Projection enqueues a
  mapping before it acks; a scope the backfill loaded is not skipped by the
  reducer's generation guard, and from the publication on its gate is open
  (`GateOpen`). So when the reopening has listed its rows, every loaded mapping
  that is no straggler is still to run, ran past the open gate, or is on the list
  (`Reopens`), and reducers beside it keep it so.
* `PipelineTypes`: `BoundsInv` counts. Each goroutine sends once, so `errc` never
  blocks one; each count from the limit on is that of a worker that leaves.

Only model-checked: the liveness properties (`ItemsSettle`, `WorkSettles`,
`RunSettles`, `IntentsSettle`, `IntentsDrain`, `PipelineEnds`), since fairness and
ENABLED are outside the prover's reach, and the violation runs, which are
counterexamples. The proofs use no property of the constants beyond the named
assumptions of the modules, all of which TLC evaluates on the instances it checks.

## 7. Not modelled

Most of the repository's lines are parsers, builders of Cypher statements, query
handlers and telemetry. They hold no state that steps of two actors could bring
out of order, and a model of them would be a copy of their data transformations;
the models here are about the parts that coordinate through Postgres, channels
and leases.

* What parsers, materialisers, relationship resolvers and handlers compute: pure
  data. Which edges a handler finds is a constant of the model.
* Graph and content writes beyond begun, completed, applied in part and by which
  generation; a write of a dead process that the graph backend still applies.
* The one-at-a-time claim mode of the reducer (one worker), several reducer
  processes claiming from the reducer queue, `ClaimDomain`.
* `SharedProjectionRunner` and its partitions: nothing at this commit emits rows
  for its domains.
* The repair runner of graph projection phases: when publishing a canonical
  phase fails the projection fails too, and its retry publishes again.
* The fairness scheduler (sequential, not called by a binary) and the
  coordinator's collector instances (idempotent upserts that only the coordinator
  reads back, for metrics).
* The local host's owner lock: exclusion is that of `flock`; the rest is process
  inspection and file removal.
* Git discovery and snapshots: I/O. A collector appears as the generations it
  commits, one at a time.
* The semaphore for large generations, telemetry, validation of inputs.
* Query API, MCP server, status: read-only.
* Endless crash loops: an item that kills its worker is claimed again without
  its attempts being compared with the maximum.
