--------------------------- MODULE ProjectionLane ---------------------------
(***************************************************************************)
(* The two shared projection lanes that run beside the reducer's handlers: *)
(* code calls and repository dependencies                                  *)
(* (go/internal/reducer/{code_call,repo_dependency}_projection_*.go).      *)
(*                                                                         *)
(* Handlers do not write these edges.  They leave rows in                  *)
(* shared_projection_intents and say in shared_projection_acceptance which *)
(* generation counts, in one transaction.  A runner in every reducer       *)
(* process holds the lane's one lease, picks a source repository, removes  *)
(* its edges from the graph, writes the accepted ones and marks the rows.  *)
(* The lane is chosen once, in Init.                                       *)
(*                                                                         *)
(* Rows of a code-call generation carry a source_run_id of their own, so   *)
(* each generation is accepted for itself and they are worked off oldest   *)
(* first.  All generations of a scope share the run id of repository       *)
(* dependencies: the generation that was accepted last makes rows of the   *)
(* others stale.  A projection publishes canonical readiness before it     *)
(* enqueues the handlers, so the readiness gate of the code-call lane is   *)
(* open whenever a row is there.                                           *)
(***************************************************************************)
EXTENDS Naturals, FiniteSets

CONSTANTS
  Lanes,                \* the lanes a run looks at
  Scopes,               \* scope_id
  Units,                \* acceptance_unit_id: source repositories
  OwnUnit,              \* OwnUnit[s]: the repository whose files scope s holds, or Null
  Edges,                \* what a row writes, beside its source repository
  Resolves,             \* Resolves[s][n]: the sets of <<unit, edge>> the handler of
                        \* generation n of s may find; none for no such generation
  MaxGen,               \* bound: generations per scope
  Processes,            \* reducer processes, by their lease owner name
  ScanCap,              \* acceptanceScanLimit
  MaxFaults,            \* bound: crashes and failed calls
  MaxLate,              \* bound: leases not renewed in time
  MaxAgain,             \* bound: handlers that run again for the newest generation
  Null

ASSUME LaneAssumption ==
  /\ Lanes \subseteq {"code_calls", "repo_dependency"}
  /\ OwnUnit \in [Scopes -> Units \union {Null}]
  /\ \A s, t \in Scopes : OwnUnit[s] = OwnUnit[t] => s = t \/ OwnUnit[s] = Null
  /\ \A s \in Scopes, n \in 1 .. MaxGen : Resolves[s][n] \subseteq SUBSET (Units \X Edges)
  /\ MaxGen \in Nat /\ ScanCap \in Nat /\ MaxFaults \in Nat /\ MaxLate \in Nat /\ MaxAgain \in Nat
  /\ Null \notin Units \union Processes /\ (\A S \in SUBSET (Units \X Edges) : S # Null) /\ "refresh" \notin Edges

VARIABLES
  lane,                 \* the projection domain
  found,                \* found[s][n]: the edges the last handler of generation n resolved, or Null
  intents,              \* shared_projection_intents: absent, pending or completed
  accepted,             \* shared_projection_acceptance: generation per scope and unit, 0 for none
  lease,                \* shared_projection_partition_leases: owner, and expires_at <= now
  proc,                 \* what the runner of each process is doing
  graph,                \* the <<unit, edge>> pairs in the graph
  replayed,             \* units whose workload materialization was asked for since
                        \* their edges were last touched
  budget                \* what is left of the bounds

store == <<found, intents, accepted>>
vars == <<lane, found, intents, accepted, lease, proc, graph, replayed, budget>>

GenNo == 1 .. MaxGen

\* A refresh row stands for its repository and writes no edge.
Rows == [scope : Scopes, unit : Units, gen : GenNo, edge : Edges \union {"refresh"}]
Resting == [pc |-> "idle", unit |-> Null, rows |-> {}, active |-> {}]

Init ==
  /\ lane \in Lanes
  /\ found = [s \in Scopes |-> [n \in GenNo |-> Null]]
  /\ intents = [x \in Rows |-> "absent"]
  /\ accepted = [s \in Scopes |-> [u \in Units |-> 0]]
  /\ lease = [owner |-> Null, lapsed |-> FALSE]
  /\ proc = [p \in Processes |-> Resting]
  /\ graph = {}
  /\ replayed = {}
  /\ budget = [faults |-> MaxFaults, late |-> MaxLate, again |-> MaxAgain]

Spend(kind) == budget[kind] > 0 /\ budget' = [budget EXCEPT ![kind] = @ - 1]

-----------------------------------------------------------------------------
(* The handlers that emit rows.  The generation guard and the conflict     *)
(* fence of module ReducerQueue run them one at a time and in generation   *)
(* order.                                                                  *)

Newest(s) == IF \A n \in GenNo : found[s][n] = Null THEN 0
             ELSE CHOOSE n \in GenNo : found[s][n] # Null /\ \A k \in n + 1 .. MaxGen : found[s][k] = Null

Emits(s, n) ==
  \/ n > Newest(s) /\ UNCHANGED budget
  \/ n = Newest(s) /\ Spend("again")

\* SharedIntentAcceptanceWriter.UpsertIntents, one transaction: a row that was
\* completed stays completed, and the last writer is accepted.
UpsertIntents(s, n, rows) ==
  /\ intents' = [x \in Rows |-> IF x \in rows /\ intents[x] = "absent" THEN "pending" ELSE intents[x]]
  /\ accepted' = [accepted EXCEPT ![s] = [u \in Units |->
       IF \E x \in rows : x.unit = u THEN n ELSE @[u]]]

\* CodeCallMaterializationHandler: one refresh row for the repository, and the
\* calls found in the facts of the generation, which never change.
HandleCodeCalls(s, n, edges) ==
  /\ lane = "code_calls" /\ OwnUnit[s] # Null
  /\ Emits(s, n)
  /\ \A e \in edges : e[1] = OwnUnit[s]
  /\ found[s][n] # Null => edges = found[s][n]
  /\ found' = [found EXCEPT ![s][n] = edges]
  /\ UpsertIntents(s, n, {x \in Rows : /\ x.scope = s /\ x.gen = n /\ x.unit = OwnUnit[s]
                                       /\ <<x.unit, x.edge>> \in edges \/ x.edge = "refresh"})
  /\ UNCHANGED <<lane, lease, proc, graph, replayed>>

\* CrossRepoRelationshipHandler.Resolve: evidence that was backfilled since may
\* add relationships to a generation.  None goes away: a rejecting assertion
\* would remove one, but nothing in the repository writes assertions.  Nothing is
\* emitted, or accepted, for a repository without a relationship.
ResolveCrossRepo(s, n, edges) ==
  /\ lane = "repo_dependency"
  /\ Emits(s, n)
  /\ found[s][n] # Null => found[s][n] \subseteq edges
  /\ found' = [found EXCEPT ![s][n] = edges]
  /\ UpsertIntents(s, n, {x \in Rows : x.scope = s /\ x.gen = n /\ <<x.unit, x.edge>> \in edges})
  /\ UNCHANGED <<lane, lease, proc, graph, replayed>>

-----------------------------------------------------------------------------
(* The lane lease.                                                         *)

\* Fault variant: the lease of another process may be taken.
LeaseFreeAlways(p) == p \in Processes

\* The WHERE of ClaimPartitionLease: free, expired, or held under p's name.
LeaseFree(p) == lease.owner \in {Null, p} \/ lease.lapsed

\* The release of the code-call runner runs under the heartbeat's context,
\* which was cancelled just before: its lease is left to expire.
ReleasePartitionLease(p) ==
  lease' = IF lane = "repo_dependency" /\ lease.owner = p
             THEN [owner |-> Null, lapsed |-> FALSE] ELSE lease

EndCycle(p) ==
  /\ proc' = [proc EXCEPT ![p] = Resting]
  /\ ReleasePartitionLease(p)

-----------------------------------------------------------------------------
(* processOnce.                                                            *)

Pending == {x \in Rows : intents[x] = "pending"}

\* The generation that counts for the rows of x's acceptance key.
AcceptedGen(x) == IF lane = "code_calls" THEN x.gen ELSE accepted[x.scope][x.unit]

\* loadAllAcceptanceUnitIntents: the code-call runner works off the pending
\* rows of one acceptance key, the repository-dependency runner all rows of a
\* unit, completed or not, of every scope.
Slice(x) ==
  IF lane = "code_calls"
    THEN {y \in Pending : y.scope = x.scope /\ y.unit = x.unit /\ y.gen = x.gen}
    ELSE {y \in Rows : y.unit = x.unit /\ intents[y] # "absent"}

\* selectAcceptanceUnitWork: the rows are scanned by created_at, which is that
\* of the generation for code calls and any order for the other lane.
Selectable(x) ==
  /\ x \in Pending /\ x.gen = AcceptedGen(x)
  /\ lane = "code_calls" => \A y \in Pending : y.scope = x.scope /\ y.unit = x.unit => y.gen >= x.gen

\* A slice that reaches the cap is an error each time.
Loadable(x) == Selectable(x) /\ Cardinality(Slice(x)) < ScanCap

\* A cycle that finds nothing to do only claims the lease, and releases it.
PollIdle(p) ==
  /\ proc[p].pc = "idle" /\ LeaseFree(p)
  /\ \A x \in Rows : ~Loadable(x)
  /\ lease' = [owner |-> IF lane = "code_calls" THEN p ELSE Null, lapsed |-> FALSE]
  /\ UNCHANGED <<lane, store, proc, graph, replayed, budget>>

\* The lease is claimed, a unit selected and its rows loaded.  Any unit may be
\* taken; the code takes the first by created_at, so that one at its scan cap
\* also holds up those behind it (Wedged).
LoadSlice(p, x) ==
  /\ proc[p].pc = "idle" /\ LeaseFree(p)
  /\ Loadable(x)
  /\ lease' = [owner |-> p, lapsed |-> FALSE]
  /\ proc' = [proc EXCEPT ![p] = [pc |-> "loaded", unit |-> x.unit, rows |-> Slice(x), active |-> {}]]
  /\ UNCHANGED <<lane, store, graph, replayed, budget>>

\* Fault variant: the pending rows are read again before they are filtered.
FilterIntentsAfresh(p) ==
  /\ proc[p].pc = "loaded"
  /\ proc' = [proc EXCEPT ![p].active = {x \in Pending : x.unit = proc[p].unit /\ x.gen = AcceptedGen(x)},
                         ![p].pc = "filtered"]
  /\ UNCHANGED <<lane, store, lease, graph, replayed, budget>>

\* FilterAuthoritativeIntents, with acceptance read after the rows.
FilterIntents(p) ==
  /\ proc[p].pc = "loaded"
  /\ LET active == {x \in proc[p].rows : x.gen = AcceptedGen(x)}
     IN proc' = [proc EXCEPT ![p].active = active, ![p].pc = IF active = {} THEN "replayed" ELSE "filtered"]
  /\ UNCHANGED <<lane, store, lease, graph, replayed, budget>>

Stale(p) == proc[p].rows \ proc[p].active

\* repoDependencyNeedsRetract; shouldSkipCodeCallRetract looks for completed
\* rows of the scope and unit, whatever their run.
NeedsRetract(p) ==
  \/ Stale(p) # {}
  \/ /\ lane = "code_calls"
     /\ \E x \in proc[p].active, y \in Rows :
          y.scope = x.scope /\ y.unit = x.unit /\ intents[y] = "completed"

EdgesOf(u) == {g \in graph : g[1] = u}

\* The edges of unit u become those of S.
Rewrite(u, S) == graph' = (graph \ EdgesOf(u)) \union S

\* RetractEdges for the unit, once per evidence source.
RetractRepo(p) ==
  /\ proc[p].pc = "filtered"
  /\ IF NeedsRetract(p)
       THEN Rewrite(proc[p].unit, {}) /\ replayed' = replayed \ {proc[p].unit}
       ELSE UNCHANGED <<graph, replayed>>
  /\ proc' = [proc EXCEPT ![p].pc = "retracted"]
  /\ UNCHANGED <<lane, store, lease, budget>>

Written(p) == {<<x.unit, x.edge>> : x \in {y \in proc[p].active : y.edge # "refresh"}}

WriteActiveRows(p) ==
  /\ proc[p].pc = "retracted"
  /\ graph' = graph \union Written(p)
  /\ replayed' = replayed \ {proc[p].unit}
  /\ proc' = [proc EXCEPT ![p].pc = "written"]
  /\ UNCHANGED <<lane, store, lease, budget>>

\* Fault variant: a unit with stale rows is not replayed.
ReplayUnlessCompleted(p) ==
  /\ proc[p].pc = "written"
  /\ replayed' = IF Stale(p) # {} THEN replayed ELSE replayed \union {proc[p].unit}
  /\ proc' = [proc EXCEPT ![p].pc = "replayed"]
  /\ UNCHANGED <<lane, store, lease, graph, budget>>

\* ReplayWorkloadMaterialization for every active row; code calls have none.
ReplayWorkloads(p) ==
  /\ proc[p].pc = "written"
  /\ replayed' = IF lane = "repo_dependency" THEN replayed \union {proc[p].unit} ELSE replayed
  /\ proc' = [proc EXCEPT ![p].pc = "replayed"]
  /\ UNCHANGED <<lane, store, lease, graph, budget>>

\* Fault variants: rows of the unit are marked by unit, not by id; stale rows
\* are left.
MarkUnitCompleted(p) ==
  /\ proc[p].pc = "replayed"
  /\ intents' = [x \in Rows |-> IF x.unit = proc[p].unit /\ intents[x] = "pending" THEN "completed"
                                ELSE intents[x]]
  /\ EndCycle(p)
  /\ UNCHANGED <<lane, found, accepted, graph, replayed, budget>>

MarkActiveCompleted(p) ==
  /\ proc[p].pc = "replayed"
  /\ intents' = [x \in Rows |-> IF x \in proc[p].active THEN "completed" ELSE intents[x]]
  /\ EndCycle(p)
  /\ UNCHANGED <<lane, found, accepted, graph, replayed, budget>>

\* MarkIntentsCompleted, by intent id, of the active and the stale rows.
MarkIntentsCompleted(p) ==
  /\ proc[p].pc = "replayed"
  /\ intents' = [x \in Rows |-> IF x \in proc[p].rows THEN "completed" ELSE intents[x]]
  /\ EndCycle(p)
  /\ UNCHANGED <<lane, found, accepted, graph, replayed, budget>>

-----------------------------------------------------------------------------
(* Failures.  A retract or a write that fails, or is cancelled, may have   *)
(* been applied in part: one statement per evidence source and batch.      *)

Partly(p) ==
  \/ UNCHANGED <<graph, replayed>>
  \/ /\ proc[p].pc = "filtered" /\ NeedsRetract(p)
     /\ \E S \in SUBSET EdgesOf(proc[p].unit) : Rewrite(proc[p].unit, S)
     /\ replayed' = replayed \ {proc[p].unit}
  \/ /\ proc[p].pc = "retracted"
     /\ \E S \in SUBSET Written(p) : graph' = graph \union S
     /\ replayed' = replayed \ {proc[p].unit}

\* A call fails and the cycle with it; the runner waits and polls again.
CycleFails(p) ==
  /\ proc[p].pc # "idle"
  /\ Partly(p)
  /\ EndCycle(p)
  /\ Spend("faults")
  /\ UNCHANGED <<lane, store>>

\* The process dies; its lease is left behind.
Crash(p) ==
  /\ proc[p].pc # "idle"
  /\ Partly(p)
  /\ proc' = [proc EXCEPT ![p] = Resting]
  /\ Spend("faults")
  /\ UNCHANGED <<lane, store, lease>>

\* The heartbeat claims the lease again.  A rejection cancels the cycle.
Heartbeat(p) ==
  /\ proc[p].pc # "idle"
  /\ \/ /\ LeaseFree(p) /\ lease # [owner |-> p, lapsed |-> FALSE]
        /\ lease' = [owner |-> p, lapsed |-> FALSE]
        /\ UNCHANGED <<proc, graph, replayed>>
     \/ ~LeaseFree(p) /\ Partly(p) /\ EndCycle(p)
  /\ UNCHANGED <<lane, store, budget>>

\* The lease of a running cycle lapses only when a heartbeat is late.
Attended == lease.owner \in Processes /\ proc[lease.owner].pc # "idle"

Lapse ==
  /\ lease.owner # Null /\ ~lease.lapsed
  /\ lease' = [lease EXCEPT !.lapsed = TRUE]
  /\ IF Attended THEN Spend("late") ELSE UNCHANGED budget
  /\ UNCHANGED <<lane, store, proc, graph, replayed>>

-----------------------------------------------------------------------------
Step(p) ==
  \/ FilterIntents(p) \/ RetractRepo(p) \/ WriteActiveRows(p)
  \/ ReplayWorkloads(p) \/ MarkIntentsCompleted(p)

Next ==
  \/ \E s \in Scopes, n \in GenNo : \E edges \in Resolves[s][n] :
       HandleCodeCalls(s, n, edges) \/ ResolveCrossRepo(s, n, edges)
  \/ \E p \in Processes, x \in Rows : LoadSlice(p, x)
  \/ \E p \in Processes : PollIdle(p) \/ Step(p) \/ CycleFails(p) \/ Crash(p) \/ Heartbeat(p)
  \/ Lapse

Spec == Init /\ [][Next]_vars

(* Runners poll, calls return, and time passes.                            *)
Fairness ==
  /\ \A p \in Processes : WF_vars(\E x \in Rows : LoadSlice(p, x)) /\ WF_vars(Step(p))
  /\ WF_vars(~Attended /\ Lapse)

FairSpec == Spec /\ Fairness

-----------------------------------------------------------------------------
(* Properties.                                                             *)

\* Tables and runners have the shapes of the schema and of processOnce.
TypeOK ==
  /\ lane \in Lanes
  /\ \A s \in Scopes, n \in GenNo : found[s][n] = Null \/ found[s][n] \subseteq Units \X Edges
  /\ intents \in [Rows -> {"absent", "pending", "completed"}]
  /\ accepted \in [Scopes -> [Units -> 0 .. MaxGen]]
  /\ lease \in [owner : Processes \union {Null}, lapsed : BOOLEAN]
  /\ \A p \in Processes :
       /\ proc[p].pc \in {"idle", "loaded", "filtered", "retracted", "written", "replayed"}
       /\ proc[p].active \subseteq proc[p].rows /\ proc[p].rows \subseteq Rows
  /\ graph \subseteq Units \X Edges /\ replayed \subseteq Units

\* No lease lapsed under a running cycle.
OnTime == budget.late = MaxLate

\* ADR: repo-wide retracts "must remain exclusive with writes that depend on
\* the same repo generation".  With a lease owner per process, and leases
\* renewed in time, no two runners of the lane are between load and mark.
LaneIsExclusive ==
  OnTime => \A p, q \in Processes : proc[p].pc # "idle" /\ proc[q].pc # "idle" => p = q

\* The generation of s that decides which edges unit u has.
Deciding(s, u) == IF lane = "code_calls" THEN Newest(s) ELSE accepted[s][u]

Wanted(u) ==
  {g \in Units \X Edges : g[1] = u /\ \E s \in Scopes :
     Deciding(s, u) # 0 /\ g \in found[s][Deciding(s, u)]}

Drained(u) ==
  /\ \A x \in Pending : x.unit # u
  /\ \A p \in Processes : proc[p].unit # u

\* ADR: "graph/API truth must match persisted fact intent after the run
\* completes".  Once no row of a repository is pending, its edges are exactly
\* those of the generations that count for it, of all scopes together: crashes
\* between retract, write and mark, rows that arrive during a cycle, handlers
\* that run again and stale rows neither lose an edge nor leave one behind.
DrainedMatchesAccepted == OnTime => \A u \in Units : Drained(u) => EdgesOf(u) = Wanted(u)

\* No repository's dependency edges are changed without a workload
\* materialization asked for after the change, although the replay and the
\* mark are separate calls that may fail.
ChangesAreReplayed ==
  OnTime /\ lane = "repo_dependency" =>
    \A u \in Units : Drained(u) /\ EdgesOf(u) # {} => u \in replayed

\* The rows of some unit have reached the cap, which counts completed rows of
\* superseded generations too: the lane is stuck.
Wedged == \E x \in Pending : Cardinality(Slice(x)) >= ScanCap

\* The rows are worked off once the handlers pause, when faults are finitely
\* many and no slice reaches the cap: a lease nobody releases, a dead holder, a
\* holder that lost its lease and stale rows do not hold the lane up for ever.
IntentsDrain == Pending # {} ~> Pending = {} \/ Wedged
=============================================================================
