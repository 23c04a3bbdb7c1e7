--------------------------- MODULE ScopeProjection ---------------------------
(***************************************************************************)
(* How generations of a scope become the active truth: the ingestion       *)
(* commit enqueues one projector work item per generation, projector       *)
(* workers claim items under a lease, rewrite the canonical graph and      *)
(* enqueue reducer intents, and their Ack activates the generation.        *)
(* Sources: go/internal/storage/postgres/{ingestion,projector_queue,       *)
(* recovery}.go and go/internal/projector/{service,runtime}.go.            *)
(*                                                                         *)
(* Isolation is Postgres READ COMMITTED.  A claim is two steps, because    *)
(* its NOT EXISTS is read from a snapshot and SKIP LOCKED skips rows other *)
(* claims hold: ClaimSelect reads and locks, ClaimCommit writes.  An Ack   *)
(* is two steps, because the generations it supersedes are read before it  *)
(* writes the scope row.                                                   *)
(*                                                                         *)
(* Time is what the statements compare: lapsed is claim_until <= now,      *)
(* visible is visible_at <= now.  The statuses claimed and running are     *)
(* never told apart by any statement and are one status here.              *)
(***************************************************************************)
EXTENDS Integers

CONSTANTS
  Scopes,               \* scope_id
  MaxGen,               \* bound: generations observed per scope
  Workers,              \* projector worker goroutines, of any number of processes
  LeaseOwner,           \* LeaseOwner[w]: the lease owner name of w's binary
  MaxAttempts,          \* ProjectorQueue.maxAttempts
  MaxFaults,            \* bound: crashes, failures and missed heartbeats
  MaxOps,               \* bound: operator actions (replay, refinalize)
  Redelivery,           \* TRUE: ClaimedService may commit one generation again
  Hint,                 \* Hint[s][n]: freshness hint of generation n of s, Null if empty
  Null

ASSUME ProjectionAssumption ==
  /\ MaxGen \in Nat /\ MaxAttempts \in Nat /\ MaxFaults \in Nat /\ MaxOps \in Nat
  /\ Redelivery \in BOOLEAN
  /\ Null \notin Scopes

VARIABLES
  gens,                 \* scope_generations: gens[s][n], the status of generation n of s
  scopes,               \* ingestion_scopes: active generation (0 for NULL) and status
  work,                 \* fact_work_items of stage projector
  order,                \* pairs of work item ids, the first with the older updated_at
  wk,                   \* what each worker is doing
  graph,                \* graph[s]: the generation whose rewrite of the canonical graph
                        \* was finished last, 0 if one was begun since
  projected,            \* generations whose graph, content and reducer intents were written
  overlapped,           \* scopes of which two workers have held items at the same time
  faults, ops,
  checked               \* deliveries that passed the unchanged check, not committed yet

tables == <<gens, scopes, work>>
vars == <<gens, scopes, work, order, wk, graph, projected, overlapped, faults, ops, checked>>

GenNo == 1 .. MaxGen
WorkIds == [scope : Scopes, gen : GenNo, kind : {"projector", "refinalize"}]
WorkStatus == {"absent", "pending", "retrying", "claimed", "succeeded", "dead_letter"}

\* A worker between two items.  claim: row its uncommitted claim has locked;
\* scope, gen, attempt: its claimed item; sup: generations its Ack supersedes.
IdleWorker == [pc |-> "idle", claim |-> Null, scope |-> Null, gen |-> 0, attempt |-> 0,
               sup |-> {}]

Init ==
  /\ gens = [s \in Scopes |-> [n \in GenNo |-> "absent"]]
  /\ scopes = [s \in Scopes |-> [active |-> 0, status |-> "absent"]]
  /\ work = [x \in WorkIds |-> [status |-> "absent", attempts |-> 0, owner |-> Null,
                                visible |-> FALSE, lapsed |-> FALSE]]
  /\ order = {}
  /\ wk = [w \in Workers |-> IdleWorker]
  /\ graph = [s \in Scopes |-> 0]
  /\ projected = {}
  /\ overlapped = {}
  /\ faults = 0
  /\ ops = 0
  /\ checked = {}

-----------------------------------------------------------------------------
(* Helpers.                                                                *)

Fault == faults < MaxFaults /\ faults' = faults + 1
Op == ops < MaxOps /\ ops' = ops + 1

\* order after the rows S were updated by one statement: they are the latest
\* now, and share a timestamp.
Touched(S) == {e \in order : e[1] \notin S /\ e[2] \notin S} \union ((WorkIds \ S) \X S)

RowLocked(x) == \E w \in Workers : wk[w].claim = x

\* The rows the heartbeat, ack and fail statements of w match: found by
\* scope, generation and lease owner, not by work item id.
MatchedRows(w) ==
  {x \in WorkIds : /\ x.scope = wk[w].scope /\ x.gen = wk[w].gen
                   /\ work[x].status = "claimed" /\ work[x].owner = LeaseOwner[w]}

UpdateRows(S, Row(_)) == [x \in WorkIds |-> IF x \in S THEN Row(work[x]) ELSE work[x]]

FreeRow(status, attempts, visible) ==
  [status |-> status, attempts |-> attempts, owner |-> Null, visible |-> visible, lapsed |-> FALSE]

-----------------------------------------------------------------------------
(* IngestionStore.CommitScopeGeneration: the unchanged check is a query of *)
(* its own, before the transaction that writes scope, generation, facts    *)
(* and the projector work item (ON CONFLICT DO NOTHING).                   *)

\* The generations a collector may deliver: the next one, and again one whose
\* CompleteClaim was lost, since a work item names the generation it is for.
Deliverable(s) ==
  {n \in GenNo : /\ gens[s][n] # "absent" => Redelivery
                 /\ \A k \in 1 .. n - 1 : gens[s][k] # "absent"}

\* The delivery has a hint, and it is that of the active generation.
shouldSkipUnchangedGeneration(s, n) ==
  Hint[s][n] # Null /\ scopes[s].active # 0 /\ Hint[s][scopes[s].active] = Hint[s][n]

\* A delivery that is skipped leaves nothing behind.
CheckFreshness(s, n) ==
  /\ n \in Deliverable(s)
  /\ ~shouldSkipUnchangedGeneration(s, n)
  /\ checked' = checked \union {<<s, n>>}
  /\ UNCHANGED <<tables, order, wk, graph, projected, overlapped, faults, ops>>

\* The transaction of a delivery that was checked, possibly long before.
CommitScopeGeneration(s, n) ==
  LET x == [scope |-> s, gen |-> n, kind |-> "projector"]
  IN /\ <<s, n>> \in checked /\ n \in Deliverable(s)
     /\ checked' = checked \ {<<s, n>>}
     /\ gens' = [gens EXCEPT ![s][n] = "pending"]
     /\ scopes' = [scopes EXCEPT ![s].status = IF scopes[s].active # 0 THEN @ ELSE "pending"]
     /\ IF work[x].status = "absent"
          THEN work' = [work EXCEPT ![x] = FreeRow("pending", 0, TRUE)] /\ order' = Touched({x})
          ELSE UNCHANGED <<work, order>>
     /\ UNCHANGED <<wk, graph, projected, overlapped, faults, ops>>

-----------------------------------------------------------------------------
(* ProjectorQueue.Claim.                                                   *)

\* Fault variant: a claimed row is never taken over.
UnleasedIfUnclaimed(x) == work[x].status \in {"pending", "retrying"}

\* claim_until is NULL, or has passed.
Unleased(x) == \/ work[x].status \in {"pending", "retrying"}
               \/ work[x].status = "claimed" /\ work[x].lapsed

\* Another item of the scope is in flight under a live lease.
ScopeBusy(x) == \E y \in WorkIds : /\ y.scope = x.scope /\ y # x
                                   /\ work[y].status = "claimed" /\ ~work[y].lapsed

Candidate(x) == Unleased(x) /\ work[x].visible /\ ~ScopeBusy(x)

\* The oldest candidate that no other claim has locked is read and locked.
\* Which of several with one timestamp comes first is left open.
ClaimSelect(w) ==
  /\ wk[w].pc = "idle"
  /\ \E x \in WorkIds :
       /\ Candidate(x) /\ ~RowLocked(x)
       /\ \A y \in WorkIds : Candidate(y) /\ ~RowLocked(y) => <<y, x>> \notin order
       /\ wk' = [wk EXCEPT ![w].pc = "claiming", ![w].claim = x]
  /\ UNCHANGED <<tables, order, graph, projected, overlapped, faults, ops, checked>>

ClaimCommit(w) ==
  LET x == wk[w].claim
      n == work[x].attempts + 1
  IN /\ wk[w].pc = "claiming"
     /\ work' = [work EXCEPT ![x] = [status |-> "claimed", attempts |-> n,
                                     owner |-> LeaseOwner[w], visible |-> TRUE,
                                     lapsed |-> FALSE]]
     /\ order' = Touched({x})
     /\ wk' = [wk EXCEPT ![w] = [pc |-> "claimed", claim |-> Null, scope |-> x.scope,
                                 gen |-> x.gen, attempt |-> n, sup |-> {}]]
     /\ overlapped' = IF \E v \in Workers : wk[v].scope = x.scope THEN overlapped \union {x.scope}
                      ELSE overlapped
     /\ UNCHANGED <<gens, scopes, graph, projected, faults, ops, checked>>

-----------------------------------------------------------------------------
(* Service.processWork.                                                    *)

\* LoadFacts is done and Runtime.Project starts to rewrite the canonical graph.
StartWriting(w) ==
  /\ wk[w].pc = "claimed"
  /\ wk' = [wk EXCEPT ![w].pc = "writing"]
  /\ graph' = [graph EXCEPT ![wk[w].scope] = 0]
  /\ UNCHANGED <<tables, order, projected, overlapped, faults, ops, checked>>

\* Project is done: graph, content and reducer intents are written.
FinishWriting(w) ==
  /\ wk[w].pc = "writing"
  /\ wk' = [wk EXCEPT ![w].pc = "projected"]
  /\ graph' = [graph EXCEPT ![wk[w].scope] = wk[w].gen]
  /\ projected' = projected \union {<<wk[w].scope, wk[w].gen>>}
  /\ UNCHANGED <<tables, order, overlapped, faults, ops, checked>>

\* The heartbeat goroutine, until stopHeartbeat waits for it before the Ack.
\* A rejection cancels the projection; processWork returns without Ack or Fail.
Heartbeat(w) ==
  /\ wk[w].pc \in {"claimed", "writing", "projected"}
  /\ \A x \in MatchedRows(w) : ~RowLocked(x)
  /\ IF MatchedRows(w) # {}
       THEN /\ work' = UpdateRows(MatchedRows(w), LAMBDA r : [r EXCEPT !.lapsed = FALSE])
            /\ order' = Touched(MatchedRows(w))
            /\ UNCHANGED wk
       ELSE wk' = [wk EXCEPT ![w] = IdleWorker] /\ UNCHANGED <<work, order>>
  /\ UNCHANGED <<gens, scopes, graph, projected, overlapped, faults, ops, checked>>

\* Fault variants: the item gets the status of a failed generation; only the
\* item is updated; the scope keeps pointing at the generation.
FailIntoFailed(w, retryable) ==
  /\ \A x \in MatchedRows(w) : ~RowLocked(x)
  /\ work' = UpdateRows(MatchedRows(w), LAMBDA r : FreeRow("failed", r.attempts, FALSE))
  /\ order' = Touched(MatchedRows(w))
  /\ UNCHANGED <<gens, scopes>>

FailItemOnly(w, retryable) ==
  /\ \A x \in MatchedRows(w) : ~RowLocked(x)
  /\ work' = UpdateRows(MatchedRows(w), LAMBDA r : FreeRow("dead_letter", r.attempts, FALSE))
  /\ order' = Touched(MatchedRows(w))
  /\ UNCHANGED <<gens, scopes>>

FailKeepsPointer(w, retryable) ==
  /\ \A x \in MatchedRows(w) : ~RowLocked(x)
  /\ work' = UpdateRows(MatchedRows(w), LAMBDA r : FreeRow("dead_letter", r.attempts, FALSE))
  /\ order' = Touched(MatchedRows(w))
  /\ gens' = [gens EXCEPT ![wk[w].scope][wk[w].gen] = "failed"]
  /\ UNCHANGED scopes

\* ProjectorQueue.Fail: a retryable cause with attempts left goes back to the
\* queue.  Otherwise generation and scope are failed, whoever owns the item
\* by now; only the item itself is looked up by lease owner.
Fail(w, retryable) ==
  LET s == wk[w].scope
      n == wk[w].gen
      rows == MatchedRows(w)
      retry == retryable /\ wk[w].attempt < MaxAttempts
  IN /\ \A x \in rows : ~RowLocked(x)
     /\ work' = IF retry
                  THEN UpdateRows(rows, LAMBDA r : FreeRow("retrying", r.attempts, FALSE))
                  ELSE UpdateRows(rows, LAMBDA r : FreeRow("dead_letter", r.attempts, FALSE))
     /\ order' = Touched(rows)
     /\ IF retry
          THEN UNCHANGED <<gens, scopes>>
          ELSE /\ gens' = [gens EXCEPT ![s][n] = IF @ \in {"pending", "active"} THEN "failed" ELSE @]
               /\ scopes' = [scopes EXCEPT ![s] =
                    [active |-> IF @.active = n THEN 0 ELSE @.active,
                     status |-> IF @.active \in {n, 0} THEN "failed" ELSE @.status]]

ProjectionFails(w) ==
  /\ wk[w].pc \in {"claimed", "writing"}
  /\ \E retryable \in BOOLEAN : Fail(w, retryable)
  /\ wk' = [wk EXCEPT ![w] = IdleWorker]
  /\ Fault
  /\ UNCHANGED <<graph, projected, overlapped, ops, checked>>

\* Fault variant: the Ack does not wait for Project.
AckBeginEarly(w) ==
  /\ wk[w].pc \in {"writing", "projected"}
  /\ wk' = [wk EXCEPT ![w].pc = "acking",
                      ![w].sup = {k \in GenNo : k # wk[w].gen /\ gens[wk[w].scope][k] = "active"}]
  /\ UNCHANGED <<tables, order, graph, projected, overlapped, faults, ops, checked>>

\* ProjectorQueue.Ack, first statement: the other active generations.
AckBegin(w) ==
  /\ wk[w].pc = "projected"
  /\ wk' = [wk EXCEPT ![w].pc = "acking",
                      ![w].sup = {k \in GenNo : k # wk[w].gen /\ gens[wk[w].scope][k] = "active"}]
  /\ UNCHANGED <<tables, order, graph, projected, overlapped, faults, ops, checked>>

\* Fault variants: the older generation stays active; the scope row is left
\* as it was.
AckWithoutSupersede(w) ==
  /\ wk[w].pc = "acking" /\ \A x \in MatchedRows(w) : ~RowLocked(x)
  /\ gens' = [gens EXCEPT ![wk[w].scope][wk[w].gen] = "active"]
  /\ scopes' = [scopes EXCEPT ![wk[w].scope] = [active |-> wk[w].gen, status |-> "active"]]
  /\ work' = UpdateRows(MatchedRows(w), LAMBDA r : FreeRow("succeeded", r.attempts, FALSE))
  /\ order' = Touched(MatchedRows(w))
  /\ wk' = [wk EXCEPT ![w] = IdleWorker]
  /\ UNCHANGED <<graph, projected, overlapped, faults, ops, checked>>

AckKeepsScope(w) ==
  /\ wk[w].pc = "acking" /\ \A x \in MatchedRows(w) : ~RowLocked(x)
  /\ gens' = [gens EXCEPT ![wk[w].scope] = [k \in GenNo |->
                IF k = wk[w].gen THEN "active" ELSE IF k \in wk[w].sup THEN "superseded" ELSE @[k]]]
  /\ work' = UpdateRows(MatchedRows(w), LAMBDA r : FreeRow("succeeded", r.attempts, FALSE))
  /\ order' = Touched(MatchedRows(w))
  /\ wk' = [wk EXCEPT ![w] = IdleWorker]
  /\ UNCHANGED <<scopes, graph, projected, overlapped, faults, ops, checked>>

\* The rest of the transaction.  No statement checks how many rows it matched.
AckCommit(w) ==
  LET s == wk[w].scope
      n == wk[w].gen
      rows == MatchedRows(w)
  IN /\ wk[w].pc = "acking"
     /\ \A x \in rows : ~RowLocked(x)
     /\ gens' = [gens EXCEPT ![s] = [k \in GenNo |->
                   IF k = n THEN "active"
                   ELSE IF k \in wk[w].sup /\ @[k] = "active" THEN "superseded" ELSE @[k]]]
     /\ scopes' = [scopes EXCEPT ![s] = [active |-> n, status |-> "active"]]
     /\ work' = UpdateRows(rows, LAMBDA r : FreeRow("succeeded", r.attempts, FALSE))
     /\ order' = Touched(rows)
     /\ wk' = [wk EXCEPT ![w] = IdleWorker]
     /\ UNCHANGED <<graph, projected, overlapped, faults, ops, checked>>

\* Crash, shutdown or a database error: open transactions roll back, the item
\* stays claimed until its lease lapses.
Abandon(w) ==
  /\ wk[w].pc # "idle"
  /\ wk' = [wk EXCEPT ![w] = IdleWorker]
  /\ Fault
  /\ UNCHANGED <<tables, order, graph, projected, overlapped, ops, checked>>

-----------------------------------------------------------------------------
(* Operators: recovery.Handler.                                            *)

\* The items of some scopes that a replay of the projector stage finds: all of
\* them, since filter.Limit only cuts the list of ids that is returned.
ReplayRows(S) == {x \in WorkIds : x.scope \in S /\ work[x].status = "dead_letter"}

ReplayFailed(S) ==
  /\ ReplayRows(S) # {}
  /\ work' = UpdateRows(ReplayRows(S), LAMBDA r : FreeRow("pending", 0, TRUE))
  /\ order' = Touched(ReplayRows(S))
  /\ Op
  /\ UNCHANGED <<gens, scopes, wk, graph, projected, overlapped, faults, checked>>

\* Re-projects the active generation; an existing item is reset even while a
\* worker holds it.
Refinalize(s) ==
  LET x == [scope |-> s, gen |-> scopes[s].active, kind |-> "refinalize"]
  IN /\ scopes[s].active # 0 /\ scopes[s].status = "active"
     /\ ~RowLocked(x)
     /\ work' = [work EXCEPT ![x] = FreeRow("pending", 0, TRUE)]
     /\ order' = Touched({x})
     /\ Op
     /\ UNCHANGED <<gens, scopes, wk, graph, projected, overlapped, faults, checked>>

-----------------------------------------------------------------------------
(* Time.                                                                   *)

\* A live worker holds the claim that x's row records.
Attended(x) == \E w \in Workers : /\ wk[w].scope = x.scope /\ wk[w].gen = x.gen
                                  /\ wk[w].attempt = work[x].attempts

\* The lease of an attended row lapses only when heartbeats are missed.
Lapse(x) ==
  /\ work[x].status = "claimed" /\ ~work[x].lapsed
  /\ work' = [work EXCEPT ![x].lapsed = TRUE]
  /\ IF Attended(x) THEN Fault ELSE UNCHANGED faults
  /\ UNCHANGED <<gens, scopes, order, wk, graph, projected, overlapped, ops, checked>>

Visible(x) ==
  /\ work[x].status = "retrying" /\ ~work[x].visible
  /\ work' = [work EXCEPT ![x].visible = TRUE]
  /\ UNCHANGED <<gens, scopes, order, wk, graph, projected, overlapped, faults, ops, checked>>

-----------------------------------------------------------------------------
Progress(w) ==
  \/ ClaimSelect(w) \/ ClaimCommit(w) \/ StartWriting(w) \/ FinishWriting(w)
  \/ AckBegin(w) \/ AckCommit(w)

Next ==
  \/ \E s \in Scopes, n \in GenNo : CheckFreshness(s, n) \/ CommitScopeGeneration(s, n)
  \/ \E s \in Scopes : Refinalize(s)
  \/ \E S \in SUBSET Scopes : ReplayFailed(S)
  \/ \E w \in Workers : Progress(w) \/ Heartbeat(w) \/ ProjectionFails(w) \/ Abandon(w)
  \/ \E x \in WorkIds : Lapse(x) \/ Visible(x)

Spec == Init /\ [][Next]_vars

(* Workers poll, restarted processes poll again, time passes.              *)
Fairness ==
  /\ \A w \in Workers : WF_vars(Progress(w)) /\ WF_vars(Heartbeat(w))
  /\ \A x \in WorkIds : WF_vars(~Attended(x) /\ Lapse(x)) /\ WF_vars(Visible(x))

FairSpec == Spec /\ Fairness

-----------------------------------------------------------------------------
(* Properties.                                                             *)

\* The tables and the workers hold what the schema and processWork allow.
TypeOK ==
  /\ gens \in [Scopes -> [GenNo -> {"absent", "pending", "active", "superseded", "failed"}]]
  /\ scopes \in [Scopes -> [active : 0 .. MaxGen,
                            status : {"absent", "pending", "active", "failed"}]]
  /\ work \in [WorkIds -> [status : WorkStatus, attempts : Nat,
                           owner : {LeaseOwner[w] : w \in Workers} \union {Null},
                           visible : BOOLEAN, lapsed : BOOLEAN]]
  /\ order \subseteq WorkIds \X WorkIds
  /\ wk \in [Workers -> [pc : {"idle", "claiming", "claimed", "writing", "projected", "acking"},
                         claim : WorkIds \union {Null}, scope : Scopes \union {Null},
                         gen : 0 .. MaxGen, attempt : Nat, sup : SUBSET GenNo]]
  /\ graph \in [Scopes -> 0 .. MaxGen]
  /\ projected \subseteq Scopes \X GenNo
  /\ overlapped \subseteq Scopes
  /\ faults \in 0 .. MaxFaults /\ ops \in 0 .. MaxOps
  /\ checked \subseteq Scopes \X GenNo

\* Readers are never pointed at a generation whose graph, content or reducer
\* intents were not completely written, whatever crashed, failed or was
\* replayed on the way, and however many workers held it.
ActiveIsProjected ==
  \A s \in Scopes : scopes[s].active # 0 => <<s, scopes[s].active>> \in projected

\* The denormalised active_generation_id of a scope and the status column of
\* that generation agree, also under overlapping Acks and stale Fails.
ActivePointerAgrees ==
  \A s \in Scopes : scopes[s].active # 0 =>
    gens[s][scopes[s].active] = "active" /\ scopes[s].status = "active"

\* A generation is never stranded: as long as it is pending, a work item of
\* its own is still going to be tried.
PendingHasWork ==
  \A s \in Scopes, n \in GenNo : gens[s][n] = "pending" =>
    \E x \in WorkIds : x.scope = s /\ x.gen = n
                       /\ work[x].status \in {"pending", "retrying", "claimed"}

\* As long as no two workers have held items of one scope at the same time,
\* every crash, retry, replay and re-run of an Ack, by whichever worker,
\* leaves the scope with at most one active generation.
OneActiveGeneration ==
  \A s \in Scopes \ overlapped, k, n \in GenNo :
    gens[s][k] = "active" /\ gens[s][n] = "active" => k = n

Open(s) == {x \in WorkIds : x.scope = s /\ work[x].status \in {"pending", "retrying", "claimed"}}
DeadLetters(s) == {x \in WorkIds : x.scope = s /\ work[x].status = "dead_letter"}
Quiet(s) == Open(s) = {} /\ \A w \in Workers : wk[w].scope # s

\* Likewise: once a scope has nothing left to do and nothing was given up on,
\* the canonical graph is complete and is that of the generation readers are
\* told is active, although workers took over from one another.
QuietGraphIsActive ==
  \A s \in Scopes \ overlapped : Quiet(s) /\ DeadLetters(s) = {} => graph[s] = scopes[s].active

\* Every work item is eventually done or dead-lettered, when faults are
\* finitely many: no crash and no lost lease blocks an item, or the later
\* items of its scope, for ever.
WorkSettles ==
  \A x \in WorkIds : work[x].status \in {"pending", "retrying", "claimed"} ~>
                     work[x].status \in {"succeeded", "dead_letter"}

-----------------------------------------------------------------------------
(* What the repository says of this code and the code does not keep.       *)

\* "same-scope generations must not overlap destructive graph rewrite phases".
NoOverlappingRewrites ==
  \A v, w \in Workers :
    /\ wk[v].pc = "writing" /\ wk[w].pc = "writing"
    /\ wk[v].scope = wk[w].scope
    => wk[v].gen = wk[w].gen
=============================================================================
