--------------------------- MODULE BootstrapIndex ---------------------------
(***************************************************************************)
(* The pipeline of pcg-bootstrap-index (go/cmd/bootstrap-index/main.go):   *)
(* one goroutine collects, a pool of workers projects what it committed,   *)
(* and main waits for both to run the corpus-wide passes: the deferred     *)
(* relationship backfill, the reachability pass, and the reopening of      *)
(* deployment mappings that reducers finished while the backfill's         *)
(* readiness gate was closed.                                              *)
(*                                                                         *)
(* Main cannot tell which goroutine a result on errc came from: it takes   *)
(* the first for the collector's.  Workers leave when they have seen the   *)
(* queue empty MaxEmptyPolls times, counted together, after collectorDone  *)
(* was closed.  The reducers are another process; of them only the         *)
(* deployment mapping is kept.  Claims, leases and activation are those of *)
(* module ScopeProjection, here with one generation per scope and leases   *)
(* renewed in time.                                                        *)
(***************************************************************************)
EXTENDS Naturals, Sequences, FiniteSets

CONSTANTS
  Scopes,               \* the repositories' scopes
  Selections,           \* the sets of scopes a run may collect
  Workers,              \* PCG_PROJECTION_WORKERS
  MaxEmptyPolls,        \* maxEmptyPolls
  MaxFaults             \* bound: calls that fail

ASSUME BootstrapAssumption ==
  /\ Workers # {} /\ MaxEmptyPolls \in Nat /\ MaxEmptyPolls > 1
  /\ MaxFaults \in Nat /\ Selections \subseteq SUBSET Scopes

ASSUME PoolAssumption == IsFiniteSet(Workers)

VARIABLES
  selected,             \* scopes this run collects; the others have items left by an earlier run
  foreign,              \* those of them whose item is under the lease of another process
  older,                \* scopes that had an active generation before this run
  item,                 \* projector work item of the scope's newest generation
  active,               \* scopes whose newest generation is the active one
  ready,                \* scopes whose newest generation has backward evidence readiness
  mapping,              \* its deployment_mapping item: absent, pending, running or
                        \* succeeded, and the gate as its last handler found it
  collector,            \* where the collector goroutine is
  collected,            \* what drainCollector returned: ok, failed, or none yet
  collectorDone,        \* the channel collectorDone is closed
  errc,                 \* results sent and not received
  main,                 \* where runPipelined is
  cancelled,            \* main called cancel
  stopped,              \* a worker cancelled the pool, by returning an error
  worker,               \* what each worker does, and with which item
  empties,              \* emptyCount
  noted,                \* repoGenerations: scopes whose newest generation the backfill loaded
  todo,                 \* ids the reopen pass listed and has not updated
  stragglers,           \* mappings whose handler was running, past a closed gate, at the listing
  faults                \* what is left of MaxFaults

collecting == <<collector, collected, collectorDone>>
pool == <<worker, empties, stopped>>
pass == <<noted, todo, stragglers, ready>>
fixed == <<selected, foreign, older>>
vars == <<fixed, item, active, mapping, collecting, errc, main, cancelled, pool, pass, faults>>

Resting == [pc |-> "claim", scope |-> {}]

\* The run that left an item behind may have projected it, without an Ack.
Init ==
  /\ selected \in Selections /\ foreign \in SUBSET (Scopes \ selected)
  /\ older \in SUBSET Scopes
  /\ item = [s \in Scopes |-> IF s \in selected THEN "absent" ELSE IF s \in foreign THEN "held" ELSE "pending"]
  /\ active = {} /\ ready = {}
  /\ \E enqueued \in SUBSET (Scopes \ selected) :
       mapping = [s \in Scopes |->
                    [status |-> IF s \in enqueued THEN "pending" ELSE "absent", gate |-> "unread"]]
  /\ collector = "collecting" /\ collected = "none" /\ collectorDone = FALSE
  /\ errc = <<>> /\ main = "first" /\ cancelled = FALSE
  /\ worker = [w \in Workers |-> Resting] /\ empties = 0 /\ stopped = FALSE
  /\ noted = {} /\ todo = {} /\ stragglers = {} /\ faults = MaxFaults

\* A call fails: for a reason of its own, or because its context is cancelled.
Fails(ctxDone) ==
  \/ ctxDone /\ UNCHANGED faults
  \/ ~ctxDone /\ faults > 0 /\ faults' = faults - 1

-----------------------------------------------------------------------------
(* The collector goroutine.                                                *)

CommitScopeGeneration(s) ==
  /\ collector = "collecting" /\ ~cancelled
  /\ s \in selected /\ item[s] = "absent"
  /\ item' = [item EXCEPT ![s] = "pending"]
  /\ UNCHANGED <<fixed, active, mapping, collecting, errc, main, cancelled, pool, pass, faults>>

\* drainCollector returns.
CollectorReturns(res) ==
  /\ collector = "collecting"
  /\ IF res = "ok" THEN (\A s \in selected : item[s] # "absent") /\ UNCHANGED faults
     ELSE Fails(cancelled)
  /\ collected' = res
  /\ collector' = "returned"
  /\ UNCHANGED <<fixed, item, active, mapping, collectorDone, errc, main, cancelled, pool, pass>>

SendsResult(from, to) ==
  /\ collector = from /\ collector' = to
  /\ errc' = Append(errc, collected) /\ UNCHANGED collectorDone

ClosesDone(from, to) ==
  /\ collector = from /\ collector' = to
  /\ collectorDone' = TRUE /\ UNCHANGED errc

\* Fault variant: collectorDone is closed before the result is sent.
CollectorClosesFirst ==
  /\ ClosesDone("returned", "signalling") \/ SendsResult("signalling", "exited")
  /\ UNCHANGED <<fixed, item, active, mapping, collected, main, cancelled, pool, pass, faults>>

\* The result is sent; collectorDone is closed after it, by the deferred call.
CollectorSignals ==
  /\ SendsResult("returned", "signalling") \/ ClosesDone("signalling", "exited")
  /\ UNCHANGED <<fixed, item, active, mapping, collected, main, cancelled, pool, pass, faults>>

-----------------------------------------------------------------------------
(* The projection workers.                                                 *)

CtxDone == cancelled \/ stopped

\* inner.Claim: a claim resets the count.
Claim(w, s) ==
  /\ worker[w].pc = "claim" /\ ~CtxDone
  /\ item[s] = "pending"
  /\ item' = [item EXCEPT ![s] = "claimed"]
  /\ worker' = [worker EXCEPT ![w] = [pc |-> "working", scope |-> {s}]]
  /\ empties' = 0
  /\ UNCHANGED <<fixed, active, mapping, collecting, errc, main, cancelled, stopped, pass, faults>>

ClaimNothing(w) ==
  /\ worker[w].pc = "claim" /\ ~CtxDone
  /\ \A s \in Scopes : item[s] # "pending"
  /\ worker' = [worker EXCEPT ![w].pc = "empty"]
  /\ UNCHANGED <<fixed, item, active, mapping, collecting, errc, main, cancelled, empties, stopped,
                 pass, faults>>

\* Worker w counts n empty polls and leaves, or polls again.
Counts(w, n, leaves) ==
  /\ worker[w].pc = "empty"
  /\ empties' = n
  /\ worker' = [worker EXCEPT ![w].pc = IF leaves THEN "gone" ELSE "claim"]
  /\ UNCHANGED <<fixed, item, active, mapping, collecting, errc, main, cancelled, stopped, pass, faults>>

\* Fault variants: the first empty poll after the collector ends the worker;
\* a count that passed the limit does not.
CountEmptyOnce(w) == Counts(w, 0, collectorDone)

CountEmptyExactly(w) ==
  LET n == IF empties > MaxEmptyPolls THEN empties ELSE empties + 1
  IN IF collectorDone THEN Counts(w, n, n = MaxEmptyPolls) ELSE Counts(w, 0, FALSE)

\* The collector may have finished after the claim came back empty.
CountEmpty(w) ==
  IF collectorDone THEN Counts(w, empties + 1, empties + 1 >= MaxEmptyPolls) ELSE Counts(w, 0, FALSE)

\* Project writes the graph and enqueues the reducer items of the generation.
Project(w) ==
  /\ worker[w].pc = "working" /\ ~CtxDone
  /\ mapping' = [s \in Scopes |-> IF s \in worker[w].scope /\ mapping[s].status = "absent"
                                  THEN [mapping[s] EXCEPT !.status = "pending"] ELSE mapping[s]]
  /\ worker' = [worker EXCEPT ![w].pc = "projected"]
  /\ UNCHANGED <<fixed, item, active, collecting, errc, main, cancelled, empties, stopped, pass, faults>>

Ack(w) ==
  /\ worker[w].pc = "projected" /\ ~CtxDone
  /\ item' = [s \in Scopes |-> IF s \in worker[w].scope THEN "succeeded" ELSE item[s]]
  /\ active' = active \union worker[w].scope
  /\ worker' = [worker EXCEPT ![w] = Resting]
  /\ UNCHANGED <<fixed, mapping, collecting, errc, main, cancelled, empties, stopped, pass, faults>>

\* Fault variant: a worker sends its error itself.
WorkerFailsAndSends(w) ==
  /\ worker[w].pc \in {"claim", "working", "projected"} /\ Fails(CtxDone)
  /\ worker' = [worker EXCEPT ![w] = [pc |-> "failed", scope |-> {}]]
  /\ item' = [s \in Scopes |-> IF s \in worker[w].scope THEN "held" ELSE item[s]]
  /\ stopped' = TRUE /\ errc' = Append(errc, "failed")
  /\ UNCHANGED <<fixed, active, mapping, collecting, main, cancelled, empties, pass>>

\* A claim, the facts, the projection, the heartbeat or the ack fails: the
\* pool is cancelled and the item keeps its lease; Fail is never called.
WorkerFails(w) ==
  /\ worker[w].pc \in {"claim", "working", "projected"} /\ Fails(CtxDone)
  /\ worker' = [worker EXCEPT ![w] = [pc |-> "failed", scope |-> {}]]
  /\ item' = [s \in Scopes |-> IF s \in worker[w].scope THEN "held" ELSE item[s]]
  /\ stopped' = TRUE
  /\ UNCHANGED <<fixed, active, mapping, collecting, errc, main, cancelled, empties, pass>>

\* Between two items a worker of a cancelled pool leaves without an error; the
\* single worker of drainProjectorSequential does not look.  (A worker that
\* waits between two empty polls returns the context's error instead; here it
\* may do either.)
WorkerLeaves(w) ==
  /\ worker[w].pc = "claim" /\ CtxDone /\ Cardinality(Workers) > 1
  /\ worker' = [worker EXCEPT ![w].pc = "gone"]
  /\ UNCHANGED <<fixed, item, active, mapping, collecting, errc, main, cancelled, empties, stopped,
                 pass, faults>>

Left(w) == worker[w].pc \in {"gone", "failed"}

\* Fault variant: the pool does not wait for all of its workers.
ProjectorReturnsOnFirst ==
  /\ \E w \in Workers : Left(w) /\ \A v \in Workers : worker[v].pc # "returned"
  /\ errc' = Append(errc, IF \E w \in Workers : worker[w].pc = "failed" THEN "failed" ELSE "ok")
  /\ worker' = [w \in Workers |-> IF Left(w) THEN [Resting EXCEPT !.pc = "returned"] ELSE worker[w]]
  /\ UNCHANGED <<fixed, item, active, mapping, collecting, main, cancelled, empties, stopped, pass, faults>>

\* drainProjector, after wg.Wait.
ProjectorReturns ==
  /\ \A w \in Workers : Left(w)
  /\ errc' = Append(errc, IF \E w \in Workers : worker[w].pc = "failed" THEN "failed" ELSE "ok")
  /\ worker' = [w \in Workers |-> [Resting EXCEPT !.pc = "returned"]]
  /\ UNCHANGED <<fixed, item, active, mapping, collecting, main, cancelled, empties, stopped, pass, faults>>

\* The lease an earlier process left runs out.
LeaseExpires(s) ==
  /\ item[s] = "held"
  /\ item' = [item EXCEPT ![s] = "pending"]
  /\ UNCHANGED <<fixed, active, mapping, collecting, errc, main, cancelled, pool, pass, faults>>

-----------------------------------------------------------------------------
(* runPipelined.                                                           *)

Ended == main \in {"succeeded", "failed"}

MainMoves(from, to) == main = from /\ main' = to

\* The first result is taken for the collector's; a failure cancels the rest.
ReceiveFirst ==
  /\ errc # <<>> /\ errc' = Tail(errc)
  /\ MainMoves("first", IF Head(errc) = "ok" THEN "backfill" ELSE "failing")
  /\ cancelled' = (Head(errc) # "ok")
  /\ UNCHANGED <<fixed, item, active, mapping, collecting, pool, pass, faults>>

\* BackfillAllRelationshipEvidence.  First the generations are loaded: the
\* active one of a scope, or the newest when none is active.
LoadGenerations ==
  /\ MainMoves("backfill", "publish")
  /\ noted' = {s \in Scopes : item[s] # "absent" /\ (s \in active \/ s \notin older)}
  /\ UNCHANGED <<fixed, item, active, mapping, collecting, errc, cancelled, pool, todo, stragglers, ready, faults>>

\* Fault variant: readiness is published for active generations only.
PublishActive ==
  /\ MainMoves("publish", "second")
  /\ ready' = ready \union (noted \intersect active)
  /\ UNCHANGED <<fixed, item, active, mapping, collecting, errc, cancelled, pool, noted, todo, stragglers, faults>>

\* Then the evidence is stored, and readiness published, for those.
PublishReadiness ==
  /\ MainMoves("publish", "second")
  /\ ready' = ready \union noted
  /\ UNCHANGED <<fixed, item, active, mapping, collecting, errc, cancelled, pool, noted, todo, stragglers, faults>>

BackfillFails ==
  /\ \E from \in {"backfill", "publish"} : MainMoves(from, "failing")
  /\ Fails(FALSE)
  /\ cancelled' = TRUE
  /\ UNCHANGED <<fixed, item, active, mapping, collecting, errc, pool, pass>>

\* The second result: the projector's, unless the pipeline is failing.
ReceiveSecond ==
  /\ errc # <<>> /\ errc' = Tail(errc)
  /\ \/ MainMoves("second", IF Head(errc) = "ok" THEN "iac" ELSE "failed")
     \/ MainMoves("failing", "failed")
  /\ UNCHANGED <<fixed, item, active, mapping, collecting, cancelled, pool, pass, faults>>

MaterializeIaCReachability ==
  /\ MainMoves("iac", "list")
  /\ UNCHANGED <<fixed, item, active, mapping, collecting, errc, cancelled, pool, pass, faults>>

\* ReopenDeploymentMappingWorkItems lists the succeeded rows ...
ListSucceeded ==
  /\ MainMoves("list", "reopen")
  /\ todo' = {s \in Scopes : mapping[s].status = "succeeded"}
  /\ stragglers' = {s \in Scopes : mapping[s].status = "running" /\ mapping[s].gate # "open"}
  /\ UNCHANGED <<fixed, item, active, mapping, collecting, errc, cancelled, pool, noted, ready, faults>>

\* ... and reopens them one by one, each if it still is succeeded.
ReopenSucceeded(s) ==
  /\ main = "reopen" /\ s \in todo
  /\ todo' = todo \ {s}
  /\ mapping' = IF mapping[s].status = "succeeded" THEN [mapping EXCEPT ![s].status = "pending"] ELSE mapping
  /\ UNCHANGED <<fixed, item, active, collecting, errc, main, cancelled, pool, noted, stragglers, ready,
                 faults>>

PipelineCompletes ==
  /\ todo = {} /\ MainMoves("reopen", "succeeded")
  /\ UNCHANGED <<fixed, item, active, mapping, collecting, errc, cancelled, pool, pass, faults>>

FinalPassFails ==
  /\ \E from \in {"iac", "list", "reopen"} : MainMoves(from, "failed")
  /\ Fails(FALSE)
  /\ UNCHANGED <<fixed, item, active, mapping, collecting, errc, cancelled, pool, pass>>

-----------------------------------------------------------------------------
(* The reducers.                                                           *)

\* A generation that is not active, while an older one is, is skipped and the
\* item succeeds; otherwise Resolve reads the gate.
HandleMapping(s) ==
  /\ mapping[s].status = "pending"
  /\ mapping' = [mapping EXCEPT ![s] = [status |-> "running", gate |->
       IF s \in older \ active THEN "skipped" ELSE IF s \in ready THEN "open" ELSE "closed"]]
  /\ UNCHANGED <<fixed, item, active, collecting, errc, main, cancelled, pool, pass, faults>>

\* A handler that fails is retried, and only reads the gate again; the retry
\* and the dead letter of a mapping are left out.
AckMapping(s) ==
  /\ mapping[s].status = "running"
  /\ mapping' = [mapping EXCEPT ![s].status = "succeeded"]
  /\ UNCHANGED <<fixed, item, active, collecting, errc, main, cancelled, pool, pass, faults>>

-----------------------------------------------------------------------------
CollectorStep ==
  \/ \E s \in Scopes : CommitScopeGeneration(s)
  \/ \E res \in {"ok", "failed"} : CollectorReturns(res)
  \/ CollectorSignals

WorkerStep(w) ==
  \/ \E s \in Scopes : Claim(w, s)
  \/ ClaimNothing(w) \/ CountEmpty(w) \/ Project(w) \/ Ack(w) \/ WorkerFails(w) \/ WorkerLeaves(w)

MainStep ==
  \/ ReceiveFirst \/ LoadGenerations \/ PublishReadiness \/ BackfillFails \/ ReceiveSecond
  \/ MaterializeIaCReachability \/ ListSucceeded \/ PipelineCompletes \/ FinalPassFails
  \/ \E s \in Scopes : ReopenSucceeded(s)

ReducerStep == \E s \in Scopes : HandleMapping(s) \/ AckMapping(s)

\* The process is gone once main has returned.
Next ==
  \/ ~Ended /\ (CollectorStep \/ (\E w \in Workers : WorkerStep(w)) \/ ProjectorReturns \/ MainStep)
  \/ \E s \in Scopes : LeaseExpires(s)
  \/ ReducerStep

Spec == Init /\ [][Next]_vars

(* Goroutines are scheduled and calls return; a reducer is up.             *)
Fairness ==
  /\ WF_vars(~Ended /\ CollectorStep) /\ WF_vars(~Ended /\ MainStep) /\ WF_vars(~Ended /\ ProjectorReturns)
  /\ \A w \in Workers : WF_vars(~Ended /\ WorkerStep(w))
  /\ WF_vars(ReducerStep)

FairSpec == Spec /\ Fairness

-----------------------------------------------------------------------------
(* Properties.                                                             *)

\* The shapes of the pipeline's state; errc never holds more than the two
\* results it has room for, so that no goroutine blocks on it.
TypeOK ==
  /\ item \in [Scopes -> {"absent", "pending", "claimed", "held", "succeeded"}]
  /\ active \subseteq Scopes /\ ready \subseteq Scopes /\ noted \subseteq Scopes /\ todo \subseteq Scopes
  /\ mapping \in [Scopes -> [status : {"absent", "pending", "running", "succeeded"},
                             gate : {"unread", "skipped", "open", "closed"}]]
  /\ collector \in {"collecting", "returned", "signalling", "exited"} /\ collected \in {"none", "ok", "failed"}
  /\ Len(errc) <= 2
  /\ \A w \in Workers : Cardinality(worker[w].scope) <= 1
  /\ empties \in 0 .. MaxEmptyPolls + Cardinality(Workers)

Passing == main \in {"backfill", "publish", "second", "iac", "list", "reopen", "succeeded"}

\* "Wait for collector to finish first": the corpus-wide backfill only runs
\* over a complete collection, although main cannot tell whose result it
\* received and the pool could return before the collector's result arrives.
BackfillAfterCollection == Passing => collected = "ok"

\* "Wait for the source-local projector to drain before reopening reducer
\* work": no worker is left with an item when the last passes run.
ReopenAfterDrain ==
  main \in {"iac", "list", "reopen", "succeeded"} =>
    \A w \in Workers : worker[w].pc \notin {"working", "projected"}

\* "After collector signals done, drains remaining queue then exits": a run that
\* succeeds has projected every generation it collected or found, although
\* workers count empty polls together, a poll may be older than the last commit
\* and workers leave while others work.  Excepted are items another process
\* had leased: no worker waits for such a lease.
SuccessIsDrained == main = "succeeded" => \A s \in Scopes \ foreign : item[s] = "succeeded"

\* "Items still pending or claimed will naturally see the gate open when they
\* run": once a run has succeeded, no mapping of a generation the backfill
\* loaded stays done behind a closed gate, although reducers read the gate, are
\* reopened and finish at any time.  Excepted are the stragglers the code
\* concedes.  A scope with an older active generation is not loaded until its
\* newest is active, and then nothing opens the gate of the newest.
NoMappingLeftGated ==
  main = "succeeded" => \A s \in noted \ (foreign \union stragglers) :
    mapping[s].status = "pending" \/ mapping[s].gate = "open"

\* Whatever fails, and whoever waits for whom, the pipeline comes to an end.
PipelineEnds == <>Ended
=============================================================================
