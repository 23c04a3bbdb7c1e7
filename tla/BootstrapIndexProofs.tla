------------------------ MODULE BootstrapIndexProofs ------------------------
(***************************************************************************)
(* The safety properties of the bootstrap pipeline, for any number of      *)
(* scopes, any finite pool of workers and any limit of two or more empty   *)
(* polls.                                                                  *)
(*                                                                         *)
(* The inductive invariant of the process has three parts.  Wiring relates *)
(* the goroutines to the channels and flags they set.  Results says, for   *)
(* each place main can be in, which results are on errc and whose they     *)
(* are: that an "ok" main reads first is the collector's.  Draining says   *)
(* that as long as an item can still be claimed some worker is left that   *)
(* will look again: one that is about to claim or works, or, if all are    *)
(* between an empty claim and the count, the first that counts, since the  *)
(* count is still zero.                                                    *)
(*                                                                         *)
(* Two more parts rest on it.  GateInv follows the deployment mappings     *)
(* through the passes and the reducers beside them; BoundsInv bounds errc, *)
(* the items of a worker and the shared count.                             *)
(***************************************************************************)
EXTENDS BootstrapIndex, FiniteSetTheorems, TLAPS

Results == {"ok", "failed"}
WorkerPc == {"claim", "empty", "working", "projected", "gone", "failed", "returned"}
Closing == {"iac", "list", "reopen", "succeeded"}
Backfilling == {"backfill", "publish", "second"}
MainPlace == {"first", "failing", "failed"} \union Backfilling \union Closing

\* The types the proof needs.
Types ==
  /\ selected \subseteq Scopes /\ foreign \subseteq Scopes \ selected
  /\ item \in [Scopes -> {"absent", "pending", "claimed", "held", "succeeded"}]
  /\ worker \in [Workers -> [pc : WorkerPc, scope : SUBSET Scopes]]
  /\ errc \in Seq(Results)
  /\ collector \in {"collecting", "returned", "signalling", "exited"}
  /\ collected \in {"none", "ok", "failed"}
  /\ main \in MainPlace
  /\ cancelled \in BOOLEAN /\ stopped \in BOOLEAN /\ collectorDone \in BOOLEAN
  /\ empties \in Nat

Sent == collector \in {"signalling", "exited"}
AllReturned == \A w \in Workers : worker[w].pc = "returned"

Wiring ==
  /\ collected = "none" <=> collector = "collecting"
  /\ collectorDone <=> collector = "exited"
  /\ \A w \in Workers : worker[w].pc = "returned" => AllReturned
  /\ \A w \in Workers : worker[w].pc = "failed" => stopped
  /\ stopped => AllReturned \/ \E w \in Workers : worker[w].pc = "failed"
  /\ \A w \in Workers : worker[w].pc \in {"gone", "returned"} => collectorDone \/ cancelled \/ stopped
  /\ cancelled => main \in {"failing", "failed"}

\* What is on errc while main waits for the first result, and for the second.
FirstResult ==
  \/ errc = <<>> /\ ~Sent /\ ~AllReturned
  \/ errc = <<collected>> /\ Sent /\ ~AllReturned
  \/ errc = <<"failed">> /\ ~Sent /\ AllReturned
  \/ /\ Len(errc) = 2 /\ Sent /\ AllReturned
     /\ errc[1] = "ok" => collected = "ok" /\ (errc[2] = "ok" => ~stopped)

SecondResult ==
  \/ errc = <<>> /\ ~AllReturned
  \/ Len(errc) = 1 /\ AllReturned /\ (errc[1] = "ok" => ~stopped)

ResultsInv ==
  /\ main = "first" => FirstResult
  /\ main \in Backfilling => collected = "ok" /\ Sent /\ SecondResult
  /\ main \in Closing => collected = "ok" /\ AllReturned /\ ~stopped

Missing == {s \in Scopes \ foreign : item[s] = "pending"}

WillLook ==
  \/ \E w \in Workers : worker[w].pc \in {"claim", "working", "projected"}
  \/ empties = 0 /\ \E w \in Workers : worker[w].pc = "empty"

Draining ==
  /\ \A s \in Scopes : item[s] = "absent" => s \in selected /\ collected # "ok"
  /\ \A s \in Scopes : item[s] = "claimed" =>
       \E w \in Workers : s \in worker[w].scope /\ worker[w].pc \in {"working", "projected"}
  /\ \A s \in Scopes \ foreign : item[s] = "held" => stopped
  /\ ~collectorDone => empties = 0
  /\ collectorDone /\ ~cancelled /\ ~stopped /\ Missing # {} => WillLook

IInv == Types /\ Wiring /\ ResultsInv /\ Draining
-----------------------------------------------------------------------------
(* The steps that matter to the invariant only by what they do to main.    *)

Onward(from, to) ==
  /\ main = from /\ main' = to
  /\ UNCHANGED <<fixed, item, collecting, errc, cancelled, pool>>

MainGoesOn ==
  \/ Onward("backfill", "publish") \/ Onward("publish", "second")
  \/ Onward("iac", "list") \/ Onward("list", "reopen") \/ Onward("reopen", "succeeded")
  \/ \E from \in {"iac", "list", "reopen"} : Onward(from, "failed")

\* A step that main, the collector or a worker does not take.
Aside == UNCHANGED <<fixed, item, collecting, errc, main, cancelled, pool>>

\* Every step is one of these.
Steps ==
  \/ \E s \in Scopes : CommitScopeGeneration(s)
  \/ \E res \in Results : CollectorReturns(res)
  \/ CollectorSignals
  \/ \E w \in Workers, s \in Scopes : Claim(w, s)
  \/ \E w \in Workers : ClaimNothing(w)
  \/ \E w \in Workers : CountEmpty(w)
  \/ \E w \in Workers : Project(w)
  \/ \E w \in Workers : Ack(w)
  \/ \E w \in Workers : WorkerFails(w)
  \/ \E w \in Workers : WorkerLeaves(w)
  \/ ProjectorReturns
  \/ \E s \in Scopes : LeaseExpires(s)
  \/ ReceiveFirst \/ BackfillFails \/ ReceiveSecond
  \/ MainGoesOn
  \/ Aside

\* The steps of Next, with those that only move main, or none of the variables
\* of the invariant, taken together.
LEMMA StepCases == [Next]_vars => Steps
<1> SUFFICES ASSUME [Next]_vars PROVE Steps
  OBVIOUS
<1>1. CASE CollectorStep
  BY <1>1 DEF CollectorStep, Steps, Results
<1>2. CASE \E w \in Workers : WorkerStep(w)
  BY <1>2 DEF WorkerStep, Steps
<1>3. CASE MainStep
  BY <1>3 DEF MainStep, Steps, MainGoesOn, Onward, Aside, MainMoves, LoadGenerations,
     PublishReadiness, MaterializeIaCReachability, ListSucceeded, PipelineCompletes, FinalPassFails,
     ReopenSucceeded
<1>4. CASE ReducerStep
  BY <1>4 DEF ReducerStep, HandleMapping, AckMapping, Steps, Aside
<1>5. CASE UNCHANGED vars
  BY <1>5 DEF vars, Steps, Aside
<1> QED
  BY <1>1, <1>2, <1>3, <1>4, <1>5 DEF Next, Steps

\* What the channel holds after one more result.
LEMMA SentResults ==
  ASSUME NEW x \in Results, NEW y \in Results
  PROVE /\ Append(<<>>, x) = <<x>>
        /\ Len(Append(<<x>>, y)) = 2 /\ Append(<<x>>, y)[1] = x /\ Append(<<x>>, y)[2] = y
OBVIOUS

\* Every step keeps the types; the result the collector sends is not "none".
LEMMA TypesStep == IInv /\ Steps => Types'
<1> SUFFICES ASSUME IInv, Steps PROVE Types'
  OBVIOUS
<1> USE BootstrapAssumption DEF IInv, fixed, collecting, pool
<1>1. ASSUME NEW s \in Scopes, CommitScopeGeneration(s) PROVE Types'
  BY <1>1 DEF CommitScopeGeneration, Types
<1>2. ASSUME NEW res \in Results, CollectorReturns(res) PROVE Types'
  BY <1>2 DEF CollectorReturns, Types, Results
<1>3. CASE CollectorSignals
  <2>1. errc' \in Seq(Results)
    BY <1>3 DEF CollectorSignals, SendsResult, ClosesDone, Wiring, Types, Results
  <2> QED
    BY <1>3, <2>1 DEF CollectorSignals, SendsResult, ClosesDone, Types
<1>4. ASSUME NEW w \in Workers, NEW s \in Scopes, Claim(w, s) PROVE Types'
  BY <1>4 DEF Claim, Types, WorkerPc
<1>5. ASSUME NEW w \in Workers, ClaimNothing(w) PROVE Types'
  BY <1>5 DEF ClaimNothing, Types, WorkerPc
<1>6. ASSUME NEW w \in Workers, CountEmpty(w) PROVE Types'
  <2>1. PICK p \in WorkerPc : worker' = [worker EXCEPT ![w].pc = p]
    BY <1>6 DEF CountEmpty, Counts, WorkerPc
  <2>2. empties' \in Nat
    BY <1>6 DEF CountEmpty, Counts, Types
  <2> QED
    BY <1>6, <2>1, <2>2 DEF CountEmpty, Counts, Types, Results, WorkerPc, MainPlace, Backfilling
<1>7. ASSUME NEW w \in Workers, Project(w) PROVE Types'
  <2>1. worker' = [worker EXCEPT ![w].pc = "projected"]
    BY <1>7 DEF Project
  <2>2. UNCHANGED <<fixed, item, collecting, errc, main, cancelled, empties, stopped>>
    BY <1>7 DEF Project
  <2> QED
    BY <2>1, <2>2 DEF Types, WorkerPc
<1>8. ASSUME NEW w \in Workers, Ack(w) PROVE Types'
  BY <1>8 DEF Ack, Resting, Types, WorkerPc
<1>9. ASSUME NEW w \in Workers, WorkerFails(w) PROVE Types'
  BY <1>9 DEF WorkerFails, Types, WorkerPc
<1>10. ASSUME NEW w \in Workers, WorkerLeaves(w) PROVE Types'
  BY <1>10 DEF WorkerLeaves, Types, WorkerPc
<1>11. CASE ProjectorReturns
  <2>1. worker' \in [Workers -> [pc : WorkerPc, scope : SUBSET Scopes]]
    BY <1>11 DEF ProjectorReturns, Resting, WorkerPc
  <2>2. errc' \in Seq(Results)
    BY <1>11 DEF ProjectorReturns, Types, Results
  <2> QED
    BY <1>11, <2>1, <2>2 DEF ProjectorReturns, Types
<1>12. ASSUME NEW s \in Scopes, LeaseExpires(s) PROVE Types'
  BY <1>12 DEF LeaseExpires, Types
<1>13. CASE ReceiveFirst
  BY <1>13 DEF ReceiveFirst, MainMoves, Types, MainPlace, Backfilling
<1>14. CASE BackfillFails
  BY <1>14 DEF BackfillFails, MainMoves, Types, MainPlace
<1>15. CASE ReceiveSecond
  BY <1>15 DEF ReceiveSecond, MainMoves, Types, MainPlace, Closing
<1>16. CASE MainGoesOn
  BY <1>16 DEF MainGoesOn, Onward, Types, MainPlace, Closing, Backfilling
<1>17. CASE Aside
  BY <1>17 DEF Aside, Types
<1> QED
  BY <1>1, <1>2, <1>3, <1>4, <1>5, <1>6, <1>7, <1>8, <1>9, <1>10, <1>11, <1>12, <1>13, <1>14, <1>15,
     <1>16, <1>17 DEF Steps

\* Every step keeps the flags and channels in agreement with where the
\* goroutines are.
LEMMA WiringStep == IInv /\ Steps => Wiring'
<1> SUFFICES ASSUME IInv, Steps PROVE Wiring'
  OBVIOUS
<1> USE BootstrapAssumption DEF IInv, fixed, collecting, pool
<1>1. ASSUME NEW s \in Scopes, CommitScopeGeneration(s) PROVE Wiring'
  BY <1>1 DEF CommitScopeGeneration, Wiring, AllReturned
<1>2. ASSUME NEW res \in Results, CollectorReturns(res) PROVE Wiring'
  BY <1>2 DEF CollectorReturns, Wiring, AllReturned, Results
<1>3. CASE CollectorSignals
  BY <1>3 DEF CollectorSignals, SendsResult, ClosesDone, Wiring, AllReturned
<1>4. ASSUME NEW w \in Workers, NEW s \in Scopes, Claim(w, s) PROVE Wiring'
  BY <1>4 DEF Claim, Wiring, AllReturned
<1>5. ASSUME NEW w \in Workers, ClaimNothing(w) PROVE Wiring'
  BY <1>5 DEF ClaimNothing, Wiring, AllReturned
<1>6. ASSUME NEW w \in Workers, CountEmpty(w) PROVE Wiring'
  BY <1>6 DEF CountEmpty, Counts, Types, Wiring, AllReturned
<1>7. ASSUME NEW w \in Workers, Project(w) PROVE Wiring'
  BY <1>7 DEF Project, Wiring, AllReturned
<1>8. ASSUME NEW w \in Workers, Ack(w) PROVE Wiring'
  BY <1>8 DEF Ack, Resting, Wiring, AllReturned
<1>9. ASSUME NEW w \in Workers, WorkerFails(w) PROVE Wiring'
  BY <1>9 DEF WorkerFails, Types, Wiring, AllReturned
<1>10. ASSUME NEW w \in Workers, WorkerLeaves(w) PROVE Wiring'
  BY <1>10 DEF WorkerLeaves, CtxDone, Wiring, AllReturned
<1>11. CASE ProjectorReturns
  BY <1>11 DEF ProjectorReturns, Resting, Left, Wiring, AllReturned
<1>12. ASSUME NEW s \in Scopes, LeaseExpires(s) PROVE Wiring'
  BY <1>12 DEF LeaseExpires, Wiring, AllReturned
<1>13. CASE ReceiveFirst
  BY <1>13 DEF ReceiveFirst, MainMoves, Wiring, AllReturned
<1>14. CASE BackfillFails
  BY <1>14 DEF BackfillFails, MainMoves, Wiring, AllReturned
<1>15. CASE ReceiveSecond
  BY <1>15 DEF ReceiveSecond, MainMoves, Wiring, AllReturned
<1>16. CASE MainGoesOn
  BY <1>16 DEF MainGoesOn, Onward, Wiring, AllReturned
<1>17. CASE Aside
  BY <1>17 DEF Aside, Wiring, AllReturned
<1> QED
  BY <1>1, <1>2, <1>3, <1>4, <1>5, <1>6, <1>7, <1>8, <1>9, <1>10, <1>11, <1>12, <1>13, <1>14, <1>15,
     <1>16, <1>17 DEF Steps

\* Every step keeps the results on errc those main expects: the pool can return
\* "ok" before the collector has sent its result only if its workers left, and
\* without collectorDone they leave only with an error.
LEMMA ResultsInvStep == IInv /\ Steps => ResultsInv'
<1> SUFFICES ASSUME IInv, Steps PROVE ResultsInv'
  OBVIOUS
<1> USE BootstrapAssumption DEF IInv, fixed, collecting, pool
<1>1. ASSUME NEW s \in Scopes, CommitScopeGeneration(s) PROVE ResultsInv'
  BY <1>1 DEF CommitScopeGeneration, ResultsInv, FirstResult, Sent, AllReturned
<1>2. ASSUME NEW res \in Results, CollectorReturns(res) PROVE ResultsInv'
  BY <1>2 DEF CollectorReturns, Wiring, ResultsInv, FirstResult, Sent, AllReturned
<1>3. CASE CollectorSignals
  <2>1. CASE ClosesDone("signalling", "exited")
    BY <1>3, <2>1 DEF CollectorSignals, ClosesDone, ResultsInv, FirstResult, SecondResult, Sent,
       AllReturned
  <2>2. CASE SendsResult("returned", "signalling")
    <3>1. ~Sent /\ Sent' /\ main' = main /\ UNCHANGED <<worker, stopped, collected>>
      BY <1>3, <2>2 DEF CollectorSignals, SendsResult, Sent
    <3>2. main \notin Backfilling /\ collected \in Results
      BY <2>2, <3>1 DEF SendsResult, ResultsInv, Types, Wiring, Results
    <3>3. CASE main = "first" /\ errc = <<>>
      BY <2>2, <3>1, <3>2, <3>3 DEF SendsResult, ResultsInv, FirstResult, AllReturned
    <3>4. CASE main = "first" /\ errc = <<"failed">>
      <4>1. Len(errc') = 2 /\ errc'[1] = "failed" /\ errc'[2] = collected
        BY <2>2, <3>2, <3>4, SentResults DEF SendsResult
      <4> QED
        BY <3>1, <3>2, <3>4, <4>1 DEF ResultsInv, FirstResult, AllReturned
    <3> QED
      BY <3>1, <3>2, <3>3, <3>4 DEF ResultsInv, FirstResult, AllReturned
  <2> QED
    BY <1>3, <2>1, <2>2 DEF CollectorSignals
<1>4. ASSUME NEW w \in Workers, NEW s \in Scopes, Claim(w, s) PROVE ResultsInv'
  BY <1>4 DEF Claim, ResultsInv, FirstResult, SecondResult, Sent, AllReturned
<1>5. ASSUME NEW w \in Workers, ClaimNothing(w) PROVE ResultsInv'
  BY <1>5 DEF ClaimNothing, ResultsInv, FirstResult, SecondResult, Sent, AllReturned
<1>6. ASSUME NEW w \in Workers, CountEmpty(w) PROVE ResultsInv'
  BY <1>6 DEF CountEmpty, Counts, Types, ResultsInv, FirstResult, SecondResult, Sent, AllReturned
<1>7. ASSUME NEW w \in Workers, Project(w) PROVE ResultsInv'
  BY <1>7 DEF Project, ResultsInv, FirstResult, SecondResult, Sent, AllReturned
<1>8. ASSUME NEW w \in Workers, Ack(w) PROVE ResultsInv'
  BY <1>8 DEF Ack, Resting, ResultsInv, FirstResult, SecondResult, Sent, AllReturned
<1>9. ASSUME NEW w \in Workers, WorkerFails(w) PROVE ResultsInv'
  BY <1>9 DEF WorkerFails, ResultsInv, FirstResult, SecondResult, Sent, AllReturned
<1>10. ASSUME NEW w \in Workers, WorkerLeaves(w) PROVE ResultsInv'
  BY <1>10 DEF WorkerLeaves, ResultsInv, FirstResult, SecondResult, Sent, AllReturned
<1>11. CASE ProjectorReturns
  <2> DEFINE res == IF \E w \in Workers : worker[w].pc = "failed" THEN "failed" ELSE "ok"
  <2>1. ~AllReturned /\ AllReturned' /\ errc' = Append(errc, res)
    BY <1>11 DEF ProjectorReturns, Left, AllReturned, Resting
  <2>2. UNCHANGED <<main, collector, collected, stopped>>
    BY <1>11 DEF ProjectorReturns
  <2>3. res = "ok" => ~stopped
    BY <2>1 DEF Wiring
  <2>4. res = "ok" /\ main = "first" => Sent
    BY <1>11, <2>3 DEF ProjectorReturns, Left, Wiring, Sent
  <2> res \in Results
    BY DEF Results
  <2> HIDE DEF res
  <2>5. CASE main = "first" /\ errc = <<>>
    <3>1. errc' = <<res>> /\ ~Sent
      BY <2>1, <2>5, SentResults DEF ResultsInv, FirstResult
    <3>2. res = "failed"
      BY <2>4, <2>5, <3>1 DEF Results
    <3> QED
      BY <2>1, <2>2, <2>5, <3>1, <3>2 DEF ResultsInv, FirstResult, Sent
  <2>6. CASE main = "first" /\ errc = <<collected>>
    <3>1. Sent
      BY <2>1, <2>6 DEF ResultsInv, FirstResult
    <3>2. collected \in Results
      BY <3>1 DEF Types, Wiring, Sent, Results
    <3>3. Len(errc') = 2 /\ errc'[1] = collected /\ errc'[2] = res
      BY <2>1, <2>6, <3>2, SentResults
    <3> QED
      BY <2>1, <2>2, <2>3, <2>6, <3>1, <3>3 DEF ResultsInv, FirstResult, Sent, Backfilling
  <2>7. CASE main \in Backfilling
    <3>1. errc' = <<res>>
      BY <2>1, <2>7, SentResults DEF ResultsInv, SecondResult
    <3> QED
      BY <2>1, <2>2, <2>3, <2>7, <3>1 DEF ResultsInv, SecondResult, Sent, Backfilling
  <2> QED
    BY <2>1, <2>2, <2>5, <2>6, <2>7 DEF ResultsInv, FirstResult
<1>12. ASSUME NEW s \in Scopes, LeaseExpires(s) PROVE ResultsInv'
  BY <1>12 DEF LeaseExpires, ResultsInv, FirstResult, SecondResult, Sent, AllReturned
<1>13. CASE ReceiveFirst
  BY <1>13 DEF ReceiveFirst, MainMoves, Types, ResultsInv, FirstResult, SecondResult, Sent,
     AllReturned, Closing, Backfilling
<1>14. CASE BackfillFails
  BY <1>14 DEF BackfillFails, MainMoves, ResultsInv, Closing, Backfilling
<1>15. CASE ReceiveSecond
  BY <1>15 DEF ReceiveSecond, MainMoves, ResultsInv, SecondResult, AllReturned, Closing, Backfilling
<1>16. CASE MainGoesOn
  BY <1>16 DEF MainGoesOn, Onward, ResultsInv, SecondResult, Sent, AllReturned, Closing, Backfilling
<1>17. CASE Aside
  BY <1>17 DEF Aside, ResultsInv, FirstResult, SecondResult, Sent, AllReturned
<1> QED
  BY <1>1, <1>2, <1>3, <1>4, <1>5, <1>6, <1>7, <1>8, <1>9, <1>10, <1>11, <1>12, <1>13, <1>14, <1>15,
     <1>16, <1>17 DEF Steps

\* Every step keeps a worker that will look again as long as an item can be
\* claimed: an empty claim shows that there is none, and an empty claim older
\* than the last commit counts one, which is less than the limit.
LEMMA DrainingStep == IInv /\ Steps => Draining'
<1> SUFFICES ASSUME IInv, Steps PROVE Draining'
  OBVIOUS
<1> USE BootstrapAssumption DEF IInv, fixed, collecting, pool
<1>1. ASSUME NEW s \in Scopes, CommitScopeGeneration(s) PROVE Draining'
  BY <1>1 DEF CommitScopeGeneration, Wiring, Draining
<1>2. ASSUME NEW res \in Results, CollectorReturns(res) PROVE Draining'
  BY <1>2 DEF CollectorReturns, Draining, Missing, WillLook
<1>3. CASE CollectorSignals
  BY <1>3 DEF CollectorSignals, SendsResult, ClosesDone, Types, Wiring, Draining, WillLook, WorkerPc
<1>4. ASSUME NEW w \in Workers, NEW s \in Scopes, Claim(w, s) PROVE Draining'
  BY <1>4 DEF Claim, Types, Draining, WillLook
<1>5. ASSUME NEW w \in Workers, ClaimNothing(w) PROVE Draining'
  BY <1>5 DEF ClaimNothing, Draining, Missing
<1>6. ASSUME NEW w \in Workers, CountEmpty(w) PROVE Draining'
  <2>1. worker[w].pc = "empty" /\ UNCHANGED <<fixed, item, collecting, main, cancelled, stopped>>
    BY <1>6 DEF CountEmpty, Counts
  <2>2. \A v \in Workers : worker'[v].scope = worker[v].scope /\ (v # w => worker'[v] = worker[v])
    BY <1>6 DEF CountEmpty, Counts, Types
  <2>3. ~collectorDone' => empties' = 0
    BY <1>6, <2>1 DEF CountEmpty, Counts
  <2>4. ASSUME collectorDone, WillLook PROVE WillLook'
    <3>1. CASE \E v \in Workers : worker[v].pc \in {"claim", "working", "projected"}
      BY <2>1, <2>2, <3>1 DEF WillLook
    <3>2. CASE empties = 0
      <4>1. worker'[w].pc = "claim"
        BY <1>6, <2>4, <3>2 DEF CountEmpty, Counts, Types
      <4> QED
        BY <4>1 DEF WillLook
    <3> QED
      BY <2>4, <3>1, <3>2 DEF WillLook
  <2>5. \A s \in Scopes : item'[s] = "claimed" =>
          \E v \in Workers : s \in worker'[v].scope /\ worker'[v].pc \in {"working", "projected"}
    BY <2>1, <2>2 DEF Draining
  <2> QED
    BY <2>1, <2>3, <2>4, <2>5 DEF Draining, Missing
<1>7. ASSUME NEW w \in Workers, Project(w) PROVE Draining'
  BY <1>7 DEF Project, Draining, WillLook
<1>8. ASSUME NEW w \in Workers, Ack(w) PROVE Draining'
  BY <1>8 DEF Ack, Resting, Draining, WillLook
<1>9. ASSUME NEW w \in Workers, WorkerFails(w) PROVE Draining'
  BY <1>9 DEF WorkerFails, Draining
<1>10. ASSUME NEW w \in Workers, WorkerLeaves(w) PROVE Draining'
  BY <1>10 DEF WorkerLeaves, CtxDone, Draining
<1>11. CASE ProjectorReturns
  BY <1>11 DEF ProjectorReturns, Left, Draining, Missing, WillLook
<1>12. ASSUME NEW s \in Scopes, LeaseExpires(s) PROVE Draining'
  BY <1>12 DEF LeaseExpires, Draining, Missing, WillLook
<1>13. CASE ReceiveFirst
  BY <1>13 DEF ReceiveFirst, MainMoves, Wiring, Draining, Missing, WillLook
<1>14. CASE BackfillFails
  BY <1>14 DEF BackfillFails, Draining
<1>15. CASE ReceiveSecond
  BY <1>15 DEF ReceiveSecond, Draining, Missing, WillLook
<1>16. CASE MainGoesOn
  BY <1>16 DEF MainGoesOn, Onward, Draining, Missing, WillLook
<1>17. CASE Aside
  BY <1>17 DEF Aside, Draining, Missing, WillLook
<1> QED
  BY <1>1, <1>2, <1>3, <1>4, <1>5, <1>6, <1>7, <1>8, <1>9, <1>10, <1>11, <1>12, <1>13, <1>14, <1>15,
     <1>16, <1>17 DEF Steps

-----------------------------------------------------------------------------
(* The deployment mappings, and the bounds of the type invariant.          *)

Statuses == {"absent", "pending", "running", "succeeded"}
Gates == {"unread", "skipped", "open", "closed"}
MapRec == [status : Statuses, gate : Gates]

PassTypes ==
  /\ mapping \in [Scopes -> MapRec]
  /\ active \subseteq Scopes /\ ready \subseteq Scopes
  /\ noted \subseteq Scopes /\ todo \subseteq Scopes

Known(s) == mapping[s].status # "absent"

\* Projection enqueues the mapping before it acks the item.
MappingEnqueued ==
  /\ \A s \in Scopes : item[s] = "succeeded" => Known(s)
  /\ \A w \in Workers : worker[w].pc = "projected" => \A s \in worker[w].scope : Known(s)

Published == {"second"} \union Closing

\* A handler of a scope the backfill loaded does not skip it, and from the
\* publication on finds the gate open.
GateOpen ==
  /\ main \in {"publish"} \union Published => \A s \in noted : s \in active \/ s \notin older
  /\ main \in Published => noted \subseteq ready

\* The mapping of s is still to run, ran past the open gate, or is to be reopened.
Reopens(s) ==
  \/ mapping[s].status \in {"absent", "pending"} \/ mapping[s].gate = "open"
  \/ s \in todo /\ mapping[s].status = "succeeded"

NothingMissed ==
  /\ main \in {"reopen", "succeeded"} => \A s \in noted \ stragglers : Reopens(s)
  /\ main = "succeeded" => todo = {}

GateInv == PassTypes /\ MappingEnqueued /\ GateOpen /\ NothingMissed

\* errc holds at most what was sent; a worker holds at most one item; and each
\* count from the limit on is that of a worker that leaves.
Departed == {w \in Workers : worker[w].pc \in {"gone", "returned"}}

BoundsInv ==
  /\ Len(errc) <= (IF Sent THEN 1 ELSE 0) + (IF AllReturned THEN 1 ELSE 0)
  /\ \A w \in Workers : worker[w].scope = {} \/ \E s \in Scopes : worker[w].scope = {s}
  /\ empties < MaxEmptyPolls \/ empties < MaxEmptyPolls + Cardinality(Departed)

\* What a step does that touches neither the mappings nor the passes: items and
\* workers change, and no item becomes succeeded, no worker projected.
Outside ==
  /\ UNCHANGED <<fixed, active, mapping, pass>>
  /\ main' = main \/ main' \notin {"publish"} \union Published \/ (main = "second" /\ main' = "iac")
  /\ \A s \in Scopes : item'[s] = "succeeded" => item[s] = "succeeded"
  /\ \A w \in Workers : worker'[w].pc = "projected" => worker'[w] = worker[w]

\* Such a step keeps what is known of the mappings.
LEMMA OutsideKeeps == GateInv /\ Outside => GateInv'
<1> SUFFICES ASSUME GateInv, Outside PROVE GateInv'
  OBVIOUS
<1> USE DEF fixed, pass
<1>1. PassTypes'
  BY DEF GateInv, Outside, PassTypes
<1>2. MappingEnqueued'
  BY DEF GateInv, Outside, MappingEnqueued, Known
<1>3. GateOpen'
  BY DEF GateInv, Outside, GateOpen, Published, Closing
<1>4. NothingMissed'
  BY DEF GateInv, Outside, NothingMissed, Reopens, Published, Closing
<1> QED
  BY <1>1, <1>2, <1>3, <1>4 DEF GateInv

\* The steps that change neither mappings nor what the passes noted.
LEMMA OutsideSteps ==
  ASSUME Types,
         \/ \E s \in Scopes : CommitScopeGeneration(s)
         \/ \E res \in Results : CollectorReturns(res)
         \/ CollectorSignals
         \/ \E w \in Workers : (\E s \in Scopes : Claim(w, s)) \/ ClaimNothing(w) \/ CountEmpty(w)
                               \/ WorkerFails(w) \/ WorkerLeaves(w)
         \/ ProjectorReturns
         \/ \E s \in Scopes : LeaseExpires(s)
         \/ ReceiveFirst \/ BackfillFails \/ ReceiveSecond \/ FinalPassFails \/ UNCHANGED vars
  PROVE Outside
<1> USE DEF fixed, pass, pool, collecting, Types
<1>1. CASE \E s \in Scopes : CommitScopeGeneration(s)
  BY <1>1 DEF CommitScopeGeneration, Outside
<1>2. CASE \E res \in Results : CollectorReturns(res)
  BY <1>2 DEF CollectorReturns, Outside
<1>3. CASE CollectorSignals
  BY <1>3 DEF CollectorSignals, Outside
<1>4. ASSUME NEW w \in Workers, NEW s \in Scopes, Claim(w, s) PROVE Outside
  BY <1>4 DEF Claim, Outside
<1>5. ASSUME NEW w \in Workers, ClaimNothing(w) \/ WorkerFails(w) \/ WorkerLeaves(w) PROVE Outside
  BY <1>5 DEF ClaimNothing, WorkerFails, WorkerLeaves, Outside
<1>6. ASSUME NEW w \in Workers, CountEmpty(w) PROVE Outside
  <2>1. UNCHANGED <<fixed, item, active, mapping, main, pass>>
    BY <1>6 DEF CountEmpty, Counts
  <2>2. PICK p \in {"gone", "claim"} : worker' = [worker EXCEPT ![w].pc = p]
    BY <1>6 DEF CountEmpty, Counts
  <2> QED
    BY <2>1, <2>2 DEF Outside
<1>7. CASE ProjectorReturns
  BY <1>7 DEF ProjectorReturns, Resting, Outside
<1>8. CASE \E s \in Scopes : LeaseExpires(s)
  BY <1>8 DEF LeaseExpires, Outside
<1>9. CASE ReceiveFirst \/ BackfillFails \/ ReceiveSecond \/ FinalPassFails
  BY <1>9 DEF ReceiveFirst, BackfillFails, ReceiveSecond, FinalPassFails, MainMoves, Outside, Published,
     Closing
<1>10. CASE UNCHANGED vars
  BY <1>10 DEF vars, Outside
<1> QED
  BY <1>1, <1>2, <1>3, <1>4, <1>5, <1>6, <1>7, <1>8, <1>9, <1>10

\* The worker that projects enqueues the mapping, and only then acks its item.
LEMMA WorkerKeepsGate ==
  ASSUME Types, GateInv, NEW w \in Workers, Project(w) \/ Ack(w)
  PROVE GateInv'
<1> USE DEF fixed, pass, pool, collecting
<1>1. CASE Project(w)
  <2>1. UNCHANGED <<fixed, item, active, main, pass>>
    BY <1>1 DEF Project
  <2>2. \A v \in Workers : v # w => worker'[v] = worker[v]
    BY <1>1 DEF Project, Types
  <2>3. worker'[w].scope = worker[w].scope /\ worker[w].scope \subseteq Scopes
    BY <1>1 DEF Project, Types
  <2>4. ASSUME NEW s \in Scopes
        PROVE /\ mapping'[s] \in MapRec /\ mapping'[s].gate = mapping[s].gate
              /\ (s \in worker[w].scope => Known(s)') /\ (Known(s) => mapping'[s] = mapping[s])
              /\ ~Known(s) => mapping'[s].status \in {"absent", "pending"}
    <3>1. mapping'[s] = IF s \in worker[w].scope /\ mapping[s].status = "absent"
                        THEN [mapping[s] EXCEPT !.status = "pending"] ELSE mapping[s]
      BY <1>1 DEF Project
    <3> QED
      BY <3>1 DEF GateInv, PassTypes, MapRec, Statuses, Known
  <2>5. mapping' \in [Scopes -> MapRec]
    <3>1. mapping' = [s \in Scopes |-> mapping'[s]]
      BY <1>1 DEF Project
    <3> QED
      BY <2>4, <3>1
  <2>6. PassTypes' /\ GateOpen'
    BY <2>1, <2>5 DEF GateInv, PassTypes, GateOpen
  <2>7. MappingEnqueued'
    BY <2>1, <2>2, <2>3, <2>4 DEF GateInv, MappingEnqueued, Known, Types
  <2>8. NothingMissed'
    BY <2>1, <2>4 DEF GateInv, NothingMissed, PassTypes, Reopens, Known
  <2> QED
    BY <2>6, <2>7, <2>8 DEF GateInv
<1>2. CASE Ack(w)
  <2>1. UNCHANGED <<fixed, mapping, main, pass>> /\ active \subseteq active' /\ active' \subseteq Scopes
    BY <1>2 DEF Ack, GateInv, PassTypes, Types
  <2>2. MappingEnqueued'
    <3>1. \A s \in Scopes : item'[s] = "succeeded" => s \in worker[w].scope \/ item[s] = "succeeded"
      BY <1>2 DEF Ack
    <3>2. worker[w].pc = "projected" /\ \A v \in Workers : worker'[v].pc = "projected" => worker'[v] = worker[v]
      BY <1>2 DEF Ack, Resting, Types
    <3> QED
      BY <2>1, <3>1, <3>2 DEF GateInv, MappingEnqueued, Known
  <2>3. PassTypes' /\ GateOpen'
    BY <2>1 DEF GateInv, PassTypes, GateOpen
  <2>4. NothingMissed'
    BY <2>1 DEF GateInv, NothingMissed, Reopens
  <2> QED
    BY <2>2, <2>3, <2>4 DEF GateInv
<1> QED
  BY <1>1, <1>2

\* The passes of main: the backfill publishes what it loaded, the listing leaves
\* out only stragglers, and the run succeeds when nothing is left to reopen.
LEMMA MainKeepsGate ==
  ASSUME GateInv,
         \/ LoadGenerations \/ PublishReadiness \/ MaterializeIaCReachability \/ ListSucceeded
         \/ PipelineCompletes \/ \E s \in Scopes : ReopenSucceeded(s)
  PROVE GateInv'
<1> USE DEF fixed, pass, pool, collecting, MainMoves, Published, Closing
<1>1. CASE LoadGenerations
  BY <1>1 DEF LoadGenerations, GateInv, PassTypes, MappingEnqueued, Known, GateOpen, NothingMissed
<1>2. CASE PublishReadiness
  BY <1>2 DEF PublishReadiness, GateInv, PassTypes, MappingEnqueued, Known, GateOpen, NothingMissed
<1>3. CASE MaterializeIaCReachability
  BY <1>3 DEF MaterializeIaCReachability, GateInv, PassTypes, MappingEnqueued, Known, GateOpen, NothingMissed
<1>4. CASE ListSucceeded
  <2>1. ASSUME NEW s \in noted' \ stragglers' PROVE Reopens(s)'
    BY <1>4, <2>1 DEF ListSucceeded, GateInv, PassTypes, MapRec, Statuses, Reopens
  <2>2. PassTypes' /\ MappingEnqueued' /\ GateOpen' /\ main' = "reopen"
    BY <1>4 DEF ListSucceeded, GateInv, PassTypes, MappingEnqueued, Known, GateOpen
  <2> QED
    BY <2>1, <2>2 DEF GateInv, NothingMissed
<1>5. CASE PipelineCompletes
  BY <1>5 DEF PipelineCompletes, GateInv, PassTypes, MappingEnqueued, Known, GateOpen, NothingMissed, Reopens
<1>6. ASSUME NEW s \in Scopes, ReopenSucceeded(s) PROVE GateInv'
  <2>1. UNCHANGED <<fixed, item, active, worker, main, noted, stragglers, ready>> /\ todo' = todo \ {s}
    BY <1>6 DEF ReopenSucceeded
  <2>2. /\ mapping' \in [Scopes -> MapRec]
        /\ \A t \in Scopes : t # s => mapping'[t] = mapping[t]
        /\ mapping[s].status = "succeeded" => mapping'[s].status = "pending"
        /\ mapping[s].status # "succeeded" => mapping'[s] = mapping[s]
    BY <1>6 DEF ReopenSucceeded, GateInv, PassTypes, MapRec, Statuses
  <2>3. PassTypes' /\ GateOpen'
    BY <2>1, <2>2 DEF GateInv, PassTypes, GateOpen
  <2>4. \A t \in Scopes : Known(t) => Known(t)'
    BY <2>2 DEF Known
  <2>5. MappingEnqueued'
    <3>1. \A v \in Workers : worker[v].pc = "projected" => \A t \in worker[v].scope : Known(t)
      BY DEF GateInv, MappingEnqueued
    <3>2. \A t : Known(t) /\ t \notin Scopes => Known(t)'
      BY <1>6, <2>2 DEF ReopenSucceeded, GateInv, PassTypes, Known
    <3> QED
      BY <2>1, <2>4, <3>1, <3>2 DEF GateInv, MappingEnqueued
  <2>6. NothingMissed'
    BY <1>6, <2>1, <2>2 DEF ReopenSucceeded, GateInv, PassTypes, NothingMissed, Reopens
  <2> QED
    BY <2>3, <2>5, <2>6 DEF GateInv
<1> QED
  BY <1>1, <1>2, <1>3, <1>4, <1>5, <1>6

\* A handler that starts on a loaded scope after the publication finds the gate
\* open; one that ends takes what it found along.
LEMMA ReducerKeepsGate ==
  ASSUME Types, GateInv, NEW s \in Scopes, HandleMapping(s) \/ AckMapping(s)
  PROVE GateInv'
<1> USE DEF fixed, pass, pool, collecting
<1>1. UNCHANGED <<fixed, item, active, worker, main, noted, todo, stragglers, ready>>
  BY DEF HandleMapping, AckMapping
<1>2. /\ mapping' \in [Scopes -> MapRec]
      /\ \A t \in Scopes : t # s => mapping'[t] = mapping[t]
      /\ mapping[s].status \in {"pending", "running"} /\ mapping'[s].status \in {"running", "succeeded"}
  BY DEF HandleMapping, AckMapping, GateInv, PassTypes, MapRec, Statuses, Gates
<1>3. s \in noted /\ main \in {"reopen", "succeeded"} /\ Reopens(s) => Reopens(s)'
  BY DEF HandleMapping, AckMapping, GateInv, PassTypes, MapRec, GateOpen, Reopens, Published, Closing
<1>4. PassTypes' /\ GateOpen'
  BY <1>1, <1>2 DEF GateInv, PassTypes, GateOpen
<1>5. MappingEnqueued'
  BY <1>1, <1>2 DEF GateInv, MappingEnqueued, Known, Types
<1>6. NothingMissed'
  BY <1>1, <1>2, <1>3 DEF GateInv, PassTypes, NothingMissed, Reopens
<1> QED
  BY <1>4, <1>5, <1>6 DEF GateInv

\* Every step keeps what is known of the mappings.
LEMMA GateStep == IInv /\ GateInv /\ [Next]_vars => GateInv'
<1> SUFFICES ASSUME IInv, GateInv, [Next]_vars PROVE GateInv'
  OBVIOUS
<1>0. Types
  BY DEF IInv
<1>1. CASE CollectorStep
  BY <1>0, <1>1, OutsideSteps, OutsideKeeps DEF CollectorStep, Results
<1>2. CASE \E w \in Workers : WorkerStep(w)
  BY <1>0, <1>2, OutsideSteps, OutsideKeeps, WorkerKeepsGate DEF WorkerStep
<1>3. CASE MainStep
  BY <1>0, <1>3, OutsideSteps, OutsideKeeps, MainKeepsGate DEF MainStep
<1>4. CASE ReducerStep
  BY <1>0, <1>4, ReducerKeepsGate DEF ReducerStep
<1>5. CASE ProjectorReturns \/ (\E s \in Scopes : LeaseExpires(s)) \/ UNCHANGED vars
  BY <1>0, <1>5, OutsideSteps, OutsideKeeps
<1> QED
  BY <1>1, <1>2, <1>3, <1>4, <1>5 DEF Next

\* A count is that of a worker that stays below the limit, or leaves at it.
LEMMA CountEmptyBounds ==
  ASSUME Types, BoundsInv, NEW w \in Workers, CountEmpty(w)
  PROVE empties' < MaxEmptyPolls \/ empties' < MaxEmptyPolls + Cardinality(Departed')
<1> USE BootstrapAssumption DEF Types
<1>1. CASE empties' < MaxEmptyPolls
  BY <1>1
<1>2. CASE ~(empties' < MaxEmptyPolls)
  <2>1. worker[w].pc = "empty" /\ empties' = empties + 1 /\ worker' = [worker EXCEPT ![w].pc = "gone"]
    BY <1>2 DEF CountEmpty, Counts
  <2>2. Departed' = Departed \union {w} /\ w \notin Departed
    BY <2>1 DEF Departed
  <2>3. IsFiniteSet(Departed)
    BY PoolAssumption, FS_Subset DEF Departed
  <2>4. Cardinality(Departed') = Cardinality(Departed) + 1 /\ Cardinality(Departed) \in Nat
    BY <2>2, <2>3, FS_AddElement, FS_CardinalityType
  <2> QED
    BY <2>1, <2>4 DEF BoundsInv
<1> QED
  BY <1>1, <1>2

\* A step that keeps empties, or resets it, and keeps departed workers departed.
LEMMA CountBounds ==
  ASSUME BoundsInv, Types, empties' = empties \/ empties' = 0, Departed \subseteq Departed'
  PROVE empties' < MaxEmptyPolls \/ empties' < MaxEmptyPolls + Cardinality(Departed')
<1>1. IsFiniteSet(Departed')
  <2>1. Departed' \subseteq Workers
    BY DEF Departed
  <2> QED
    BY <2>1, PoolAssumption, FS_Subset
<1>2. /\ Cardinality(Departed) <= Cardinality(Departed')
      /\ Cardinality(Departed) \in Nat /\ Cardinality(Departed') \in Nat
  BY <1>1, FS_Subset, FS_CardinalityType
<1> QED
  BY <1>2, BootstrapAssumption DEF BoundsInv, Types

\* Every step keeps the bounds: a result is sent once by each of the two
\* goroutines, and a worker takes an item only when it has none.
LEMMA BoundsStep == IInv /\ BoundsInv /\ Steps => BoundsInv'
<1> SUFFICES ASSUME IInv, BoundsInv, Steps PROVE BoundsInv'
  OBVIOUS
<1> USE BootstrapAssumption DEF IInv, fixed, collecting, pool
<1> DEFINE One(f) == \A w \in Workers : f[w].scope = {} \/ \E s \in Scopes : f[w].scope = {s}
           Sending == Len(errc) <= (IF Sent THEN 1 ELSE 0) + (IF AllReturned THEN 1 ELSE 0)
           Counting == empties < MaxEmptyPolls \/ empties < MaxEmptyPolls + Cardinality(Departed)
<1>0. Sending /\ One(worker) /\ Counting
  BY DEF BoundsInv
<1>1. CASE UNCHANGED <<worker, empties>> /\ ~ProjectorReturns
  <2>1. One(worker)' /\ Departed' = Departed
    BY <1>0, <1>1 DEF Departed
  <2>2. Counting'
    BY <1>1, <2>1, CountBounds DEF Types
  <2>3. Sending'
    <3>1. AllReturned' = AllReturned
      BY <1>1 DEF AllReturned
    <3>2. CASE CollectorSignals
      BY <1>0, <3>1, <3>2 DEF CollectorSignals, SendsResult, ClosesDone, Sent, Types, Wiring, Results
    <3>3. CASE ReceiveFirst \/ ReceiveSecond
      BY <1>0, <3>1, <3>3 DEF ReceiveFirst, ReceiveSecond, Sent, Types
    <3>4. CASE errc' = errc /\ (Sent => Sent')
      BY <1>0, <3>1, <3>4 DEF Types
    <3>5. CollectorSignals \/ ReceiveFirst \/ ReceiveSecond \/ (errc' = errc /\ (Sent => Sent'))
      BY <1>1 DEF Steps, CommitScopeGeneration, CollectorReturns, Claim, ClaimNothing, CountEmpty, Counts,
         Project, Ack, WorkerFails, WorkerLeaves, LeaseExpires, BackfillFails, MainGoesOn, Onward, Aside, Sent
    <3> QED
      BY <3>2, <3>3, <3>4, <3>5
  <2> QED
    BY <2>1, <2>2, <2>3 DEF BoundsInv
<1>2. CASE ProjectorReturns
  <2>1. ~AllReturned /\ AllReturned' /\ UNCHANGED <<collector, empties>>
    BY <1>2 DEF ProjectorReturns, Left, AllReturned, Resting
  <2>2. errc' \in Seq(Results) /\ Len(errc') = Len(errc) + 1
    BY <1>2 DEF ProjectorReturns, Types, Results
  <2>3. Sending'
    BY <1>0, <2>1, <2>2 DEF Sent, Types
  <2>4. One(worker)' /\ Departed' = Workers
    BY <1>2 DEF ProjectorReturns, Resting, Departed
  <2>5. Departed \subseteq Departed'
    BY <2>4 DEF Departed
  <2> QED
    BY <2>1, <2>3, <2>4, <2>5, CountBounds DEF BoundsInv
<1>3. ASSUME NEW w \in Workers,
             (\E s \in Scopes : Claim(w, s)) \/ ClaimNothing(w) \/ CountEmpty(w) \/ Project(w) \/ Ack(w)
             \/ WorkerFails(w) \/ WorkerLeaves(w)
      PROVE BoundsInv'
  <2>1. UNCHANGED <<errc, collector>> /\ worker[w].pc \in {"claim", "empty", "working", "projected"}
    BY <1>3 DEF Claim, ClaimNothing, CountEmpty, Counts, Project, Ack, WorkerFails, WorkerLeaves
  <2>2. \A v \in Workers : v # w => worker'[v] = worker[v]
    BY <1>3 DEF Claim, ClaimNothing, CountEmpty, Counts, Project, Ack, WorkerFails, WorkerLeaves, Types
  <2>3. worker'[w].scope \in {worker[w].scope, {}} \/ \E s \in Scopes : worker'[w].scope = {s}
    BY <1>3 DEF Claim, ClaimNothing, CountEmpty, Counts, Project, Ack, WorkerFails, WorkerLeaves, Types, Resting
  <2>4. One(worker)'
    BY <1>0, <2>2, <2>3
  <2>5. Sending'
    BY <1>0, <2>1, <2>2 DEF Sent, AllReturned, Types
  <2>6. Counting'
    <3>1. CASE CountEmpty(w)
      BY <3>1, CountEmptyBounds
    <3>2. CASE ~CountEmpty(w)
      <4>1. empties' = empties \/ empties' = 0
        BY <1>3, <3>2 DEF Claim, ClaimNothing, Project, Ack, WorkerFails, WorkerLeaves
      <4>2. Departed \subseteq Departed'
        BY <2>1, <2>2 DEF Departed
      <4> QED
        BY <4>1, <4>2, CountBounds
    <3> QED
      BY <3>1, <3>2
  <2> QED
    BY <2>4, <2>5, <2>6 DEF BoundsInv
<1>4. \/ UNCHANGED <<worker, empties>> /\ ~ProjectorReturns
      \/ ProjectorReturns
      \/ \E w \in Workers : (\E s \in Scopes : Claim(w, s)) \/ ClaimNothing(w) \/ CountEmpty(w)
                            \/ Project(w) \/ Ack(w) \/ WorkerFails(w) \/ WorkerLeaves(w)
  BY DEF Steps, CommitScopeGeneration, CollectorReturns, CollectorSignals, LeaseExpires, ReceiveFirst,
     BackfillFails, ReceiveSecond, MainGoesOn, Onward, Aside
<1> QED
  BY <1>1, <1>2, <1>3, <1>4
-----------------------------------------------------------------------------
\* A pipeline that starts satisfies the invariant.
LEMMA InitEstablishes == Init => IInv
<1> SUFFICES ASSUME Init PROVE IInv
  OBVIOUS
<1> USE BootstrapAssumption
<1>1. Types
  <2>1. worker \in [Workers -> [pc : WorkerPc, scope : SUBSET Scopes]]
    BY DEF Init, Resting, WorkerPc
  <2>2. selected \subseteq Scopes /\ foreign \subseteq Scopes \ selected
    BY DEF Init
  <2>3. item \in [Scopes -> {"absent", "pending", "claimed", "held", "succeeded"}]
    BY DEF Init
  <2>4. errc \in Seq(Results)
    BY DEF Init
  <2> QED
    BY <2>1, <2>2, <2>3, <2>4 DEF Init, Types, MainPlace
<1>2. Wiring
  BY DEF Init, Wiring, Resting, AllReturned
<1>3. ResultsInv
  BY DEF Init, ResultsInv, FirstResult, Resting, AllReturned, Sent, Backfilling, Closing
<1>4. Draining
  BY DEF Init, Draining
<1> QED
  BY <1>1, <1>2, <1>3, <1>4 DEF IInv

\* The invariant holds in every state of the pipeline.
LEMMA InvariantHolds == Spec => []IInv
<1>1. IInv /\ [Next]_vars => IInv'
  BY StepCases, TypesStep, WiringStep, ResultsInvStep, DrainingStep DEF IInv
<1> QED
  BY InitEstablishes, <1>1, PTL DEF Spec

\* The corpus-wide backfill and everything after it run only once the collector
\* has returned without an error, whichever goroutine's result main read first.
THEOREM BackfillWaitsForCollection == Spec => []BackfillAfterCollection
<1>1. IInv => BackfillAfterCollection
  BY DEF IInv, ResultsInv, BackfillAfterCollection, Passing, Backfilling, Closing
<1> QED
  BY InvariantHolds, <1>1, PTL

\* No worker holds an item when the reachability pass and the reopening of
\* reducer items run.
THEOREM ReopenWaitsForDrain == Spec => []ReopenAfterDrain
<1>1. IInv => ReopenAfterDrain
  BY DEF IInv, ResultsInv, ReopenAfterDrain, AllReturned, Closing
<1> QED
  BY InvariantHolds, <1>1, PTL

\* What the invariant says of a run that has succeeded: all workers returned
\* without an error, none will look again, so nothing was left to claim.
LEMMA InvariantDrains == IInv => SuccessIsDrained
<1> SUFFICES ASSUME IInv, main = "succeeded", NEW s \in Scopes \ foreign PROVE item[s] = "succeeded"
  BY DEF SuccessIsDrained
<1>1. collected = "ok" /\ AllReturned /\ ~stopped /\ ~cancelled
  BY DEF IInv, ResultsInv, Wiring, Closing
<1>2. collectorDone
  BY <1>1, BootstrapAssumption DEF IInv, Wiring, AllReturned
<1>3. ~WillLook
  BY <1>1 DEF WillLook, AllReturned
<1>4. item[s] # "pending"
  BY <1>1, <1>2, <1>3 DEF IInv, Draining, Missing
<1>5. item[s] \notin {"absent", "held"}
  BY <1>1 DEF IInv, Draining
<1>6. item[s] # "claimed"
  BY <1>1 DEF IInv, Draining, AllReturned
<1> QED
  BY <1>4, <1>5, <1>6 DEF IInv, Types

\* A run that reports success has projected every generation it collected or
\* found, for any number of scopes and workers and any limit of two or more
\* empty polls, counted by all workers together.
THEOREM SuccessMeansDrained == Spec => []SuccessIsDrained
BY InvariantHolds, InvariantDrains, PTL

\* The mappings and bounds hold in every state of the pipeline too.
LEMMA GateAndBoundsHold == Spec => [](IInv /\ GateInv /\ BoundsInv)
<1>1. Init => GateInv
  BY DEF Init, GateInv, PassTypes, MapRec, Statuses, Gates, MappingEnqueued, Resting, GateOpen, Published,
     Closing, NothingMissed
<1>2. Init => BoundsInv
  <2> SUFFICES ASSUME Init PROVE BoundsInv
    OBVIOUS
  <2>1. Len(errc) = 0 /\ empties = 0 /\ \A w \in Workers : worker[w].scope = {}
    BY DEF Init, Resting
  <2> QED
    BY <2>1, BootstrapAssumption DEF BoundsInv
<1>3. IInv /\ GateInv /\ BoundsInv /\ [Next]_vars => GateInv' /\ BoundsInv'
  BY StepCases, GateStep, BoundsStep
<1> QED
  BY InvariantHolds, <1>1, <1>2, <1>3, PTL DEF Spec

\* The state keeps its shapes: no goroutine blocks on errc, no worker holds two
\* items, and the count of empty polls is bounded by the limit and the pool.
THEOREM PipelineTypes == Spec => []TypeOK
<1>1. IInv /\ GateInv /\ BoundsInv => TypeOK
  <2> SUFFICES ASSUME IInv, GateInv, BoundsInv PROVE TypeOK
    OBVIOUS
  <2>1. \A w \in Workers : Cardinality(worker[w].scope) <= 1
    <3>1. \A S : S = {} \/ (\E s \in Scopes : S = {s}) => Cardinality(S) \in {0, 1}
      BY FS_EmptySet, FS_Singleton
    <3> QED
      BY <3>1 DEF BoundsInv
  <2>2. empties \in 0 .. MaxEmptyPolls + Cardinality(Workers)
    <3>1. IsFiniteSet(Workers) /\ Departed \subseteq Workers
      BY PoolAssumption DEF Departed
    <3>2. Cardinality(Departed) <= Cardinality(Workers) /\ Cardinality(Departed) \in Nat
          /\ Cardinality(Workers) \in Nat
      BY <3>1, FS_Subset, FS_CardinalityType
    <3> QED
      BY <3>2, BootstrapAssumption DEF BoundsInv, IInv, Types
  <2>3. Len(errc) <= 2
    BY DEF BoundsInv, IInv, Types
  <2> QED
    BY <2>1, <2>2, <2>3 DEF TypeOK, IInv, Types, GateInv, PassTypes, MapRec, Statuses, Gates
<1> QED
  BY GateAndBoundsHold, <1>1, PTL

\* Once a run has succeeded, the mapping of every scope the backfill loaded is
\* still to run or ran past the open gate, apart from stragglers and items that
\* another process had leased, whenever reducers read the gate.
THEOREM NoMappingStaysGated == Spec => []NoMappingLeftGated
<1>1. IInv => SuccessIsDrained
  BY InvariantDrains
<1>2. SuccessIsDrained /\ GateInv => NoMappingLeftGated
  <2> SUFFICES ASSUME SuccessIsDrained, GateInv, main = "succeeded",
                      NEW s \in noted \ (foreign \union stragglers)
               PROVE mapping[s].status = "pending" \/ mapping[s].gate = "open"
    BY DEF NoMappingLeftGated
  <2>1. item[s] = "succeeded"
    BY DEF SuccessIsDrained, GateInv, PassTypes
  <2>2. mapping[s].status # "absent"
    BY <2>1 DEF GateInv, PassTypes, MappingEnqueued, Known
  <2> QED
    BY <2>2 DEF GateInv, NothingMissed, Reopens
<1> QED
  BY GateAndBoundsHold, <1>1, <1>2, PTL
=============================================================================
