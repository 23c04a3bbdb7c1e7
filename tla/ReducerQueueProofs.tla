------------------------- MODULE ReducerQueueProofs -------------------------
(***************************************************************************)
(* Proofs about ReducerQueue, for any scopes, generations, domains,        *)
(* workers and bounds.                                                     *)
(*                                                                         *)
(* The fence is a fact about rows: no two rows of one conflict key are in  *)
(* flight (KeysApart).  It carries over to handlers because every held row *)
(* is in flight and held once, and a row whose result waits for the acker  *)
(* is in flight or out of reach of a claim (Timely).  Two rows that one    *)
(* statement claims have different keys because rows are totally ordered   *)
(* (OrderOK) and only the head of a key is claimable.                      *)
(*                                                                         *)
(* Convergence rests on the order of events (InOrder): under the gate no   *)
(* intent is claimed before its generation is activated, a handler of an   *)
(* older generation that still runs keeps the active one from settling,    *)
(* and a settled row of the active generation has its domain's last word.  *)
(*                                                                         *)
(* The cap rests on the last row of a batch: its rank counts all others.   *)
(***************************************************************************)
EXTENDS ReducerQueue, FiniteSetTheorems, WellFoundedInduction, TLAPS

Busy(w) == wk[w].pc # "ready"

\* What the bounds leave; they are only ever spent.
BudgetOK ==
  /\ budget \in [faults : Nat, late : Nat, reopens : Nat, replays : Nat]
  /\ budget.late <= MaxLate /\ budget.replays <= MaxReplays

\* A worker holds a row exactly while it works.
HoldsWhenBusy == \A w \in Workers : Busy(w) <=> wk[w].item # Null

\* updated_at and the id order the rows: strictly, and any two of them.
OrderOK ==
  /\ \A x \in Rows : <<x, x>> \notin order
  /\ \A x, y, z \in Rows : <<x, y>> \in order /\ <<y, z>> \in order => <<x, z>> \in order
  /\ \A x, y \in Rows : x # y /\ queue[x].status # "absent" /\ queue[y].status # "absent"
       => <<x, y>> \in order \/ <<y, x>> \in order

Holds(w, x) == wk[w].item = x

\* A held row is in flight, without a result that waits, and held once.
HeldInFlight == \A w \in Workers, x \in Rows : Holds(w, x) => InFlight(x) /\ ~Waiting(x)
HeldOnce == \A v, w \in Workers, x \in Rows : Holds(v, x) /\ Holds(w, x) => v = w

\* A row whose result waits cannot be claimed.
WaitingAside ==
  \A x \in Rows : Waiting(x) =>
    \/ InFlight(x) \/ queue[x].status \in {"succeeded", "dead_letter"}
    \/ queue[x].status = "retrying" /\ ~queue[x].visible

\* No two rows of one conflict key are in flight.
KeysApart ==
  \A x, y \in Rows : x # y /\ InFlight(x) /\ InFlight(y) => ConflictKey(x) # ConflictKey(y)

\* A row that succeeded, or will by a result that waits, was handled or skipped.
ResultIsDone ==
  \A x \in Rows :
    queue[x].status = "succeeded" \/ (Waiting(x) /\ queue[x].status = "claimed") => x \in done

\* What holds as long as nothing is late.
Timely == HeldInFlight /\ HeldOnce /\ WaitingAside /\ KeysApart /\ ResultIsDone

QueueInv == TypeOK /\ BudgetOK /\ HoldsWhenBusy /\ OrderOK /\ (OnTime => Timely)

\* The semantic rows in flight stay within the cap.
SemanticRows == {x \in Rows : Semantic(x) /\ InFlight(x)}
SemanticRowsCapped == Gate /\ OnTime => Cardinality(SemanticRows) <= SemanticLimit

\* What the projections have enqueued: all intents of an active generation,
\* and all up to sent of any other.
Enqueued ==
  /\ \A x \in Rows : x.dom <= proj[x.scope][x.gen].sent => queue[x].status # "absent"
  /\ \A s \in Scopes, n \in GenNo : proj[s][n].status = "succeeded" => proj[s][n].sent = Len(Domains)
  /\ \A s \in Scopes : active[s] # 0 => proj[s][active[s]].status = "succeeded"

\* The premises of convergence.
Orderly == Gate /\ OnTime /\ budget.replays = MaxReplays

\* No intent is touched before its generation is activated or given up.
NotBeforeActivation ==
  \A x \in Rows :
    /\ proj[x.scope][x.gen].status = "absent" => queue[x].status = "absent"
    /\ proj[x.scope][x.gen].status = "open" => queue[x].status \in {"absent", "pending"}

\* A row of the active generation that succeeded, or will by a result that
\* waits, has its domain's last word.
Settled(x) == queue[x].status = "succeeded" \/ (Waiting(x) /\ queue[x].status = "claimed")
ActiveHasLastWord ==
  \A x \in Rows : x.gen = active[x.scope] /\ Settled(x) => applied[x.scope][x.dom] = x.gen

\* While a handler of another generation runs, the active one is to come.
Running(w, x) == wk[w].pc = "running" /\ wk[w].item = x
OldRunsBefore ==
  \A w \in Workers, x, y \in Rows :
    /\ Running(w, y) /\ x # y /\ x.scope = y.scope /\ x.dom = y.dom
    /\ x.gen = active[x.scope]
    => queue[x].status # "succeeded"

InOrder == NotBeforeActivation /\ ActiveHasLastWord /\ OldRunsBefore
ConvergeInv == Enqueued /\ (Orderly => InOrder)

-----------------------------------------------------------------------------
(* Constants, rows and the order.                                          *)

\* The domains are numbered.
LEMMA DomainCount == Len(Domains) \in Nat
  BY ReducerAssumption

\* A row is given by its scope, its generation and its domain.
LEMMA RowParts ==
  ASSUME NEW x \in Rows
  PROVE  /\ x.scope \in Scopes /\ x.gen \in GenNo /\ x.dom \in Doms
         /\ x.scope \in Nat /\ x.gen \in Nat /\ x.gen # 0 /\ x.dom \in Nat
  BY DomainCount, ReducerAssumption DEF Rows, Scopes, GenNo, Doms

\* Rows with the same parts are the same row.
LEMMA SameParts ==
  ASSUME NEW x \in Rows, NEW y \in Rows, x.scope = y.scope, x.gen = y.gen, x.dom = y.dom
  PROVE  x = y
  BY DEF Rows

\* Rows of one scope and domain share a conflict key.
LEMMA SameKey ==
  ASSUME NEW x \in Rows, NEW y \in Rows, x.scope = y.scope, x.dom = y.dom
  PROVE  ConflictKey(x) = ConflictKey(y)
  BY DEF ConflictKey, ConflictDomain

\* The id order is strict and total.
LEMMA IdBeforeIsOrder ==
  /\ \A x \in Rows : ~IdBefore(x, x)
  /\ \A x, y, z \in Rows : IdBefore(x, y) /\ IdBefore(y, z) => IdBefore(x, z)
  /\ \A x, y \in Rows : x # y => IdBefore(x, y) \/ IdBefore(y, x)
<1>1. ASSUME NEW x \in Rows PROVE ~IdBefore(x, x)
  BY RowParts DEF IdBefore
<1>2. ASSUME NEW x \in Rows, NEW y \in Rows, NEW z \in Rows, IdBefore(x, y), IdBefore(y, z)
      PROVE  IdBefore(x, z)
  <2>1. /\ x.scope \in Nat /\ x.gen \in Nat /\ x.dom \in Nat
        /\ y.scope \in Nat /\ y.gen \in Nat /\ y.dom \in Nat
        /\ z.scope \in Nat /\ z.gen \in Nat /\ z.dom \in Nat
    BY RowParts
  <2> QED BY <2>1, <1>2 DEF IdBefore
<1>3. ASSUME NEW x \in Rows, NEW y \in Rows, x # y PROVE IdBefore(x, y) \/ IdBefore(y, x)
  <2>1. /\ x.scope \in Nat /\ x.gen \in Nat /\ x.dom \in Nat
        /\ y.scope \in Nat /\ y.gen \in Nat /\ y.dom \in Nat
    BY RowParts
  <2>2. x.scope # y.scope \/ x.gen # y.gen \/ x.dom # y.dom
    BY <1>3, SameParts
  <2> QED BY <2>1, <2>2 DEF IdBefore
<1> QED BY <1>1, <1>2, <1>3

\* Touched(S) moves the rows S behind all others and orders them by id.
LEMMA TouchedPairs ==
  ASSUME order \subseteq Rows \X Rows, NEW S \in SUBSET Rows
  PROVE  /\ Touched(S) \subseteq Rows \X Rows
         /\ \A x, y \in Rows :
              <<x, y>> \in Touched(S) <=>
                \/ x \notin S /\ y \notin S /\ <<x, y>> \in order
                \/ x \notin S /\ y \in S
                \/ x \in S /\ y \in S /\ IdBefore(x, y)
<1>1. Touched(S) \subseteq Rows \X Rows
  BY DEF Touched
<1>2. ASSUME NEW x \in Rows, NEW y \in Rows
      PROVE  <<x, y>> \in Touched(S) <=>
                \/ x \notin S /\ y \notin S /\ <<x, y>> \in order
                \/ x \notin S /\ y \in S
                \/ x \in S /\ y \in S /\ IdBefore(x, y)
  BY DEF Touched
<1> QED BY <1>1, <1>2

\* An order of the rows in use stays one when rows are touched, and those that
\* come into use are touched.
LEMMA OrderKept ==
  ASSUME order \subseteq Rows \X Rows, OrderOK, NEW S \in SUBSET Rows, order' = Touched(S),
         \A x \in Rows : queue'[x].status # "absent" => x \in S \/ queue[x].status # "absent"
  PROVE  order' \subseteq Rows \X Rows /\ OrderOK'
<1> DEFINE O == order'
<1>1. /\ O \subseteq Rows \X Rows
      /\ \A x, y \in Rows :
              <<x, y>> \in O <=>
                \/ x \notin S /\ y \notin S /\ <<x, y>> \in order
                \/ x \notin S /\ y \in S
                \/ x \in S /\ y \in S /\ IdBefore(x, y)
  BY TouchedPairs
<1>2. \A x \in Rows : <<x, x>> \notin O
  BY <1>1, IdBeforeIsOrder DEF OrderOK
<1>3. ASSUME NEW x \in Rows, NEW y \in Rows, NEW z \in Rows, <<x, y>> \in O, <<y, z>> \in O
      PROVE  <<x, z>> \in O
  <2>1. CASE z \notin S
    BY <2>1, <1>1, <1>3 DEF OrderOK
  <2>2. CASE z \in S /\ x \in S
    BY <2>2, <1>1, <1>3, IdBeforeIsOrder
  <2>3. CASE z \in S /\ x \notin S
    BY <2>3, <1>1
  <2> QED BY <2>1, <2>2, <2>3
<1>4. ASSUME NEW x \in Rows, NEW y \in Rows, x # y,
             queue'[x].status # "absent", queue'[y].status # "absent"
      PROVE  <<x, y>> \in O \/ <<y, x>> \in O
  BY <1>4, <1>1, IdBeforeIsOrder DEF OrderOK
<1> HIDE DEF O
<1>5. /\ \A x \in Rows : <<x, x>> \notin O
      /\ \A x, y, z \in Rows : <<x, y>> \in O /\ <<y, z>> \in O => <<x, z>> \in O
      /\ \A x, y \in Rows : x # y /\ queue'[x].status # "absent" /\ queue'[y].status # "absent"
           => <<x, y>> \in O \/ <<y, x>> \in O
  BY <1>2, <1>3, <1>4
<1> QED BY <1>1, <1>5 DEF OrderOK, O

-----------------------------------------------------------------------------
(* Types, bounds, and who holds a row.                                     *)

\* The parts of TypeOK, under names.
ProjRow == [status : {"absent", "open", "succeeded", "dead_letter"}, sent : 0 .. Len(Domains)]
QueueRow == [status : {"absent", "pending", "retrying", "claimed", "succeeded", "dead_letter"},
             attempts : Nat, visible : BOOLEAN, lapsed : BOOLEAN]
WorkerState == [pc : {"ready", "claimed", "running"}, item : Rows \union {Null}, attempt : Nat]
Result == [item : Rows, attempt : Nat, ok : BOOLEAN]

\* TypeOK, part by part.
LEMMA TypeParts ==
  TypeOK <=>
  /\ proj \in [Scopes -> [GenNo -> ProjRow]]
  /\ active \in [Scopes -> 0 .. MaxGen]
  /\ queue \in [Rows -> QueueRow]
  /\ order \subseteq Rows \X Rows
  /\ wk \in [Workers -> WorkerState]
  /\ acks \subseteq Result
  /\ applied \in [Scopes -> [Doms -> 0 .. MaxGen]]
  /\ done \subseteq Rows
  BY DEF TypeOK, ProjRow, QueueRow, WorkerState, Result

\* The same for the next state.
LEMMA NextTypeParts ==
  ASSUME proj' \in [Scopes -> [GenNo -> ProjRow]], active' \in [Scopes -> 0 .. MaxGen],
         queue' \in [Rows -> QueueRow], order' \subseteq Rows \X Rows,
         wk' \in [Workers -> WorkerState], acks' \subseteq Result,
         applied' \in [Scopes -> [Doms -> 0 .. MaxGen]], done' \subseteq Rows
  PROVE  TypeOK'
  BY DEF TypeOK, ProjRow, QueueRow, WorkerState, Result

\* A busy worker holds a row.
LEMMA BusyHoldsRow ==
  ASSUME TypeOK, HoldsWhenBusy, NEW w \in Workers, Busy(w)
  PROVE  wk[w].item \in Rows /\ wk[w].attempt \in Nat
<1>1. wk[w] \in WorkerState
  BY TypeParts
<1> QED BY <1>1 DEF HoldsWhenBusy, WorkerState

\* Row builds a row of the queue.
LEMMA RowTyped ==
  ASSUME NEW st \in {"absent", "pending", "retrying", "claimed", "succeeded", "dead_letter"},
         NEW n \in Nat, NEW v \in BOOLEAN
  PROVE  Row(st, n, v) \in QueueRow
  BY DEF Row, QueueRow

\* What TypeOK says of the parts a step reads.
LEMMA TypeAt ==
  ASSUME TypeOK
  PROVE  /\ \A x \in Rows : queue[x] \in QueueRow /\ queue[x].attempts \in Nat
         /\ \A s \in Scopes, n \in GenNo : proj[s][n] \in ProjRow /\ proj[s][n].sent \in 0 .. Len(Domains)
         /\ \A w \in Workers : wk[w] \in WorkerState /\ wk[w].attempt \in Nat
  BY TypeParts DEF QueueRow, ProjRow, WorkerState

\* Reporting keeps the shapes of workers and results.
LEMMA ReportTyped ==
  ASSUME TypeOK, HoldsWhenBusy, NEW w \in Workers, Busy(w), NEW ok \in BOOLEAN, Report(w, ok)
  PROVE  /\ wk' \in [Workers -> WorkerState] /\ acks' \subseteq Result /\ HoldsWhenBusy'
<1>1. wk[w].item \in Rows /\ wk[w].attempt \in Nat
  BY BusyHoldsRow
<1>2. [item |-> wk[w].item, attempt |-> wk[w].attempt, ok |-> ok] \in Result
  BY <1>1 DEF Result
<1>3. acks' \subseteq Result
  BY <1>2, TypeParts DEF Report
<1>4. ReadyWorker \in WorkerState
  BY DEF ReadyWorker, WorkerState
<1>5. wk' \in [Workers -> WorkerState]
  BY <1>4, TypeParts DEF Report
<1>6. \A v \in Workers : wk'[v] = IF v = w THEN ReadyWorker ELSE wk[v]
  BY TypeParts DEF Report
<1>7. HoldsWhenBusy'
  BY <1>6 DEF HoldsWhenBusy, Busy, ReadyWorker
<1> QED BY <1>3, <1>5, <1>7

\* So does stopping.
LEMMA StopTyped ==
  ASSUME Stop
  PROVE  wk' \in [Workers -> WorkerState] /\ acks' \subseteq Result /\ HoldsWhenBusy'
<1>1. ReadyWorker \in WorkerState
  BY DEF ReadyWorker, WorkerState
<1>2. wk' \in [Workers -> WorkerState] /\ \A v \in Workers : wk'[v] = ReadyWorker
  BY <1>1 DEF Stop
<1> QED BY <1>2 DEF Stop, HoldsWhenBusy, Busy, ReadyWorker

\* Writing keeps the shapes of the graph state.
LEMMA WroteTyped ==
  ASSUME TypeOK, NEW x \in Rows, Wrote(x)
  PROVE  applied' \in [Scopes -> [Doms -> 0 .. MaxGen]] /\ done' \subseteq Rows
<1>1. x.scope \in Scopes /\ x.dom \in Doms /\ x.gen \in 0 .. MaxGen
  BY RowParts, ReducerAssumption DEF GenNo
<1> QED BY <1>1, TypeParts DEF Wrote

\* The bounds are spent, never refilled.
LEMMA BudgetKept ==
  ASSUME BudgetOK, \/ UNCHANGED budget \/ Fault \/ Late
                   \/ budget.replays > 0 /\ budget' = [budget EXCEPT !.replays = @ - 1]
                   \/ \E b \in BOOLEAN :
                        /\ budget.reopens > 0 /\ (b => budget.late > 0)
                        /\ budget' = [faults |-> budget.faults,
                                      late |-> IF b THEN budget.late - 1 ELSE budget.late,
                                      reopens |-> budget.reopens - 1, replays |-> budget.replays]
  PROVE  /\ BudgetOK' /\ (OnTime' => OnTime) /\ budget'.late <= budget.late
         /\ budget'.replays <= budget.replays
         /\ (budget'.replays = MaxReplays => budget.replays = MaxReplays)
<1>1. /\ budget \in [faults : Nat, late : Nat, reopens : Nat, replays : Nat]
      /\ budget.faults \in Nat /\ budget.late \in Nat /\ budget.reopens \in Nat /\ budget.replays \in Nat
  BY DEF BudgetOK
<1>2. MaxLate \in Nat /\ MaxReplays \in Nat
  BY ReducerAssumption
<1>3. /\ budget' \in [faults : Nat, late : Nat, reopens : Nat, replays : Nat]
      /\ budget'.late <= budget.late /\ budget'.replays <= budget.replays
  <2>1. CASE UNCHANGED budget
    BY <2>1, <1>1
  <2>2. CASE Fault
    BY <2>2, <1>1 DEF Fault
  <2>3. CASE Late
    BY <2>3, <1>1 DEF Late
  <2>4. CASE budget.replays > 0 /\ budget' = [budget EXCEPT !.replays = @ - 1]
    BY <2>4, <1>1
  <2>5. ASSUME NEW b \in BOOLEAN, budget.reopens > 0, b => budget.late > 0,
               budget' = [faults |-> budget.faults,
                          late |-> IF b THEN budget.late - 1 ELSE budget.late,
                          reopens |-> budget.reopens - 1, replays |-> budget.replays]
        PROVE  /\ budget' \in [faults : Nat, late : Nat, reopens : Nat, replays : Nat]
               /\ budget'.late <= budget.late /\ budget'.replays <= budget.replays
    BY <2>5, <1>1
  <2> QED BY <2>1, <2>2, <2>3, <2>4, <2>5
<1> QED BY <1>1, <1>2, <1>3 DEF BudgetOK, OnTime

\* The bounds stay bounds.
LEMMA BudgetStep ==
  ASSUME BudgetOK, [Next]_vars
  PROVE  /\ BudgetOK' /\ (OnTime' => OnTime)
         /\ (budget'.replays = MaxReplays => budget.replays = MaxReplays)
<1>1. ASSUME NEW x \in Rows, Reopen(x)
      PROVE  \E b \in BOOLEAN :
               /\ budget.reopens > 0 /\ (b => budget.late > 0)
               /\ budget' = [faults |-> budget.faults,
                             late |-> IF b THEN budget.late - 1 ELSE budget.late,
                             reopens |-> budget.reopens - 1, replays |-> budget.replays]
  <2>1. Waiting(x) \in BOOLEAN
    BY DEF Waiting
  <2> QED BY <1>1, <2>1 DEF Reopen
<1>2. \/ UNCHANGED budget \/ Fault \/ Late
      \/ budget.replays > 0 /\ budget' = [budget EXCEPT !.replays = @ - 1]
      \/ \E x \in Rows : Reopen(x)
  <2>1. ASSUME NEW s \in Scopes, NEW n \in GenNo,
               \/ CommitGeneration(s, n) \/ EnqueueReducerBatch(s, n) \/ Activate(s, n)
               \/ ProjectionFails(s, n)
        PROVE  UNCHANGED budget \/ Fault
    BY <2>1, Zenon DEF CommitGeneration, EnqueueReducerBatch, Activate, ProjectionFails
  <2>2. ASSUME NEW s \in Scopes, NEW n \in GenNo, ReplayProjection(s, n)
        PROVE  budget.replays > 0 /\ budget' = [budget EXCEPT !.replays = @ - 1]
    BY <2>2 DEF ReplayProjection
  <2>3. ASSUME NEW W \in SUBSET Workers, ClaimBatch(W) PROVE UNCHANGED budget
    BY <2>3, Zenon DEF ClaimBatch
  <2>4. ASSUME NEW w \in Workers, Work(w) \/ Heartbeat(w) PROVE UNCHANGED budget
    BY <2>4, Zenon DEF Work, Skip, StartHandler, HandlerSucceeds, HeartbeatRejected, Heartbeat
  <2>5. ASSUME NEW w \in Workers, NEW retryable \in BOOLEAN, HandlerFails(w, retryable) PROVE Fault
    BY <2>5 DEF HandlerFails
  <2>6. ASSUME NEW S \in SUBSET acks, AckBatch(S) PROVE UNCHANGED budget
    BY <2>6, Zenon DEF AckBatch
  <2>7. ASSUME Crash PROVE Fault
    BY <2>7 DEF Crash
  <2>8. ASSUME NEW x \in Rows, Lapse(x) \/ Visible(x) PROVE UNCHANGED budget \/ Late
    BY <2>8 DEF Lapse, Visible
  <2>9. CASE UNCHANGED vars
    BY <2>9 DEF vars
  <2> QED BY <2>1, <2>2, <2>3, <2>4, <2>5, <2>6, <2>7, <2>8, <2>9, Zenon DEF Next
<1> QED BY <1>1, <1>2, BudgetKept

\* One claim statement: the rows it takes and the workers it gives them to.
ClaimOf(batch, V) ==
  /\ queue' = [x \in Rows |-> IF x \in batch THEN Row("claimed", queue[x].attempts + 1, TRUE)
                              ELSE queue[x]]
  /\ order' = Touched(batch)
  /\ \E item \in [V -> batch] :
       /\ \A v, w \in V : item[v] = item[w] => v = w
       /\ \A x \in batch : \E w \in V : item[w] = x
       /\ wk' = [w \in Workers |->
            IF w \in V THEN [pc |-> "claimed", item |-> item[w],
                            attempt |-> queue[item[w]].attempts + 1]
            ELSE wk[w]]

\* ClaimBatch takes claimable rows and leaves the rest of the state alone.
LEMMA ClaimParts ==
  ASSUME NEW W \in SUBSET Workers, ClaimBatch(W)
  PROVE  /\ \A w \in W : wk[w].pc = "ready"
         /\ \E batch \in SUBSET {x \in Rows : Claimable(x)}, V \in SUBSET W : ClaimOf(batch, V)
         /\ UNCHANGED <<proj, active, acks, applied, done, budget>>
<1> DEFINE candidates == {x \in Rows : Claimable(x)}
<1>1. PICK batch \in SUBSET candidates, V \in SUBSET W :
          /\ batch # {} /\ Cardinality(batch) = IF Cardinality(candidates) < Cardinality(W)
                                                THEN Cardinality(candidates) ELSE Cardinality(W)
          /\ \A x \in batch, y \in candidates \ batch : ~Older(y, x)
          /\ ClaimOf(batch, V)
  BY Zenon DEF ClaimBatch, ClaimOf
<1> QED BY <1>1, Zenon DEF ClaimBatch

\* Claims keep the shapes, and give every claimed row to a ready worker.
LEMMA ClaimTyped ==
  ASSUME TypeOK, HoldsWhenBusy, OrderOK, NEW W \in SUBSET Workers, ClaimBatch(W)
  PROVE  TypeOK' /\ HoldsWhenBusy' /\ OrderOK'
<1>1. PICK batch \in SUBSET {x \in Rows : Claimable(x)}, V \in SUBSET W : ClaimOf(batch, V)
  BY ClaimParts
<1>2. PICK item \in [V -> batch] :
             wk' = [w \in Workers |->
                    IF w \in V THEN [pc |-> "claimed", item |-> item[w],
                                    attempt |-> queue[item[w]].attempts + 1]
                    ELSE wk[w]]
  BY <1>1 DEF ClaimOf
<1>3. batch \subseteq Rows
  BY <1>1
<1>4. \A x \in batch : queue[x].attempts + 1 \in Nat
  BY <1>3, TypeAt
<1>5. queue' \in [Rows -> QueueRow]
  BY <1>1, <1>4, RowTyped, TypeParts DEF ClaimOf
<1>6. ASSUME NEW w \in V
      PROVE  [pc |-> "claimed", item |-> item[w], attempt |-> queue[item[w]].attempts + 1] \in WorkerState
  BY <1>3, <1>4 DEF WorkerState
<1>7. wk' \in [Workers -> WorkerState]
  BY <1>2, <1>6, TypeParts
<1>8. \A x \in Rows : queue'[x].status # "absent" => x \in batch \/ queue[x].status # "absent"
  BY <1>1 DEF ClaimOf
<1>9. order' \subseteq Rows \X Rows /\ OrderOK'
  BY <1>1, <1>3, <1>8, OrderKept, TypeParts DEF ClaimOf
<1>10. HoldsWhenBusy'
  <2>1. ASSUME NEW w \in Workers PROVE Busy(w)' <=> wk'[w].item # Null
    <3>1. CASE w \in V
      <4>1. wk'[w].pc = "claimed" /\ wk'[w].item = item[w]
        BY <3>1, <1>2
      <4> QED BY <3>1, <4>1, <1>3, NullAssumption DEF Busy
    <3>2. CASE w \notin V
      BY <3>2, <1>2 DEF HoldsWhenBusy, Busy
    <3> QED BY <3>1, <3>2
  <2> QED BY <2>1 DEF HoldsWhenBusy
<1> QED BY <1>5, <1>7, <1>9, <1>10, TypeParts, NextTypeParts, ClaimParts

\* One row is rewritten and touched.
LEMMA RowTouched ==
  ASSUME TypeOK, OrderOK, NEW x \in Rows, NEW r \in QueueRow, queue[x].status # "absent",
         queue' = [queue EXCEPT ![x] = r], order' = Touched({x})
  PROVE  queue' \in [Rows -> QueueRow] /\ order' \subseteq Rows \X Rows /\ OrderOK'
<1>1. queue' \in [Rows -> QueueRow]
  BY TypeParts
<1>2. \A y \in Rows : queue'[y].status # "absent" => y \in {x} \/ queue[y].status # "absent"
  BY TypeParts
<1>3. {x} \in SUBSET Rows
  OBVIOUS
<1> QED BY <1>1, <1>2, <1>3, OrderKept, TypeParts

\* A step that leaves the order alone and brings no row into use.
LEMMA OrderSame ==
  ASSUME OrderOK, UNCHANGED order,
         \A x \in Rows : queue'[x].status # "absent" => queue[x].status # "absent"
  PROVE  OrderOK'
  BY DEF OrderOK

\* Types, holders and order under the steps of the projector.
LEMMA ProjectorTyped ==
  ASSUME TypeOK, HoldsWhenBusy, OrderOK, NEW s \in Scopes, NEW n \in GenNo,
         \/ CommitGeneration(s, n) \/ EnqueueReducerBatch(s, n) \/ Activate(s, n)
         \/ ProjectionFails(s, n) \/ ReplayProjection(s, n)
  PROVE  TypeOK' /\ HoldsWhenBusy' /\ OrderOK'
<1>0. /\ proj \in [Scopes -> [GenNo -> ProjRow]] /\ proj[s] \in [GenNo -> ProjRow]
      /\ proj[s][n] \in ProjRow /\ proj[s][n].sent \in 0 .. Len(Domains)
  BY TypeParts, TypeAt
<1>1. ASSUME NEW r \in ProjRow PROVE [proj EXCEPT ![s][n] = r] \in [Scopes -> [GenNo -> ProjRow]]
  BY <1>0
<1>2. ASSUME NEW st \in {"absent", "open", "succeeded", "dead_letter"}
      PROVE  [proj[s][n] EXCEPT !.status = st] \in ProjRow
  BY <1>0 DEF ProjRow
<1>3. ASSUME NEW k \in 0 .. Len(Domains) PROVE [proj[s][n] EXCEPT !.sent = k] \in ProjRow
  BY <1>0 DEF ProjRow
<1>4. CASE CommitGeneration(s, n)
  <2>1. proj' = [proj EXCEPT ![s][n] = [proj[s][n] EXCEPT !.status = "open"]]
    BY <1>4 DEF CommitGeneration
  <2>2. proj' \in [Scopes -> [GenNo -> ProjRow]]
    BY <2>1, <1>1, <1>2
  <2>3. UNCHANGED <<active, queue, order, wk, acks, applied, done>>
    BY <1>4, Zenon DEF CommitGeneration
  <2> QED BY <2>2, <2>3, TypeParts, NextTypeParts DEF HoldsWhenBusy, Busy, OrderOK
<1>5. CASE EnqueueReducerBatch(s, n)
  <2> DEFINE upto == IF proj[s][n].sent + EnqueueBatchSize < Len(Domains)
                     THEN proj[s][n].sent + EnqueueBatchSize ELSE Len(Domains)
             new == {x \in Rows : /\ x.scope = s /\ x.gen = n /\ x.dom > proj[s][n].sent
                                  /\ x.dom <= upto /\ queue[x].status = "absent"}
  <2>1. upto \in 0 .. Len(Domains)
    BY <1>0, DomainCount, ReducerAssumption
  <2>2. /\ proj' = [proj EXCEPT ![s][n] = [proj[s][n] EXCEPT !.sent = upto]]
        /\ queue' = [x \in Rows |-> IF x \in new THEN Row("pending", 0, TRUE) ELSE queue[x]]
        /\ order' = Touched(new) /\ new \in SUBSET Rows
        /\ UNCHANGED <<active, wk, acks, applied, done>>
    BY <1>5 DEF EnqueueReducerBatch
  <2> HIDE DEF upto, new
  <2>3. proj' \in [Scopes -> [GenNo -> ProjRow]]
    BY <2>1, <2>2, <1>1, <1>3
  <2>4. queue' \in [Rows -> QueueRow]
    BY <2>2, RowTyped, TypeParts
  <2>5. \A x \in Rows : queue'[x].status # "absent" => x \in new \/ queue[x].status # "absent"
    BY <2>2
  <2>6. order' \subseteq Rows \X Rows /\ OrderOK'
    BY <2>2, <2>5, OrderKept, TypeParts
  <2> QED BY <2>2, <2>3, <2>4, <2>6, TypeParts, NextTypeParts DEF HoldsWhenBusy, Busy
<1>6. CASE Activate(s, n)
  <2>1. proj' = [proj EXCEPT ![s][n] = [proj[s][n] EXCEPT !.status = "succeeded"]]
    BY <1>6 DEF Activate
  <2>2. proj' \in [Scopes -> [GenNo -> ProjRow]]
    BY <2>1, <1>1, <1>2
  <2>3. n \in 0 .. MaxGen
    BY ReducerAssumption DEF GenNo
  <2>4. active' \in [Scopes -> 0 .. MaxGen] /\ UNCHANGED <<queue, order, wk, acks, applied, done>>
    BY <1>6, <2>3, TypeParts DEF Activate
  <2> QED BY <2>2, <2>4, TypeParts, NextTypeParts DEF HoldsWhenBusy, Busy, OrderOK
<1>7. CASE ProjectionFails(s, n)
  <2>1. PICK st \in {"open", "dead_letter"} :
          proj' = [proj EXCEPT ![s][n] = [status |-> st, sent |-> 0]]
    BY <1>7 DEF ProjectionFails
  <2>2. [status |-> st, sent |-> 0] \in ProjRow
    BY DomainCount DEF ProjRow
  <2>3. proj' \in [Scopes -> [GenNo -> ProjRow]]
    BY <2>1, <2>2, <1>1
  <2>4. UNCHANGED <<active, queue, order, wk, acks, applied, done>>
    BY <1>7, Zenon DEF ProjectionFails
  <2> QED BY <2>3, <2>4, TypeParts, NextTypeParts DEF HoldsWhenBusy, Busy, OrderOK
<1>8. CASE ReplayProjection(s, n)
  <2>1. proj' = [proj EXCEPT ![s][n] = [proj[s][n] EXCEPT !.status = "open"]]
    BY <1>8 DEF ReplayProjection
  <2>2. proj' \in [Scopes -> [GenNo -> ProjRow]]
    BY <2>1, <1>1, <1>2
  <2>3. UNCHANGED <<active, queue, order, wk, acks, applied, done>>
    BY <1>8, Zenon DEF ReplayProjection
  <2> QED BY <2>2, <2>3, TypeParts, NextTypeParts DEF HoldsWhenBusy, Busy, OrderOK
<1> QED BY <1>4, <1>5, <1>6, <1>7, <1>8

\* A failed handler leaves its row in one of the statuses, found or not.
LEMMA FailTyped ==
  ASSUME TypeOK, OrderOK, NEW x \in Rows, NEW attempt \in Nat, NEW retryable \in BOOLEAN,
         Fail(x, attempt, retryable)
  PROVE  queue' \in [Rows -> QueueRow] /\ order' \subseteq Rows \X Rows /\ OrderOK'
<1>1. CASE queue[x].status = "claimed"
  <2>1. queue[x].attempts \in Nat
    BY TypeAt
  <2> DEFINE r == IF retryable /\ attempt < MaxAttempts THEN Row("retrying", queue[x].attempts, FALSE)
                  ELSE Row("dead_letter", queue[x].attempts, FALSE)
  <2>2. queue' = [queue EXCEPT ![x] = r] /\ order' = Touched({x})
    BY <1>1 DEF Fail
  <2>3. r \in QueueRow
    BY <2>1, RowTyped
  <2> HIDE DEF r
  <2> QED BY <1>1, <2>2, <2>3, RowTouched
<1>2. CASE queue[x].status # "claimed"
  <2>1. UNCHANGED <<queue, order>>
    BY <1>2 DEF Fail
  <2> QED BY <2>1, TypeParts DEF OrderOK
<1> QED BY <1>1, <1>2

\* Types, holders and order under the steps of a worker.
LEMMA WorkerTyped ==
  ASSUME TypeOK, HoldsWhenBusy, OrderOK, NEW w \in Workers,
         \/ Work(w) \/ Heartbeat(w) \/ \E retryable \in BOOLEAN : HandlerFails(w, retryable)
  PROVE  TypeOK' /\ HoldsWhenBusy' /\ OrderOK'
<1>0. Busy(w)
  BY DEF Busy, Work, Skip, StartHandler, HandlerSucceeds, HeartbeatRejected, Heartbeat, HandlerFails
<1>a. wk[w].item \in Rows /\ wk[w].attempt \in Nat
  BY <1>0, BusyHoldsRow
<1> DEFINE x == wk[w].item
<1>1. CASE Skip(w)
  <2>1. Report(w, TRUE) /\ done' \subseteq Rows /\ UNCHANGED <<proj, active, queue, order, applied>>
    BY <1>1, <1>a, TypeParts DEF Skip
  <2>2. /\ wk' \in [Workers -> WorkerState] /\ acks' \subseteq Result /\ HoldsWhenBusy'
    BY <2>1, <1>0, ReportTyped
  <2> QED BY <2>1, <2>2, TypeParts, NextTypeParts DEF OrderOK
<1>2. CASE StartHandler(w)
  <2>1. /\ wk' = [wk EXCEPT ![w] = [wk[w] EXCEPT !.pc = "running"]]
        /\ applied' = [applied EXCEPT ![x.scope][x.dom] = 0]
        /\ UNCHANGED <<proj, active, queue, order, acks, done>>
    BY <1>2 DEF StartHandler
  <2>2. [wk[w] EXCEPT !.pc = "running"] \in WorkerState
    BY TypeAt DEF WorkerState
  <2>3. wk' \in [Workers -> WorkerState]
    BY <2>1, <2>2, TypeParts
  <2>4. x.scope \in Scopes /\ x.dom \in Doms /\ 0 \in 0 .. MaxGen
    BY <1>a, RowParts, ReducerAssumption
  <2>5. applied' \in [Scopes -> [Doms -> 0 .. MaxGen]]
    BY <2>1, <2>4, TypeParts
  <2>6. [wk[w] EXCEPT !.pc = "running"].pc = "running" /\ [wk[w] EXCEPT !.pc = "running"].item = wk[w].item
    BY TypeAt DEF WorkerState
  <2>7. \A v \in Workers : wk'[v] = IF v = w THEN [wk[w] EXCEPT !.pc = "running"] ELSE wk[v]
    BY <2>1, TypeParts
  <2>8. HoldsWhenBusy'
    BY <2>6, <2>7, <1>0 DEF HoldsWhenBusy, Busy
  <2> QED BY <2>1, <2>3, <2>5, <2>8, TypeParts, NextTypeParts DEF OrderOK
<1>3. CASE HandlerSucceeds(w)
  <2>1. Wrote(x) /\ Report(w, TRUE) /\ UNCHANGED <<proj, active, queue, order>>
    BY <1>3 DEF HandlerSucceeds
  <2>2. /\ wk' \in [Workers -> WorkerState] /\ acks' \subseteq Result /\ HoldsWhenBusy'
    BY <2>1, <1>0, ReportTyped
  <2>3. applied' \in [Scopes -> [Doms -> 0 .. MaxGen]] /\ done' \subseteq Rows
    BY <2>1, <1>a, WroteTyped
  <2> QED BY <2>1, <2>2, <2>3, TypeParts, NextTypeParts DEF OrderOK
<1>4. CASE HeartbeatRejected(w)
  <2>1. /\ (Report(w, FALSE) /\ UNCHANGED <<applied, done>>) \/ (Wrote(x) /\ Stop)
        /\ UNCHANGED <<proj, active, queue, order>>
    BY <1>4 DEF HeartbeatRejected
  <2>2. /\ wk' \in [Workers -> WorkerState] /\ acks' \subseteq Result /\ HoldsWhenBusy'
    BY <2>1, <1>0, ReportTyped, StopTyped
  <2>3. applied' \in [Scopes -> [Doms -> 0 .. MaxGen]] /\ done' \subseteq Rows
    BY <2>1, <1>a, WroteTyped, TypeParts
  <2> QED BY <2>1, <2>2, <2>3, TypeParts, NextTypeParts DEF OrderOK
<1>5. CASE Heartbeat(w)
  <2>1. /\ queue[x].status = "claimed" /\ order' = Touched({x})
        /\ queue' = [queue EXCEPT ![x] = [queue[x] EXCEPT !.lapsed = FALSE]]
        /\ UNCHANGED <<proj, active, wk, acks, applied, done>>
    BY <1>5 DEF Heartbeat
  <2>2. [queue[x] EXCEPT !.lapsed = FALSE] \in QueueRow
    BY <1>a, TypeAt DEF QueueRow
  <2>3. queue' \in [Rows -> QueueRow] /\ order' \subseteq Rows \X Rows /\ OrderOK'
    BY <2>1, <2>2, <1>a, RowTouched
  <2> QED BY <2>1, <2>3, TypeParts, NextTypeParts DEF HoldsWhenBusy, Busy
<1>6. ASSUME NEW retryable \in BOOLEAN, HandlerFails(w, retryable)
      PROVE  TypeOK' /\ HoldsWhenBusy' /\ OrderOK'
  <2>1. Fail(x, wk[w].attempt, retryable) /\ Report(w, FALSE) /\ UNCHANGED <<proj, active, applied, done>>
    BY <1>6 DEF HandlerFails
  <2>2. /\ wk' \in [Workers -> WorkerState] /\ acks' \subseteq Result /\ HoldsWhenBusy'
    BY <2>1, <1>0, ReportTyped
  <2>3. queue' \in [Rows -> QueueRow] /\ order' \subseteq Rows \X Rows /\ OrderOK'
    BY <2>1, <1>a, FailTyped
  <2> QED BY <2>1, <2>2, <2>3, TypeParts, NextTypeParts
<1> QED BY <1>1, <1>2, <1>3, <1>4, <1>5, <1>6 DEF Work

\* Types, holders and order under acks, crashes, reopened rows and time.
LEMMA OtherTyped ==
  ASSUME TypeOK, HoldsWhenBusy, OrderOK,
         \/ \E S \in SUBSET acks : AckBatch(S)
         \/ Crash
         \/ \E x \in Rows : Reopen(x) \/ Lapse(x) \/ Visible(x)
  PROVE  TypeOK' /\ HoldsWhenBusy' /\ OrderOK'
<1>1. ASSUME NEW S \in SUBSET acks, AckBatch(S) PROVE TypeOK' /\ HoldsWhenBusy' /\ OrderOK'
  <2> DEFINE rows == {x \in Rows : queue[x].status = "claimed" /\ \E a \in S : a.item = x}
  <2>1. /\ queue' = [x \in Rows |-> IF x \in rows THEN Row("succeeded", queue[x].attempts, FALSE)
                                    ELSE queue[x]]
        /\ order' = Touched(rows) /\ acks' = acks \ S /\ rows \in SUBSET Rows
        /\ UNCHANGED <<proj, active, wk, applied, done>>
    BY <1>1 DEF AckBatch
  <2>2. \A x \in rows : queue[x].status # "absent"
    OBVIOUS
  <2> HIDE DEF rows
  <2>3. queue' \in [Rows -> QueueRow]
    BY <2>1, RowTyped, TypeAt, TypeParts
  <2>4. \A x \in Rows : queue'[x].status # "absent" => x \in rows \/ queue[x].status # "absent"
    BY <2>1
  <2>5. order' \subseteq Rows \X Rows /\ OrderOK'
    BY <2>1, <2>4, OrderKept, TypeParts
  <2> QED BY <2>1, <2>3, <2>5, TypeParts, NextTypeParts DEF HoldsWhenBusy, Busy
<1>2. CASE Crash
  <2>1. Stop /\ UNCHANGED <<proj, active, queue, order, applied, done>>
    BY <1>2 DEF Crash
  <2>2. /\ wk' \in [Workers -> WorkerState] /\ acks' \subseteq Result /\ HoldsWhenBusy'
    BY <2>1, StopTyped
  <2> QED BY <2>1, <2>2, TypeParts, NextTypeParts DEF OrderOK
<1>3. ASSUME NEW x \in Rows, Reopen(x) PROVE TypeOK' /\ HoldsWhenBusy' /\ OrderOK'
  <2>1. /\ queue' = [queue EXCEPT ![x] = Row("pending", 0, TRUE)] /\ queue[x].status # "absent"
        /\ order' = Touched({x}) /\ done' = done \ {x}
        /\ UNCHANGED <<proj, active, wk, acks, applied>>
    BY <1>3 DEF Reopen
  <2>2. Row("pending", 0, TRUE) \in QueueRow
    BY RowTyped
  <2>3. queue' \in [Rows -> QueueRow] /\ order' \subseteq Rows \X Rows /\ OrderOK'
    BY <2>1, <2>2, RowTouched
  <2> QED BY <2>1, <2>3, TypeParts, NextTypeParts DEF HoldsWhenBusy, Busy
<1>4. ASSUME NEW x \in Rows, Lapse(x) \/ Visible(x) PROVE TypeOK' /\ HoldsWhenBusy' /\ OrderOK'
  <2>1. /\ \/ queue' = [queue EXCEPT ![x] = [queue[x] EXCEPT !.lapsed = TRUE]]
           \/ queue' = [queue EXCEPT ![x] = [queue[x] EXCEPT !.visible = TRUE]]
        /\ UNCHANGED <<proj, active, order, wk, acks, applied, done>>
    BY <1>4 DEF Lapse, Visible
  <2>2. /\ [queue[x] EXCEPT !.lapsed = TRUE] \in QueueRow
        /\ [queue[x] EXCEPT !.visible = TRUE] \in QueueRow
        /\ [queue[x] EXCEPT !.lapsed = TRUE].status = queue[x].status
        /\ [queue[x] EXCEPT !.visible = TRUE].status = queue[x].status
    BY TypeAt DEF QueueRow
  <2>3. queue' \in [Rows -> QueueRow] /\ \A y \in Rows : queue'[y].status = queue[y].status
    BY <2>1, <2>2, TypeParts
  <2>4. OrderOK'
    BY <2>1, <2>3, OrderSame
  <2> QED BY <2>1, <2>3, <2>4, TypeParts, NextTypeParts DEF HoldsWhenBusy, Busy
<1> QED BY <1>1, <1>2, <1>3, <1>4

\* Types, bounds, holders and order at the start.
LEMMA TypesInit ==
  ASSUME Init
  PROVE  TypeOK /\ BudgetOK /\ HoldsWhenBusy /\ OrderOK
<1>1. [status |-> "absent", sent |-> 0] \in ProjRow /\ 0 \in 0 .. MaxGen
  BY DomainCount, ReducerAssumption DEF ProjRow
<1>2. proj \in [Scopes -> [GenNo -> ProjRow]] /\ active \in [Scopes -> 0 .. MaxGen]
      /\ applied \in [Scopes -> [Doms -> 0 .. MaxGen]]
  BY <1>1 DEF Init
<1>3. queue \in [Rows -> QueueRow] /\ \A x \in Rows : queue[x].status = "absent"
  BY DEF Init, QueueRow
<1>4. wk \in [Workers -> WorkerState] /\ HoldsWhenBusy
  BY DEF Init, ReadyWorker, WorkerState, HoldsWhenBusy, Busy
<1>5. TypeOK
  BY <1>2, <1>3, <1>4, TypeParts DEF Init
<1>6. BudgetOK
  BY ReducerAssumption DEF Init, BudgetOK
<1>7. OrderOK
  BY <1>3 DEF Init, OrderOK
<1> QED BY <1>4, <1>5, <1>6, <1>7

\* They are preserved by every step, as are the bounds.
LEMMA TypesStep ==
  ASSUME TypeOK, BudgetOK, HoldsWhenBusy, OrderOK, [Next]_vars
  PROVE  TypeOK' /\ BudgetOK' /\ HoldsWhenBusy' /\ OrderOK'
<1>0. BudgetOK'
  BY BudgetStep
<1>1. ASSUME NEW s \in Scopes, NEW n \in GenNo,
             \/ CommitGeneration(s, n) \/ EnqueueReducerBatch(s, n) \/ Activate(s, n)
             \/ ProjectionFails(s, n) \/ ReplayProjection(s, n)
      PROVE  TypeOK' /\ HoldsWhenBusy' /\ OrderOK'
  BY <1>1, ProjectorTyped
<1>2. ASSUME NEW W \in SUBSET Workers, ClaimBatch(W) PROVE TypeOK' /\ HoldsWhenBusy' /\ OrderOK'
  BY <1>2, ClaimTyped
<1>3. ASSUME NEW w \in Workers,
             \/ Work(w) \/ Heartbeat(w) \/ \E retryable \in BOOLEAN : HandlerFails(w, retryable)
      PROVE  TypeOK' /\ HoldsWhenBusy' /\ OrderOK'
  BY <1>3, WorkerTyped
<1>4. CASE \/ \E S \in SUBSET acks : AckBatch(S)
           \/ Crash
           \/ \E x \in Rows : Reopen(x) \/ Lapse(x) \/ Visible(x)
  BY <1>0, <1>4, OtherTyped
<1>5. CASE UNCHANGED vars
  <2>1. UNCHANGED <<proj, active, queue, order, wk, acks, applied, done>>
    BY <1>5 DEF vars
  <2> QED BY <1>0, <2>1, TypeParts, NextTypeParts DEF HoldsWhenBusy, Busy, OrderOK
<1>6. CASE Next
  <2>1. CASE \E s \in Scopes, n \in GenNo :
               \/ CommitGeneration(s, n) \/ EnqueueReducerBatch(s, n) \/ Activate(s, n)
               \/ ProjectionFails(s, n) \/ ReplayProjection(s, n)
    BY <1>0, <2>1, <1>1
  <2>2. CASE \E w \in Workers : Work(w) \/ Heartbeat(w)
    BY <1>0, <2>2, <1>3
  <2>3. CASE \E w \in Workers, retryable \in BOOLEAN : HandlerFails(w, retryable)
    BY <1>0, <2>3, <1>3
  <2> QED BY <1>0, <1>6, <2>1, <2>2, <2>3, <1>2, <1>4 DEF Next
<1> QED BY <1>5, <1>6

-----------------------------------------------------------------------------
(* Held rows and waiting results.                                          *)

\* The effect of a report: worker w is idle, and its row has a result.
LEMMA Reported ==
  ASSUME TypeOK, NEW w \in Workers, NEW ok, Report(w, ok)
  PROVE  /\ \A v \in Workers : v # w => wk'[v] = wk[v]
         /\ wk'[w].item = Null
         /\ \A x \in Rows : Waiting(x)' <=> Waiting(x) \/ Holds(w, x)
<1>1. wk' = [wk EXCEPT ![w] = ReadyWorker]
  BY DEF Report
<1>2. (\A v \in Workers : v # w => wk'[v] = wk[v]) /\ wk'[w].item = Null
  BY <1>1, TypeParts DEF ReadyWorker
<1> DEFINE r == [item |-> wk[w].item, attempt |-> wk[w].attempt, ok |-> ok]
<1>3. acks' = acks \union {r} /\ r.item = wk[w].item
  BY DEF Report
<1> HIDE DEF r
<1>4. ASSUME NEW x \in Rows PROVE Waiting(x)' <=> Waiting(x) \/ Holds(w, x)
  BY <1>3 DEF Waiting, Holds
<1> QED BY <1>2, <1>4

\* Stopping leaves nobody busy and nothing waiting.
LEMMA Stopped ==
  ASSUME Stop
  PROVE  /\ \A w \in Workers : wk'[w].item = Null
         /\ \A x \in Rows : ~Waiting(x)'
  BY DEF Stop, ReadyWorker, Waiting

\* What a claim does: every claimed row was ready, none was in flight, waited
\* for or held, and each goes to one worker.
LEMMA ClaimTimely ==
  ASSUME TypeOK, HoldsWhenBusy, OrderOK, Timely, NEW W \in SUBSET Workers, ClaimBatch(W)
  PROVE  Timely'
<1>1. PICK batch \in SUBSET {x \in Rows : Claimable(x)}, V \in SUBSET W : ClaimOf(batch, V)
  BY ClaimParts
<1>2. PICK item \in [V -> batch] :
             /\ \A v, w \in V : item[v] = item[w] => v = w
             /\ \A x \in batch : \E w \in V : item[w] = x
             /\ wk' = [w \in Workers |->
                    IF w \in V THEN [pc |-> "claimed", item |-> item[w],
                                    attempt |-> queue[item[w]].attempts + 1]
                    ELSE wk[w]]
  BY <1>1 DEF ClaimOf
<1>3. batch \subseteq Rows /\ \A x \in batch : Ready(x) /\ KeyFree(x) /\ HeadOfKey(x)
  BY <1>1 DEF Claimable
<1>4. \A x \in batch : ~InFlight(x) /\ ~Waiting(x) /\ \A w \in Workers : ~Holds(w, x)
  BY <1>3 DEF Ready, InFlight, Timely, WaitingAside, HeldInFlight
<1>5. \A x \in Rows : /\ x \in batch => queue'[x].status = "claimed" /\ queue'[x].lapsed = FALSE
                      /\ x \notin batch => queue'[x] = queue[x]
  BY <1>1, <1>3 DEF ClaimOf, Row
<1>6. \A x \in Rows : (InFlight(x)' <=> x \in batch \/ InFlight(x)) /\ (Waiting(x)' <=> Waiting(x))
  <2>1. UNCHANGED <<acks, done>>
    BY ClaimParts, Zenon
  <2> QED BY <1>5, <2>1 DEF InFlight, Waiting
<1>7. \A w \in Workers : /\ w \in V => wk'[w].item = item[w]
                         /\ w \notin V => wk'[w] = wk[w]
  BY <1>2
<1>8. HeldInFlight'
  BY <1>3, <1>4, <1>6, <1>7 DEF HeldInFlight, Holds, Timely
<1>9. HeldOnce'
  BY <1>2, <1>3, <1>4, <1>7 DEF HeldOnce, Holds, Timely
<1>10. WaitingAside'
  BY <1>4, <1>5, <1>6 DEF WaitingAside, Timely
<1>11. ASSUME NEW x \in Rows, NEW y \in Rows, x # y, InFlight(x)', InFlight(y)'
       PROVE  ConflictKey(x) # ConflictKey(y)
  <2>1. CASE x \in batch /\ y \in batch
    <3>1. queue[x].status # "absent" /\ queue[y].status # "absent" /\ Ready(x) /\ Ready(y)
      BY <2>1, <1>3 DEF Ready
    <3>2. Older(x, y) \/ Older(y, x)
      BY <1>11, <3>1 DEF OrderOK, Older
    <3> QED BY <2>1, <3>1, <3>2, <1>3 DEF HeadOfKey
  <2>2. CASE x \in batch /\ y \notin batch
    BY <2>2, <1>3, <1>6, <1>11 DEF KeyFree
  <2>3. CASE x \notin batch /\ y \in batch
    BY <2>3, <1>3, <1>6, <1>11 DEF KeyFree
  <2>4. CASE x \notin batch /\ y \notin batch
    BY <2>4, <1>6, <1>11 DEF KeysApart, Timely
  <2> QED BY <2>1, <2>2, <2>3, <2>4
<1>12. KeysApart'
  BY <1>11 DEF KeysApart
<1>13. ResultIsDone'
  <2>1. UNCHANGED <<acks, done>>
    BY ClaimParts, Zenon
  <2> QED BY <1>4, <1>5, <1>6, <2>1 DEF ResultIsDone, Timely
<1> QED BY <1>8, <1>9, <1>10, <1>12, <1>13 DEF Timely

\* Spending lateness ends OnTime.
LEMMA LateIsLate ==
  ASSUME BudgetOK, OnTime', OnTime
  PROVE  ~Late
<1>1. budget.late = MaxLate /\ budget'.late = MaxLate /\ MaxLate \in Nat
  BY ReducerAssumption DEF OnTime
<1> QED BY <1>1 DEF Late

\* A step that changes neither holders nor results nor what is in flight, and
\* touches no row whose result waits.
LEMMA TimelySame ==
  ASSUME Timely, UNCHANGED <<wk, acks>>,
         \A x \in Rows : (InFlight(x)' <=> InFlight(x)) /\ (Waiting(x) => queue'[x] = queue[x]),
         \A x \in Rows : queue'[x].status = "succeeded" => queue[x].status = "succeeded" /\ x \in done',
         \A x \in done : Waiting(x) => x \in done'
  PROVE  Timely'
<1>1. \A x \in Rows : (Waiting(x)' <=> Waiting(x)) /\ \A w \in Workers : Holds(w, x)' <=> Holds(w, x)
  BY DEF Waiting, Holds
<1>2. HeldInFlight' /\ HeldOnce' /\ KeysApart'
  BY <1>1 DEF Timely, HeldInFlight, HeldOnce, KeysApart
<1>3. WaitingAside'
  BY <1>1 DEF Timely, WaitingAside
<1>4. ResultIsDone'
  BY <1>1 DEF Timely, ResultIsDone
<1> QED BY <1>2, <1>3, <1>4 DEF Timely

\* The steps of the projector.
LEMMA ProjectorTimely ==
  ASSUME TypeOK, Timely, NEW s \in Scopes, NEW n \in GenNo,
         \/ CommitGeneration(s, n) \/ EnqueueReducerBatch(s, n) \/ Activate(s, n)
         \/ ProjectionFails(s, n) \/ ReplayProjection(s, n)
  PROVE  Timely'
<1>1. CASE EnqueueReducerBatch(s, n)
  <2>1. /\ \A x \in Rows : \/ queue'[x] = queue[x]
                           \/ queue[x].status = "absent" /\ queue'[x].status = "pending"
        /\ UNCHANGED <<wk, acks, done>>
    BY <1>1 DEF EnqueueReducerBatch, Row
  <2>2. \A x \in Rows : Waiting(x) => queue[x].status # "absent"
    BY DEF Timely, WaitingAside, InFlight
  <2>3. \A x \in Rows : (InFlight(x)' <=> InFlight(x)) /\ (Waiting(x) => queue'[x] = queue[x])
    BY <2>1, <2>2 DEF InFlight
  <2>4. \A x \in Rows : queue'[x].status = "succeeded" => queue[x].status = "succeeded" /\ x \in done'
    BY <2>1 DEF Timely, ResultIsDone
  <2> QED BY <2>1, <2>3, <2>4, TimelySame
<1>2. CASE \/ CommitGeneration(s, n) \/ Activate(s, n) \/ ProjectionFails(s, n) \/ ReplayProjection(s, n)
  <2>1. UNCHANGED <<queue, wk, acks, done>>
    BY <1>2, Zenon DEF CommitGeneration, Activate, ProjectionFails, ReplayProjection
  <2>2. \A x \in Rows : (InFlight(x)' <=> InFlight(x)) /\ queue'[x] = queue[x]
    BY <2>1 DEF InFlight
  <2>3. \A x \in Rows : queue'[x].status = "succeeded" => queue[x].status = "succeeded" /\ x \in done'
    BY <2>1 DEF Timely, ResultIsDone
  <2> QED BY <2>1, <2>2, <2>3, TimelySame
<1> QED BY <1>1, <1>2

\* A worker that reports: its row is done, or no longer claimed.
LEMMA ReportTimely ==
  ASSUME TypeOK, Timely, NEW w \in Workers, NEW x \in Rows, Holds(w, x), NEW ok, Report(w, ok),
         done \subseteq done', \A y \in Rows : y # x => queue'[y] = queue[y],
         \/ queue'[x] = queue[x] /\ x \in done'
         \/ queue'[x].status = "dead_letter"
         \/ queue'[x].status = "retrying" /\ ~queue'[x].visible
  PROVE  Timely'
<1>1. /\ \A y \in Rows : Waiting(y)' <=> Waiting(y) \/ y = x
      /\ \A v \in Workers, y \in Rows : Holds(v, y)' => v # w /\ Holds(v, y)
  BY Reported, NullAssumption DEF Holds
<1>2. \A y \in Rows : y # x => (InFlight(y)' <=> InFlight(y))
  BY DEF InFlight
<1>3. InFlight(x) /\ (InFlight(x)' => queue'[x] = queue[x] /\ x \in done')
  BY DEF Timely, HeldInFlight, InFlight
<1>4. HeldInFlight' /\ HeldOnce'
  BY <1>1, <1>2 DEF Timely, HeldInFlight, HeldOnce
<1>5. KeysApart'
  BY <1>2, <1>3 DEF Timely, KeysApart
<1>6. WaitingAside'
  BY <1>1, <1>2, <1>3 DEF Timely, WaitingAside, InFlight
<1>7. ResultIsDone'
  BY <1>1, <1>3 DEF Timely, ResultIsDone
<1> QED BY <1>4, <1>5, <1>6, <1>7 DEF Timely

\* The steps of a worker.
LEMMA WorkerTimely ==
  ASSUME TypeOK, HoldsWhenBusy, Timely, NEW w \in Workers,
         \/ Work(w) \/ Heartbeat(w) \/ \E retryable \in BOOLEAN : HandlerFails(w, retryable)
  PROVE  Timely'
<1>0. Busy(w)
  BY DEF Busy, Work, Skip, StartHandler, HandlerSucceeds, HeartbeatRejected, Heartbeat, HandlerFails
<1>a. PICK x \in Rows : x = wk[w].item
  BY <1>0, BusyHoldsRow
<1>b. Holds(w, x) /\ InFlight(x) /\ queue[x].status = "claimed" /\ ~queue[x].lapsed
  BY <1>a DEF Holds, Timely, HeldInFlight, InFlight
<1>1. CASE Skip(w)
  <2>1. Report(w, TRUE) /\ done' = done \union {x} /\ UNCHANGED queue
    BY <1>1, <1>a DEF Skip
  <2> QED BY <2>1, <1>b, ReportTimely
<1>2. CASE StartHandler(w)
  <2>1. wk' = [wk EXCEPT ![w].pc = "running"] /\ UNCHANGED <<queue, acks, done>>
    BY <1>2 DEF StartHandler
  <2>2. \A v \in Workers : wk'[v].item = wk[v].item
    BY <2>1, TypeParts DEF WorkerState
  <2>3. \A y \in Rows : /\ (InFlight(y)' <=> InFlight(y)) /\ (Waiting(y)' <=> Waiting(y))
                        /\ \A v \in Workers : Holds(v, y)' <=> Holds(v, y)
    BY <2>1, <2>2 DEF InFlight, Waiting, Holds
  <2>4. HeldInFlight' /\ HeldOnce' /\ KeysApart'
    BY <2>3 DEF Timely, HeldInFlight, HeldOnce, KeysApart
  <2>5. WaitingAside' /\ ResultIsDone'
    BY <2>1, <2>3 DEF Timely, WaitingAside, ResultIsDone
  <2> QED BY <2>4, <2>5 DEF Timely
<1>3. CASE HandlerSucceeds(w)
  <2>1. Report(w, TRUE) /\ done' = done \union {x} /\ UNCHANGED queue
    BY <1>3, <1>a DEF HandlerSucceeds, Wrote
  <2> QED BY <2>1, <1>b, ReportTimely
<1>4. CASE HeartbeatRejected(w)
  BY <1>4, <1>a, <1>b DEF HeartbeatRejected
<1>5. CASE Heartbeat(w)
  <2>1. queue' = [queue EXCEPT ![x].lapsed = FALSE] /\ UNCHANGED <<wk, acks, done>>
    BY <1>5, <1>a DEF Heartbeat
  <2>2. queue[x] \in QueueRow /\ queue[x].lapsed = FALSE
    BY <1>b, TypeAt DEF QueueRow
  <2>3. [queue[x] EXCEPT !.lapsed = FALSE] = queue[x]
    BY <2>2 DEF QueueRow
  <2>4. queue' = queue
    BY <2>1, <2>3, TypeParts
  <2>5. \A y \in Rows : (InFlight(y)' <=> InFlight(y)) /\ queue'[y] = queue[y]
    BY <2>4 DEF InFlight
  <2>6. \A y \in Rows : queue'[y].status = "succeeded" => queue[y].status = "succeeded" /\ y \in done'
    BY <2>1, <2>4 DEF Timely, ResultIsDone
  <2> QED BY <2>1, <2>5, <2>6, TimelySame
<1>6. ASSUME NEW retryable \in BOOLEAN, HandlerFails(w, retryable) PROVE Timely'
  <2>1. Fail(x, wk[w].attempt, retryable) /\ Report(w, FALSE) /\ UNCHANGED done
    BY <1>6, <1>a DEF HandlerFails
  <2>2. /\ \A y \in Rows : y # x => queue'[y] = queue[y]
        /\ \/ queue'[x] = Row("retrying", queue[x].attempts, FALSE)
           \/ queue'[x] = Row("dead_letter", queue[x].attempts, FALSE)
    BY <2>1, <1>b, TypeParts DEF Fail
  <2>3. \/ queue'[x].status = "dead_letter"
        \/ queue'[x].status = "retrying" /\ ~queue'[x].visible
    BY <2>2 DEF Row
  <2> QED BY <2>1, <2>2, <2>3, <1>b, ReportTimely
<1> QED BY <1>1, <1>2, <1>3, <1>4, <1>5, <1>6 DEF Work

\* Acks, crashes, reopened rows and time.
LEMMA OtherTimely ==
  ASSUME TypeOK, BudgetOK, HoldsWhenBusy, OnTime, OnTime', Timely,
         \/ \E S \in SUBSET acks : AckBatch(S)
         \/ Crash
         \/ \E x \in Rows : Reopen(x) \/ Lapse(x) \/ Visible(x)
  PROVE  Timely'
<1>1. ASSUME NEW S \in SUBSET acks, AckBatch(S) PROVE Timely'
  <2> DEFINE rows == {x \in Rows : queue[x].status = "claimed" /\ \E a \in S : a.item = x}
  <2>1. /\ \A x \in Rows : /\ x \in rows => queue'[x].status = "succeeded"
                           /\ x \notin rows => queue'[x] = queue[x]
        /\ acks' = acks \ S
        /\ UNCHANGED <<wk, done>>
    BY <1>1 DEF AckBatch, Row
  <2>2. \A x \in rows : Waiting(x) /\ queue[x].status = "claimed"
    BY <1>1 DEF Waiting
  <2> HIDE DEF rows
  <2>3. \A x \in Rows : /\ (InFlight(x)' <=> InFlight(x) /\ x \notin rows) /\ (Waiting(x)' => Waiting(x))
                        /\ \A v \in Workers : Holds(v, x)' <=> Holds(v, x)
    BY <2>1 DEF InFlight, Waiting, Holds
  <2>4. HeldInFlight' /\ HeldOnce' /\ KeysApart'
    BY <2>2, <2>3 DEF Timely, HeldInFlight, HeldOnce, KeysApart
  <2>5. WaitingAside' /\ ResultIsDone'
    BY <2>1, <2>2, <2>3 DEF Timely, WaitingAside, ResultIsDone
  <2> QED BY <2>4, <2>5 DEF Timely
<1>2. CASE Crash
  <2>1. Stop /\ UNCHANGED <<queue, done>>
    BY <1>2 DEF Crash
  <2>2. \A x \in Rows : /\ InFlight(x)' <=> InFlight(x)
                        /\ ~Waiting(x)' /\ \A v \in Workers : ~Holds(v, x)'
    BY <2>1, Stopped, NullAssumption DEF InFlight, Holds
  <2>3. HeldInFlight' /\ HeldOnce' /\ WaitingAside' /\ KeysApart'
    BY <2>2 DEF Timely, HeldInFlight, HeldOnce, WaitingAside, KeysApart
  <2>4. ResultIsDone'
    BY <2>1, <2>2 DEF Timely, ResultIsDone
  <2> QED BY <2>3, <2>4 DEF Timely
<1>3. ASSUME NEW x \in Rows, Reopen(x) PROVE Timely'
  <2>1. /\ \A y \in Rows : y # x => queue'[y] = queue[y]
        /\ queue'[x].status = "pending" /\ queue[x].status # "claimed" /\ done' = done \ {x}
        /\ UNCHANGED <<wk, acks>>
    BY <1>3, TypeParts DEF Reopen, Row
  <2>2. ~Waiting(x)
    <3>1. SUFFICES ASSUME Waiting(x) PROVE FALSE
      OBVIOUS
    <3>2. budget'.late = budget.late - 1
      BY <1>3, <3>1 DEF Reopen
    <3> QED BY <3>2, ReducerAssumption DEF OnTime
  <2>3. \A y \in Rows : (InFlight(y)' <=> InFlight(y)) /\ (Waiting(y) => queue'[y] = queue[y])
    BY <2>1, <2>2 DEF InFlight
  <2>4. \A y \in Rows : queue'[y].status = "succeeded" => queue[y].status = "succeeded" /\ y \in done'
    BY <2>1 DEF Timely, ResultIsDone
  <2>5. \A y \in done : Waiting(y) => y \in done'
    BY <2>1, <2>2
  <2> QED BY <2>1, <2>3, <2>4, <2>5, TimelySame
<1>4. ASSUME NEW x \in Rows, Lapse(x) PROVE Timely'
  <2>1. ~Attended(x)
    BY <1>4, LateIsLate DEF Lapse
  <2>2. ~Waiting(x) /\ \A v \in Workers : ~Holds(v, x)
    BY <2>1 DEF Attended, Holds
  <2>3. queue' = [queue EXCEPT ![x].lapsed = TRUE] /\ UNCHANGED <<wk, acks, done>>
    BY <1>4 DEF Lapse
  <2>4. /\ \A y \in Rows : queue'[y].status = queue[y].status /\ (y # x => queue'[y] = queue[y])
        /\ queue'[x].lapsed
    BY <2>3, TypeParts DEF QueueRow
  <2>5. \A y \in Rows : /\ (InFlight(y)' <=> InFlight(y) /\ y # x) /\ (Waiting(y)' <=> Waiting(y))
                        /\ \A v \in Workers : Holds(v, y)' <=> Holds(v, y)
    BY <2>3, <2>4 DEF InFlight, Waiting, Holds
  <2>6. HeldInFlight' /\ HeldOnce' /\ KeysApart'
    BY <2>2, <2>5 DEF Timely, HeldInFlight, HeldOnce, KeysApart
  <2>7. WaitingAside' /\ ResultIsDone'
    BY <2>2, <2>3, <2>4, <2>5 DEF Timely, WaitingAside, ResultIsDone
  <2> QED BY <2>6, <2>7 DEF Timely
<1>5. ASSUME NEW x \in Rows, Visible(x) PROVE Timely'
  <2>1. ~Waiting(x)
    BY <1>5, LateIsLate DEF Visible
  <2>2. /\ queue' = [queue EXCEPT ![x].visible = TRUE] /\ queue[x].status = "retrying"
        /\ UNCHANGED <<wk, acks, done>>
    BY <1>5 DEF Visible
  <2>3. \A y \in Rows : queue'[y].status = queue[y].status /\ (y # x => queue'[y] = queue[y])
    BY <2>2, TypeParts DEF QueueRow
  <2>4. \A y \in Rows : (InFlight(y)' <=> InFlight(y)) /\ (Waiting(y) => queue'[y] = queue[y])
    BY <2>1, <2>2, <2>3 DEF InFlight
  <2>5. \A y \in Rows : queue'[y].status = "succeeded" => queue[y].status = "succeeded" /\ y \in done'
    BY <2>2, <2>3 DEF Timely, ResultIsDone
  <2> QED BY <2>2, <2>4, <2>5, TimelySame
<1> QED BY <1>1, <1>2, <1>3, <1>4, <1>5

\* An empty queue, idle workers: nothing is held, waits or is in flight.
LEMMA QueueInit ==
  ASSUME Init
  PROVE  QueueInv
<1>1. /\ \A x \in Rows : queue[x].status = "absent" /\ ~Waiting(x)
      /\ \A w \in Workers : wk[w].item = Null
  BY DEF Init, Waiting, ReadyWorker
<1>2. \A x \in Rows : ~InFlight(x) /\ \A w \in Workers : ~Holds(w, x)
  BY <1>1, NullAssumption DEF InFlight, Holds
<1>3. Timely
  BY <1>1, <1>2 DEF Timely, HeldInFlight, HeldOnce, WaitingAside, KeysApart, ResultIsDone
<1> QED BY <1>3, TypesInit DEF QueueInv

\* QueueInv is inductive.
LEMMA QueueStep ==
  ASSUME QueueInv, [Next]_vars
  PROVE  QueueInv'
<1> USE DEF QueueInv
<1>1. TypeOK' /\ BudgetOK' /\ HoldsWhenBusy' /\ OrderOK'
  BY TypesStep
<1>2. ASSUME OnTime' PROVE Timely'
  <2>1. OnTime /\ Timely
    BY <1>2, BudgetStep
  <2>2. CASE \E s \in Scopes, n \in GenNo :
               \/ CommitGeneration(s, n) \/ EnqueueReducerBatch(s, n) \/ Activate(s, n)
               \/ ProjectionFails(s, n) \/ ReplayProjection(s, n)
    BY <2>1, <2>2, ProjectorTimely
  <2>3. CASE \E W \in SUBSET Workers : ClaimBatch(W)
    BY <2>1, <2>3, ClaimTimely
  <2>4. CASE \E w \in Workers : Work(w) \/ Heartbeat(w)
    BY <2>1, <2>4, WorkerTimely
  <2>5. CASE \E w \in Workers, retryable \in BOOLEAN : HandlerFails(w, retryable)
    BY <2>1, <2>5, WorkerTimely
  <2>6. CASE \/ \E S \in SUBSET acks : AckBatch(S)
             \/ Crash
             \/ \E x \in Rows : Reopen(x) \/ Lapse(x) \/ Visible(x)
    BY <1>2, <2>1, <2>6, OtherTimely
  <2>7. CASE UNCHANGED vars
    <3>1. UNCHANGED <<queue, wk, acks, done>>
      BY <2>7 DEF vars
    <3>2. \A x \in Rows : (InFlight(x)' <=> InFlight(x)) /\ queue'[x] = queue[x]
      BY <3>1 DEF InFlight
    <3>3. \A x \in Rows : queue'[x].status = "succeeded" => queue[x].status = "succeeded" /\ x \in done'
      BY <3>1, <2>1 DEF Timely, ResultIsDone
    <3> QED BY <2>1, <3>1, <3>2, <3>3, TimelySame
  <2> QED BY <2>2, <2>3, <2>4, <2>5, <2>6, <2>7 DEF Next
<1> QED BY <1>1, <1>2

\* The queue's invariant holds always.
LEMMA QueueInvariant == Spec => []QueueInv
<1>1. Init => QueueInv
  BY QueueInit
<1>2. QueueInv /\ [Next]_vars => QueueInv'
  BY QueueStep
<1> QED BY <1>1, <1>2, PTL DEF Spec

\* Rows, workers and results keep their shapes in every step of the claimer,
\* the workers, the acker, the projector and the operator.
THEOREM ReducerTypes == Spec => []TypeOK
<1>1. QueueInv => TypeOK
  BY DEF QueueInv
<1> QED BY <1>1, QueueInvariant, PTL

\* The conflict fence: for any number of workers, scopes, domains, crashes and
\* retries, handlers of one conflict key never run at the same time while
\* leases are renewed in time.
THEOREM HandlersAreFenced == Spec => []ConflictFence
<1>1. ASSUME QueueInv, OnTime, NEW v \in Workers, NEW w \in Workers, v # w,
             wk[v].pc = "running", wk[w].pc = "running"
      PROVE  ConflictKey(wk[v].item) # ConflictKey(wk[w].item)
  <2>1. Busy(v) /\ Busy(w)
    BY <1>1 DEF Busy
  <2>2. wk[v].item \in Rows /\ wk[w].item \in Rows
    BY <1>1, <2>1, BusyHoldsRow DEF QueueInv
  <2>3. PICK x \in Rows, y \in Rows : Holds(v, x) /\ Holds(w, y)
    BY <2>2 DEF Holds
  <2>4. x # y /\ InFlight(x) /\ InFlight(y)
    BY <1>1, <2>3 DEF QueueInv, Timely, HeldOnce, HeldInFlight
  <2> QED BY <1>1, <2>3, <2>4 DEF QueueInv, Timely, KeysApart, Holds
<1>2. QueueInv => ConflictFence
  BY <1>1 DEF ConflictFence
<1> QED BY <1>2, QueueInvariant, PTL

\* No retry, crash or reopening makes the queue count a row as succeeded whose
\* handler has not completed, and that was not skipped, since it was opened.
THEOREM SucceededRowsWereHandled == Spec => []SucceededWasHandled
<1>1. QueueInv => SucceededWasHandled
  BY DEF QueueInv, Timely, ResultIsDone, SucceededWasHandled
<1> QED BY <1>1, QueueInvariant, PTL

-----------------------------------------------------------------------------
(* Convergence.                                                            *)

\* Projection n of s becomes r, and the others stay.
ProjectionIs(s, n, r) ==
  \A t \in Scopes, m \in GenNo : proj'[t][m] = IF t = s /\ m = n THEN r ELSE proj[t][m]

\* It is not active before, and may be after if all is enqueued; rows come
\* into use, as many as r says.
KeepsRows(s, n, r) ==
  /\ ProjectionIs(s, n, r) /\ proj[s][n].status # "succeeded"
  /\ r.status = "succeeded" => r.sent = Len(Domains)
  /\ \A t \in Scopes : active'[t] = active[t] \/ (t = s /\ active'[t] = n /\ r.status = "succeeded")
  /\ \A x \in Rows : queue[x].status # "absent" => queue'[x].status # "absent"
  /\ \A x \in Rows : x.scope = s /\ x.gen = n /\ x.dom <= r.sent => queue'[x].status # "absent"

\* Such a step keeps Enqueued.
LEMMA EnqueuedKept ==
  ASSUME TypeOK, Enqueued, NEW s \in Scopes, NEW n \in GenNo, NEW r \in ProjRow, KeepsRows(s, n, r)
  PROVE  Enqueued'
<1>1. \A x \in Rows : proj'[x.scope][x.gen] = IF x.scope = s /\ x.gen = n THEN r
                                              ELSE proj[x.scope][x.gen]
  BY RowParts DEF KeepsRows, ProjectionIs
<1>2. \A x \in Rows : x.dom <= proj'[x.scope][x.gen].sent => queue'[x].status # "absent"
  BY <1>1 DEF Enqueued, KeepsRows, ProjectionIs
<1>3. \A t \in Scopes, m \in GenNo : proj'[t][m].status = "succeeded" => proj'[t][m].sent = Len(Domains)
  BY <1>1 DEF Enqueued, KeepsRows, ProjectionIs
<1>4. ASSUME NEW t \in Scopes, active'[t] # 0 PROVE proj'[t][active'[t]].status = "succeeded"
  <2>1. CASE active'[t] = active[t]
    <3>1. active[t] \in GenNo
      BY <1>4, <2>1, TypeParts, ReducerAssumption DEF GenNo
    <3>2. proj[t][active[t]].status = "succeeded"
      BY <1>4, <2>1 DEF Enqueued
    <3> QED BY <2>1, <3>1, <3>2 DEF KeepsRows, ProjectionIs
  <2>2. CASE t = s /\ active'[t] = n /\ r.status = "succeeded"
    BY <2>2 DEF KeepsRows, ProjectionIs
  <2> QED BY <2>1, <2>2 DEF KeepsRows
<1> QED BY <1>2, <1>3, <1>4 DEF Enqueued

\* The other steps leave projections alone and no row goes out of use.
LEMMA EnqueuedSame ==
  ASSUME Enqueued, UNCHANGED <<proj, active>>,
         \A x \in Rows : queue[x].status # "absent" => queue'[x].status # "absent"
  PROVE  Enqueued'
  BY DEF Enqueued

\* A step that leaves projections and the graph alone, moves only rows whose
\* projection is over, and settles and starts nothing new.
LEMMA InOrderSame ==
  ASSUME InOrder, UNCHANGED <<proj, active, applied>>,
         \A x \in Rows : \/ queue'[x].status = queue[x].status
                         \/ proj[x.scope][x.gen].status \notin {"absent", "open"},
         \A x \in Rows : Settled(x)' => Settled(x) \/ x.gen # active[x.scope],
         \A x \in Rows : queue'[x].status = "succeeded" => queue[x].status = "succeeded",
         \A w \in Workers, x \in Rows : Running(w, x)' => Running(w, x)
  PROVE  InOrder'
<1>1. NotBeforeActivation'
  BY DEF InOrder, NotBeforeActivation
<1>2. ActiveHasLastWord'
  BY DEF InOrder, ActiveHasLastWord
<1>3. OldRunsBefore'
  BY DEF InOrder, OldRunsBefore
<1> QED BY <1>1, <1>2, <1>3 DEF InOrder

\* A row that has been claimed belongs to a projection that is over.
LEMMA MovedIsOver ==
  ASSUME TypeOK, InOrder, NEW x \in Rows, queue[x].status \notin {"absent", "pending"}
  PROVE  proj[x.scope][x.gen].status \notin {"absent", "open"}
  BY DEF InOrder, NotBeforeActivation

\* A step of the projector moves no row of a projection that is over, and a
\* generation is activated with its rows still untouched.
KeepsOrder(s, n, r) ==
  /\ ProjectionIs(s, n, r) /\ proj[s][n].status \in {"absent", "open"} /\ r.status # "absent"
  /\ UNCHANGED <<applied, wk, acks>>
  /\ \A t \in Scopes : active'[t] = active[t] \/ (t = s /\ active'[t] = n)
  /\ \A x \in Rows : \/ queue'[x] = queue[x]
                     \/ /\ x.scope = s /\ x.gen = n
                        /\ queue[x].status = "absent" /\ queue'[x].status = "pending"

\* Such a step keeps InOrder.
LEMMA InOrderProjected ==
  ASSUME TypeOK, InOrder, NEW s \in Scopes, NEW n \in GenNo, NEW r \in ProjRow, KeepsOrder(s, n, r)
  PROVE  InOrder'
<1>1. \A x \in Rows : proj'[x.scope][x.gen] = IF x.scope = s /\ x.gen = n THEN r
                                              ELSE proj[x.scope][x.gen]
  BY RowParts DEF KeepsOrder, ProjectionIs
<1>2. \A x \in Rows : x.scope = s /\ x.gen = n => queue[x].status \in {"absent", "pending"}
  BY DEF InOrder, NotBeforeActivation, KeepsOrder
<1>3. NotBeforeActivation'
  BY <1>1, <1>2 DEF InOrder, NotBeforeActivation, KeepsOrder
<1>4. \A x \in Rows : /\ x.scope = s /\ x.gen = n => queue'[x].status \in {"absent", "pending"}
                      /\ queue'[x].status \in {"succeeded", "claimed"} => queue'[x] = queue[x]
  BY <1>2 DEF KeepsOrder
<1>5. \A x \in Rows : x.gen = active'[x.scope] => x.gen = active[x.scope] \/ (x.scope = s /\ x.gen = n)
  BY RowParts DEF KeepsOrder
<1>6. \A x \in Rows : Settled(x)' => Settled(x) /\ ~(x.scope = s /\ x.gen = n)
  BY <1>4 DEF Settled, Waiting, KeepsOrder
<1>7. ActiveHasLastWord'
  BY <1>5, <1>6 DEF InOrder, ActiveHasLastWord, KeepsOrder
<1>8. \A w \in Workers, x \in Rows : Running(w, x)' => Running(w, x)
  BY DEF Running, KeepsOrder
<1>9. OldRunsBefore'
  BY <1>4, <1>5, <1>8 DEF InOrder, OldRunsBefore, KeepsOrder
<1> QED BY <1>3, <1>7, <1>9 DEF InOrder

\* The steps of the projector.
LEMMA ProjectorConverges ==
  ASSUME TypeOK, Enqueued, NEW s \in Scopes, NEW n \in GenNo,
         \/ CommitGeneration(s, n) \/ EnqueueReducerBatch(s, n) \/ Activate(s, n)
         \/ ProjectionFails(s, n) \/ ReplayProjection(s, n)
  PROVE  Enqueued' /\ (InOrder /\ ~ReplayProjection(s, n) => InOrder')
<1>0. /\ proj[s][n] \in ProjRow /\ proj[s][n].sent \in 0 .. Len(Domains)
      /\ \A x \in Rows : x.scope = s /\ x.gen = n /\ x.dom <= proj[s][n].sent => queue[x].status # "absent"
  BY TypeAt DEF Enqueued
<1>a. ASSUME NEW r \in ProjRow, proj' = [proj EXCEPT ![s][n] = r]
      PROVE  ProjectionIs(s, n, r)
  <2>1. proj \in [Scopes -> [GenNo -> ProjRow]] /\ proj[s] \in [GenNo -> ProjRow]
    BY TypeParts
  <2> QED BY <1>a, <2>1 DEF ProjectionIs
<1>1. ASSUME NEW st \in {"open", "succeeded"}
      PROVE  /\ [proj[s][n] EXCEPT !.status = st] \in ProjRow
             /\ [proj[s][n] EXCEPT !.status = st].status = st
             /\ [proj[s][n] EXCEPT !.status = st].sent = proj[s][n].sent
  BY <1>0 DEF ProjRow
<1>2. CASE CommitGeneration(s, n)
  <2>1. PICK r \in ProjRow : /\ r = [proj[s][n] EXCEPT !.status = "open"]
                             /\ r.status = "open" /\ r.sent = proj[s][n].sent
    BY <1>1
  <2>2. /\ proj' = [proj EXCEPT ![s][n] = r] /\ proj[s][n].status = "absent"
        /\ UNCHANGED <<active, queue, applied, wk, acks>>
    BY <1>2, <2>1 DEF CommitGeneration
  <2>b. proj[s][n].status = "absent" /\ UNCHANGED <<active, queue, applied, wk, acks>>
    BY <2>2
  <2>a. ProjectionIs(s, n, r)
    BY <2>2, <1>a
  <2>c. KeepsRows(s, n, r)
    BY <2>1, <2>b, <1>0, <2>a DEF KeepsRows, ProjectionIs
  <2>3. Enqueued'
    BY <2>c, EnqueuedKept
  <2>d. KeepsOrder(s, n, r)
    BY <2>1, <2>b, <2>a DEF KeepsOrder, ProjectionIs
  <2>4. InOrder => InOrder'
    BY <2>d, InOrderProjected
  <2> QED BY <2>3, <2>4
<1>3. CASE EnqueueReducerBatch(s, n)
  <2> DEFINE upto == IF proj[s][n].sent + EnqueueBatchSize < Len(Domains)
                     THEN proj[s][n].sent + EnqueueBatchSize ELSE Len(Domains)
             new == {x \in Rows : /\ x.scope = s /\ x.gen = n /\ x.dom > proj[s][n].sent
                                  /\ x.dom <= upto /\ queue[x].status = "absent"}
  <2>1. upto \in 0 .. Len(Domains)
    BY <1>0, DomainCount, ReducerAssumption
  <2>2. /\ proj' = [proj EXCEPT ![s][n] = [proj[s][n] EXCEPT !.sent = upto]]
        /\ queue' = [x \in Rows |-> IF x \in new THEN Row("pending", 0, TRUE) ELSE queue[x]]
        /\ UNCHANGED <<active, wk, acks, applied>> /\ proj[s][n].status = "open"
    BY <1>3 DEF EnqueueReducerBatch, Projecting
  <2>3. \A x \in Rows : /\ x \in new => /\ x.scope = s /\ x.gen = n
                                        /\ queue[x].status = "absent" /\ queue'[x].status = "pending"
                        /\ x \notin new => queue'[x] = queue[x]
    BY <2>2 DEF Row
  <2>4. \A x \in Rows : x.scope = s /\ x.gen = n /\ x.dom <= upto =>
                          x \in new \/ queue[x].status # "absent"
    BY <1>0, RowParts
  <2> HIDE DEF upto, new
  <2>5. /\ [proj[s][n] EXCEPT !.sent = upto] \in ProjRow
        /\ [proj[s][n] EXCEPT !.sent = upto].status = "open"
        /\ [proj[s][n] EXCEPT !.sent = upto].sent = upto
    BY <1>0, <2>1, <2>2 DEF ProjRow
  <2>6. PICK r \in ProjRow : /\ r = [proj[s][n] EXCEPT !.sent = upto]
                             /\ r.status = "open" /\ r.sent = upto
    BY <2>5
  <2>7. proj' = [proj EXCEPT ![s][n] = r]
    BY <2>2, <2>6
  <2>8. \A x \in Rows : /\ queue[x].status # "absent" => queue'[x].status # "absent"
                        /\ x.scope = s /\ x.gen = n /\ x.dom <= r.sent => queue'[x].status # "absent"
    BY <2>3, <2>4, <2>6
  <2>a. ProjectionIs(s, n, r)
    BY <2>7, <1>a
  <2>b. proj[s][n].status = "open" /\ UNCHANGED <<active, wk, acks, applied>>
    BY <2>2
  <2>c. KeepsRows(s, n, r)
    BY <2>6, <2>b, <2>8, <2>a DEF KeepsRows, ProjectionIs
  <2>9. Enqueued'
    BY <2>c, EnqueuedKept
  <2>d. KeepsOrder(s, n, r)
    BY <2>3, <2>6, <2>b, <2>a DEF KeepsOrder, ProjectionIs
  <2>10. InOrder => InOrder'
    BY <2>d, InOrderProjected
  <2> QED BY <2>9, <2>10
<1>4. CASE Activate(s, n)
  <2>1. PICK r \in ProjRow : /\ r = [proj[s][n] EXCEPT !.status = "succeeded"]
                             /\ r.status = "succeeded" /\ r.sent = proj[s][n].sent
    BY <1>1
  <2>2. /\ proj' = [proj EXCEPT ![s][n] = r] /\ proj[s][n].status = "open"
        /\ r.sent = Len(Domains) /\ active' = [active EXCEPT ![s] = n]
        /\ UNCHANGED <<queue, applied, wk, acks>>
    BY <1>4, <2>1 DEF Activate, Projecting
  <2>b. /\ proj[s][n].status = "open" /\ r.sent = Len(Domains)
        /\ \A t \in Scopes : active'[t] = active[t] \/ (t = s /\ active'[t] = n)
        /\ UNCHANGED <<queue, applied, wk, acks>>
    BY <2>2, TypeParts
  <2>a. ProjectionIs(s, n, r)
    BY <2>2, <1>a
  <2>c. KeepsRows(s, n, r)
    BY <2>1, <2>b, <1>0, <2>a DEF KeepsRows, ProjectionIs
  <2>3. Enqueued'
    BY <2>c, EnqueuedKept
  <2>d. KeepsOrder(s, n, r)
    BY <2>1, <2>b, <2>a DEF KeepsOrder, ProjectionIs
  <2>4. InOrder => InOrder'
    BY <2>d, InOrderProjected
  <2> QED BY <2>3, <2>4
<1>5. CASE ProjectionFails(s, n)
  <2>1. PICK st \in {"open", "dead_letter"} :
          proj' = [proj EXCEPT ![s][n] = [status |-> st, sent |-> 0]]
    BY <1>5 DEF ProjectionFails
  <2>2. [status |-> st, sent |-> 0] \in ProjRow
    BY DomainCount DEF ProjRow
  <2>3. PICK r \in ProjRow : r = [status |-> st, sent |-> 0] /\ r.status = st /\ r.sent = 0
    BY <2>2
  <2>4. /\ proj' = [proj EXCEPT ![s][n] = r] /\ proj[s][n].status = "open"
        /\ UNCHANGED <<active, queue, applied, wk, acks>>
    BY <1>5, <2>1, <2>3 DEF ProjectionFails, Projecting
  <2>5. \A x \in Rows : ~(x.dom <= r.sent)
    BY <2>3, DomainCount DEF Rows, Doms
  <2>a. ProjectionIs(s, n, r)
    BY <2>4, <1>a
  <2>b. proj[s][n].status = "open" /\ UNCHANGED <<active, queue, applied, wk, acks>>
    BY <2>4
  <2>c. KeepsRows(s, n, r)
    BY <2>3, <2>b, <2>5, <2>a DEF KeepsRows, ProjectionIs
  <2>6. Enqueued'
    BY <2>c, EnqueuedKept
  <2>d. KeepsOrder(s, n, r)
    BY <2>3, <2>b, <2>a DEF KeepsOrder, ProjectionIs
  <2>7. InOrder => InOrder'
    BY <2>d, InOrderProjected
  <2> QED BY <2>6, <2>7
<1>6. CASE ReplayProjection(s, n)
  <2>1. PICK r \in ProjRow : /\ r = [proj[s][n] EXCEPT !.status = "open"]
                             /\ r.status = "open" /\ r.sent = proj[s][n].sent
    BY <1>1
  <2>2. /\ proj' = [proj EXCEPT ![s][n] = r] /\ proj[s][n].status = "dead_letter"
        /\ UNCHANGED <<active, queue>>
    BY <1>6, <2>1 DEF ReplayProjection
  <2>b. proj[s][n].status = "dead_letter" /\ UNCHANGED <<active, queue>>
    BY <2>2
  <2>a. ProjectionIs(s, n, r)
    BY <2>2, <1>a
  <2>c. KeepsRows(s, n, r)
    BY <2>1, <2>b, <1>0, <2>a DEF KeepsRows, ProjectionIs
  <2>3. Enqueued'
    BY <2>c, EnqueuedKept
  <2> QED BY <1>6, <2>3
<1> QED BY <1>2, <1>3, <1>4, <1>5, <1>6

\* A claim under the drain gate takes only rows of projections that are over.
LEMMA ClaimConverges ==
  ASSUME TypeOK, Enqueued, NEW W \in SUBSET Workers, ClaimBatch(W)
  PROVE  /\ Enqueued'
         /\ (Timely /\ InOrder /\ \A x \in Rows : Claimable(x) => ~ProjOpen(x.scope)) => InOrder'
<1>1. PICK batch \in SUBSET {x \in Rows : Claimable(x)}, V \in SUBSET W : ClaimOf(batch, V)
  BY ClaimParts
<1>2. \A x \in Rows : /\ x \in batch => queue'[x].status = "claimed"
                      /\ x \notin batch => queue'[x] = queue[x]
  BY <1>1 DEF ClaimOf, Row
<1>3. UNCHANGED <<proj, active, acks, applied>>
  BY ClaimParts, Zenon
<1>4. \A x \in batch : x \in Rows /\ Claimable(x) /\ Ready(x)
  BY <1>1 DEF Claimable
<1>5. \A x \in batch : queue[x].status # "absent"
  BY <1>4 DEF Ready
<1>6. Enqueued'
  BY <1>2, <1>3, <1>5, EnqueuedSame
<1>7. ASSUME Timely, InOrder, \A x \in Rows : Claimable(x) => ~ProjOpen(x.scope) PROVE InOrder'
  <2>0. \A x \in batch : ~Waiting(x)
    BY <1>4, <1>7 DEF Ready, Timely, WaitingAside, InFlight
  <2>1. ASSUME NEW x \in batch PROVE proj[x.scope][x.gen].status \notin {"absent", "open"}
    <3>1. x \in Rows /\ ~ProjOpen(x.scope) /\ x.gen \in GenNo
      BY <1>4, <1>7, RowParts
    <3>2. proj[x.scope][x.gen].status # "open"
      BY <3>1 DEF ProjOpen
    <3> QED BY <1>5, <1>7, <3>1, <3>2 DEF InOrder, NotBeforeActivation
  <2>2. \A x \in Rows : \/ queue'[x].status = queue[x].status
                        \/ proj[x.scope][x.gen].status \notin {"absent", "open"}
    BY <1>2, <2>1
  <2>3. \A x \in Rows : Settled(x)' => Settled(x)
    BY <1>2, <1>3, <2>0 DEF Settled, Waiting
  <2>4. \A x \in Rows : queue'[x].status = "succeeded" => queue[x].status = "succeeded"
    BY <1>2
  <2>5. \A w \in Workers, x \in Rows : Running(w, x)' => Running(w, x)
    BY <1>1 DEF ClaimOf, Running
  <2> QED BY <1>3, <1>7, <2>2, <2>3, <2>4, <2>5, InOrderSame
<1> QED BY <1>6, <1>7

\* Two rows of one scope and domain, one held and one in flight, are the same.
LEMMA OneInFlight ==
  ASSUME Timely, NEW w \in Workers, NEW x \in Rows, NEW y \in Rows, Holds(w, y),
         InFlight(x), x.scope = y.scope, x.dom = y.dom
  PROVE  x = y
  BY SameKey DEF Timely, HeldInFlight, KeysApart

\* Starting a handler: the active generation's own row is the one that starts.
LEMMA StartInOrder ==
  ASSUME TypeOK, Timely, InOrder, NEW w \in Workers, NEW y \in Rows, y = wk[w].item, StartHandler(w)
  PROVE  InOrder'
<1>1. /\ applied' = [applied EXCEPT ![y.scope][y.dom] = 0]
      /\ wk' = [wk EXCEPT ![w].pc = "running"]
      /\ UNCHANGED <<proj, active, queue, acks>>
      /\ active[y.scope] \in {0, y.gen}
  BY DEF StartHandler, Current
<1>2. Holds(w, y) /\ queue[y].status = "claimed" /\ ~Waiting(y)
  BY DEF Holds, Timely, HeldInFlight, InFlight
<1>3. \A x \in Rows : x.scope = y.scope /\ x.dom = y.dom /\ x.gen = active[x.scope] => x = y
  BY <1>1, RowParts, SameParts
<1>4. \A x \in Rows : Settled(x)' <=> Settled(x)
  BY <1>1 DEF Settled, Waiting
<1>5. ~Settled(y)
  BY <1>2 DEF Settled
<1>6. \A x \in Rows : ~(x.scope = y.scope /\ x.dom = y.dom) =>
                        applied'[x.scope][x.dom] = applied[x.scope][x.dom]
  <2>1. ASSUME NEW x \in Rows, ~(x.scope = y.scope /\ x.dom = y.dom)
        PROVE  applied'[x.scope][x.dom] = applied[x.scope][x.dom]
    <3>1. x.scope \in Scopes /\ x.dom \in Doms /\ y.scope \in Scopes /\ y.dom \in Doms
      BY RowParts
    <3>2. applied \in [Scopes -> [Doms -> 0 .. MaxGen]]
      BY TypeParts
    <3> QED BY <2>1, <3>1, <3>2, <1>1
  <2> QED BY <2>1
<1>7. ActiveHasLastWord'
  BY <1>1, <1>3, <1>4, <1>5, <1>6 DEF InOrder, ActiveHasLastWord
<1>8. NotBeforeActivation'
  BY <1>1 DEF InOrder, NotBeforeActivation
<1>9. \A v \in Workers, x \in Rows : Running(v, x)' => Running(v, x) \/ (v = w /\ x = y)
  BY <1>1, TypeParts DEF Running, WorkerState
<1>10. OldRunsBefore'
  BY <1>1, <1>3, <1>9 DEF InOrder, OldRunsBefore
<1> QED BY <1>7, <1>8, <1>10 DEF InOrder

\* A handler completes: no row of its scope and domain is settled for another
\* generation that is active.
LEMMA SuccessInOrder ==
  ASSUME TypeOK, Timely, InOrder, NEW w \in Workers, NEW y \in Rows, y = wk[w].item, HandlerSucceeds(w)
  PROVE  InOrder'
<1>1. /\ applied' = [applied EXCEPT ![y.scope][y.dom] = y.gen]
      /\ Report(w, TRUE) /\ Running(w, y) /\ Holds(w, y)
      /\ UNCHANGED <<proj, active, queue>>
  BY DEF HandlerSucceeds, Wrote, Running, Holds
<1>2. /\ \A x \in Rows : Waiting(x)' <=> Waiting(x) \/ x = y
      /\ \A v \in Workers, x \in Rows : Running(v, x)' => Running(v, x)
  BY <1>1, Reported, NullAssumption DEF Running, Holds
<1>3. ASSUME NEW x \in Rows, x # y, x.scope = y.scope, x.dom = y.dom, x.gen = active[x.scope]
      PROVE  ~Settled(x)
  <2>1. queue[x].status # "succeeded"
    BY <1>1, <1>3 DEF InOrder, OldRunsBefore
  <2>2. ~InFlight(x)
    BY <1>1, <1>3, OneInFlight
  <2> QED BY <2>1, <2>2 DEF Settled, Timely, WaitingAside
<1>4. \A x \in Rows : x # y => (Settled(x)' => Settled(x))
  BY <1>1, <1>2 DEF Settled
<1>5. \A x \in Rows : /\ x.scope = y.scope /\ x.dom = y.dom => applied'[x.scope][x.dom] = y.gen
                      /\ ~(x.scope = y.scope /\ x.dom = y.dom) =>
                           applied'[x.scope][x.dom] = applied[x.scope][x.dom]
  <2>1. ASSUME NEW x \in Rows
        PROVE  /\ x.scope = y.scope /\ x.dom = y.dom => applied'[x.scope][x.dom] = y.gen
               /\ ~(x.scope = y.scope /\ x.dom = y.dom) =>
                           applied'[x.scope][x.dom] = applied[x.scope][x.dom]
    <3>1. x.scope \in Scopes /\ x.dom \in Doms /\ y.scope \in Scopes /\ y.dom \in Doms
      BY RowParts
    <3>2. applied \in [Scopes -> [Doms -> 0 .. MaxGen]]
      BY TypeParts
    <3> QED BY <3>1, <3>2, <1>1
  <2> QED BY <2>1
<1>6. ActiveHasLastWord'
  BY <1>1, <1>3, <1>4, <1>5 DEF InOrder, ActiveHasLastWord
<1>7. NotBeforeActivation'
  BY <1>1 DEF InOrder, NotBeforeActivation
<1>8. OldRunsBefore'
  BY <1>1, <1>2 DEF InOrder, OldRunsBefore
<1> QED BY <1>6, <1>7, <1>8 DEF InOrder

\* The steps of a worker bring no row out of use.
LEMMA WorkerEnqueued ==
  ASSUME TypeOK, HoldsWhenBusy, Enqueued, NEW w \in Workers,
         \/ Work(w) \/ Heartbeat(w) \/ \E retryable \in BOOLEAN : HandlerFails(w, retryable)
  PROVE  Enqueued'
<1>0. Busy(w)
  BY DEF Busy, Work, Skip, StartHandler, HandlerSucceeds, HeartbeatRejected, Heartbeat, HandlerFails
<1>a. PICK x \in Rows : x = wk[w].item
  BY <1>0, BusyHoldsRow
<1>1. UNCHANGED <<proj, active>>
  BY Zenon DEF Work, Skip, StartHandler, HandlerSucceeds, HeartbeatRejected, Heartbeat, HandlerFails
<1>2. CASE Work(w)
  <2>1. UNCHANGED queue
    BY <1>2, Zenon DEF Work, Skip, StartHandler, HandlerSucceeds, HeartbeatRejected
  <2> QED BY <1>1, <2>1, EnqueuedSame
<1>3. CASE Heartbeat(w)
  <2>1. queue' = [queue EXCEPT ![x].lapsed = FALSE]
    BY <1>3, <1>a DEF Heartbeat
  <2>2. \A y \in Rows : queue'[y].status = queue[y].status
    BY <2>1, TypeParts DEF QueueRow
  <2> QED BY <1>1, <2>2, EnqueuedSame
<1>4. ASSUME NEW retryable \in BOOLEAN, HandlerFails(w, retryable) PROVE Enqueued'
  <2>1. Fail(x, wk[w].attempt, retryable)
    BY <1>4, <1>a DEF HandlerFails
  <2>2. \A y \in Rows : queue[y].status # "absent" => queue'[y].status # "absent"
    BY <2>1, TypeParts DEF Fail, Row
  <2> QED BY <1>1, <2>2, EnqueuedSame
<1> QED BY <1>2, <1>3, <1>4

\* The steps of a worker.
LEMMA WorkerInOrder ==
  ASSUME TypeOK, HoldsWhenBusy, Timely, InOrder, NEW w \in Workers,
         \/ Work(w) \/ Heartbeat(w) \/ \E retryable \in BOOLEAN : HandlerFails(w, retryable)
  PROVE  InOrder'
<1>0. Busy(w)
  BY DEF Busy, Work, Skip, StartHandler, HandlerSucceeds, HeartbeatRejected, Heartbeat, HandlerFails
<1>a. PICK x \in Rows : x = wk[w].item
  BY <1>0, BusyHoldsRow
<1>b. Holds(w, x) /\ InFlight(x) /\ queue[x].status = "claimed" /\ ~queue[x].lapsed
  BY <1>a DEF Holds, Timely, HeldInFlight, InFlight
<1>c. proj[x.scope][x.gen].status \notin {"absent", "open"}
  BY <1>b, MovedIsOver
<1>d. ASSUME NEW ok, Report(w, ok)
      PROVE  /\ \A y \in Rows : Waiting(y)' <=> Waiting(y) \/ y = x
             /\ \A v \in Workers, y \in Rows : Running(v, y)' => Running(v, y)
  BY <1>a, <1>d, Reported, NullAssumption DEF Running, Holds
<1>1. CASE Skip(w)
  <2>1. Report(w, TRUE) /\ ~Current(x) /\ UNCHANGED <<proj, active, queue, applied>>
    BY <1>1, <1>a DEF Skip
  <2>2. x.gen # active[x.scope]
    BY <2>1 DEF Current
  <2>3. \A y \in Rows : Waiting(y)' <=> Waiting(y) \/ y = x
    BY <2>1, <1>d
  <2>4. \A v \in Workers, y \in Rows : Running(v, y)' => Running(v, y)
    BY <2>1, <1>d
  <2>5. \A y \in Rows : Settled(y)' => Settled(y) \/ y.gen # active[y.scope]
    BY <2>1, <2>2, <2>3 DEF Settled
  <2> QED BY <2>1, <2>4, <2>5, InOrderSame
<1>2. CASE StartHandler(w)
  BY <1>2, <1>a, StartInOrder
<1>3. CASE HandlerSucceeds(w)
  BY <1>3, <1>a, SuccessInOrder
<1>4. CASE HeartbeatRejected(w)
  BY <1>4, <1>a, <1>b DEF HeartbeatRejected
<1>5. CASE Heartbeat(w)
  <2>1. queue' = [queue EXCEPT ![x].lapsed = FALSE] /\ UNCHANGED <<proj, active, wk, acks, applied>>
    BY <1>5, <1>a DEF Heartbeat
  <2>2. \A y \in Rows : queue'[y].status = queue[y].status
    BY <2>1, TypeParts DEF QueueRow
  <2>3. /\ \A y \in Rows : Settled(y)' => Settled(y)
        /\ \A v \in Workers, y \in Rows : Running(v, y)' => Running(v, y)
    BY <2>1, <2>2 DEF Settled, Waiting, Running
  <2> QED BY <2>1, <2>2, <2>3, InOrderSame
<1>6. ASSUME NEW retryable \in BOOLEAN, HandlerFails(w, retryable) PROVE InOrder'
  <2>1. Fail(x, wk[w].attempt, retryable) /\ Report(w, FALSE) /\ UNCHANGED <<proj, active, applied>>
    BY <1>6, <1>a DEF HandlerFails
  <2>2. /\ \A y \in Rows : y # x => queue'[y] = queue[y]
        /\ queue'[x].status \in {"retrying", "dead_letter"}
    BY <2>1, <1>b, TypeParts DEF Fail, Row
  <2>3. \A y \in Rows : Waiting(y)' <=> Waiting(y) \/ y = x
    BY <2>1, <1>d
  <2>4. \A v \in Workers, y \in Rows : Running(v, y)' => Running(v, y)
    BY <2>1, <1>d
  <2>5. \A y \in Rows : Settled(y)' => Settled(y)
    BY <2>2, <2>3 DEF Settled
  <2>6. \A y \in Rows : \/ queue'[y].status = queue[y].status
                        \/ proj[y.scope][y.gen].status \notin {"absent", "open"}
    BY <2>2, <1>c
  <2>7. \A y \in Rows : queue'[y].status = "succeeded" => queue[y].status = "succeeded"
    BY <2>2
  <2> QED BY <2>1, <2>4, <2>5, <2>6, <2>7, InOrderSame
<1> QED BY <1>1, <1>2, <1>3, <1>4, <1>5, <1>6 DEF Work

\* An ack: the rows it settles had their last word, and no handler of another
\* generation runs beside them.
LEMMA AckInOrder ==
  ASSUME TypeOK, HoldsWhenBusy, Timely, InOrder, NEW S \in SUBSET acks, AckBatch(S)
  PROVE  InOrder'
<1> DEFINE rows == {x \in Rows : queue[x].status = "claimed" /\ \E a \in S : a.item = x}
<1>1. /\ \A x \in Rows : /\ x \in rows => queue'[x].status = "succeeded"
                         /\ x \notin rows => queue'[x] = queue[x]
      /\ acks' = acks \ S
      /\ UNCHANGED <<proj, active, wk, applied>>
  BY DEF AckBatch, Row
<1>2. \A x \in rows : Waiting(x) /\ queue[x].status = "claimed"
  BY DEF Waiting
<1> HIDE DEF rows
<1>3. \A x \in Rows : Settled(x)' => Settled(x)
  BY <1>1, <1>2 DEF Settled, Waiting
<1>4. \A x \in rows : x \in Rows => InFlight(x) /\ proj[x.scope][x.gen].status \notin {"absent", "open"}
  BY <1>2, MovedIsOver DEF Timely, WaitingAside
<1>5. NotBeforeActivation'
  BY <1>1, <1>4 DEF InOrder, NotBeforeActivation
<1>6. ActiveHasLastWord'
  BY <1>1, <1>3 DEF InOrder, ActiveHasLastWord
<1>7. \A w \in Workers, y \in Rows : (Running(w, y)' <=> Running(w, y)) /\ (Running(w, y) => Holds(w, y))
  BY <1>1 DEF Running, Holds
<1>8. ASSUME NEW w \in Workers, NEW x \in Rows, NEW y \in Rows, Running(w, y), x # y,
             x.scope = y.scope, x.dom = y.dom
      PROVE  x \notin rows
  BY <1>4, <1>7, <1>8, OneInFlight
<1>9. OldRunsBefore'
  BY <1>1, <1>7, <1>8 DEF InOrder, OldRunsBefore
<1> QED BY <1>5, <1>6, <1>9 DEF InOrder

\* Acks, crashes, reopened rows and time.
LEMMA OtherConverges ==
  ASSUME TypeOK, HoldsWhenBusy, Enqueued,
         \/ \E S \in SUBSET acks : AckBatch(S)
         \/ Crash
         \/ \E x \in Rows : Reopen(x) \/ Lapse(x) \/ Visible(x)
  PROVE  Enqueued' /\ (Timely /\ InOrder => InOrder')
<1>1. ASSUME NEW S \in SUBSET acks, AckBatch(S) PROVE Enqueued' /\ (Timely /\ InOrder => InOrder')
  <2>1. /\ \A x \in Rows : queue[x].status # "absent" => queue'[x].status # "absent"
        /\ UNCHANGED <<proj, active>>
    BY <1>1 DEF AckBatch, Row
  <2>2. Enqueued'
    BY <2>1, EnqueuedSame
  <2>3. Timely /\ InOrder => InOrder'
    BY <1>1, AckInOrder
  <2> QED BY <2>2, <2>3
<1>2. CASE Crash
  <2>1. Stop /\ UNCHANGED <<proj, active, queue, applied>>
    BY <1>2 DEF Crash
  <2>2. \A x \in Rows : Settled(x)' => Settled(x)
    BY <2>1, Stopped DEF Settled
  <2>3. \A w \in Workers, x \in Rows : ~Running(w, x)'
    BY <2>1, Stopped, NullAssumption DEF Running
  <2>4. Enqueued'
    BY <2>1, EnqueuedSame
  <2>5. InOrder => InOrder'
    BY <2>1, <2>2, <2>3, InOrderSame
  <2> QED BY <2>4, <2>5
<1>3. ASSUME NEW x \in Rows, Reopen(x) PROVE Enqueued' /\ (InOrder => InOrder')
  <2>1. /\ \A y \in Rows : y # x => queue'[y] = queue[y]
        /\ queue'[x].status = "pending" /\ queue[x].status \in {"succeeded", "dead_letter"}
        /\ UNCHANGED <<proj, active, wk, acks, applied>>
    BY <1>3, TypeParts DEF Reopen, Row
  <2>2. \A y \in Rows : /\ Settled(y)' => Settled(y)
                        /\ queue[y].status # "absent" => queue'[y].status # "absent"
                        /\ queue'[y].status = "succeeded" => queue[y].status = "succeeded"
    BY <2>1 DEF Settled, Waiting
  <2>3. \A w \in Workers, y \in Rows : Running(w, y)' => Running(w, y)
    BY <2>1 DEF Running
  <2>4. Enqueued'
    BY <2>1, <2>2, EnqueuedSame
  <2>5. ASSUME InOrder PROVE InOrder'
    <3>1. proj[x.scope][x.gen].status \notin {"absent", "open"}
      BY <2>1, <2>5, MovedIsOver
    <3>2. \A y \in Rows : \/ queue'[y].status = queue[y].status
                          \/ proj[y.scope][y.gen].status \notin {"absent", "open"}
      BY <2>1, <3>1
    <3> QED BY <2>1, <2>2, <2>3, <2>5, <3>2, InOrderSame
  <2> QED BY <2>4, <2>5
<1>4. ASSUME NEW x \in Rows, Lapse(x) \/ Visible(x) PROVE Enqueued' /\ (InOrder => InOrder')
  <2>1. /\ \/ queue' = [queue EXCEPT ![x].lapsed = TRUE]
           \/ queue' = [queue EXCEPT ![x].visible = TRUE]
        /\ UNCHANGED <<proj, active, wk, acks, applied>>
    BY <1>4 DEF Lapse, Visible
  <2>2. \A y \in Rows : queue'[y].status = queue[y].status
    <3>1. CASE queue' = [queue EXCEPT ![x].lapsed = TRUE]
      BY <3>1, TypeParts DEF QueueRow
    <3>2. CASE queue' = [queue EXCEPT ![x].visible = TRUE]
      BY <3>2, TypeParts DEF QueueRow
    <3> QED BY <2>1, <3>1, <3>2
  <2>3. /\ \A y \in Rows : Settled(y)' => Settled(y)
        /\ \A v \in Workers, y \in Rows : Running(v, y)' => Running(v, y)
    BY <2>1, <2>2 DEF Settled, Waiting, Running
  <2>4. Enqueued'
    BY <2>1, <2>2, EnqueuedSame
  <2>5. InOrder => InOrder'
    BY <2>1, <2>2, <2>3, InOrderSame
  <2> QED BY <2>4, <2>5
<1> QED BY <1>1, <1>2, <1>3, <1>4

\* Under the gate no row of a scope with an open projection is claimable.
LEMMA GateShut ==
  Gate => \A x \in Rows : Claimable(x) => ~ProjOpen(x.scope)
  BY Zenon DEF Claimable, PassesGate

\* The premises of convergence are lost for good.
LEMMA OrderlyBefore ==
  ASSUME BudgetOK, [Next]_vars
  PROVE  Orderly' => Orderly /\ OnTime'
<1>1. /\ (OnTime' => OnTime)
      /\ (budget'.replays = MaxReplays => budget.replays = MaxReplays)
  BY BudgetStep
<1> QED BY <1>1, Zenon DEF Orderly

\* A replay is seen in the bounds.
LEMMA ReplayIsSeen ==
  ASSUME BudgetOK, NEW s \in Scopes, NEW n \in GenNo, ReplayProjection(s, n)
  PROVE  budget'.replays # MaxReplays
<1>1. /\ budget \in [faults : Nat, late : Nat, reopens : Nat, replays : Nat]
      /\ budget.replays \in Nat /\ budget.replays <= MaxReplays
  BY DEF BudgetOK
<1>2. budget'.replays = budget.replays - 1
  BY <1>1 DEF ReplayProjection
<1> QED BY <1>1, <1>2, ReducerAssumption

\* Nothing is committed, enqueued or active at first.
LEMMA ConvergeInit ==
  ASSUME Init
  PROVE  ConvergeInv
<1>1. /\ \A x \in Rows : queue[x].status = "absent" /\ ~Waiting(x) /\ proj[x.scope][x.gen].sent = 0
      /\ \A s \in Scopes, n \in GenNo : proj[s][n].status = "absent"
      /\ \A s \in Scopes : active[s] = 0
  BY RowParts DEF Init, Waiting
<1>2. Enqueued
  BY <1>1, RowParts, DomainCount DEF Enqueued, Doms
<1>3. InOrder
  BY <1>1 DEF InOrder, NotBeforeActivation, ActiveHasLastWord, OldRunsBefore, Settled
<1> QED BY <1>2, <1>3 DEF ConvergeInv

\* Every step keeps Enqueued.
LEMMA EnqueuedStep ==
  ASSUME QueueInv, Enqueued, [Next]_vars
  PROVE  Enqueued'
<1>1. ASSUME NEW s \in Scopes, NEW n \in GenNo,
             \/ CommitGeneration(s, n) \/ EnqueueReducerBatch(s, n) \/ Activate(s, n)
             \/ ProjectionFails(s, n) \/ ReplayProjection(s, n)
      PROVE  Enqueued'
  BY <1>1, ProjectorConverges DEF QueueInv
<1>2. ASSUME NEW W \in SUBSET Workers, ClaimBatch(W) PROVE Enqueued'
  BY <1>2, ClaimConverges DEF QueueInv
<1>3. ASSUME NEW w \in Workers,
             \/ Work(w) \/ Heartbeat(w) \/ \E retryable \in BOOLEAN : HandlerFails(w, retryable)
      PROVE  Enqueued'
  BY <1>3, WorkerEnqueued DEF QueueInv
<1>4. CASE \/ \E S \in SUBSET acks : AckBatch(S)
           \/ Crash
           \/ \E x \in Rows : Reopen(x) \/ Lapse(x) \/ Visible(x)
  BY <1>4, OtherConverges DEF QueueInv
<1>5. CASE UNCHANGED vars
  BY <1>5 DEF vars, Enqueued
<1>6. CASE \E w \in Workers : Work(w) \/ Heartbeat(w)
  BY <1>3, <1>6
<1>7. CASE \E w \in Workers, retryable \in BOOLEAN : HandlerFails(w, retryable)
  BY <1>3, <1>7
<1> QED BY <1>1, <1>2, <1>4, <1>5, <1>6, <1>7 DEF Next

\* Every step keeps InOrder, unless a projection is replayed or the gate is off.
LEMMA InOrderStep ==
  ASSUME QueueInv, Enqueued, Timely, InOrder, [Next]_vars, budget'.replays = MaxReplays,
         \A x \in Rows : Claimable(x) => ~ProjOpen(x.scope)
  PROVE  InOrder'
<1>1. ASSUME NEW s \in Scopes, NEW n \in GenNo,
             \/ CommitGeneration(s, n) \/ EnqueueReducerBatch(s, n) \/ Activate(s, n)
             \/ ProjectionFails(s, n) \/ ReplayProjection(s, n)
      PROVE  InOrder'
  <2>1. ~ReplayProjection(s, n)
    BY ReplayIsSeen DEF QueueInv
  <2> QED BY <1>1, <2>1, ProjectorConverges DEF QueueInv
<1>2. ASSUME NEW W \in SUBSET Workers, ClaimBatch(W) PROVE InOrder'
  BY <1>2, ClaimConverges DEF QueueInv
<1>3. ASSUME NEW w \in Workers,
             \/ Work(w) \/ Heartbeat(w) \/ \E retryable \in BOOLEAN : HandlerFails(w, retryable)
      PROVE  InOrder'
  BY <1>3, WorkerInOrder DEF QueueInv
<1>4. CASE \/ \E S \in SUBSET acks : AckBatch(S)
           \/ Crash
           \/ \E x \in Rows : Reopen(x) \/ Lapse(x) \/ Visible(x)
  BY <1>4, OtherConverges DEF QueueInv
<1>5. CASE UNCHANGED vars
  BY <1>5 DEF vars, InOrder, NotBeforeActivation, ActiveHasLastWord, OldRunsBefore, Settled, Waiting,
              Running
<1>6. CASE \E w \in Workers : Work(w) \/ Heartbeat(w)
  BY <1>3, <1>6
<1>7. CASE \E w \in Workers, retryable \in BOOLEAN : HandlerFails(w, retryable)
  BY <1>3, <1>7
<1> QED BY <1>1, <1>2, <1>4, <1>5, <1>6, <1>7 DEF Next

\* ConvergeInv is inductive relative to QueueInv.
LEMMA ConvergeStep ==
  ASSUME QueueInv, ConvergeInv, [Next]_vars
  PROVE  ConvergeInv'
<1>1. Enqueued /\ (Orderly => InOrder)
  BY Zenon DEF ConvergeInv
<1>2. Enqueued'
  BY <1>1, EnqueuedStep
<1>3. ASSUME Orderly' PROVE InOrder'
  <2>1. Orderly /\ OnTime'
    BY <1>3, OrderlyBefore, Zenon DEF QueueInv
  <2>2. Gate /\ OnTime /\ budget'.replays = MaxReplays
    BY <1>3, <2>1, Zenon DEF Orderly
  <2>3. Timely /\ InOrder
    BY <1>1, <2>1, <2>2, Zenon DEF QueueInv
  <2>4. \A x \in Rows : Claimable(x) => ~ProjOpen(x.scope)
    BY <2>2, GateShut, Zenon
  <2>5. budget'.replays = MaxReplays
    BY <2>2, Zenon
  <2> QED BY <1>1, <2>3, <2>4, <2>5, InOrderStep, Zenon
<1> QED BY <1>2, <1>3, Zenon DEF ConvergeInv

\* "Graph truth matches fact intent after the run completes": for any number of
\* scopes, generations, domains and workers and any schedule of claims, retries,
\* crashes, failed projections and reopened rows, a drained scope shows its
\* active generation in every domain, if the drain gate is on, leases and acks
\* are in time and no dead-lettered projection was replayed.
THEOREM DrainedMeansConverged == Spec => []DrainedIsConverged
<1>1. ASSUME QueueInv, Enqueued, InOrder, NEW s \in Scopes, NEW d \in Doms, Drained(s), active[s] # 0
      PROVE  applied[s][d] = active[s]
  <2>1. active[s] \in GenNo
    BY <1>1, TypeParts, ReducerAssumption DEF QueueInv, GenNo
  <2>2. PICK x \in Rows : x.scope = s /\ x.gen = active[s] /\ x.dom = d
    <3>1. [scope |-> s, gen |-> active[s], dom |-> d] \in Rows
      BY <1>1, <2>1 DEF Rows
    <3> QED BY <3>1
  <2>3. proj[s][active[s]].sent = Len(Domains)
    BY <1>1, <2>1 DEF Enqueued
  <2>4. queue[x].status # "absent"
    BY <1>1, <2>2, <2>3, DomainCount DEF Enqueued, Doms
  <2>5. Settled(x)
    BY <1>1, <2>2, <2>4 DEF Drained, Settled
  <2> QED BY <1>1, <2>2, <2>5 DEF InOrder, ActiveHasLastWord
<1>2. QueueInv /\ ConvergeInv => DrainedIsConverged
  <2>1. SUFFICES ASSUME QueueInv, ConvergeInv, Gate, OnTime, budget.replays = MaxReplays,
                        NEW s \in Scopes, Drained(s), active[s] # 0, NEW d \in Doms
                 PROVE  applied[s][d] = active[s]
    BY Zenon DEF DrainedIsConverged
  <2>2. Enqueued /\ InOrder
    BY <2>1, Zenon DEF ConvergeInv, Orderly
  <2> QED BY <2>1, <2>2, <1>1, Zenon
<1>3. Init => ConvergeInv
  BY ConvergeInit
<1>4. QueueInv /\ ConvergeInv /\ [Next]_vars => ConvergeInv'
  BY ConvergeStep
<1> QED BY <1>2, <1>3, <1>4, QueueInvariant, PTL DEF Spec

-----------------------------------------------------------------------------
(* The cap on semantic handlers.                                           *)

\* There are finitely many rows.
LEMMA RowsFinite == IsFiniteSet(Rows)
<1>1. IsFiniteSet(Scopes) /\ IsFiniteSet(GenNo) /\ IsFiniteSet(Doms)
  BY FS_Interval, DomainCount, ReducerAssumption DEF Scopes, GenNo, Doms
<1>2. IsFiniteSet(GenNo \X Doms)
  BY <1>1, FS_Product
<1>3. IsFiniteSet(Scopes \X (GenNo \X Doms))
  BY <1>1, <1>2, FS_Product
<1> DEFINE P == Scopes \X (GenNo \X Doms)
           f == [x \in Rows |-> <<x.scope, <<x.gen, x.dom>>>>]
<1>4. f \in [Rows -> P]
  BY RowParts
<1>5. ASSUME NEW x \in Rows, NEW y \in Rows, f[x] = f[y] PROVE x = y
  <2>1. x.scope = y.scope /\ x.gen = y.gen /\ x.dom = y.dom
    BY <1>5
  <2> QED BY <2>1, SameParts
<1> HIDE DEF f, P
<1>6. f \in Injection(Rows, P)
  <2>1. \A x, y \in Rows : f[x] = f[y] => x = y
    BY <1>5
  <2> QED BY <1>4, <2>1 DEF Injection, IsInjective
<1>7. IsFiniteSet(P)
  BY <1>3 DEF P
<1> QED BY <1>6, <1>7, FS_Injection

\* A nonempty set of rows has one that no other of them is younger than.
LEMMA LastRow ==
  ASSUME OrderOK, NEW B \in SUBSET Rows, B # {}
  PROVE  \E x \in B : \A y \in B : ~Older(x, y)
<1> DEFINE Later(x) == {y \in B : Older(x, y)}
           T == {Later(x) : x \in B}
<1>1. IsFiniteSet(B)
  BY RowsFinite, FS_Subset
<1>2. \A x \in B : Later(x) \in FiniteSubsetsOf(B)
  BY <1>1, FS_Subset DEF FiniteSubsetsOf
<1>3. T \subseteq FiniteSubsetsOf(B) /\ T # {}
  BY <1>2
<1>4. PICK m \in T : \A k \in T : ~(<<k, m>> \in StrictSubsetOrdering(B))
  BY <1>3, FS_StrictSubsetOrderingWellFounded, WFMin
<1>5. PICK x \in B : m = Later(x)
  OBVIOUS
<1>6. SUFFICES ASSUME NEW y \in B, Older(x, y) PROVE FALSE
  BY <1>5
<1>7. Later(y) \subseteq Later(x)
  BY <1>6 DEF OrderOK, Older
<1>8. y \in Later(x) /\ y \notin Later(y)
  BY <1>6 DEF OrderOK, Older
<1>9. <<Later(y), Later(x)>> \in StrictSubsetOrdering(B)
  BY <1>7, <1>8 DEF StrictSubsetOrdering
<1> QED BY <1>4, <1>5, <1>9

\* Only a claim puts a row in flight.
LEMMA OnlyClaimsFly ==
  ASSUME TypeOK, HoldsWhenBusy, Timely, [Next]_vars, ~\E W \in SUBSET Workers : ClaimBatch(W)
  PROVE  \A x \in Rows : InFlight(x)' => InFlight(x)
<1>1. ASSUME NEW s \in Scopes, NEW n \in GenNo,
             \/ CommitGeneration(s, n) \/ EnqueueReducerBatch(s, n) \/ Activate(s, n)
             \/ ProjectionFails(s, n) \/ ReplayProjection(s, n)
      PROVE  \A x \in Rows : InFlight(x)' => InFlight(x)
  <2>1. CASE EnqueueReducerBatch(s, n)
    BY <2>1 DEF EnqueueReducerBatch, Row, InFlight
  <2>2. CASE UNCHANGED queue
    BY <2>2 DEF InFlight
  <2> QED BY <1>1, <2>1, <2>2 DEF CommitGeneration, Activate, ProjectionFails, ReplayProjection
<1>2. ASSUME NEW w \in Workers, Work(w) PROVE \A x \in Rows : InFlight(x)' => InFlight(x)
  <2>1. UNCHANGED queue
    BY <1>2, Zenon DEF Work, Skip, StartHandler, HandlerSucceeds, HeartbeatRejected
  <2> QED BY <2>1 DEF InFlight
<1>3. ASSUME NEW w \in Workers, Heartbeat(w) PROVE \A x \in Rows : InFlight(x)' => InFlight(x)
  <2>1. PICK y \in Rows : y = wk[w].item
    BY <1>3, BusyHoldsRow DEF Heartbeat, Busy
  <2>2. InFlight(y) /\ queue' = [queue EXCEPT ![y].lapsed = FALSE]
    BY <1>3, <2>1 DEF Timely, HeldInFlight, Holds, Heartbeat
  <2> QED BY <2>2, TypeParts DEF InFlight
<1>4. ASSUME NEW w \in Workers, NEW retryable \in BOOLEAN, HandlerFails(w, retryable)
      PROVE  \A x \in Rows : InFlight(x)' => InFlight(x)
  <2>1. PICK y \in Rows : y = wk[w].item
    BY <1>4, BusyHoldsRow DEF HandlerFails, Busy
  <2>2. Fail(y, wk[w].attempt, retryable)
    BY <1>4, <2>1 DEF HandlerFails
  <2>3. \A x \in Rows : queue'[x] = queue[x] \/ queue'[x].status \in {"retrying", "dead_letter"}
    BY <2>2, TypeParts DEF Fail, Row
  <2> QED BY <2>3 DEF InFlight
<1>5. ASSUME NEW S \in SUBSET acks, AckBatch(S) PROVE \A x \in Rows : InFlight(x)' => InFlight(x)
  BY <1>5 DEF AckBatch, Row, InFlight
<1>6. CASE Crash \/ UNCHANGED vars
  <2>1. UNCHANGED queue
    BY <1>6, Zenon DEF Crash, vars
  <2> QED BY <2>1 DEF InFlight
<1>7. ASSUME NEW y \in Rows, Reopen(y) PROVE \A x \in Rows : InFlight(x)' => InFlight(x)
  BY <1>7, TypeParts DEF Reopen, Row, InFlight
<1>8. ASSUME NEW y \in Rows, Lapse(y) PROVE \A x \in Rows : InFlight(x)' => InFlight(x)
  BY <1>8, TypeParts DEF Lapse, InFlight
<1>9. ASSUME NEW y \in Rows, Visible(y) PROVE \A x \in Rows : InFlight(x)' => InFlight(x)
  <2>1. queue' = [queue EXCEPT ![y].visible = TRUE] /\ queue[y] \in QueueRow
    BY <1>9, TypeAt DEF Visible
  <2>2. \A x \in Rows : queue'[x].status = queue[x].status /\ queue'[x].lapsed = queue[x].lapsed
    BY <2>1, TypeParts DEF QueueRow
  <2> QED BY <2>2 DEF InFlight
<1> QED BY <1>1, <1>2, <1>3, <1>4, <1>5, <1>6, <1>7, <1>8, <1>9 DEF Next

\* What the gate asks of a semantic row.
LEMMA GateCaps ==
  Gate => \A x \in Rows : Claimable(x) /\ Semantic(x) => SemanticRank(x) + SemanticInFlight <= SemanticLimit
  BY Zenon DEF Claimable, PassesGate

\* One statement claims no more semantic rows than the cap leaves room for: the
\* last of them has all others in its rank.
LEMMA ClaimCapped ==
  ASSUME QueueInv, Timely, NEW W \in SUBSET Workers, ClaimBatch(W), Cardinality(SemanticRows) <= SemanticLimit,
         \A x \in Rows : Claimable(x) /\ Semantic(x) => SemanticRank(x) + SemanticInFlight <= SemanticLimit
  PROVE  Cardinality(SemanticRows') <= SemanticLimit
<1>1. PICK batch \in SUBSET {x \in Rows : Claimable(x)}, V \in SUBSET W : ClaimOf(batch, V)
  BY ClaimParts
<1> DEFINE B == {x \in batch : Semantic(x)}
<1>2. batch \subseteq Rows /\ \A x \in batch : Claimable(x) /\ Ready(x)
  BY <1>1 DEF Claimable
<1>3. \A x \in Rows : x \notin batch => (InFlight(x)' <=> InFlight(x))
  BY <1>1 DEF ClaimOf, InFlight
<1>4. SemanticRows' \subseteq SemanticRows \union B
  BY <1>3 DEF SemanticRows, Semantic
<1>5. /\ IsFiniteSet(SemanticRows) /\ IsFiniteSet(B) /\ B \subseteq Rows
      /\ Cardinality(SemanticRows) \in Nat /\ Cardinality(B) \in Nat
  BY <1>2, RowsFinite, FS_Subset, FS_CardinalityType DEF SemanticRows
<1>6. CASE B = {}
  <2>1. SemanticRows' \subseteq SemanticRows
    BY <1>4, <1>6
  <2>2. Cardinality(SemanticRows') <= Cardinality(SemanticRows) /\ IsFiniteSet(SemanticRows')
    BY <1>5, <2>1, FS_Subset
  <2>3. Cardinality(SemanticRows') \in Nat
    BY <2>2, FS_CardinalityType
  <2> QED BY <1>5, <2>2, <2>3, ReducerAssumption
<1>7. CASE B # {}
  <2>1. PICK x \in B : \A y \in B : ~Older(x, y)
    BY <1>5, <1>7, LastRow DEF QueueInv
  <2> DEFINE R == {y \in Rows : Semantic(y) /\ Ready(y) /\ ~Older(x, y)}
  <2>2. B \subseteq R /\ R \subseteq Rows
    BY <1>2, <2>1
  <2>3. Cardinality(B) <= Cardinality(R) /\ Cardinality(R) \in Nat
    BY <2>2, RowsFinite, FS_Subset, FS_CardinalityType
  <2>4. SemanticRank(x) = Cardinality(R) /\ SemanticInFlight = Cardinality(SemanticRows)
    BY DEF SemanticRank, SemanticInFlight, SemanticRows
  <2>5. SemanticRank(x) + SemanticInFlight <= SemanticLimit
    BY <1>2, <2>1
  <2> HIDE DEF R, B
  <2>6. Cardinality(B) + Cardinality(SemanticRows) <= SemanticLimit
    BY <1>5, <2>3, <2>4, <2>5, ReducerAssumption
  <2>7. /\ IsFiniteSet(SemanticRows \union B)
        /\ Cardinality(SemanticRows \union B) =
             Cardinality(SemanticRows) + Cardinality(B) - Cardinality(SemanticRows \cap B)
    BY <1>5, FS_Union
  <2>8. Cardinality(SemanticRows \cap B) \in Nat
    BY <1>5, FS_Subset, FS_CardinalityType
  <2>9. /\ Cardinality(SemanticRows') <= Cardinality(SemanticRows \union B)
        /\ IsFiniteSet(SemanticRows')
    BY <1>4, <2>7, FS_Subset
  <2>10. Cardinality(SemanticRows') \in Nat
    BY <2>9, FS_CardinalityType
  <2> QED BY <1>5, <2>6, <2>7, <2>8, <2>9, <2>10, ReducerAssumption
<1> QED BY <1>6, <1>7

\* The cap under every step that keeps OnTime.
LEMMA CapStep ==
  ASSUME QueueInv, Timely, [Next]_vars, Cardinality(SemanticRows) <= SemanticLimit,
         \A x \in Rows : Claimable(x) /\ Semantic(x) => SemanticRank(x) + SemanticInFlight <= SemanticLimit
  PROVE  Cardinality(SemanticRows') <= SemanticLimit
<1>1. CASE \E W \in SUBSET Workers : ClaimBatch(W)
  BY <1>1, ClaimCapped
<1>2. CASE ~\E W \in SUBSET Workers : ClaimBatch(W)
  <2>1. \A x \in Rows : InFlight(x)' => InFlight(x)
    BY <1>2, OnlyClaimsFly DEF QueueInv
  <2>2. SemanticRows' \subseteq SemanticRows
    BY <2>1 DEF SemanticRows, Semantic
  <2>3. IsFiniteSet(SemanticRows)
    BY RowsFinite, FS_Subset DEF SemanticRows
  <2>4. Cardinality(SemanticRows') <= Cardinality(SemanticRows) /\ IsFiniteSet(SemanticRows')
    BY <2>2, <2>3, FS_Subset
  <2>5. Cardinality(SemanticRows') \in Nat /\ Cardinality(SemanticRows) \in Nat
    BY <2>3, <2>4, FS_CardinalityType
  <2> QED BY <2>4, <2>5, ReducerAssumption
<1> QED BY <1>1, <1>2

\* The running semantic handlers hold different semantic rows in flight.
LEMMA HandlersWithinRows ==
  ASSUME QueueInv, Timely
  PROVE  LET H == {w \in Workers : wk[w].pc = "running" /\ Semantic(wk[w].item)}
         IN  Cardinality(H) <= Cardinality(SemanticRows) /\ Cardinality(H) \in Nat
<1> DEFINE H == {w \in Workers : wk[w].pc = "running" /\ Semantic(wk[w].item)}
           f == [w \in H |-> wk[w].item]
<1>1. ASSUME NEW w \in H PROVE wk[w].item \in SemanticRows
  <2>1. Busy(w) /\ w \in Workers
    BY DEF Busy
  <2>2. wk[w].item \in Rows
    BY <2>1, BusyHoldsRow DEF QueueInv
  <2>3. PICK x \in Rows : x = wk[w].item
    BY <2>2
  <2>4. InFlight(x) /\ Semantic(x)
    BY <2>1, <2>3 DEF Timely, HeldInFlight, Holds
  <2> QED BY <2>3, <2>4 DEF SemanticRows
<1>2. f \in [H -> SemanticRows]
  BY <1>1
<1>3. ASSUME NEW v \in H, NEW w \in H, f[v] = f[w] PROVE v = w
  <2>1. PICK x \in Rows : x = wk[v].item /\ x = wk[w].item
    BY <1>1, <1>3 DEF SemanticRows
  <2> QED BY <2>1 DEF Timely, HeldOnce, Holds
<1>4. IsFiniteSet(SemanticRows)
  BY RowsFinite, FS_Subset DEF SemanticRows
<1> HIDE DEF f, H
<1>5. f \in Injection(H, SemanticRows)
  BY <1>2, <1>3 DEF Injection, IsInjective
<1>6. Cardinality(H) <= Cardinality(SemanticRows) /\ IsFiniteSet(H)
  BY <1>4, <1>5, FS_Injection
<1>7. Cardinality(H) \in Nat
  BY <1>6, FS_CardinalityType
<1> QED BY <1>6, <1>7 DEF H

\* However many workers are idle when semantic intents become claimable, and
\* whatever crashed before, no more semantic handlers run at once than the cap
\* allows while leases are renewed in time and the drain gate is on.
THEOREM SemanticHandlersAreCapped == Spec => []SemanticCap
<1>1. Init => SemanticRowsCapped
  <2>1. SUFFICES ASSUME Init PROVE Cardinality(SemanticRows) <= SemanticLimit
    BY Zenon DEF SemanticRowsCapped
  <2>2. SemanticRows = {}
    BY <2>1 DEF Init, SemanticRows, InFlight
  <2> QED BY <2>2, FS_EmptySet, ReducerAssumption
<1>2. QueueInv /\ SemanticRowsCapped /\ [Next]_vars => SemanticRowsCapped'
  <2>1. SUFFICES ASSUME QueueInv, SemanticRowsCapped, [Next]_vars, Gate, OnTime'
                 PROVE  Cardinality(SemanticRows') <= SemanticLimit
    BY Zenon DEF SemanticRowsCapped
  <2>2. BudgetOK /\ (OnTime => Timely)
    BY <2>1, Zenon DEF QueueInv
  <2>3. OnTime
    BY <2>1, <2>2, BudgetStep, Zenon
  <2>4. Timely /\ Cardinality(SemanticRows) <= SemanticLimit
    BY <2>1, <2>2, <2>3, Zenon DEF SemanticRowsCapped
  <2>5. \A x \in Rows : Claimable(x) /\ Semantic(x) => SemanticRank(x) + SemanticInFlight <= SemanticLimit
    BY <2>1, GateCaps, Zenon
  <2> QED BY <2>1, <2>4, <2>5, CapStep, Zenon
<1>3. ASSUME QueueInv, Timely, Cardinality(SemanticRows) <= SemanticLimit
      PROVE  Cardinality({w \in Workers : wk[w].pc = "running" /\ Semantic(wk[w].item)}) <= SemanticLimit
  <2>1. IsFiniteSet(SemanticRows)
    BY RowsFinite, FS_Subset DEF SemanticRows
  <2>2. Cardinality(SemanticRows) \in Nat
    BY <2>1, FS_CardinalityType
  <2> DEFINE n == Cardinality({w \in Workers : wk[w].pc = "running" /\ Semantic(wk[w].item)})
  <2>3. n <= Cardinality(SemanticRows) /\ n \in Nat
    BY <1>3, HandlersWithinRows
  <2> QED BY <1>3, <2>2, <2>3, ReducerAssumption
<1>4. QueueInv /\ SemanticRowsCapped => SemanticCap
  <2>1. SUFFICES ASSUME QueueInv, SemanticRowsCapped, Gate, OnTime
                 PROVE  Cardinality({w \in Workers : wk[w].pc = "running" /\ Semantic(wk[w].item)})
                          <= SemanticLimit
    BY Zenon DEF SemanticCap
  <2>2. Timely /\ Cardinality(SemanticRows) <= SemanticLimit
    BY <2>1, Zenon DEF QueueInv, SemanticRowsCapped
  <2> QED BY <2>1, <2>2, <1>3, Zenon
<1> QED BY <1>1, <1>2, <1>4, QueueInvariant, PTL DEF Spec
=============================================================================
