------------------------ MODULE ProjectionLaneProofs ------------------------
(***************************************************************************)
(* The safety properties of the projection lanes, for any scopes,          *)
(* repositories, generations, processes and numbers of faults.             *)
(*                                                                         *)
(* The inductive invariant has a part for each thing the argument rests    *)
(* on.  Leased: with leases renewed in time a runner in a cycle holds the  *)
(* lease, so it is alone.  Stored: rows and acceptance are what the        *)
(* handlers resolved.  Cycle: a pending row of the unit stays pending      *)
(* until the mark, so a cycle that fails leaves its unit undrained, and    *)
(* what is in the graph follows from how far the cycle got.  RepoLane:     *)
(* unless a row arrived since the load, the active rows are the accepted   *)
(* ones.  CodeLane: generations are completed in order, each one whole,    *)
(* so the one whose mark drains the unit is the newest.                    *)
(***************************************************************************)
EXTENDS ProjectionLane, TLAPS

Pcs == {"idle", "loaded", "filtered", "retracted", "written", "replayed"}
ProcRec == [pc : Pcs, unit : Units \union {Null}, rows : SUBSET Rows, active : SUBSET Rows]
LeaseRec == [owner : Processes \union {Null}, lapsed : BOOLEAN]
BudgetRec == [faults : Nat, late : Nat, again : Nat]
Pairs == Units \X Edges

Types ==
  /\ lane \in {"code_calls", "repo_dependency"}
  /\ found \in [Scopes -> [GenNo -> (SUBSET Pairs) \union {Null}]]
  /\ intents \in [Rows -> {"absent", "pending", "completed"}]
  /\ accepted \in [Scopes -> [Units -> 0 .. MaxGen]]
  /\ lease \in LeaseRec
  /\ proc \in [Processes -> ProcRec]
  /\ graph \subseteq Pairs
  /\ budget \in BudgetRec /\ budget.late <= MaxLate

Held(p) == lease = [owner |-> p, lapsed |-> FALSE]
Working(p) == proc[p].pc # "idle"

\* A runner in the middle of a cycle holds the lane's lease.
Leased == OnTime => \A p \in Processes : Working(p) => Held(p)

There(x) == intents[x] # "absent"

\* The handler of x's generation resolved x.
Emitted(x) ==
  /\ found[x.scope][x.gen] # Null
  /\ \/ <<x.unit, x.edge>> \in found[x.scope][x.gen]
     \/ lane = "code_calls" /\ x.unit = OwnUnit[x.scope] /\ x.edge = "refresh"

Last(s, n) == found[s][n] # Null /\ \A k \in n + 1 .. MaxGen : found[s][k] = Null

\* The tables agree with what the handlers resolved.
Stored ==
  /\ \A x \in Rows : There(x) <=> Emitted(x)
  /\ \A s \in Scopes : (\A n \in GenNo : found[s][n] = Null) \/ \E n \in GenNo : Last(s, n)
  /\ lane = "code_calls" => \A s \in Scopes, n \in GenNo : found[s][n] # Null =>
       OwnUnit[s] \in Units /\ \A g \in found[s][n] : g[1] = OwnUnit[s]
  /\ \A x \in Rows : There(x) => x.gen <= accepted[x.scope][x.unit]
  /\ \A s \in Scopes, u \in Units : accepted[s][u] # 0 =>
       \E x \in Rows : There(x) /\ x.scope = s /\ x.unit = u /\ x.gen = accepted[s][u]

\* What a runner holds was in the table when it was loaded.
Known == \A p \in Processes :
  /\ ~Working(p) => proc[p].unit = Null
  /\ \A x \in proc[p].rows : There(x)

\* What a runner in a cycle knows in either lane.
Cycle == OnTime => \A p \in Processes : Working(p) =>
       /\ proc[p].unit \in Units
       /\ \A x \in proc[p].rows : x.unit = proc[p].unit
       /\ proc[p].active \subseteq proc[p].rows
       /\ \E x \in proc[p].rows : intents[x] = "pending"
       /\ proc[p].pc = "retracted" => EdgesOf(proc[p].unit) \subseteq Written(p)
       /\ proc[p].pc \in {"written", "replayed"} /\ proc[p].active # {} => EdgesOf(proc[p].unit) = Written(p)

Accepts(x) == x.gen = accepted[x.scope][x.unit]

\* A row of the unit arrived after the runner loaded.
NewRow(p) == \E x \in Rows : intents[x] = "pending" /\ x.unit = proc[p].unit /\ x \notin proc[p].rows

RepoLane == lane = "repo_dependency" /\ OnTime =>
  /\ \A g \in graph : \E x \in Rows : There(x) /\ x.unit = g[1] /\ x.edge = g[2]
  /\ \A p \in Processes : Working(p) =>
       /\ \A x \in Rows : There(x) /\ x.unit = proc[p].unit /\ x \notin proc[p].rows => intents[x] = "pending"
       /\ \A g \in EdgesOf(proc[p].unit) : \E x \in proc[p].rows : x.edge = g[2]
       /\ \/ NewRow(p)
          \/ proc[p].pc = "loaded" /\ \E x \in proc[p].rows : Accepts(x)
          \/ proc[p].pc # "loaded" /\ proc[p].active # {} /\ proc[p].active = {x \in proc[p].rows : Accepts(x)}

Generation(s, n) == {x \in Rows : There(x) /\ x.scope = s /\ x.gen = n}
Oldest(s, n) == \A y \in Pending : y.scope = s => n <= y.gen

CodeLane == lane = "code_calls" /\ OnTime =>
  /\ \A x, y \in Rows : There(x) /\ x.scope = y.scope /\ intents[y] = "completed" /\ x.gen <= y.gen
       => intents[x] = "completed"
  /\ \A g \in graph : \E x \in Rows : /\ There(x) /\ x.unit = g[1] /\ x.edge = g[2]
                                      /\ intents[x] = "completed" \/ Oldest(x.scope, x.gen)
  /\ \A p \in Processes : Working(p) =>
       /\ \E s \in Scopes, n \in GenNo : 
            /\ proc[p].rows = Generation(s, n) /\ proc[p].unit = OwnUnit[s]
            /\ proc[p].rows \subseteq Pending /\ Oldest(s, n)
       /\ proc[p].pc # "loaded" => proc[p].active = proc[p].rows

\* A runner about to mark rows has asked for the workloads of its unit.
Asked == lane = "repo_dependency" /\ OnTime => \A p \in Processes :
  Working(p) /\ proc[p].pc = "replayed" /\ proc[p].active # {} => proc[p].unit \in replayed

IInv ==
  /\ Types /\ Leased /\ Stored /\ Known /\ Cycle /\ RepoLane /\ CodeLane /\ Asked
  /\ DrainedMatchesAccepted /\ ChangesAreReplayed

-----------------------------------------------------------------------------
(* What the actions do to the runners.                                     *)

Keeps(p) == \A q \in Processes : q # p => proc'[q] = proc[q]

\* Runner p keeps its unit and its rows, and goes on at pc with the active rows A.
GoesOn(p, pc, A) ==
  /\ proc' \in [Processes -> ProcRec] /\ Keeps(p)
  /\ proc'[p].pc = pc /\ proc'[p].active = A
  /\ proc'[p].unit = proc[p].unit /\ proc'[p].rows = proc[p].rows

\* Runner p is done with its cycle.
Rests(p) == proc' \in [Processes -> ProcRec] /\ Keeps(p) /\ proc'[p] = Resting

\* A runner whose record is reset rests, and no other runner moves.
LEMMA RestEffect ==
  ASSUME Types, NEW p \in Processes, proc' = [proc EXCEPT ![p] = Resting]
  PROVE Rests(p)
BY DEF Types, Rests, Keeps, Resting, ProcRec, Pcs

\* LoadSlice gives the runner the slice and the lease.
LEMMA LoadEffect ==
  ASSUME Types, NEW p \in Processes, NEW x \in Rows, LoadSlice(p, x)
  PROVE /\ proc' \in [Processes -> ProcRec] /\ Keeps(p)
        /\ proc'[p] = [pc |-> "loaded", unit |-> x.unit, rows |-> Slice(x), active |-> {}]
        /\ lease' = [owner |-> p, lapsed |-> FALSE]
<1> DEFINE r == [pc |-> "loaded", unit |-> x.unit, rows |-> Slice(x), active |-> {}]
<1>1. proc' = [proc EXCEPT ![p] = r]
  BY DEF LoadSlice
<1>2. r \in ProcRec
  BY DEF ProcRec, Pcs, Slice, Pending, Rows
<1>3. lease' = [owner |-> p, lapsed |-> FALSE]
  BY DEF LoadSlice
<1> HIDE DEF r
<1>4. proc' \in [Processes -> ProcRec] /\ Keeps(p) /\ proc'[p] = r
  BY <1>1, <1>2 DEF Types, Keeps
<1> QED
  BY <1>3, <1>4 DEF r

\* A step that sets the place only keeps unit, rows and active rows.
LEMMA PcEffect ==
  ASSUME Types, NEW p \in Processes, NEW pc \in Pcs, proc' = [proc EXCEPT ![p].pc = pc]
  PROVE GoesOn(p, pc, proc[p].active)
BY DEF Types, GoesOn, Keeps, ProcRec

\* FilterIntents keeps the rows of accepted generations; none ends the cycle's work.
LEMMA FilterEffect ==
  ASSUME Types, NEW p \in Processes, FilterIntents(p)
  PROVE LET A == {x \in proc[p].rows : x.gen = AcceptedGen(x)}
        IN GoesOn(p, IF A = {} THEN "replayed" ELSE "filtered", A)
<1> DEFINE A == {x \in proc[p].rows : x.gen = AcceptedGen(x)}
           pc == IF A = {} THEN "replayed" ELSE "filtered"
<1>1. proc' = [proc EXCEPT ![p].active = A, ![p].pc = pc]
  BY DEF FilterIntents
<1>2. A \in SUBSET Rows /\ pc \in Pcs
  BY DEF Types, ProcRec, Pcs
<1> HIDE DEF A, pc
<1>3. GoesOn(p, pc, A)
  BY <1>1, <1>2 DEF Types, GoesOn, Keeps, ProcRec
<1> QED
  BY <1>3 DEF A, pc

\* A cycle that moves on changes nothing but the graph and its own record.
LEMMA StepEffect ==
  ASSUME Types, NEW p \in Processes, Step(p)
  PROVE /\ Working(p)
        /\ \/ \E pc \in Pcs \ {"idle"}, A \in SUBSET Rows : GoesOn(p, pc, A) /\ UNCHANGED <<lease, intents>>
           \/ /\ Rests(p) /\ ReleasePartitionLease(p) /\ proc[p].pc = "replayed"
              /\ intents' = [x \in Rows |-> IF x \in proc[p].rows THEN "completed" ELSE intents[x]]
        /\ UNCHANGED <<lane, found, accepted, budget>>
<1>1. CASE FilterIntents(p)
  <2> DEFINE A == {x \in proc[p].rows : x.gen = AcceptedGen(x)}
             pc == IF A = {} THEN "replayed" ELSE "filtered"
  <2>1. A \in SUBSET Rows /\ pc \in Pcs \ {"idle"}
    BY DEF Types, ProcRec, Pcs
  <2>2. GoesOn(p, pc, A)
    BY <1>1, FilterEffect
  <2>3. Working(p) /\ UNCHANGED <<lane, found, accepted, budget, lease, intents>>
    BY <1>1 DEF FilterIntents, store, Working
  <2> QED
    BY <2>1, <2>2, <2>3
<1>2. CASE RetractRepo(p)
  BY <1>2, PcEffect DEF RetractRepo, store, Working, Pcs, Types, ProcRec
<1>3. CASE WriteActiveRows(p)
  BY <1>3, PcEffect DEF WriteActiveRows, store, Working, Pcs, Types, ProcRec
<1>4. CASE ReplayWorkloads(p)
  BY <1>4, PcEffect DEF ReplayWorkloads, store, Working, Pcs, Types, ProcRec
<1>5. CASE MarkIntentsCompleted(p)
  BY <1>5, RestEffect DEF MarkIntentsCompleted, EndCycle, Working
<1> QED
  BY <1>1, <1>2, <1>3, <1>4, <1>5 DEF Step

-----------------------------------------------------------------------------
(* Types, and the lease.                                                   *)

\* A budget that is spent stays a budget, and a late heartbeat ends OnTime.
LEMMA SpendTypes ==
  ASSUME Types, NEW kind \in {"faults", "late", "again"}, Spend(kind)
  PROVE /\ budget' \in BudgetRec /\ budget'.late <= MaxLate
        /\ kind = "late" => ~OnTime'
        /\ OnTime' => OnTime
BY LaneAssumption DEF Spend, Types, BudgetRec, OnTime

\* What the steps of handlers, failures and time do to the tables and budgets.
LEMMA HandlerEffect ==
  ASSUME NEW s \in Scopes, NEW n \in GenNo, NEW edges \in Resolves[s][n],
         HandleCodeCalls(s, n, edges) \/ ResolveCrossRepo(s, n, edges)
  PROVE UNCHANGED <<lane, lease, proc, graph, replayed>> /\ (UNCHANGED budget \/ Spend("again"))
BY DEF HandleCodeCalls, ResolveCrossRepo, Emits

\* The empty tables are well typed.
LEMMA TypesInit == Init => Types
<1> SUFFICES ASSUME Init PROVE Types
  OBVIOUS
<1> USE LaneAssumption
<1>1. proc \in [Processes -> ProcRec]
  BY DEF Init, Resting, ProcRec, Pcs
<1>2. lease \in LeaseRec /\ budget \in BudgetRec /\ budget.late <= MaxLate
  BY DEF Init, LeaseRec, BudgetRec
<1>3. accepted \in [Scopes -> [Units -> 0 .. MaxGen]]
  BY DEF Init
<1>5. [n \in GenNo |-> Null] \in [GenNo -> (SUBSET Pairs) \union {Null}]
  OBVIOUS
<1>6. found \in [Scopes -> [GenNo -> (SUBSET Pairs) \union {Null}]]
  BY <1>5 DEF Init
<1>4. intents \in [Rows -> {"absent", "pending", "completed"}]
  BY DEF Init
<1> QED
  BY <1>1, <1>2, <1>3, <1>4, <1>6 DEF Init, Types

\* A released lease is a lease row.
LEMMA ReleaseTypes ==
  ASSUME Types, NEW p \in Processes, ReleasePartitionLease(p)
  PROVE lease' \in LeaseRec
<1>1. CASE lane = "repo_dependency" /\ lease.owner = p
  <2>1. lease' = [owner |-> Null, lapsed |-> FALSE]
    BY <1>1 DEF ReleasePartitionLease
  <2> QED
    BY <2>1 DEF LeaseRec
<1>2. CASE ~(lane = "repo_dependency" /\ lease.owner = p)
  BY <1>2 DEF ReleasePartitionLease, Types
<1> QED
  BY <1>1, <1>2

\* UpsertIntents leaves well-typed tables.
LEMMA UpsertTypes ==
  ASSUME Types, NEW s \in Scopes, NEW n \in GenNo, NEW rows, UpsertIntents(s, n, rows)
  PROVE /\ intents' \in [Rows -> {"absent", "pending", "completed"}]
        /\ accepted' \in [Scopes -> [Units -> 0 .. MaxGen]]
<1>1. intents' \in [Rows -> {"absent", "pending", "completed"}]
  BY DEF UpsertIntents, Types
<1> DEFINE f == [u \in Units |-> IF \E x \in rows : x.unit = u THEN n ELSE accepted[s][u]]
<1>2. f \in [Units -> 0 .. MaxGen]
  BY LaneAssumption DEF GenNo, Types
<1>3. accepted' = [accepted EXCEPT ![s] = f]
  BY DEF UpsertIntents, Types
<1> QED
  BY <1>1, <1>2, <1>3 DEF Types

\* Every step keeps the types.
LEMMA TypesStep == Types /\ [Next]_vars => Types'
<1> SUFFICES ASSUME Types, [Next]_vars PROVE Types'
  OBVIOUS
<1> USE LaneAssumption
<1>1. ASSUME NEW s \in Scopes, NEW n \in GenNo, NEW edges \in Resolves[s][n],
             HandleCodeCalls(s, n, edges) \/ ResolveCrossRepo(s, n, edges) PROVE Types'
  <2>1. PICK rows : UpsertIntents(s, n, rows)
    BY <1>1 DEF HandleCodeCalls, ResolveCrossRepo
  <2>2. found' = [found EXCEPT ![s][n] = edges] /\ edges \in SUBSET Pairs
    BY <1>1 DEF HandleCodeCalls, ResolveCrossRepo, Pairs, GenNo
  <2>3. found' \in [Scopes -> [GenNo -> (SUBSET Pairs) \union {Null}]]
    BY <2>2 DEF Types
  <2>4. UNCHANGED <<lane, lease, proc, graph>> /\ budget' \in BudgetRec /\ budget'.late <= MaxLate
    BY <1>1, HandlerEffect, SpendTypes DEF Types
  <2> QED
    BY <2>1, <2>3, <2>4, UpsertTypes DEF Types
<1>2. ASSUME NEW p \in Processes, NEW x \in Rows, LoadSlice(p, x) PROVE Types'
  BY <1>2, LoadEffect DEF LoadSlice, store, Types, LeaseRec
<1>3. ASSUME NEW p \in Processes, PollIdle(p) PROVE Types'
  BY <1>3 DEF PollIdle, store, Types, LeaseRec
<1>4. ASSUME NEW p \in Processes, Step(p) PROVE Types'
  <2>1. graph' \subseteq Pairs
    BY <1>4 DEF Step, FilterIntents, RetractRepo, WriteActiveRows, ReplayWorkloads, MarkIntentsCompleted,
                Rewrite, EdgesOf, Written, Rows, Types, ProcRec, Pairs
  <2>2. intents' \in [Rows -> {"absent", "pending", "completed"}]
    BY <1>4, StepEffect DEF Types
  <2>3. lease' \in LeaseRec
    BY <1>4, StepEffect, ReleaseTypes DEF Types
  <2>4. proc' \in [Processes -> ProcRec]
    BY <1>4, StepEffect DEF GoesOn, Rests
  <2> QED
    BY <1>4, <2>1, <2>2, <2>3, <2>4, StepEffect DEF Types
<1>5. ASSUME NEW p \in Processes, Partly(p) PROVE graph' \subseteq Pairs
  BY <1>5 DEF Partly, Rewrite, EdgesOf, Written, Rows, Types, ProcRec, Pairs
<1>6. ASSUME NEW p \in Processes, CycleFails(p) \/ Crash(p) PROVE Types'
  <2>1. graph' \subseteq Pairs
    BY <1>5, <1>6 DEF CycleFails, Crash
  <2>2. lease' \in LeaseRec
    BY <1>6, ReleaseTypes DEF CycleFails, Crash, EndCycle, Types
  <2>3. proc' \in [Processes -> ProcRec]
    BY <1>6, RestEffect DEF CycleFails, Crash, EndCycle, Rests
  <2>4. budget' \in BudgetRec /\ budget'.late <= MaxLate
    BY <1>6, SpendTypes DEF CycleFails, Crash
  <2>5. UNCHANGED <<lane, found, intents, accepted>>
    BY <1>6 DEF CycleFails, Crash, store
  <2> QED
    BY <2>1, <2>2, <2>3, <2>4, <2>5 DEF Types
<1>7. ASSUME NEW p \in Processes, Heartbeat(p) PROVE Types'
  <2>1. graph' \subseteq Pairs
    BY <1>5, <1>7 DEF Heartbeat, Types
  <2>2. lease' \in LeaseRec
    <3>1. [owner |-> p, lapsed |-> FALSE] \in LeaseRec
      BY DEF LeaseRec
    <3> QED
      BY <1>7, <3>1, ReleaseTypes DEF Heartbeat, EndCycle
  <2>3. proc' \in [Processes -> ProcRec]
    BY <1>7, RestEffect DEF Heartbeat, EndCycle, Rests, Types
  <2>4. UNCHANGED <<lane, found, intents, accepted, budget>>
    BY <1>7 DEF Heartbeat, store
  <2> QED
    BY <2>1, <2>2, <2>3, <2>4 DEF Types
<1>8. CASE Lapse
  <2>1. lease' \in LeaseRec
    BY <1>8 DEF Lapse, Types, LeaseRec
  <2>2. budget' \in BudgetRec /\ budget'.late <= MaxLate
    BY <1>8, SpendTypes DEF Lapse, Types
  <2> QED
    BY <1>8, <2>1, <2>2 DEF Lapse, store, Types
<1>9. CASE UNCHANGED vars
  BY <1>9 DEF vars, Types
<1> QED
  BY <1>1, <1>2, <1>3, <1>4, <1>6, <1>7, <1>8, <1>9 DEF Next

\* As long as leases are renewed in time, a runner in a cycle keeps its lease:
\* nobody else may claim it, and nobody else releases it.
LEMMA LeasedStep == Types /\ Leased /\ [Next]_vars => Leased'
<1> SUFFICES ASSUME Types, Leased, [Next]_vars, OnTime', NEW q \in Processes, Working(q)' PROVE Held(q)'
  BY DEF Leased
<1> USE LaneAssumption
<1>1. ASSUME NEW s \in Scopes, NEW n \in GenNo, NEW edges \in Resolves[s][n],
             HandleCodeCalls(s, n, edges) \/ ResolveCrossRepo(s, n, edges) PROVE Held(q)'
  BY <1>1, HandlerEffect, SpendTypes DEF Leased, OnTime, Held, Working
<1>2. ASSUME NEW p \in Processes, NEW x \in Rows, LoadSlice(p, x) PROVE Held(q)'
  <2>1. CASE q = p
    BY <1>2, <2>1, LoadEffect DEF Held
  <2>2. CASE q # p
    <3>1. Held(q)
      BY <1>2, <2>2, LoadEffect DEF LoadSlice, Leased, OnTime, Working, Keeps
    <3> QED
      BY <1>2, <2>2, <3>1 DEF LoadSlice, LeaseFree, Held
  <2> QED
    BY <2>1, <2>2
<1>3. ASSUME NEW p \in Processes, PollIdle(p) PROVE Held(q)'
  BY <1>3 DEF PollIdle, LeaseFree, Leased, OnTime, Held, Working
<1>4. ASSUME NEW p \in Processes, Step(p) PROVE Held(q)'
  BY <1>4, StepEffect DEF GoesOn, Rests, Keeps, Resting, ReleasePartitionLease, Leased, OnTime, Held, Working
<1>5. ASSUME NEW p \in Processes, CycleFails(p) \/ Crash(p) PROVE Held(q)'
  <2>1. Rests(p) /\ OnTime
    BY <1>5, RestEffect, SpendTypes DEF CycleFails, Crash, EndCycle
  <2> QED
    BY <1>5, <2>1 DEF CycleFails, Crash, Rests, Keeps, Resting, Leased, Held, Working
<1>6. ASSUME NEW p \in Processes, Heartbeat(p) PROVE Held(q)'
  <2>1. OnTime
    BY <1>6 DEF Heartbeat, OnTime
  <2>2. Held(p)
    BY <1>6, <2>1 DEF Heartbeat, Leased, Working
  <2> QED
    BY <1>6, <2>2 DEF Heartbeat, LeaseFree, Held
<1>7. CASE Lapse
  <2>1. ~Attended /\ UNCHANGED budget
    BY <1>7, SpendTypes DEF Lapse
  <2> QED
    BY <1>7, <2>1 DEF Lapse, Attended, Leased, OnTime, Held, Working
<1>8. CASE UNCHANGED vars
  BY <1>8 DEF vars, Leased, OnTime, Held, Working
<1> QED
  BY <1>1, <1>2, <1>3, <1>4, <1>5, <1>6, <1>7, <1>8 DEF Next

-----------------------------------------------------------------------------
(* The handlers and the tables.                                            *)

\* What either handler does, for generation n of scope s.
Fresh(x, s, n) == x.scope = s /\ x.gen = n /\ Emitted(x)'

Handled(s, n, edges) ==
  /\ edges \in SUBSET Pairs
  /\ \A k \in GenNo : k > n => found[s][k] = Null
  /\ found[s][n] # Null => found[s][n] \subseteq edges /\ (lane = "code_calls" => edges = found[s][n])
  /\ lane = "code_calls" => OwnUnit[s] \in Units /\ \A g \in edges : g[1] = OwnUnit[s]
  /\ \A t \in Scopes, k \in GenNo : found'[t][k] = IF t = s /\ k = n THEN edges ELSE found[t][k]
  /\ \A x \in Rows : intents'[x] = IF Fresh(x, s, n) /\ ~There(x) THEN "pending" ELSE intents[x]
  /\ \A t \in Scopes, u \in Units : accepted'[t][u] =
       IF t = s /\ \E x \in Rows : x.unit = u /\ Fresh(x, s, n) THEN n ELSE accepted[t][u]
  /\ UNCHANGED <<lane, lease, proc, graph, replayed>> /\ (OnTime' <=> OnTime)

\* Newest(s) is the last generation that was resolved, if any was.
LEMMA NewestIsLast ==
  ASSUME Types, Stored, NEW s \in Scopes
  PROVE \/ Newest(s) = 0 /\ \A n \in GenNo : found[s][n] = Null
        \/ Newest(s) \in GenNo /\ Last(s, Newest(s))
<1>1. CASE \A n \in GenNo : found[s][n] = Null
  BY <1>1 DEF Newest
<1>2. CASE \E n \in GenNo : Last(s, n)
  BY <1>2 DEF Newest, Last
<1> QED
  BY <1>1, <1>2 DEF Stored

\* Either handler does to the tables what Handled says.
LEMMA HandlerIsHandled ==
  ASSUME Types, Stored, NEW s \in Scopes, NEW n \in GenNo, NEW edges \in Resolves[s][n],
         HandleCodeCalls(s, n, edges) \/ ResolveCrossRepo(s, n, edges)
  PROVE Handled(s, n, edges)
<1> USE LaneAssumption
<1>1. edges \in SUBSET Pairs
  BY DEF GenNo, Pairs
<1>2. n >= Newest(s)
  <2>1. Newest(s) \in Nat
    BY NewestIsLast DEF GenNo
  <2> QED
    BY <2>1 DEF HandleCodeCalls, ResolveCrossRepo, Emits, GenNo
<1>3. \A k \in GenNo : k > n => found[s][k] = Null
  BY <1>2, NewestIsLast DEF Last, GenNo
<1>4. found[s][n] # Null => found[s][n] \subseteq edges /\ (lane = "code_calls" => edges = found[s][n])
  BY DEF HandleCodeCalls, ResolveCrossRepo
<1>5. lane = "code_calls" => OwnUnit[s] \in Units /\ \A g \in edges : g[1] = OwnUnit[s]
  BY DEF HandleCodeCalls, ResolveCrossRepo
<1>6. \A t \in Scopes, k \in GenNo : found'[t][k] = IF t = s /\ k = n THEN edges ELSE found[t][k]
  BY DEF HandleCodeCalls, ResolveCrossRepo, Types
<1>7. UNCHANGED <<lane, lease, proc, graph, replayed>> /\ (OnTime' <=> OnTime)
  <2>1. UNCHANGED <<lane, lease, proc, graph, replayed>> /\ (UNCHANGED budget \/ Spend("again"))
    BY HandlerEffect
  <2> QED
    BY <2>1 DEF Spend, OnTime, Types, BudgetRec
<1> DEFINE rows == {x \in Rows : Fresh(x, s, n)}
<1>8. UpsertIntents(s, n, rows)
  <2>1. found'[s][n] = edges /\ edges # Null
    BY <1>1, <1>6 DEF Pairs
  <2>2. CASE HandleCodeCalls(s, n, edges)
    <3>1. rows = {x \in Rows : /\ x.scope = s /\ x.gen = n /\ x.unit = OwnUnit[s]
                               /\ <<x.unit, x.edge>> \in edges \/ x.edge = "refresh"}
      BY <1>5, <1>7, <2>1, <2>2 DEF Fresh, Emitted, HandleCodeCalls
    <3> QED
      BY <2>2, <3>1 DEF HandleCodeCalls
  <2>3. CASE ResolveCrossRepo(s, n, edges)
    <3>1. rows = {x \in Rows : x.scope = s /\ x.gen = n /\ <<x.unit, x.edge>> \in edges}
      BY <1>7, <2>1, <2>3 DEF Fresh, Emitted, ResolveCrossRepo
    <3> QED
      BY <2>3, <3>1 DEF ResolveCrossRepo
  <2> QED
    BY <2>2, <2>3
<1>9. \A x \in Rows : intents'[x] = IF Fresh(x, s, n) /\ ~There(x) THEN "pending" ELSE intents[x]
  BY <1>8 DEF UpsertIntents, There
<1>10. \A t \in Scopes, u \in Units : accepted'[t][u] =
         IF t = s /\ \E x \in Rows : x.unit = u /\ Fresh(x, s, n) THEN n ELSE accepted[t][u]
  BY <1>8 DEF UpsertIntents, Types
<1> QED
  BY <1>1, <1>3, <1>4, <1>5, <1>6, <1>7, <1>9, <1>10 DEF Handled

\* The empty tables agree with nothing resolved.
LEMMA StoredInit == Init => Stored
<1> SUFFICES ASSUME Init PROVE Stored
  OBVIOUS
<1>1. \A x \in Rows : x.scope \in Scopes /\ x.gen \in GenNo
  BY DEF Rows
<1> QED
  BY <1>1 DEF Init, Stored, There, Emitted

\* A handler keeps the tables in agreement with what was resolved.
LEMMA HandledStored ==
  ASSUME Types, Stored, NEW s \in Scopes, NEW n \in GenNo, NEW edges, Handled(s, n, edges)
  PROVE Stored'
<1> USE LaneAssumption
<1>0. \A x \in Rows : x.scope \in Scopes /\ x.unit \in Units /\ x.gen \in GenNo
  BY DEF Rows
<1>1. \A x \in Rows : There(x)' <=> Emitted(x)'
  <2> SUFFICES ASSUME NEW x \in Rows PROVE There(x)' <=> Emitted(x)'
    OBVIOUS
  <2>1. Emitted(x) => Emitted(x)'
    BY <1>0 DEF Handled, Emitted, Pairs
  <2>2. ~Fresh(x, s, n) => (Emitted(x)' <=> Emitted(x))
    BY <1>0, <2>1 DEF Handled, Fresh, Emitted
  <2>3. There(x) <=> Emitted(x)
    BY DEF Stored
  <2>4. There(x)' <=> There(x) \/ Fresh(x, s, n)
    BY DEF Handled, There
  <2> QED
    BY <2>1, <2>2, <2>3, <2>4 DEF Fresh
<1>2. \A t \in Scopes : (\A k \in GenNo : found'[t][k] = Null) \/ \E k \in GenNo : Last(t, k)'
  <2> SUFFICES ASSUME NEW t \in Scopes PROVE (\A k \in GenNo : found'[t][k] = Null) \/ \E k \in GenNo : Last(t, k)'
    OBVIOUS
  <2>1. CASE t = s
    <3>1. \A k \in n + 1 .. MaxGen : k \in GenNo /\ k > n
      BY DEF GenNo
    <3>2. Last(s, n)'
      BY <3>1 DEF Handled, Last, Pairs, GenNo
    <3> QED
      BY <2>1, <3>2
  <2>2. CASE t # s
    <3>1. \A k \in GenNo : found'[t][k] = found[t][k]
      BY <2>2 DEF Handled
    <3>2. \A k \in GenNo : \A j \in k + 1 .. MaxGen : j \in GenNo
      BY DEF GenNo
    <3> QED
      BY <3>1, <3>2 DEF Stored, Last
  <2> QED
    BY <2>1, <2>2
<1>3. lane' = "code_calls" => \A t \in Scopes, k \in GenNo : found'[t][k] # Null =>
        OwnUnit[t] \in Units /\ \A g \in found'[t][k] : g[1] = OwnUnit[t]
  BY DEF Handled, Stored
<1>4. \A x \in Rows : There(x)' => x.gen <= accepted'[x.scope][x.unit]
  <2> SUFFICES ASSUME NEW x \in Rows, There(x)' PROVE x.gen <= accepted'[x.scope][x.unit]
    OBVIOUS
  <2>1. There(x) \/ Fresh(x, s, n)
    BY DEF Handled, There
  <2>2. There(x) => x.gen <= accepted[x.scope][x.unit] /\ (x.scope = s => x.gen <= n)
    <3>1. There(x) => found[x.scope][x.gen] # Null
      BY DEF Stored, Emitted
    <3> QED
      BY <1>0, <3>1 DEF Stored, Handled, GenNo
  <2> QED
    BY <1>0, <2>1, <2>2 DEF Handled, Fresh, GenNo
<1>5. \A t \in Scopes, u \in Units : accepted'[t][u] # 0 =>
        \E x \in Rows : There(x)' /\ x.scope = t /\ x.unit = u /\ x.gen = accepted'[t][u]
  <2> SUFFICES ASSUME NEW t \in Scopes, NEW u \in Units, accepted'[t][u] # 0
               PROVE \E x \in Rows : There(x)' /\ x.scope = t /\ x.unit = u /\ x.gen = accepted'[t][u]
    OBVIOUS
  <2>1. \A x \in Rows : There(x) \/ Fresh(x, s, n) => There(x)'
    BY DEF Handled, There
  <2>2. CASE t = s /\ \E x \in Rows : x.unit = u /\ Fresh(x, s, n)
    BY <2>1, <2>2 DEF Handled, Fresh
  <2>3. CASE ~(t = s /\ \E x \in Rows : x.unit = u /\ Fresh(x, s, n))
    BY <2>1, <2>3 DEF Handled, Stored
  <2> QED
    BY <2>2, <2>3
<1> QED
  BY <1>1, <1>2, <1>3, <1>4, <1>5 DEF Stored

-----------------------------------------------------------------------------
(* Rows and edges.                                                         *)

\* The columns of a row.
LEMMA RowFields ==
  \A x \in Rows : /\ x.scope \in Scopes /\ x.unit \in Units /\ x.gen \in GenNo
                  /\ x.edge \in Edges \union {"refresh"}
BY DEF Rows

\* There is a row for any columns.
LEMMA RowExists ==
  \A s \in Scopes, u \in Units, n \in GenNo, e \in Edges \union {"refresh"} :
    \E x \in Rows : x.scope = s /\ x.unit = u /\ x.gen = n /\ x.edge = e
<1> TAKE s \in Scopes, u \in Units, n \in GenNo, e \in Edges \union {"refresh"}
<1> DEFINE x == [scope |-> s, unit |-> u, gen |-> n, edge |-> e]
<1>1. x \in Rows /\ x.scope = s /\ x.unit = u /\ x.gen = n /\ x.edge = e
  BY DEF Rows
<1> QED
  BY <1>1

\* An edge is a pair, and no edge is called refresh.
LEMMA PairFields ==
  \A g \in Pairs : g[1] \in Units /\ g[2] \in Edges /\ g[2] # "refresh" /\ g = <<g[1], g[2]>>
BY LaneAssumption DEF Pairs

\* A scope has one last generation.
LEMMA LastIsOne ==
  ASSUME NEW s \in Scopes, NEW m \in GenNo, NEW n \in GenNo, Last(s, m), Last(s, n)
  PROVE m = n
BY LaneAssumption DEF Last, GenNo

\* A code-call row is of the repository its scope holds, and was resolved.
LEMMA CodeUnit ==
  ASSUME Types, Stored, lane = "code_calls", NEW x \in Rows, There(x)
  PROVE x.unit = OwnUnit[x.scope] /\ OwnUnit[x.scope] \in Units /\ found[x.scope][x.gen] # Null
<1>1. Emitted(x)
  BY DEF Stored
<1>2. found[x.scope][x.gen] # Null
  BY <1>1 DEF Emitted
<1>3. OwnUnit[x.scope] \in Units /\ \A g \in found[x.scope][x.gen] : g[1] = OwnUnit[x.scope]
  BY <1>2, RowFields DEF Stored
<1> QED
  BY <1>1, <1>2, <1>3 DEF Emitted

\* A unit's row decides the edges of the unit.
Decides(x) == IF lane = "code_calls" THEN Last(x.scope, x.gen) ELSE Accepts(x)

Decided(u) == {g \in Pairs : g[1] = u /\ \E x \in Rows :
                 There(x) /\ x.unit = u /\ x.edge = g[2] /\ Decides(x)}

\* The wanted edges of a unit are those of its deciding rows.
LEMMA WantedIsDecided == Types /\ Stored => \A u \in Units : Wanted(u) = Decided(u)
<1> USE LaneAssumption, RowFields, PairFields
<1> SUFFICES ASSUME Types, Stored, NEW u \in Units, NEW g \in Pairs, g[1] = u
             PROVE (\E s \in Scopes : Deciding(s, u) # 0 /\ g \in found[s][Deciding(s, u)])
                   <=> (\E x \in Rows : There(x) /\ x.unit = u /\ x.edge = g[2] /\ Decides(x))
  BY DEF Wanted, Decided, Pairs
<1>1. ASSUME NEW s \in Scopes, Deciding(s, u) # 0, g \in found[s][Deciding(s, u)]
      PROVE \E x \in Rows : There(x) /\ x.unit = u /\ x.edge = g[2] /\ Decides(x)
  <2>1. Deciding(s, u) \in GenNo /\ (lane = "code_calls" => Last(s, Deciding(s, u)))
                                 /\ (lane # "code_calls" => Deciding(s, u) = accepted[s][u])
    BY <1>1, NewestIsLast DEF Deciding, Types, GenNo
  <2>2. PICK x \in Rows : x.scope = s /\ x.unit = u /\ x.gen = Deciding(s, u) /\ x.edge = g[2]
    BY <2>1, RowExists
  <2>3. found[s][x.gen] # Null
    <3>1. CASE lane = "code_calls"
      BY <2>1, <2>2, <3>1 DEF Last
    <3>2. CASE lane # "code_calls"
      <4>1. PICK y \in Rows : There(y) /\ y.scope = s /\ y.unit = u /\ y.gen = accepted[s][u]
        BY <1>1, <2>1, <3>2 DEF Stored
      <4>2. Emitted(y)
        BY <4>1 DEF Stored
      <4> QED
        BY <2>1, <2>2, <3>2, <4>1, <4>2 DEF Emitted
    <3> QED
      BY <3>1, <3>2
  <2>4. Emitted(x)
    BY <1>1, <2>2, <2>3 DEF Emitted
  <2>5. There(x)
    BY <2>4 DEF Stored
  <2>6. Decides(x)
    BY <2>1, <2>2 DEF Decides, Accepts
  <2> QED
    BY <2>2, <2>5, <2>6
<1>2. ASSUME NEW x \in Rows, There(x), x.unit = u, x.edge = g[2], Decides(x)
      PROVE \E s \in Scopes : Deciding(s, u) # 0 /\ g \in found[s][Deciding(s, u)]
  <2>1. g \in found[x.scope][x.gen] /\ found[x.scope][x.gen] # Null
    <3>1. Emitted(x)
      BY <1>2 DEF Stored
    <3> QED
      BY <1>2, <3>1 DEF Emitted
  <2>2. x.gen # 0
    BY DEF GenNo
  <2>3. Deciding(x.scope, u) = x.gen
    <3>1. CASE lane = "code_calls"
      BY <1>2, <2>1, <3>1, NewestIsLast, LastIsOne DEF Decides, Deciding
    <3>2. CASE lane # "code_calls"
      BY <1>2, <3>2 DEF Decides, Accepts, Deciding
    <3> QED
      BY <3>1, <3>2
  <2> QED
    BY <2>1, <2>2, <2>3
<1> QED
  BY <1>1, <1>2

\* The same after a step.
LEMMA WantedIsDecidedNext == (Types /\ Stored => \A u \in Units : Wanted(u) = Decided(u))'
BY WantedIsDecided, PTL

-----------------------------------------------------------------------------
(* The tables agree with what was resolved, and runners hold rows of them. *)

\* Steps that leave the resolved edges and the presence of rows alone.
LEMMA SameTables ==
  ASSUME Stored, UNCHANGED <<lane, found, accepted>>, \A x \in Rows : There(x)' <=> There(x)
  PROVE Stored'
BY DEF Stored, Emitted, Last

\* Every step keeps the tables in agreement with what was resolved, and the
\* rows a runner holds in the table.
LEMMA StoredInv == Types /\ Types' /\ Stored /\ Known /\ [Next]_vars => Stored' /\ Known'
<1> SUFFICES ASSUME Types, Types', Stored, Known, [Next]_vars PROVE Stored' /\ Known'
  OBVIOUS
<1> USE LaneAssumption
<1>1. ASSUME NEW s \in Scopes, NEW n \in GenNo, NEW edges \in Resolves[s][n],
             HandleCodeCalls(s, n, edges) \/ ResolveCrossRepo(s, n, edges) PROVE Stored' /\ Known'
  <2>1. Handled(s, n, edges)
    BY <1>1, HandlerIsHandled
  <2>2. \A x \in Rows : There(x) => There(x)'
    BY <2>1 DEF Handled, There
  <2>3. \A p \in Processes : proc[p].rows \subseteq Rows
    BY DEF Types, ProcRec
  <2>4. UNCHANGED proc
    BY <2>1 DEF Handled
  <2>5. Known'
    BY <2>2, <2>3, <2>4 DEF Known, Working
  <2> QED
    BY <2>1, <2>5, HandledStored
<1>2. ASSUME NEW p \in Processes, NEW x \in Rows, LoadSlice(p, x) PROVE Stored' /\ Known'
  <2>1. UNCHANGED <<lane, found, accepted, intents>>
    BY <1>2 DEF LoadSlice, store
  <2>2. Stored'
    BY <2>1, SameTables DEF There
  <2>3. \A y \in Slice(x) : There(y)
    BY DEF Slice, Pending, There
  <2>4. /\ \A q \in Processes : q # p => proc'[q] = proc[q]
        /\ proc'[p].rows = Slice(x) /\ proc'[p].pc = "loaded"
    <3>1. Keeps(p) /\ proc'[p] = [pc |-> "loaded", unit |-> x.unit, rows |-> Slice(x), active |-> {}]
      BY <1>2, LoadEffect
    <3> QED
      BY <3>1 DEF Keeps
  <2>5. Known'
    BY <2>1, <2>3, <2>4 DEF Known, Working, There
  <2> QED
    BY <2>2, <2>5
<1>3. ASSUME NEW p \in Processes, PollIdle(p) PROVE Stored' /\ Known'
  <2>1. UNCHANGED <<lane, found, accepted, intents, proc>>
    BY <1>3 DEF PollIdle, store
  <2> QED
    BY <2>1, SameTables DEF Known, Working, There
<1>4. ASSUME NEW p \in Processes, Step(p) PROVE Stored' /\ Known'
  <2>1. UNCHANGED <<lane, found, accepted>>
    BY <1>4, StepEffect
  <2>2. \A x \in Rows : There(x)' <=> There(x)
    BY <1>4, StepEffect DEF There, Known
  <2>3. \A q \in Processes : proc[q].rows \subseteq Rows
    BY DEF Types, ProcRec
  <2>4. Stored'
    BY <2>1, <2>2, SameTables
  <2> QED
    BY <1>4, <2>2, <2>3, <2>4, StepEffect DEF Known, Working, GoesOn, Rests, Keeps, Resting
<1>5. ASSUME NEW p \in Processes, CycleFails(p) \/ Crash(p) PROVE Stored' /\ Known'
  <2>1. Rests(p)
    BY <1>5, RestEffect DEF CycleFails, Crash, EndCycle
  <2>2. UNCHANGED <<lane, found, accepted, intents>>
    BY <1>5 DEF CycleFails, Crash, store
  <2> QED
    BY <2>1, <2>2, SameTables DEF Known, Working, There, Rests, Keeps, Resting
<1>6. ASSUME NEW p \in Processes, Heartbeat(p) PROVE Stored' /\ Known'
  <2>1. Rests(p) \/ UNCHANGED proc
    BY <1>6, RestEffect DEF Heartbeat, EndCycle
  <2>2. UNCHANGED <<lane, found, accepted, intents>>
    BY <1>6 DEF Heartbeat, store
  <2> QED
    BY <2>1, <2>2, SameTables DEF Known, Working, There, Rests, Keeps, Resting
<1>7. CASE Lapse \/ UNCHANGED vars
  <2>1. UNCHANGED <<lane, found, accepted, intents, proc>>
    BY <1>7 DEF Lapse, store, vars
  <2> QED
    BY <2>1, SameTables DEF Known, Working, There
<1> QED
  BY <1>1, <1>2, <1>3, <1>4, <1>5, <1>6, <1>7 DEF Next

-----------------------------------------------------------------------------
(* The steps of the system while every lease is renewed in time.           *)

Alone(p) == Working(p) /\ \A q \in Processes : q # p => ~Working(q)

\* One runner at a time is in a cycle.
LEMMA WorkerIsAlone ==
  ASSUME Types, Leased, OnTime, NEW p \in Processes, Working(p)
  PROVE Alone(p)
BY DEF Leased, Held, Alone

Tables == <<lane, found, accepted, intents>>

Quiet == UNCHANGED <<Tables, proc, graph, replayed>>

Loads(p, x) ==
  /\ Selectable(x) /\ \A q \in Processes : ~Working(q)
  /\ proc' \in [Processes -> ProcRec] /\ Keeps(p)
  /\ proc'[p] = [pc |-> "loaded", unit |-> x.unit, rows |-> Slice(x), active |-> {}]
  /\ UNCHANGED <<Tables, graph, replayed>>

\* Only edges of the runner's own unit change, and those it adds are those of
\* its active rows.
Confined(p) ==
  /\ \A u \in Units : u # proc[p].unit => EdgesOf(u)' = EdgesOf(u)
  /\ graph' \subseteq graph \union Written(p)
  /\ \A u \in replayed : u # proc[p].unit => u \in replayed'

Moves(p) ==
  /\ Alone(p) /\ Confined(p) /\ UNCHANGED Tables
  /\ \/ /\ proc[p].pc = "loaded" /\ UNCHANGED graph
        /\ \E pc \in {"filtered", "replayed"} :
             LET A == {x \in proc[p].rows : x.gen = AcceptedGen(x)}
             IN GoesOn(p, pc, A) /\ (pc = "replayed" => A = {})
     \/ /\ proc[p].pc = "filtered" /\ GoesOn(p, "retracted", proc[p].active)
        /\ graph' = IF NeedsRetract(p) THEN graph \ EdgesOf(proc[p].unit) ELSE graph
     \/ /\ proc[p].pc = "retracted" /\ GoesOn(p, "written", proc[p].active)
        /\ graph' = graph \union Written(p)
     \/ /\ proc[p].pc = "written" /\ GoesOn(p, "replayed", proc[p].active)
        /\ UNCHANGED graph /\ (lane = "repo_dependency" => proc[p].unit \in replayed')

Ends(p) == Alone(p) /\ Rests(p) /\ Confined(p) /\ UNCHANGED Tables

Marks(p) ==
  /\ Alone(p) /\ Rests(p) /\ proc[p].pc = "replayed" /\ UNCHANGED <<lane, found, accepted, graph, replayed>>
  /\ intents' = [x \in Rows |-> IF x \in proc[p].rows THEN "completed" ELSE intents[x]]

Handles == \E s \in Scopes, n \in GenNo, edges \in SUBSET Pairs : Handled(s, n, edges)

\* A runner writes edges of its own unit only, each for an active row.
LEMMA WrittenByUnit ==
  ASSUME Types, Cycle, OnTime, NEW p \in Processes, Working(p)
  PROVE \A g \in Written(p) : /\ g[1] = proc[p].unit
                              /\ \E x \in proc[p].active : x.edge = g[2] /\ x.edge # "refresh" /\ x.unit = g[1]
<1> SUFFICES ASSUME NEW g \in Written(p)
             PROVE /\ g[1] = proc[p].unit
                   /\ \E x \in proc[p].active : x.edge = g[2] /\ x.edge # "refresh" /\ x.unit = g[1]
  OBVIOUS
<1>1. PICK x \in proc[p].active : x.edge # "refresh" /\ g = <<x.unit, x.edge>>
  BY DEF Written
<1>2. x.unit = proc[p].unit
  BY DEF Cycle
<1> QED
  BY <1>1, <1>2

\* A retract or write applied in full or in part stays within the unit.
LEMMA PartlyIsConfined ==
  ASSUME Types, Cycle, OnTime, NEW p \in Processes, Working(p),
         \/ UNCHANGED graph
         \/ \E S \in SUBSET EdgesOf(proc[p].unit) : Rewrite(proc[p].unit, S)
         \/ \E S \in SUBSET Written(p) : graph' = graph \union S,
         \A u \in replayed : u # proc[p].unit => u \in replayed'
  PROVE Confined(p)
<1>1. CASE UNCHANGED graph
  BY <1>1 DEF Confined, EdgesOf
<1>2. ASSUME NEW S \in SUBSET EdgesOf(proc[p].unit), Rewrite(proc[p].unit, S) PROVE Confined(p)
  BY <1>2 DEF Confined, EdgesOf, Rewrite
<1>3. ASSUME NEW S \in SUBSET Written(p), graph' = graph \union S PROVE Confined(p)
  BY <1>3, WrittenByUnit DEF Confined, EdgesOf
<1> QED
  BY <1>1, <1>2, <1>3

\* Every step of the system is of one of these kinds.  A heartbeat has nothing
\* to do while leases are renewed in time.
LEMMA StepKinds ==
  ASSUME Types, Leased, Stored, Cycle, OnTime', [Next]_vars
  PROVE /\ OnTime
        /\ \/ Quiet
           \/ Handles
           \/ \E p \in Processes, x \in Rows : Loads(p, x)
           \/ \E p \in Processes : Moves(p) \/ Ends(p) \/ Marks(p)
<1> USE LaneAssumption
<1>1. ASSUME NEW s \in Scopes, NEW n \in GenNo, NEW edges \in Resolves[s][n],
             HandleCodeCalls(s, n, edges) \/ ResolveCrossRepo(s, n, edges)
      PROVE OnTime /\ Handles
  <2>1. Handled(s, n, edges)
    BY <1>1, HandlerIsHandled
  <2>2. edges \in SUBSET Pairs /\ (OnTime' <=> OnTime)
    BY <2>1 DEF Handled
  <2> QED
    BY <2>1, <2>2 DEF Handles
<1>2. ASSUME NEW p \in Processes, NEW x \in Rows, LoadSlice(p, x)
      PROVE OnTime /\ Loads(p, x)
  <2>1. OnTime /\ UNCHANGED <<Tables, graph, replayed>> /\ Selectable(x)
    BY <1>2 DEF LoadSlice, Loadable, OnTime, Tables, store
  <2>2. \A q \in Processes : ~Working(q)
    BY <1>2, <2>1 DEF LoadSlice, LeaseFree, Leased, Held, Working
  <2> QED
    BY <1>2, <2>1, <2>2, LoadEffect DEF Loads
<1>3. ASSUME NEW p \in Processes, PollIdle(p) PROVE OnTime /\ Quiet
  BY <1>3 DEF PollIdle, OnTime, Quiet, Tables, store
<1>4. ASSUME NEW p \in Processes, Step(p) PROVE OnTime /\ (Moves(p) \/ Marks(p))
  <2>1. OnTime /\ Working(p)
    BY <1>4, StepEffect DEF OnTime
  <2>2. Alone(p)
    BY <2>1, WorkerIsAlone
  <2>3. CASE FilterIntents(p)
    <3>1. UNCHANGED <<Tables, graph, replayed>> /\ proc[p].pc = "loaded"
      BY <2>3 DEF FilterIntents, Tables, store
    <3>2. Confined(p)
      BY <2>1, <3>1, PartlyIsConfined
    <3> DEFINE A == {x \in proc[p].rows : x.gen = AcceptedGen(x)}
    <3>3. GoesOn(p, IF A = {} THEN "replayed" ELSE "filtered", A)
      BY <2>3, FilterEffect
    <3>4. \E pc \in {"filtered", "replayed"} : GoesOn(p, pc, A) /\ (pc = "replayed" => A = {})
      BY <3>3
    <3> QED
      BY <2>1, <2>2, <3>1, <3>2, <3>4 DEF Moves
  <2>4. CASE RetractRepo(p)
    <3>1. UNCHANGED Tables /\ proc[p].pc = "filtered"
      BY <2>4 DEF RetractRepo, Tables, store
    <3>2. graph' = IF NeedsRetract(p) THEN graph \ EdgesOf(proc[p].unit) ELSE graph
      BY <2>4 DEF RetractRepo, Rewrite
    <3>3. /\ UNCHANGED graph \/ Rewrite(proc[p].unit, {})
          /\ \A u \in replayed : u # proc[p].unit => u \in replayed'
      BY <2>4, <3>2 DEF RetractRepo, Rewrite
    <3>4. Confined(p)
      BY <2>1, <3>3, PartlyIsConfined
    <3>5. GoesOn(p, "retracted", proc[p].active)
      BY <2>4, PcEffect DEF RetractRepo, Pcs
    <3> QED
      BY <2>1, <2>2, <3>1, <3>2, <3>4, <3>5 DEF Moves
  <2>5. CASE WriteActiveRows(p)
    <3>1. /\ UNCHANGED Tables /\ proc[p].pc = "retracted" /\ graph' = graph \union Written(p)
          /\ \A u \in replayed : u # proc[p].unit => u \in replayed'
      BY <2>5 DEF WriteActiveRows, Tables, store
    <3>2. Confined(p)
      BY <2>1, <3>1, PartlyIsConfined
    <3>3. GoesOn(p, "written", proc[p].active)
      BY <2>5, PcEffect DEF WriteActiveRows, Pcs
    <3> QED
      BY <2>1, <2>2, <3>1, <3>2, <3>3 DEF Moves
  <2>6. CASE ReplayWorkloads(p)
    <3>1. /\ UNCHANGED <<Tables, graph>> /\ proc[p].pc = "written"
          /\ \A u \in replayed : u # proc[p].unit => u \in replayed'
          /\ lane = "repo_dependency" => proc[p].unit \in replayed'
      BY <2>6 DEF ReplayWorkloads, Tables, store
    <3>2. Confined(p)
      BY <2>1, <3>1, PartlyIsConfined
    <3>3. GoesOn(p, "replayed", proc[p].active)
      BY <2>6, PcEffect DEF ReplayWorkloads, Pcs
    <3> QED
      BY <2>1, <2>2, <3>1, <3>2, <3>3 DEF Moves
  <2>7. CASE MarkIntentsCompleted(p)
    BY <2>1, <2>2, <2>7, RestEffect DEF MarkIntentsCompleted, EndCycle, Marks
  <2> QED
    BY <1>4, <2>1, <2>3, <2>4, <2>5, <2>6, <2>7 DEF Step
<1>5. ASSUME NEW p \in Processes, CycleFails(p) \/ Crash(p) PROVE OnTime /\ Ends(p)
  <2>1. OnTime /\ Rests(p) /\ Working(p)
    BY <1>5, RestEffect, SpendTypes DEF CycleFails, Crash, EndCycle, Working
  <2>2. Confined(p)
    BY <1>5, <2>1, PartlyIsConfined DEF CycleFails, Crash, Partly
  <2>3. UNCHANGED Tables
    BY <1>5 DEF CycleFails, Crash, store, Tables
  <2> QED
    BY <2>1, <2>2, <2>3, WorkerIsAlone DEF Ends
<1>6. ASSUME NEW p \in Processes, Heartbeat(p) PROVE FALSE
  BY <1>6 DEF Heartbeat, OnTime, Leased, Held, Working, LeaseFree
<1>7. CASE Lapse
  <2>1. OnTime
    BY <1>7, SpendTypes DEF Lapse, OnTime
  <2> QED
    BY <1>7, <2>1 DEF Lapse, Quiet, Tables, store
<1>8. CASE UNCHANGED vars
  BY <1>8 DEF vars, Quiet, Tables, OnTime
<1> QED
  BY <1>1, <1>2, <1>3, <1>4, <1>5, <1>6, <1>7, <1>8 DEF Next

-----------------------------------------------------------------------------
(* A handler either leaves a unit a new row, or nothing about it changes.  *)

Arrives(x) == ~There(x) /\ intents'[x] = "pending"

\* What a handler does to a row.
LEMMA HandledRows ==
  ASSUME Types, Stored, NEW s \in Scopes, NEW n \in GenNo, NEW edges, Handled(s, n, edges), NEW x \in Rows
  PROVE /\ ~There(x) => ~There(x)' \/ Arrives(x)
        /\ There(x) => There(x)' /\ intents'[x] = intents[x]
        /\ There(x) /\ x.scope = s => x.gen <= n
        /\ Arrives(x) => x.scope = s /\ x.gen = n
        /\ lane = "code_calls" /\ Arrives(x) => found[s][n] = Null /\ x.unit = OwnUnit[s]
<1> USE LaneAssumption, RowFields
<1>1. intents'[x] = IF Fresh(x, s, n) /\ ~There(x) THEN "pending" ELSE intents[x]
  BY DEF Handled
<1>2. There(x) /\ x.scope = s => x.gen <= n
  <2>1. There(x) => found[x.scope][x.gen] # Null
    BY DEF Stored, Emitted
  <2> QED
    BY <2>1 DEF Handled, GenNo
<1>3. Arrives(x) => Fresh(x, s, n)
  BY <1>1 DEF Arrives, There
<1>4. lane = "code_calls" /\ Arrives(x) => found[s][n] = Null
  <2> SUFFICES ASSUME lane = "code_calls", Arrives(x), found[s][n] # Null PROVE FALSE
    OBVIOUS
  <2>1. found'[s][n] = found[s][n] /\ lane' = lane
    BY DEF Handled
  <2>2. Emitted(x)
    BY <1>3, <2>1 DEF Fresh, Emitted
  <2> QED
    BY <2>2 DEF Stored, Arrives
<1>5. lane = "code_calls" /\ Arrives(x) => x.unit = OwnUnit[s]
  <2> SUFFICES ASSUME lane = "code_calls", Arrives(x) PROVE x.unit = OwnUnit[s]
    OBVIOUS
  <2>1. found'[s][n] = edges /\ \A g \in edges : g[1] = OwnUnit[s]
    BY DEF Handled
  <2> QED
    BY <1>3, <2>1 DEF Fresh, Emitted
<1> QED
  BY <1>1, <1>2, <1>3, <1>4, <1>5 DEF Arrives, There, Fresh

\* A unit no new row arrives for keeps its accepted generations and its
\* deciding rows: a handler that runs again changes neither.
LEMMA NothingArrives ==
  ASSUME Types, Stored, NEW s \in Scopes, NEW n \in GenNo, NEW edges, Handled(s, n, edges),
         NEW u \in Units, \A x \in Rows : x.unit = u => ~Arrives(x)
  PROVE /\ \A t \in Scopes : accepted'[t][u] = accepted[t][u]
        /\ \A x \in Rows : x.unit = u /\ There(x) => (Decides(x)' <=> Decides(x))
<1> USE LaneAssumption, RowFields
<1>1. ASSUME NEW t \in Scopes PROVE accepted'[t][u] = accepted[t][u]
  <2>1. CASE t = s /\ \E x \in Rows : x.unit = u /\ Fresh(x, s, n)
    <3>1. PICK x \in Rows : x.unit = u /\ Fresh(x, s, n)
      BY <2>1
    <3>2. There(x)
      BY <3>1 DEF Handled, Arrives
    <3>3. n <= accepted[s][u]
      BY <3>1, <3>2 DEF Fresh, Stored
    <3>4. accepted[s][u] # 0 /\ accepted[s][u] \in Nat
      BY <3>3 DEF GenNo, Types
    <3>5. PICK y \in Rows : There(y) /\ y.scope = s /\ y.unit = u /\ y.gen = accepted[s][u]
      BY <3>4 DEF Stored
    <3>6. accepted[s][u] <= n
      BY <3>5, HandledRows
    <3>7. accepted'[s][u] = n
      BY <2>1 DEF Handled
    <3> QED
      BY <2>1, <3>3, <3>4, <3>6, <3>7 DEF GenNo
  <2>2. CASE ~(t = s /\ \E x \in Rows : x.unit = u /\ Fresh(x, s, n))
    BY <2>2 DEF Handled
  <2> QED
    BY <2>1, <2>2
<1>2. ASSUME NEW x \in Rows, x.unit = u, There(x) PROVE Decides(x)' <=> Decides(x)
  <2>1. CASE lane = "code_calls"
    <3>1. found'[x.scope] = found[x.scope] \/ \A k \in GenNo : found'[x.scope][k] = found[x.scope][k]
      <4>1. CASE x.scope # s
        BY <4>1 DEF Handled
      <4>2. CASE x.scope = s
        <5>1. x.unit = OwnUnit[s]
          BY <1>2, <2>1, <4>2, CodeUnit
        <5>2. PICK y \in Rows : y.scope = s /\ y.unit = OwnUnit[s] /\ y.gen = n /\ y.edge = "refresh"
          BY <5>1, RowExists
        <5>3. Fresh(y, s, n)
          <6>1. found'[s][n] # Null /\ lane' = lane
            BY DEF Handled, Pairs
          <6> QED
            BY <2>1, <5>2, <6>1 DEF Fresh, Emitted
        <5>4. There(y)
          BY <1>2, <5>1, <5>2, <5>3 DEF Handled, Arrives
        <5>5. found[s][n] # Null
          BY <5>2, <5>4 DEF Stored, Emitted
        <5> QED
          BY <2>1, <4>2, <5>5 DEF Handled
      <4> QED
        BY <4>1, <4>2
    <3>2. \A k \in x.gen + 1 .. MaxGen : k \in GenNo
      BY DEF GenNo
    <3>3. lane' = lane
      BY DEF Handled
    <3> QED
      BY <2>1, <3>1, <3>2, <3>3 DEF Decides, Last
  <2>2. CASE lane # "code_calls"
    BY <1>1, <1>2, <2>2 DEF Decides, Accepts, Handled
  <2> QED
    BY <2>1, <2>2
<1> QED
  BY <1>1, <1>2

-----------------------------------------------------------------------------
(* What a runner in a cycle knows.                                         *)

\* Pending rows are in the table.
LEMMA PendingIsThere == \A x \in Pending : x \in Rows /\ There(x)
BY DEF Pending, There

\* A repository is held by one scope.
LEMMA OwnScope ==
  ASSUME NEW s \in Scopes, NEW t \in Scopes, OwnUnit[s] = OwnUnit[t], OwnUnit[s] \in Units
  PROVE s = t
BY LaneAssumption

\* Where no retract is needed, every edge of the unit is about to be written.
LEMMA NothingToRetract ==
  ASSUME Types, Stored, Known, Cycle, RepoLane, CodeLane, OnTime,
         NEW p \in Processes, proc[p].pc = "filtered", ~NeedsRetract(p)
  PROVE EdgesOf(proc[p].unit) \subseteq Written(p)
<1> USE LaneAssumption, RowFields, PairFields
<1> SUFFICES ASSUME NEW g \in graph, g[1] = proc[p].unit PROVE g \in Written(p)
  BY DEF EdgesOf
<1>1. g \in Pairs /\ Working(p)
  BY DEF Types, Working
<1>2. \A x \in proc[p].rows : x \in Rows /\ x.unit = proc[p].unit /\ There(x)
  BY <1>1 DEF Types, ProcRec, Cycle, Known
<1>3. proc[p].active = proc[p].rows
  BY <1>1 DEF NeedsRetract, Stale, Cycle
<1>4. \E x \in proc[p].active : x.edge = g[2]
  <2>1. CASE lane = "repo_dependency"
    BY <1>1, <1>3, <2>1 DEF RepoLane, EdgesOf
  <2>2. CASE lane = "code_calls"
    <3>1. PICK s \in Scopes, n \in GenNo : /\ proc[p].rows = Generation(s, n) /\ proc[p].unit = OwnUnit[s]
                                           /\ proc[p].rows \subseteq Pending /\ Oldest(s, n)
      BY <1>1, <2>2 DEF CodeLane
    <3>2. PICK x \in Rows : /\ There(x) /\ x.unit = g[1] /\ x.edge = g[2]
                            /\ intents[x] = "completed" \/ Oldest(x.scope, x.gen)
      BY <2>2 DEF CodeLane
    <3>3. x.scope = s
      BY <1>1, <2>2, <3>1, <3>2, CodeUnit, OwnScope
    <3>4. PICK y \in proc[p].rows : intents[y] = "pending"
      BY <1>1 DEF Cycle
    <3>5. y \in Rows /\ There(y) /\ y.scope = s /\ y.gen = n /\ y.unit = proc[p].unit
      BY <1>2, <3>1, <3>4 DEF Generation
    <3>6. intents[x] # "completed"
      BY <1>3, <2>2, <3>2, <3>3, <3>4, <3>5 DEF NeedsRetract
    <3>7. x \in Pending /\ y \in Pending
      BY <3>2, <3>4, <3>5, <3>6 DEF Types, There, Pending
    <3>8. x.gen <= n /\ n <= x.gen
      BY <3>1, <3>2, <3>3, <3>5, <3>6, <3>7 DEF Oldest
    <3>9. x \in proc[p].rows
      BY <3>1, <3>2, <3>3, <3>8 DEF Generation, GenNo
    <3> QED
      BY <1>3, <3>2, <3>9
  <2> QED
    BY <2>1, <2>2 DEF Types
<1> QED
  BY <1>1, <1>2, <1>3, <1>4 DEF Written

\* The conjuncts of Cycle for a runner that keeps its unit and rows.
LEMMA SameCycle ==
  ASSUME Types, Cycle, OnTime, NEW p \in Processes, Working(p), NEW pc, NEW A, GoesOn(p, pc, A),
         A \subseteq proc[p].rows, UNCHANGED intents
  PROVE /\ proc'[p].unit \in Units
        /\ \A x \in proc'[p].rows : x.unit = proc'[p].unit
        /\ proc'[p].active \subseteq proc'[p].rows
        /\ \E x \in proc'[p].rows : intents'[x] = "pending"
BY DEF Cycle, GoesOn

\* Every step keeps what a runner knows of its cycle.
LEMMA CycleStep ==
  ASSUME Types, Leased, Stored, Known, Cycle, RepoLane, CodeLane, [Next]_vars
  PROVE Cycle'
<1> SUFFICES ASSUME OnTime', NEW p \in Processes, Working(p)'
             PROVE ( /\ proc[p].unit \in Units
                     /\ \A x \in proc[p].rows : x.unit = proc[p].unit
                     /\ proc[p].active \subseteq proc[p].rows
                     /\ \E x \in proc[p].rows : intents[x] = "pending"
                     /\ proc[p].pc = "retracted" => EdgesOf(proc[p].unit) \subseteq Written(p)
                     /\ proc[p].pc \in {"written", "replayed"} /\ proc[p].active # {} =>
                          EdgesOf(proc[p].unit) = Written(p) )'
  BY DEF Cycle
<1> USE RowFields
<1>0. OnTime
  BY StepKinds
<1>1. CASE Quiet
  BY <1>0, <1>1 DEF Quiet, Tables, Cycle, Working, EdgesOf, Written
<1>2. CASE Handles
  <2>1. PICK s \in Scopes, n \in GenNo, edges \in SUBSET Pairs : Handled(s, n, edges)
    BY <1>2 DEF Handles
  <2>2. UNCHANGED <<proc, graph>>
    BY <2>1 DEF Handled
  <2>3. \A x \in Rows : There(x) => intents'[x] = intents[x]
    BY <2>1, HandledRows
  <2>4. \A x \in proc[p].rows : x \in Rows /\ There(x)
    BY DEF Types, ProcRec, Known
  <2> QED
    BY <1>0, <2>2, <2>3, <2>4 DEF Cycle, Working, EdgesOf, Written
<1>3. ASSUME NEW q \in Processes, NEW x \in Rows, Loads(q, x), p # q PROVE FALSE
  BY <1>3 DEF Loads, Keeps, Working
<1>4. ASSUME NEW x \in Rows, Loads(p, x)
      PROVE /\ proc'[p].unit \in Units
            /\ \A y \in proc'[p].rows : y.unit = proc'[p].unit
            /\ proc'[p].active \subseteq proc'[p].rows
            /\ \E y \in proc'[p].rows : intents'[y] = "pending"
            /\ proc'[p].pc = "loaded"
  <2>1. \A y \in Slice(x) : y.unit = x.unit
    BY DEF Slice
  <2>2. x \in Slice(x) /\ intents'[x] = "pending"
    BY <1>4 DEF Loads, Selectable, Pending, Slice, Tables
  <2>3. /\ proc'[p].pc = "loaded" /\ proc'[p].unit = x.unit
        /\ proc'[p].rows = Slice(x) /\ proc'[p].active = {}
    BY <1>4 DEF Loads
  <2> QED
    BY <2>1, <2>2, <2>3
<1>5. ASSUME NEW q \in Processes, Ends(q) \/ Marks(q) PROVE FALSE
  BY <1>5 DEF Ends, Marks, Alone, Rests, Keeps, Resting, Working
<1>6. ASSUME NEW q \in Processes, Moves(q), p # q PROVE FALSE
  BY <1>6 DEF Moves, Alone, GoesOn, Keeps, Working
<1>7. CASE Moves(p)
  <2>0. Working(p) /\ UNCHANGED intents /\ proc[p].active \subseteq proc[p].rows
    BY <1>0, <1>7 DEF Moves, Alone, Tables, Cycle
  <2>1. CASE proc[p].pc = "loaded"
    <3> DEFINE A == {x \in proc[p].rows : x.gen = AcceptedGen(x)}
    <3>1. PICK pc \in {"filtered", "replayed"} : GoesOn(p, pc, A) /\ (pc = "replayed" => A = {})
      BY <1>7, <2>1 DEF Moves
    <3>2. A \subseteq proc[p].rows
      OBVIOUS
    <3>3. proc'[p].pc = pc /\ proc'[p].active = A
      BY <3>1 DEF GoesOn
    <3> HIDE DEF A
    <3> QED
      BY <1>0, <2>0, <3>1, <3>2, <3>3, SameCycle
  <2>2. CASE proc[p].pc = "filtered"
    <3>1. /\ GoesOn(p, "retracted", proc[p].active)
          /\ graph' = IF NeedsRetract(p) THEN graph \ EdgesOf(proc[p].unit) ELSE graph
      BY <1>7, <2>2 DEF Moves
    <3>2. EdgesOf(proc[p].unit)' \subseteq Written(p)'
      <4>1. proc'[p].unit = proc[p].unit /\ proc'[p].active = proc[p].active
        BY <3>1 DEF GoesOn
      <4>2. CASE NeedsRetract(p)
        BY <3>1, <4>1, <4>2 DEF EdgesOf
      <4>3. CASE ~NeedsRetract(p)
        BY <1>0, <2>2, <3>1, <4>1, <4>3, NothingToRetract DEF EdgesOf, Written
      <4> QED
        BY <4>2, <4>3
    <3>3. proc'[p].pc = "retracted"
      BY <3>1 DEF GoesOn
    <3> QED
      BY <1>0, <2>0, <3>1, <3>2, <3>3, SameCycle
  <2>3. CASE proc[p].pc = "retracted"
    <3>1. GoesOn(p, "written", proc[p].active) /\ graph' = graph \union Written(p)
      BY <1>7, <2>3 DEF Moves
    <3>2. proc'[p].pc = "written" /\ proc'[p].unit = proc[p].unit /\ proc'[p].active = proc[p].active
      BY <3>1 DEF GoesOn
    <3>3. EdgesOf(proc[p].unit) \subseteq Written(p)
      BY <1>0, <2>0, <2>3 DEF Cycle
    <3>4. EdgesOf(proc[p].unit)' = Written(p)
      BY <1>0, <2>0, <3>1, <3>2, <3>3, WrittenByUnit DEF EdgesOf
    <3>5. Written(p)' = Written(p)
      BY <3>2 DEF Written
    <3> QED
      BY <1>0, <2>0, <3>1, <3>2, <3>4, <3>5, SameCycle
  <2>4. CASE proc[p].pc = "written"
    <3>1. GoesOn(p, "replayed", proc[p].active) /\ UNCHANGED graph
      BY <1>7, <2>4 DEF Moves
    <3>2. proc'[p].pc = "replayed" /\ proc'[p].unit = proc[p].unit /\ proc'[p].active = proc[p].active
      BY <3>1 DEF GoesOn
    <3>3. proc[p].active # {} => EdgesOf(proc[p].unit) = Written(p)
      BY <1>0, <2>0, <2>4 DEF Cycle
    <3>4. EdgesOf(proc[p].unit)' = EdgesOf(proc[p].unit) /\ Written(p)' = Written(p)
      BY <3>1, <3>2 DEF EdgesOf, Written
    <3> QED
      BY <1>0, <2>0, <3>1, <3>2, <3>3, <3>4, SameCycle
  <2> QED
    BY <1>7, <2>1, <2>2, <2>3, <2>4 DEF Moves
<1> QED
  BY <1>1, <1>2, <1>3, <1>4, <1>5, <1>6, <1>7, StepKinds

-----------------------------------------------------------------------------
(* Repository dependencies.                                                *)

\* Every step keeps the invariant of the repository-dependency lane.
LEMMA RepoLaneStep ==
  ASSUME Types, Leased, Stored, Known, Cycle, RepoLane, [Next]_vars
  PROVE RepoLane'
<1> SUFFICES ASSUME lane' = "repo_dependency", OnTime' PROVE
      ( /\ \A g \in graph : \E x \in Rows : There(x) /\ x.unit = g[1] /\ x.edge = g[2]
        /\ \A p \in Processes : Working(p) =>
             /\ \A x \in Rows : There(x) /\ x.unit = proc[p].unit /\ x \notin proc[p].rows => intents[x] = "pending"
             /\ \A g \in EdgesOf(proc[p].unit) : \E x \in proc[p].rows : x.edge = g[2]
             /\ \/ NewRow(p)
                \/ proc[p].pc = "loaded" /\ \E x \in proc[p].rows : Accepts(x)
                \/ proc[p].pc # "loaded" /\ proc[p].active # {} /\ proc[p].active = {x \in proc[p].rows : Accepts(x)} )'
  BY DEF RepoLane
<1> USE RowFields
<1>0. OnTime /\ lane = "repo_dependency"
  BY StepKinds DEF Quiet, Handles, Handled, Loads, Moves, Ends, Marks, Tables
<1>1. \A g \in graph : \E x \in Rows : There(x) /\ x.unit = g[1] /\ x.edge = g[2]
  BY <1>0 DEF RepoLane
<1>2. \A p \in Processes : proc[p].rows \subseteq Rows /\ \A x \in proc[p].rows : There(x)
  BY DEF Types, ProcRec, Known
<1>3. ASSUME NEW p \in Processes, Alone(p)
      PROVE \A g \in Written(p) : \E x \in proc[p].rows : There(x) /\ x.unit = g[1] /\ x.edge = g[2]
  BY <1>0, <1>2, <1>3, WrittenByUnit DEF Alone, Cycle
<1>4. CASE Quiet
  BY <1>0, <1>4 DEF Quiet, Tables, RepoLane, There, Working, EdgesOf, NewRow, Accepts
<1>5. CASE Handles
  <2>1. PICK s \in Scopes, n \in GenNo, edges \in SUBSET Pairs : Handled(s, n, edges)
    BY <1>5 DEF Handles
  <2>2. UNCHANGED <<lane, proc, graph>>
    BY <2>1 DEF Handled
  <2>3. \A x \in Rows : /\ There(x) => There(x)' /\ intents'[x] = intents[x]
                        /\ ~There(x) => ~There(x)' \/ Arrives(x)
    BY <2>1, HandledRows
  <2>4. ASSUME NEW p \in Processes, Working(p)
        PROVE \/ NewRow(p)'
              \/ proc[p].pc = "loaded" /\ \E x \in proc[p].rows : Accepts(x)'
              \/ proc[p].pc # "loaded" /\ proc[p].active # {} /\ proc[p].active = {x \in proc[p].rows : Accepts(x)'}
    <3>1. CASE \E x \in Rows : x.unit = proc[p].unit /\ Arrives(x)
      BY <1>2, <2>2, <3>1 DEF NewRow, Arrives
    <3>2. CASE \A x \in Rows : x.unit = proc[p].unit => ~Arrives(x)
      <4>1. proc[p].unit \in Units /\ \A x \in proc[p].rows : x.unit = proc[p].unit
        BY <1>0, <2>4 DEF Cycle
      <4>2. \A t \in Scopes : accepted'[t][proc[p].unit] = accepted[t][proc[p].unit]
        BY <2>1, <3>2, <4>1, NothingArrives
      <4>3. \A x \in proc[p].rows : Accepts(x)' <=> Accepts(x)
        BY <1>2, <4>1, <4>2 DEF Accepts
      <4>4. NewRow(p) => NewRow(p)'
        BY <2>2, <2>3 DEF NewRow, There
      <4> QED
        BY <1>0, <2>4, <4>3, <4>4 DEF RepoLane
    <3> QED
      BY <3>1, <3>2
  <2>5. ASSUME NEW p \in Processes, Working(p), NEW x \in Rows, There(x)', x.unit = proc[p].unit, x \notin proc[p].rows
        PROVE intents'[x] = "pending"
    BY <1>0, <2>3, <2>5 DEF RepoLane, Arrives
  <2>6. \A p \in Processes : EdgesOf(proc[p].unit)' = EdgesOf(proc[p].unit)
    BY <2>2 DEF EdgesOf
  <2>7. \A p \in Processes : Working(p)' => Working(p) /\ \A g \in EdgesOf(proc[p].unit) : \E x \in proc[p].rows : x.edge = g[2]
    BY <1>0, <2>2 DEF RepoLane, Working
  <2> QED
    BY <1>1, <2>2, <2>3, <2>4, <2>5, <2>6, <2>7
<1>6. ASSUME NEW p \in Processes, NEW x \in Rows, Loads(p, x)
      PROVE /\ \A g \in graph' : \E y \in Rows : There(y)' /\ y.unit = g[1] /\ y.edge = g[2]
            /\ \A q \in Processes : Working(q)' =>
                 /\ \A y \in Rows : There(y)' /\ y.unit = proc'[q].unit /\ y \notin proc'[q].rows => intents'[y] = "pending"
                 /\ \A g \in EdgesOf(proc[q].unit)' : \E y \in proc'[q].rows : y.edge = g[2]
                 /\ proc'[q].pc = "loaded" /\ \E y \in proc'[q].rows : Accepts(y)'
  <2>1. UNCHANGED <<Tables, graph>>
    BY <1>6 DEF Loads
  <2>2. \A q \in Processes : Working(q)' => q = p
    BY <1>6 DEF Loads, Keeps, Working
  <2>3. proc'[p].pc = "loaded" /\ proc'[p].unit = x.unit /\ proc'[p].rows = Slice(x)
    BY <1>6 DEF Loads
  <2>4. Slice(x) = {y \in Rows : y.unit = x.unit /\ There(y)}
    BY <1>0 DEF Slice, There
  <2>5. Accepts(x) /\ There(x)
    BY <1>0, <1>6 DEF Loads, Selectable, AcceptedGen, Accepts, Pending, There
  <2>6. \A y \in Rows : (There(y)' <=> There(y)) /\ (Accepts(y)' <=> Accepts(y))
    BY <2>1 DEF Tables, There, Accepts
  <2>7. \A g \in EdgesOf(proc[p].unit)' : \E y \in Slice(x) : y.edge = g[2]
    BY <1>1, <2>1, <2>3, <2>4 DEF EdgesOf
  <2> QED
    BY <1>1, <2>1, <2>2, <2>3, <2>4, <2>5, <2>6, <2>7
<1>7. ASSUME NEW p \in Processes, Ends(p) \/ Marks(p)
      PROVE /\ \A g \in graph' : \E y \in Rows : There(y)' /\ y.unit = g[1] /\ y.edge = g[2]
            /\ \A q \in Processes : ~Working(q)'
  <2>1. \A q \in Processes : ~Working(q)'
    BY <1>7 DEF Ends, Marks, Alone, Rests, Keeps, Resting, Working
  <2>2. Alone(p) /\ graph' \subseteq graph \union Written(p)
    BY <1>7 DEF Ends, Marks, Confined
  <2>3. \A x \in Rows : There(x)' <=> There(x)
    BY <1>2, <1>7 DEF Ends, Marks, Tables, There
  <2> QED
    BY <1>1, <1>2, <1>3, <2>1, <2>2, <2>3
<1>8. ASSUME NEW p \in Processes, Moves(p)
      PROVE /\ \A g \in graph' : \E y \in Rows : There(y)' /\ y.unit = g[1] /\ y.edge = g[2]
            /\ \A q \in Processes : Working(q)' =>
                 /\ \A y \in Rows : There(y)' /\ y.unit = proc'[q].unit /\ y \notin proc'[q].rows => intents'[y] = "pending"
                 /\ \A g \in EdgesOf(proc[q].unit)' : \E y \in proc'[q].rows : y.edge = g[2]
                 /\ \/ NewRow(q)'
                    \/ proc'[q].pc # "loaded" /\ proc'[q].active # {} /\ proc'[q].active = {y \in proc'[q].rows : Accepts(y)'}
  <2>1. Alone(p) /\ UNCHANGED Tables /\ graph' \subseteq graph \union Written(p)
    BY <1>8 DEF Moves, Confined
  <2>2. proc'[p].rows = proc[p].rows /\ proc'[p].unit = proc[p].unit /\ Keeps(p)
    BY <1>8 DEF Moves, GoesOn
  <2>3. \A q \in Processes : Working(q)' => q = p
    BY <2>1, <2>2 DEF Alone, Keeps, Working
  <2>4. \A y \in Rows : (There(y)' <=> There(y)) /\ (Accepts(y)' <=> Accepts(y)) /\ intents'[y] = intents[y]
    BY <2>1 DEF Tables, There, Accepts
  <2>5. \A g \in EdgesOf(proc[p].unit)' : \E y \in proc[p].rows : y.edge = g[2]
    <3>1. \A g \in EdgesOf(proc[p].unit)' : g \in EdgesOf(proc[p].unit) \/ g \in Written(p)
      BY <2>1, <2>2 DEF EdgesOf
    <3>2. \A g \in EdgesOf(proc[p].unit) : \E y \in proc[p].rows : y.edge = g[2]
      BY <1>0, <2>1 DEF RepoLane, Alone
    <3> QED
      BY <1>3, <2>1, <3>1, <3>2
  <2>6. \/ NewRow(p)'
        \/ proc'[p].pc # "loaded" /\ proc'[p].active # {} /\ proc'[p].active = {y \in proc'[p].rows : Accepts(y)'}
    <3>1. NewRow(p) => NewRow(p)'
      BY <2>2, <2>4 DEF NewRow
    <3>2. {y \in proc'[p].rows : Accepts(y)'} = {y \in proc[p].rows : Accepts(y)}
      BY <1>2, <2>2, <2>4
    <3>3. CASE proc[p].pc = "loaded"
      <4> DEFINE A == {x \in proc[p].rows : x.gen = AcceptedGen(x)}
      <4>1. A = {x \in proc[p].rows : Accepts(x)}
        BY <1>0 DEF AcceptedGen, Accepts
      <4>2. proc'[p].active = A /\ proc'[p].pc # "loaded"
        BY <1>8, <3>3 DEF Moves, GoesOn
      <4>3. NewRow(p) \/ \E x \in proc[p].rows : Accepts(x)
        BY <1>0, <2>1, <3>3 DEF RepoLane, Alone
      <4> QED
        BY <3>1, <3>2, <4>1, <4>2, <4>3
    <3>4. CASE proc[p].pc # "loaded"
      <4>1. proc'[p].active = proc[p].active /\ proc'[p].pc # "loaded"
        BY <1>8, <3>4 DEF Moves, GoesOn
      <4>2. NewRow(p) \/ (proc[p].active # {} /\ proc[p].active = {x \in proc[p].rows : Accepts(x)})
        BY <1>0, <2>1, <3>4 DEF RepoLane, Alone
      <4> QED
        BY <3>1, <3>2, <4>1, <4>2
    <3> QED
      BY <3>3, <3>4
  <2>7. \A g \in graph' : \E y \in Rows : There(y)' /\ y.unit = g[1] /\ y.edge = g[2]
    BY <1>1, <1>2, <1>3, <2>1, <2>4
  <2>8. \A y \in Rows : There(y) /\ y.unit = proc[p].unit /\ y \notin proc[p].rows => intents[y] = "pending"
    BY <1>0, <2>1 DEF RepoLane, Alone
  <2> QED
    BY <2>2, <2>3, <2>4, <2>5, <2>6, <2>7, <2>8
<1> QED
  BY <1>4, <1>5, <1>6, <1>7, <1>8, StepKinds

-----------------------------------------------------------------------------
(* Code calls.                                                             *)

\* Every step keeps the invariant of the code-call lane.
LEMMA CodeLaneStep ==
  ASSUME Types, Types', Leased, Stored, Stored', Known, Cycle, CodeLane, [Next]_vars
  PROVE CodeLane'
<1> SUFFICES ASSUME lane' = "code_calls", OnTime' PROVE
      ( /\ \A x, y \in Rows : There(x) /\ x.scope = y.scope /\ intents[y] = "completed" /\ x.gen <= y.gen
             => intents[x] = "completed"
        /\ \A g \in graph : \E x \in Rows : /\ There(x) /\ x.unit = g[1] /\ x.edge = g[2]
                                            /\ intents[x] = "completed" \/ Oldest(x.scope, x.gen)
        /\ \A p \in Processes : Working(p) =>
             /\ \E s \in Scopes, n \in GenNo :
                  /\ proc[p].rows = Generation(s, n) /\ proc[p].unit = OwnUnit[s]
                  /\ proc[p].rows \subseteq Pending /\ Oldest(s, n)
             /\ proc[p].pc # "loaded" => proc[p].active = proc[p].rows )'
  BY DEF CodeLane
<1> USE LaneAssumption, RowFields
<1>0. OnTime /\ lane = "code_calls"
  BY StepKinds DEF Quiet, Handles, Handled, Loads, Moves, Ends, Marks, Tables
<1>1. \A x, y \in Rows : There(x) /\ x.scope = y.scope /\ intents[y] = "completed" /\ x.gen <= y.gen
        => intents[x] = "completed"
  BY <1>0 DEF CodeLane
<1>2. \A g \in graph : \E x \in Rows : /\ There(x) /\ x.unit = g[1] /\ x.edge = g[2]
                                       /\ intents[x] = "completed" \/ Oldest(x.scope, x.gen)
  BY <1>0 DEF CodeLane
<1>3. ASSUME NEW p \in Processes, Working(p)
      PROVE /\ \E s \in Scopes, n \in GenNo :
                 /\ proc[p].rows = Generation(s, n) /\ proc[p].unit = OwnUnit[s]
                 /\ proc[p].rows \subseteq Pending /\ Oldest(s, n)
            /\ proc[p].pc # "loaded" => proc[p].active = proc[p].rows
  BY <1>0, <1>3 DEF CodeLane
<1>4. ASSUME NEW p \in Processes, Alone(p)
      PROVE \A g \in Written(p) : \E x \in Rows : /\ There(x) /\ x.unit = g[1] /\ x.edge = g[2]
                                                  /\ Oldest(x.scope, x.gen)
  <2>1. PICK s \in Scopes, n \in GenNo : proc[p].rows = Generation(s, n) /\ Oldest(s, n)
    BY <1>3, <1>4 DEF Alone
  <2>2. \A x \in proc[p].active : x \in Rows /\ There(x) /\ Oldest(x.scope, x.gen)
    BY <1>0, <1>4, <2>1 DEF Alone, Cycle, Generation
  <2> QED
    BY <1>0, <1>4, <2>2, WrittenByUnit DEF Alone
<1>5. CASE UNCHANGED <<Tables, proc, graph>>
  BY <1>1, <1>2, <1>3, <1>5 DEF Tables, There, Working, Generation, Pending, Oldest
<1>6. CASE Handles
  <2>1. PICK s \in Scopes, n \in GenNo, edges \in SUBSET Pairs : Handled(s, n, edges)
    BY <1>6 DEF Handles
  <2>2. UNCHANGED <<lane, proc, graph>>
    BY <2>1 DEF Handled
  <2>3. \A x \in Rows : /\ There(x) => There(x)' /\ intents'[x] = intents[x]
                        /\ ~There(x) => ~There(x)' \/ Arrives(x)
                        /\ There(x) /\ x.scope = s => x.gen <= n
                        /\ Arrives(x) => x.scope = s /\ x.gen = n /\ found[s][n] = Null
    BY <1>0, <2>1, HandledRows
  <2>4. \A x, y \in Rows : Arrives(x) /\ There(y) => y.scope # s \/ y.gen < n
    <3> SUFFICES ASSUME NEW x \in Rows, NEW y \in Rows, Arrives(x), There(y), y.scope = s PROVE y.gen < n
      OBVIOUS
    <3>1. found[s][y.gen] # Null
      BY <1>0, CodeUnit
    <3> QED
      BY <2>3, <3>1 DEF GenNo
  <2>5. \A t \in Scopes, k \in GenNo : (\E x \in Rows : There(x) /\ x.scope = t /\ x.gen = k) =>
          (Oldest(t, k) => Oldest(t, k)') /\ Generation(t, k)' = Generation(t, k)
    <3> SUFFICES ASSUME NEW t \in Scopes, NEW k \in GenNo, NEW x \in Rows, There(x), x.scope = t, x.gen = k
                 PROVE (Oldest(t, k) => Oldest(t, k)') /\ Generation(t, k)' = Generation(t, k)
      OBVIOUS
    <3>1. \A y \in Rows : intents'[y] = "pending" => intents[y] = "pending" \/ Arrives(y)
      BY <2>3 DEF There
    <3>2. Oldest(t, k) => Oldest(t, k)'
      <4> SUFFICES ASSUME Oldest(t, k), NEW y \in Rows, intents'[y] = "pending", y.scope = t PROVE k <= y.gen
        BY DEF Oldest, Pending
      <4>1. CASE intents[y] = "pending"
        BY <4>1 DEF Oldest, Pending
      <4>2. CASE Arrives(y)
        BY <2>3, <4>2
      <4> QED
        BY <3>1, <4>1, <4>2
    <3>3. \A y \in Rows : y.scope = t /\ y.gen = k => (There(y)' <=> There(y))
      BY <2>3, <2>4 DEF GenNo
    <3> QED
      BY <3>2, <3>3 DEF Generation
  <2>6. ASSUME NEW x \in Rows, NEW y \in Rows, There(x)', x.scope = y.scope, intents'[y] = "completed", x.gen <= y.gen
        PROVE intents'[x] = "completed"
    <3>1. There(y) /\ intents[y] = "completed"
      BY <2>3, <2>6 DEF Arrives, There
    <3>2. ~Arrives(x)
      BY <2>3, <2>4, <2>6, <3>1 DEF GenNo
    <3> QED
      BY <1>1, <2>3, <2>6, <3>1, <3>2
  <2>7. ASSUME NEW g \in graph'
        PROVE \E x \in Rows : /\ There(x)' /\ x.unit = g[1] /\ x.edge = g[2]
                              /\ intents'[x] = "completed" \/ Oldest(x.scope, x.gen)'
    <3>1. PICK x \in Rows : /\ There(x) /\ x.unit = g[1] /\ x.edge = g[2]
                            /\ intents[x] = "completed" \/ Oldest(x.scope, x.gen)
      BY <1>2, <2>2
    <3> QED
      BY <2>3, <2>5, <3>1
  <2>8. ASSUME NEW p \in Processes, Working(p)'
        PROVE /\ \E t \in Scopes, k \in GenNo :
                   /\ proc'[p].rows = Generation(t, k)' /\ proc'[p].unit = OwnUnit[t]
                   /\ proc'[p].rows \subseteq Pending' /\ Oldest(t, k)'
              /\ proc'[p].pc # "loaded" => proc'[p].active = proc'[p].rows
    <3>1. Working(p) /\ UNCHANGED proc
      BY <2>2, <2>8 DEF Working
    <3>2. PICK t \in Scopes, k \in GenNo : /\ proc[p].rows = Generation(t, k) /\ proc[p].unit = OwnUnit[t]
                                           /\ proc[p].rows \subseteq Pending /\ Oldest(t, k)
      BY <1>3, <3>1
    <3>3. \E x \in Rows : There(x) /\ x.scope = t /\ x.gen = k
      BY <1>0, <3>1, <3>2 DEF Cycle, Generation
    <3>4. Oldest(t, k)' /\ Generation(t, k)' = Generation(t, k)
      BY <2>5, <3>2, <3>3
    <3>5. Pending \subseteq Pending'
      BY <2>3 DEF Pending, There
    <3> QED
      BY <1>3, <3>1, <3>2, <3>4, <3>5
  <2> QED
    BY <2>6, <2>7, <2>8
<1>7. ASSUME NEW p \in Processes, NEW x \in Rows, Loads(p, x)
      PROVE /\ UNCHANGED <<Tables, graph>>
            /\ \A q \in Processes : Working(q)' =>
                 /\ \E s \in Scopes, n \in GenNo :
                      /\ proc'[q].rows = Generation(s, n) /\ proc'[q].unit = OwnUnit[s]
                      /\ proc'[q].rows \subseteq Pending /\ Oldest(s, n)
                 /\ proc'[q].pc = "loaded"
  <2>1. UNCHANGED <<Tables, graph>>
    BY <1>7 DEF Loads
  <2>2. \A q \in Processes : Working(q)' => q = p
    BY <1>7 DEF Loads, Keeps, Working
  <2>3. proc'[p].pc = "loaded" /\ proc'[p].unit = x.unit /\ proc'[p].rows = Slice(x)
    BY <1>7 DEF Loads
  <2>4. x \in Pending /\ \A y \in Pending : y.scope = x.scope /\ y.unit = x.unit => y.gen >= x.gen
    BY <1>0, <1>7 DEF Loads, Selectable
  <2>5. \A y \in Rows : There(y) => y.unit = OwnUnit[y.scope]
    BY <1>0, CodeUnit
  <2>6. x.unit = OwnUnit[x.scope] /\ Oldest(x.scope, x.gen)
    BY <2>4, <2>5, PendingIsThere DEF Oldest, GenNo
  <2>7. Slice(x) = Generation(x.scope, x.gen)
    <3>1. \A y \in Rows : There(y) /\ y.scope = x.scope /\ y.gen = x.gen => y \in Pending
      BY <1>1, <2>4 DEF Types, There, Pending, GenNo
    <3> QED
      BY <1>0, <2>5, <2>6, <3>1, PendingIsThere DEF Slice, Generation
  <2>8. Slice(x) \subseteq Pending
    BY <1>0 DEF Slice
  <2> QED
    BY <2>1, <2>2, <2>3, <2>6, <2>7, <2>8
<1>8. ASSUME NEW p \in Processes, Marks(p)
      PROVE /\ \A x, y \in Rows : There(x)' /\ x.scope = y.scope /\ intents'[y] = "completed" /\ x.gen <= y.gen
                 => intents'[x] = "completed"
            /\ \A g \in graph' : \E x \in Rows : /\ There(x)' /\ x.unit = g[1] /\ x.edge = g[2]
                                                 /\ intents'[x] = "completed" \/ Oldest(x.scope, x.gen)'
            /\ \A q \in Processes : ~Working(q)'
  <2>1. PICK s \in Scopes, n \in GenNo : /\ proc[p].rows = Generation(s, n)
                                         /\ proc[p].rows \subseteq Pending /\ Oldest(s, n)
    BY <1>3, <1>8 DEF Marks, Alone
  <2>2. \A x \in Rows : intents'[x] = IF x \in Generation(s, n) THEN "completed" ELSE intents[x]
    BY <1>8, <2>1 DEF Marks
  <2>3. \A x \in Rows : There(x)' <=> There(x)
    BY <2>2 DEF There, Generation
  <2>4. ASSUME NEW x \in Rows, NEW y \in Rows, There(x), x.scope = y.scope, intents'[y] = "completed",
               x.gen <= y.gen, intents[x] # "completed"
        PROVE intents'[x] = "completed"
    <3>1. x \in Pending
      BY <2>4 DEF There, Types, Pending
    <3>2. y \in Generation(s, n)
      BY <1>1, <2>2, <2>4
    <3>3. y.scope = s /\ y.gen = n
      BY <3>2 DEF Generation
    <3>4. x.gen = n
      BY <2>1, <2>4, <3>1, <3>3 DEF Oldest, GenNo
    <3> QED
      BY <2>2, <2>4, <3>3, <3>4 DEF Generation
  <2>5. \A x, y \in Rows : There(x)' /\ x.scope = y.scope /\ intents'[y] = "completed" /\ x.gen <= y.gen
          => intents'[x] = "completed"
    BY <2>2, <2>3, <2>4
  <2>6. \A t \in Scopes, k \in GenNo : Oldest(t, k) => Oldest(t, k)'
    <3>1. Pending' \subseteq Pending
      BY <2>2 DEF Pending
    <3> QED
      BY <3>1 DEF Oldest
  <2>7. \A x \in Rows : intents[x] = "completed" => intents'[x] = "completed"
    BY <2>2
  <2>8. UNCHANGED graph /\ \A q \in Processes : ~Working(q)'
    BY <1>8 DEF Marks, Alone, Rests, Keeps, Resting, Working
  <2>9. \A g \in graph' : \E x \in Rows : /\ There(x)' /\ x.unit = g[1] /\ x.edge = g[2]
                                          /\ intents'[x] = "completed" \/ Oldest(x.scope, x.gen)'
    BY <1>2, <2>3, <2>6, <2>7, <2>8
  <2> QED
    BY <2>5, <2>8, <2>9
<1>9. ASSUME NEW p \in Processes, Moves(p) \/ Ends(p)
      PROVE /\ UNCHANGED Tables
            /\ \A g \in graph' : \E x \in Rows : /\ There(x) /\ x.unit = g[1] /\ x.edge = g[2]
                                                 /\ intents[x] = "completed" \/ Oldest(x.scope, x.gen)
            /\ \A q \in Processes : Working(q)' =>
                 /\ Working(q) /\ proc'[q].rows = proc[q].rows /\ proc'[q].unit = proc[q].unit
                 /\ proc'[q].pc # "loaded" => proc'[q].active = proc'[q].rows
  <2>1. Alone(p) /\ UNCHANGED Tables /\ graph' \subseteq graph \union Written(p)
    BY <1>9 DEF Moves, Ends, Confined
  <2>2. \A g \in graph' : \E x \in Rows : /\ There(x) /\ x.unit = g[1] /\ x.edge = g[2]
                                          /\ intents[x] = "completed" \/ Oldest(x.scope, x.gen)
    BY <1>2, <1>4, <2>1
  <2>3. ASSUME NEW q \in Processes, Working(q)', Moves(p)
        PROVE /\ Working(q) /\ proc'[q].rows = proc[q].rows /\ proc'[q].unit = proc[q].unit
              /\ proc'[q].pc # "loaded" => proc'[q].active = proc'[q].rows
    <3>1. q = p
      BY <2>1, <2>3 DEF Moves, GoesOn, Alone, Keeps, Working
    <3>2. Working(p) /\ proc'[p].rows = proc[p].rows /\ proc'[p].unit = proc[p].unit
      BY <2>1, <2>3 DEF Moves, GoesOn, Alone
    <3>3. CASE proc[p].pc = "loaded"
      <4>1. proc'[p].active = {x \in proc[p].rows : x.gen = AcceptedGen(x)}
        BY <2>3, <3>3 DEF Moves, GoesOn
      <4> QED
        BY <1>0, <3>1, <3>2, <4>1 DEF AcceptedGen
    <3>4. CASE proc[p].pc # "loaded"
      <4>1. proc'[p].active = proc[p].active
        BY <2>3, <3>4 DEF Moves, GoesOn
      <4> QED
        BY <1>3, <3>1, <3>2, <3>4, <4>1
    <3> QED
      BY <3>3, <3>4
  <2>4. ASSUME NEW q \in Processes, Working(q)', Ends(p) PROVE FALSE
    BY <2>4 DEF Ends, Alone, Rests, Keeps, Resting, Working
  <2> QED
    BY <1>9, <2>1, <2>2, <2>3, <2>4
<1>10. ASSUME UNCHANGED Tables
       PROVE /\ UNCHANGED <<intents, Pending>> /\ \A x \in Rows : There(x)' <=> There(x)
             /\ \A s, n : Generation(s, n)' = Generation(s, n) /\ (Oldest(s, n)' <=> Oldest(s, n))
  BY <1>10 DEF Tables, There, Pending, Generation, Oldest
<1>11. CASE \E p \in Processes, x \in Rows : Loads(p, x)
  BY <1>1, <1>2, <1>7, <1>10, <1>11
<1>12. CASE \E p \in Processes : Moves(p) \/ Ends(p)
  BY <1>1, <1>3, <1>9, <1>10, <1>12
<1> QED
  BY <1>5, <1>6, <1>8, <1>11, <1>12, StepKinds DEF Quiet

-----------------------------------------------------------------------------
(* A drained unit has the edges that are wanted.                           *)

\* The mark that drains a unit ends a cycle that wrote all of its edges.
LEMMA MarkSettles ==
  ASSUME Types, Stored, Known, Cycle, RepoLane, CodeLane, OnTime, NEW p \in Processes, Marks(p),
         NEW u \in Units, u = proc[p].unit, Drained(u)'
  PROVE EdgesOf(u) = Decided(u)
<1> USE LaneAssumption, RowFields, PairFields
<1>1. Working(p) /\ proc[p].pc = "replayed" /\ lane \in {"code_calls", "repo_dependency"}
  BY DEF Marks, Alone, Types
<1>2. /\ u \in Units /\ proc[p].active \subseteq proc[p].rows
      /\ \A x \in proc[p].rows : x \in Rows /\ x.unit = u /\ There(x)
  BY <1>1 DEF Types, ProcRec, Cycle, Known
<1>3. \A x \in Rows : x.unit = u /\ x \notin proc[p].rows => intents[x] # "pending"
  <2>1. \A x \in Rows : x.unit = u => intents'[x] # "pending"
    BY DEF Drained, Pending
  <2> QED
    BY <2>1 DEF Marks
<1>4. proc[p].active # {} /\ \A x \in Rows : There(x) /\ x.unit = u => (x \in proc[p].active <=> Decides(x))
  <2>1. CASE lane = "repo_dependency"
    <3>1. ~NewRow(p)
      BY <1>3 DEF NewRow
    <3>2. proc[p].active # {} /\ proc[p].active = {x \in proc[p].rows : Accepts(x)}
      BY <1>1, <2>1, <3>1 DEF RepoLane
    <3>3. \A x \in Rows : There(x) /\ x.unit = u => x \in proc[p].rows
      BY <1>1, <1>3, <2>1 DEF RepoLane
    <3> QED
      BY <2>1, <3>2, <3>3 DEF Decides
  <2>2. CASE lane = "code_calls"
    <3>1. PICK s \in Scopes, n \in GenNo : /\ proc[p].rows = Generation(s, n) /\ u = OwnUnit[s]
                                           /\ proc[p].rows \subseteq Pending
      BY <1>1, <2>2 DEF CodeLane
    <3>2. proc[p].active = proc[p].rows
      BY <1>1, <2>2 DEF CodeLane
    <3>3. PICK y \in proc[p].rows : intents[y] = "pending"
      BY <1>1 DEF Cycle
    <3>4. y \in Rows /\ There(y) /\ y.scope = s /\ y.gen = n /\ found[s][n] # Null
      BY <1>2, <2>2, <3>1, <3>3, CodeUnit DEF Generation
    <3>5. Last(s, n)
      <4> SUFFICES ASSUME NEW k \in n + 1 .. MaxGen, found[s][k] # Null PROVE FALSE
        BY <3>4 DEF Last
      <4>1. k \in GenNo /\ n < k
        BY DEF GenNo
      <4>2. PICK z \in Rows : z.scope = s /\ z.unit = u /\ z.gen = k /\ z.edge = "refresh"
        BY <1>2, <4>1, RowExists
      <4>3. Emitted(z)
        BY <2>2, <3>1, <4>2 DEF Emitted
      <4>4. There(z) /\ z \notin proc[p].rows
        BY <3>1, <4>1, <4>2, <4>3 DEF Stored, Generation, GenNo
      <4>5. intents[z] = "completed"
        BY <1>3, <4>2, <4>4 DEF Types, There
      <4>6. intents[y] = "completed"
        BY <2>2, <3>4, <4>1, <4>2, <4>5 DEF CodeLane, GenNo
      <4> QED
        BY <3>3, <4>6
    <3>6. \A x \in Rows : There(x) /\ x.unit = u => x.scope = s
      BY <1>2, <2>2, <3>1, CodeUnit, OwnScope
    <3>7. \A x \in Rows : There(x) /\ x.unit = u => (x \in Generation(s, n) <=> Last(s, x.gen))
      BY <3>5, <3>6, LastIsOne DEF Generation
    <3> QED
      BY <2>2, <3>1, <3>2, <3>3, <3>6, <3>7 DEF Decides
  <2> QED
    BY <1>1, <2>1, <2>2
<1>5. EdgesOf(u) = Written(p)
  BY <1>1, <1>4 DEF Cycle
<1>6. Written(p) = Decided(u)
  <2>1. ASSUME NEW g \in Written(p) PROVE g \in Decided(u)
    <3>1. g \in Pairs
      BY <1>5 DEF EdgesOf, Types
    <3>2. g[1] = u
      BY <1>5 DEF EdgesOf
    <3>3. PICK x \in proc[p].active : x.edge = g[2] /\ x.unit = g[1]
      BY <1>1, WrittenByUnit
    <3> QED
      BY <1>2, <1>4, <3>1, <3>2, <3>3 DEF Decided
  <2>2. ASSUME NEW g \in Decided(u) PROVE g \in Written(p)
    <3>1. PICK x \in Rows : There(x) /\ x.unit = u /\ x.edge = g[2] /\ Decides(x)
      BY DEF Decided
    <3>2. g \in Pairs /\ g[1] = u
      BY DEF Decided
    <3>3. x \in proc[p].active /\ x.edge # "refresh" /\ g = <<x.unit, x.edge>>
      BY <1>4, <3>1, <3>2
    <3> QED
      BY <3>3 DEF Written
  <2> QED
    BY <2>1, <2>2
<1> QED
  BY <1>5, <1>6

\* A cycle that is not marked leaves its own unit undrained.
LEMMA OtherUnit ==
  ASSUME Types, Cycle, OnTime, NEW p \in Processes, Moves(p) \/ Ends(p), NEW u \in Units, Drained(u)'
  PROVE proc[p].unit # u /\ Drained(u)
<1>1. Alone(p) /\ UNCHANGED intents
  BY DEF Moves, Ends, Tables
<1>2. proc[p].unit # u
  <2>1. CASE Moves(p)
    BY <2>1 DEF Moves, GoesOn, Drained
  <2>2. CASE Ends(p)
    <3>1. PICK x \in proc[p].rows : intents[x] = "pending" /\ x.unit = proc[p].unit /\ x \in Rows
      BY <1>1 DEF Alone, Cycle, Types, ProcRec
    <3> QED
      BY <1>1, <3>1 DEF Drained, Pending
  <2> QED
    BY <2>1, <2>2
<1> QED
  BY <1>1, <1>2 DEF Moves, Ends, GoesOn, Rests, Keeps, Drained, Pending

\* A mark drains no unit but its own.
LEMMA OtherMark ==
  ASSUME Types, Cycle, OnTime, NEW p \in Processes, Marks(p), NEW u \in Units, u # proc[p].unit, Drained(u)'
  PROVE Drained(u)
<1>1. \A x \in proc[p].rows : x.unit = proc[p].unit
  BY DEF Marks, Alone, Cycle
<1>2. \A x \in Rows : x.unit = u => intents'[x] = intents[x]
  BY <1>1 DEF Marks
<1> QED
  BY <1>2 DEF Marks, Rests, Keeps, Drained, Pending

\* Every step keeps drained units right.
LEMMA DrainedStep ==
  ASSUME Types, Leased, Stored, Stored', Types', Known, Cycle, RepoLane, CodeLane, DrainedMatchesAccepted, [Next]_vars
  PROVE DrainedMatchesAccepted'
<1> SUFFICES ASSUME OnTime', NEW u \in Units, Drained(u)' PROVE EdgesOf(u)' = Wanted(u)'
  BY DEF DrainedMatchesAccepted
<1> USE LaneAssumption, RowFields
<1>0. OnTime
  BY StepKinds
<1>1. Drained(u) => EdgesOf(u) = Decided(u)
  BY <1>0, WantedIsDecided DEF DrainedMatchesAccepted
<1>2. Wanted(u)' = Decided(u)'
  BY WantedIsDecidedNext
<1>3. UNCHANGED <<lane, found, accepted>> /\ (\A x \in Rows : There(x)' <=> There(x)) => Decided(u)' = Decided(u)
  BY DEF Decided, Decides, Accepts, Last
<1>4. CASE Quiet
  <2>1. Drained(u) /\ EdgesOf(u)' = EdgesOf(u)
    BY <1>4 DEF Quiet, Tables, Drained, Pending, EdgesOf
  <2>2. UNCHANGED <<lane, found, accepted>> /\ (\A x \in Rows : There(x)' <=> There(x))
    BY <1>4 DEF Quiet, Tables, There
  <2> QED
    BY <1>1, <1>2, <1>3, <2>1, <2>2
<1>5. CASE Handles
  <2>1. PICK s \in Scopes, n \in GenNo, edges \in SUBSET Pairs : Handled(s, n, edges)
    BY <1>5 DEF Handles
  <2>2. UNCHANGED <<lane, proc, graph>>
    BY <2>1 DEF Handled
  <2>3. \A x \in Rows : /\ There(x) => There(x)' /\ intents'[x] = intents[x]
                        /\ ~There(x) => ~There(x)' \/ Arrives(x)
    BY <2>1, HandledRows
  <2>4. \A x \in Rows : x.unit = u => intents'[x] # "pending"
    BY DEF Drained, Pending
  <2>5. Drained(u)
    BY <2>2, <2>3, <2>4 DEF Drained, Pending, There
  <2>6. \A x \in Rows : x.unit = u => ~Arrives(x) /\ (There(x)' <=> There(x))
    BY <2>3, <2>4 DEF Arrives
  <2>7. \A x \in Rows : x.unit = u /\ There(x) => (Decides(x)' <=> Decides(x))
    BY <2>1, <2>6, NothingArrives
  <2>8. Decided(u)' = Decided(u)
    BY <2>6, <2>7 DEF Decided
  <2>9. EdgesOf(u)' = EdgesOf(u)
    BY <2>2 DEF EdgesOf
  <2> QED
    BY <1>1, <1>2, <2>5, <2>8, <2>9
<1>6. ASSUME NEW p \in Processes, NEW x \in Rows, Loads(p, x) PROVE EdgesOf(u)' = Wanted(u)'
  <2>1. UNCHANGED <<lane, found, accepted, intents, graph>> /\ proc[p].unit = Null
    BY <1>6 DEF Loads, Tables, Known
  <2>2. Drained(u)
    BY <1>6, <2>1 DEF Loads, Keeps, Drained, Pending
  <2>3. EdgesOf(u)' = EdgesOf(u) /\ Decided(u)' = Decided(u)
    BY <1>3, <2>1 DEF EdgesOf, There
  <2> QED
    BY <1>1, <1>2, <2>2, <2>3
<1>7. ASSUME NEW p \in Processes, Moves(p) \/ Ends(p) PROVE EdgesOf(u)' = Wanted(u)'
  <2>1. Alone(p) /\ Confined(p) /\ UNCHANGED <<lane, found, accepted, intents>>
    BY <1>7 DEF Moves, Ends, Tables
  <2>2. proc[p].unit # u /\ Drained(u)
    BY <1>0, <1>7, OtherUnit
  <2>3. EdgesOf(u)' = EdgesOf(u) /\ Decided(u)' = Decided(u)
    BY <1>3, <2>1, <2>2 DEF Confined, There
  <2> QED
    BY <1>1, <1>2, <2>2, <2>3
<1>8. ASSUME NEW p \in Processes, Marks(p) PROVE EdgesOf(u)' = Wanted(u)'
  <2>1. UNCHANGED <<lane, found, accepted, graph>>
    BY <1>8 DEF Marks
  <2>2. \A x \in proc[p].rows : x \in Rows /\ There(x) /\ x.unit = proc[p].unit
    BY <1>0, <1>8 DEF Marks, Alone, Known, Types, ProcRec, Cycle
  <2>3. \A x \in Rows : There(x)' <=> There(x)
    BY <1>8, <2>2 DEF Marks, There
  <2>4. EdgesOf(u)' = EdgesOf(u) /\ Decided(u)' = Decided(u)
    BY <1>3, <2>1, <2>3 DEF EdgesOf
  <2>5. CASE proc[p].unit = u
    BY <1>0, <1>2, <1>8, <2>4, <2>5, MarkSettles
  <2>6. CASE proc[p].unit # u
    <3>1. Drained(u)
      BY <1>0, <1>8, <2>6, OtherMark
    <3> QED
      BY <1>1, <1>2, <2>4, <3>1
  <2> QED
    BY <2>5, <2>6
<1> QED
  BY <1>4, <1>5, <1>6, <1>7, <1>8, StepKinds

-----------------------------------------------------------------------------
(* A repository whose edges changed has its workloads asked for.           *)

\* A cycle reaches its mark with active rows only through ReplayWorkloads.
LEMMA AskedStep ==
  ASSUME Types, Leased, Stored, Known, Cycle, Asked, [Next]_vars
  PROVE Asked'
<1> SUFFICES ASSUME lane' = "repo_dependency", OnTime', NEW p \in Processes, Working(p)',
                    proc'[p].pc = "replayed", proc'[p].active # {}
             PROVE proc'[p].unit \in replayed'
  BY DEF Asked
<1>0. OnTime /\ lane = "repo_dependency"
  BY StepKinds DEF Quiet, Handles, Handled, Loads, Moves, Ends, Marks, Tables
<1>1. CASE UNCHANGED <<proc, replayed>>
  BY <1>0, <1>1 DEF Asked, Working
<1>2. Handles => UNCHANGED <<proc, replayed>>
  BY DEF Handles, Handled
<1>3. ASSUME NEW q \in Processes, NEW x \in Rows, Loads(q, x) PROVE FALSE
  <2>1. p = q
    BY <1>3 DEF Loads, Keeps, Working
  <2> QED
    BY <1>3, <2>1 DEF Loads
<1>4. ASSUME NEW q \in Processes, Ends(q) \/ Marks(q) PROVE FALSE
  BY <1>4 DEF Ends, Marks, Alone, Rests, Keeps, Resting, Working
<1>5. ASSUME NEW q \in Processes, Moves(q) PROVE proc'[p].unit \in replayed'
  <2>1. p = q
    BY <1>5 DEF Moves, Alone, GoesOn, Keeps, Working
  <2> QED
    BY <1>0, <1>5, <2>1 DEF Moves, GoesOn
<1> QED
  BY <1>1, <1>2, <1>3, <1>4, <1>5, StepKinds DEF Quiet

\* Every step keeps changed units replayed.
LEMMA ReplayedStep ==
  ASSUME Types, Leased, Stored, Known, Cycle, RepoLane, Asked, ChangesAreReplayed, [Next]_vars
  PROVE ChangesAreReplayed'
<1> SUFFICES ASSUME lane' = "repo_dependency", OnTime', NEW u \in Units, Drained(u)', EdgesOf(u)' # {}
             PROVE u \in replayed'
  BY DEF ChangesAreReplayed
<1> USE RowFields
<1>0. OnTime /\ lane = "repo_dependency"
  BY StepKinds DEF Quiet, Handles, Handled, Loads, Moves, Ends, Marks, Tables
<1>1. Drained(u) /\ EdgesOf(u) # {} => u \in replayed
  BY <1>0 DEF ChangesAreReplayed
<1>2. CASE Quiet
  BY <1>1, <1>2 DEF Quiet, Tables, Drained, Pending, EdgesOf
<1>3. CASE Handles
  <2>1. PICK s \in Scopes, n \in GenNo, edges \in SUBSET Pairs : Handled(s, n, edges)
    BY <1>3 DEF Handles
  <2>2. UNCHANGED <<proc, graph, replayed>>
    BY <2>1 DEF Handled
  <2>3. \A x \in Rows : There(x) => intents'[x] = intents[x]
    BY <2>1, HandledRows
  <2> QED
    BY <1>1, <2>2, <2>3 DEF Drained, Pending, There, EdgesOf
<1>4. ASSUME NEW p \in Processes, NEW x \in Rows, Loads(p, x) PROVE u \in replayed'
  <2>1. UNCHANGED <<intents, graph, replayed>> /\ proc[p].unit = Null
    BY <1>4 DEF Loads, Tables, Known
  <2>2. Drained(u)
    BY <1>4, <2>1, LaneAssumption DEF Loads, Keeps, Drained, Pending
  <2> QED
    BY <1>1, <2>1, <2>2 DEF EdgesOf
<1>5. ASSUME NEW p \in Processes, Moves(p) \/ Ends(p) PROVE u \in replayed'
  <2>1. Alone(p) /\ Confined(p) /\ UNCHANGED <<lane, found, accepted, intents>>
    BY <1>5 DEF Moves, Ends, Tables
  <2>2. proc[p].unit # u /\ Drained(u)
    BY <1>0, <1>5, <2>1, OtherUnit
  <2> QED
    BY <1>1, <2>1, <2>2 DEF Confined
<1>6. ASSUME NEW p \in Processes, Marks(p) PROVE u \in replayed'
  <2>1. UNCHANGED <<graph, replayed>> /\ Working(p) /\ proc[p].pc = "replayed"
    BY <1>6 DEF Marks, Alone
  <2>2. CASE proc[p].unit = u
    <3>1. \A x \in Rows : x.unit = u /\ x \notin proc[p].rows => intents[x] # "pending"
      BY <1>6 DEF Marks, Drained, Pending
    <3>2. ~NewRow(p)
      BY <2>2, <3>1 DEF NewRow
    <3>3. proc[p].active # {}
      BY <1>0, <2>1, <3>2 DEF RepoLane
    <3> QED
      BY <1>0, <2>1, <2>2, <3>3 DEF Asked
  <2>3. CASE proc[p].unit # u
    <3>1. Drained(u)
      BY <1>0, <1>6, <2>3, OtherMark
    <3> QED
      BY <1>1, <2>1, <3>1 DEF EdgesOf
  <2> QED
    BY <2>2, <2>3
<1> QED
  BY <1>2, <1>3, <1>4, <1>5, <1>6, StepKinds

-----------------------------------------------------------------------------
\* The invariant holds of the empty tables.
LEMMA InvInit == Init => IInv
<1> SUFFICES ASSUME Init PROVE IInv
  OBVIOUS
<1>1. Types /\ Stored
  BY TypesInit, StoredInit
<1>2. graph = {} /\ \A p \in Processes : proc[p] = Resting
  BY DEF Init
<1>3. \A p \in Processes : ~Working(p) /\ proc[p].unit = Null /\ proc[p].rows = {}
  BY <1>2 DEF Resting, Working
<1>4. \A x \in Rows : ~There(x) /\ intents[x] # "completed"
  BY DEF Init, There
<1>5. DrainedMatchesAccepted
  <2>1. \A u \in Units : Decided(u) = {} /\ EdgesOf(u) = {}
    BY <1>2, <1>4 DEF Decided, EdgesOf
  <2> QED
    BY <1>1, <2>1, WantedIsDecided DEF DrainedMatchesAccepted
<1>6. ChangesAreReplayed
  BY <1>2 DEF ChangesAreReplayed, EdgesOf
<1> QED
  BY <1>1, <1>2, <1>3, <1>4, <1>5, <1>6 DEF IInv, Leased, Known, Cycle, RepoLane, CodeLane, Asked

\* Every step keeps the invariant.
LEMMA InvStep == IInv /\ [Next]_vars => IInv'
<1> SUFFICES ASSUME IInv, [Next]_vars PROVE IInv'
  OBVIOUS
<1>0. /\ Types /\ Leased /\ Stored /\ Known /\ Cycle /\ RepoLane /\ CodeLane /\ Asked
      /\ DrainedMatchesAccepted /\ ChangesAreReplayed
  BY DEF IInv
<1>1. Types' /\ Leased'
  BY <1>0, TypesStep, LeasedStep
<1>2. Stored' /\ Known'
  BY <1>0, <1>1, StoredInv
<1>3. Cycle' /\ RepoLane' /\ CodeLane'
  BY <1>0, <1>1, <1>2, CycleStep, RepoLaneStep, CodeLaneStep
<1>4. Asked' /\ DrainedMatchesAccepted' /\ ChangesAreReplayed'
  BY <1>0, <1>1, <1>2, AskedStep, DrainedStep, ReplayedStep
<1> QED
  BY <1>1, <1>2, <1>3, <1>4 DEF IInv

\* The part of the type invariant the other theorems do not need, or need only
\* on time: the lane is fixed, and a runner's active rows are among its rows.
Shapes ==
  /\ lane \in Lanes /\ replayed \subseteq Units
  /\ \A p \in Processes : proc[p].active \subseteq proc[p].rows /\ (Working(p) => proc[p].unit \in Units)

\* Every step keeps these shapes, also after a lease was lost.
LEMMA ShapesStep == Types /\ Shapes /\ [Next]_vars => Shapes'
<1> SUFFICES ASSUME Types, Shapes, [Next]_vars PROVE Shapes'
  OBVIOUS
<1>1. ASSUME NEW s \in Scopes, NEW n \in GenNo, NEW edges \in Resolves[s][n],
             HandleCodeCalls(s, n, edges) \/ ResolveCrossRepo(s, n, edges) PROVE Shapes'
  BY <1>1, HandlerEffect DEF Shapes, Working
<1>2. ASSUME NEW p \in Processes, NEW x \in Rows, LoadSlice(p, x) PROVE Shapes'
  <2>1. UNCHANGED <<lane, replayed>> /\ x.unit \in Units
    BY <1>2 DEF LoadSlice, Rows
  <2>2. Keeps(p) /\ proc'[p] = [pc |-> "loaded", unit |-> x.unit, rows |-> Slice(x), active |-> {}]
    BY <1>2, LoadEffect
  <2>3. proc'[p].active = {} /\ proc'[p].unit = x.unit
    BY <2>2
  <2> QED
    BY <2>1, <2>2, <2>3 DEF Shapes, Keeps, Working
<1>3. ASSUME NEW p \in Processes, Rests(p), UNCHANGED lane, replayed' \subseteq replayed PROVE Shapes'
  BY <1>3 DEF Rests, Keeps, Resting, Shapes, Working
<1>4. ASSUME NEW p \in Processes, Step(p) PROVE Shapes'
  <2>1. CASE FilterIntents(p)
    <3>1. UNCHANGED <<lane, replayed>> /\ Working(p)
      BY <2>1 DEF FilterIntents, Working
    <3>2. Keeps(p) /\ proc'[p].active \subseteq proc'[p].rows /\ proc'[p].unit = proc[p].unit
      BY <2>1, FilterEffect DEF GoesOn
    <3> QED
      BY <3>1, <3>2 DEF Shapes, Keeps, Working
  <2>2. CASE RetractRepo(p) \/ WriteActiveRows(p) \/ ReplayWorkloads(p)
    <3>1. PICK pc \in Pcs : proc' = [proc EXCEPT ![p].pc = pc]
      BY <2>2 DEF RetractRepo, WriteActiveRows, ReplayWorkloads, Pcs
    <3>2. Keeps(p) /\ proc'[p].active = proc[p].active /\ proc'[p].rows = proc[p].rows
          /\ proc'[p].unit = proc[p].unit
      BY <3>1, PcEffect DEF GoesOn
    <3>3. Working(p) /\ lane' = lane /\ replayed' \subseteq replayed \union {proc[p].unit}
      BY <2>2 DEF RetractRepo, WriteActiveRows, ReplayWorkloads, Working
    <3> QED
      BY <3>2, <3>3 DEF Shapes, Keeps, Working
  <2>3. CASE MarkIntentsCompleted(p)
    BY <1>3, <2>3, RestEffect DEF MarkIntentsCompleted, EndCycle
  <2> QED
    BY <1>4, <2>1, <2>2, <2>3 DEF Step
<1>5. ASSUME NEW p \in Processes, CycleFails(p) \/ Crash(p) PROVE Shapes'
  BY <1>3, <1>5, RestEffect DEF CycleFails, Crash, Partly, EndCycle
<1>6. ASSUME NEW p \in Processes, Heartbeat(p) PROVE Shapes'
  <2>1. CASE UNCHANGED <<proc, replayed>>
    BY <1>6, <2>1 DEF Heartbeat, Shapes, Working
  <2>2. CASE Partly(p) /\ EndCycle(p)
    BY <1>3, <1>6, <2>2, RestEffect DEF Heartbeat, Partly, EndCycle
  <2> QED
    BY <1>6, <2>1, <2>2 DEF Heartbeat
<1>7. CASE (\E p \in Processes : PollIdle(p)) \/ Lapse \/ UNCHANGED vars
  <2>1. UNCHANGED <<lane, proc, replayed>>
    BY <1>7 DEF PollIdle, Lapse, vars
  <2> QED
    BY <2>1 DEF Shapes, Working
<1> QED
  BY <1>1, <1>2, <1>4, <1>5, <1>6, <1>7 DEF Next

\* The tables and the runners keep their shapes, also when leases lapse under a
\* running cycle and two runners overlap.
THEOREM LaneTypes == Spec => []TypeOK
<1>1. Init => Types /\ Shapes
  BY TypesInit DEF Init, Resting, Shapes, Working
<1>2. Types /\ Shapes => TypeOK
  <2> SUFFICES ASSUME Types, Shapes PROVE TypeOK
    OBVIOUS
  <2>1. \A s \in Scopes, n \in GenNo : found[s][n] = Null \/ found[s][n] \subseteq Units \X Edges
    BY DEF Types, Pairs
  <2>2. \A p \in Processes : proc[p].pc \in Pcs /\ proc[p].rows \subseteq Rows
    BY DEF Types, ProcRec
  <2> QED
    BY <2>1, <2>2 DEF Types, Shapes, TypeOK, LeaseRec, Pairs, Pcs
<1> QED
  BY <1>1, <1>2, TypesStep, ShapesStep, PTL DEF Spec

\* No two runners of a lane are between load and mark at a time, whatever
\* fails, as long as leases are renewed in time.
THEOREM LaneExclusion == Spec => []LaneIsExclusive
<1>1. IInv => LaneIsExclusive
  BY DEF IInv, Types, Leased, Held, Working, LaneIsExclusive
<1> QED
  BY <1>1, InvInit, InvStep, PTL DEF Spec

\* A repository without pending rows has exactly the edges of the generations
\* that count for it, after any crashes, failed cycles, late rows and repeated
\* handlers.
THEOREM DrainedIsAccepted == Spec => []DrainedMatchesAccepted
<1>1. IInv => DrainedMatchesAccepted
  BY DEF IInv
<1> QED
  BY <1>1, InvInit, InvStep, PTL DEF Spec

\* A drained repository with dependency edges had its workload materialization
\* asked for after its edges last changed.
THEOREM ChangesReachWorkloads == Spec => []ChangesAreReplayed
<1>1. IInv => ChangesAreReplayed
  BY DEF IInv
<1> QED
  BY <1>1, InvInit, InvStep, PTL DEF Spec
=============================================================================
