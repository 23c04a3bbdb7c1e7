------------------------ MODULE ScopeProjectionProofs ------------------------
(***************************************************************************)
(* Proofs about the projection of scopes, for any numbers of scopes,       *)
(* generations, workers, attempts, faults and operator actions.            *)
(*                                                                         *)
(* What a worker holds is described by its own record (WorkersOK): it has  *)
(* projected what it is about to activate.  That is enough for             *)
(* ActiveIsProjected.  Without redelivery a generation is committed once,  *)
(* so it never goes back to pending (ActivePointerAgrees), and its work    *)
(* item is new when it is committed (AbsentHasNoWork, for PendingHasWork). *)
(* In a scope that was never worked on by two at once (OneHolder) the      *)
(* holder's row stays open until the holder itself closes it, nobody else  *)
(* writes the graph meanwhile, and nobody else activates a generation      *)
(* between the two statements of its Ack (HoldersOK).                      *)
(***************************************************************************)
EXTENDS ScopeProjection, TLAPS

OpenStatus == {"pending", "retrying", "claimed"}
Holding == {"claimed", "writing", "projected", "acking"}

\* Each worker's record fits the step it is at.
WorkersOK == \A w \in Workers :
  /\ wk[w].pc = "idle" => wk[w] = IdleWorker
  /\ wk[w].pc = "claiming" => /\ wk[w].claim \in WorkIds /\ wk[w].scope = Null
                              /\ work[wk[w].claim].status # "absent"
  /\ wk[w].pc \in Holding => wk[w].scope \in Scopes /\ wk[w].gen \in GenNo
  /\ wk[w].pc \in {"projected", "acking"} => <<wk[w].scope, wk[w].gen>> \in projected

ProjectionInv == TypeOK /\ WorkersOK /\ ActiveIsProjected

\* The projector item of a generation comes with the generation.
AbsentHasNoWork == \A s \in Scopes, n \in GenNo :
  gens[s][n] = "absent" => work[[scope |-> s, gen |-> n, kind |-> "projector"]].status = "absent"

OnceInv == ProjectionInv /\ ActivePointerAgrees /\ AbsentHasNoWork /\ PendingHasWork

OneHolder == \A s \in Scopes \ overlapped, v, w \in Workers :
  wk[v].scope = s /\ wk[w].scope = s => v = w

\* What the holder of a scope relies on.
HoldersOK == \A w \in Workers : wk[w].scope \in Scopes \ overlapped =>
  /\ \E x \in WorkIds : /\ x.scope = wk[w].scope /\ x.gen = wk[w].gen
                        /\ work[x].status \in OpenStatus
  /\ wk[w].pc \in {"projected", "acking"} => graph[wk[w].scope] = wk[w].gen
  /\ wk[w].pc = "acking" => \A k \in GenNo \ {wk[w].gen} :
       gens[wk[w].scope][k] = "active" => k \in wk[w].sup

\* A scope with no row open or dead-lettered shows the active generation.
RestIsActive == \A s \in Scopes \ overlapped :
  Open(s) = {} /\ DeadLetters(s) = {} => graph[s] = scopes[s].active

ExclusiveInv == ProjectionInv /\ OneHolder /\ HoldersOK /\ OneActiveGeneration /\ RestIsActive

WorkRow == [status : WorkStatus, attempts : Nat, owner : {LeaseOwner[w] : w \in Workers} \union {Null},
            visible : BOOLEAN, lapsed : BOOLEAN]
WorkerRow == [pc : {"idle", "claiming"} \union Holding, claim : WorkIds \union {Null},
              scope : Scopes \union {Null}, gen : 0 .. MaxGen, attempt : Nat, sup : SUBSET GenNo]
GenRow == [GenNo -> {"absent", "pending", "active", "superseded", "failed"}]
ScopeRow == [active : 0 .. MaxGen, status : {"absent", "pending", "active", "failed"}]

-----------------------------------------------------------------------------
(* Types.                                                                  *)

\* The type invariant, by table.
LEMMA TypeByTable ==
  TypeOK <=> /\ gens \in [Scopes -> GenRow] /\ scopes \in [Scopes -> ScopeRow]
             /\ work \in [WorkIds -> WorkRow] /\ order \subseteq WorkIds \X WorkIds
             /\ wk \in [Workers -> WorkerRow] /\ graph \in [Scopes -> 0 .. MaxGen]
             /\ projected \subseteq Scopes \X GenNo /\ overlapped \subseteq Scopes
             /\ faults \in 0 .. MaxFaults /\ ops \in 0 .. MaxOps
             /\ checked \subseteq Scopes \X GenNo
<1>1. {"idle", "claiming"} \union Holding = {"idle", "claiming", "claimed", "writing", "projected", "acking"}
  BY DEF Holding
<1> QED BY <1>1 DEF TypeOK, GenRow, ScopeRow, WorkRow, WorkerRow

\* The tables are empty and all workers idle.
LEMMA InitInv == Init => ProjectionInv
<1> SUFFICES ASSUME Init PROVE ProjectionInv
  OBVIOUS
<1>1. TypeOK
  BY ProjectionAssumption DEF Init, TypeOK, IdleWorker, WorkStatus, GenNo
<1>2. WorkersOK
  BY DEF Init, WorkersOK, IdleWorker, Holding
<1>3. ActiveIsProjected
  BY DEF Init, ActiveIsProjected
<1> QED BY <1>1, <1>2, <1>3 DEF ProjectionInv

\* Touching rows keeps order a relation on the rows.
LEMMA TouchedType ==
  ASSUME order \subseteq WorkIds \X WorkIds, NEW S \in SUBSET WorkIds
  PROVE  Touched(S) \subseteq WorkIds \X WorkIds
  BY DEF Touched

\* Rows freed by a statement are rows.
LEMMA FreeRowType ==
  ASSUME NEW status \in WorkStatus, NEW attempts \in Nat, NEW visible \in BOOLEAN
  PROVE  FreeRow(status, attempts, visible) \in WorkRow
  BY DEF FreeRow, WorkRow

\* A worker at rest is a worker.
LEMMA IdleWorkerType == IdleWorker \in WorkerRow
  BY ProjectionAssumption DEF IdleWorker, WorkerRow

\* The rows a worker's statements match are claimed rows of its generation.
LEMMA MatchedType ==
  ASSUME NEW w \in Workers
  PROVE  /\ MatchedRows(w) \in SUBSET WorkIds
         /\ \A x \in MatchedRows(w) : /\ x.scope = wk[w].scope /\ x.gen = wk[w].gen
                                      /\ work[x].status = "claimed"
  BY DEF MatchedRows

\* What Fail does to the tables.
LEMMA FailEffect ==
  ASSUME TypeOK, NEW w \in Workers, wk[w].scope \in Scopes, wk[w].gen \in GenNo,
         NEW retryable \in BOOLEAN, Fail(w, retryable)
  PROVE  /\ gens' \in [Scopes -> GenRow] /\ scopes' \in [Scopes -> ScopeRow]
         /\ work' \in [WorkIds -> WorkRow] /\ order' \subseteq WorkIds \X WorkIds
         /\ \A x \in WorkIds \ MatchedRows(w) : work'[x] = work[x]
         /\ \/ /\ UNCHANGED <<gens, scopes>>
               /\ \A x \in MatchedRows(w) : work'[x].status = "retrying"
            \/ /\ \A x \in MatchedRows(w) : work'[x].status = "dead_letter"
               /\ \A s \in Scopes, n \in GenNo :
                    gens'[s][n] = IF s = wk[w].scope /\ n = wk[w].gen /\ gens[s][n] \in {"pending", "active"}
                                    THEN "failed" ELSE gens[s][n]
               /\ \A s \in Scopes :
                    IF s # wk[w].scope THEN scopes'[s] = scopes[s]
                    ELSE \/ scopes'[s].active = 0
                         \/ scopes[s].active # wk[w].gen /\ scopes'[s] = scopes[s]
<1>0. /\ gens \in [Scopes -> GenRow] /\ scopes \in [Scopes -> ScopeRow] /\ work \in [WorkIds -> WorkRow]
      /\ order \subseteq WorkIds \X WorkIds
  BY TypeByTable
<1>1. order' \subseteq WorkIds \X WorkIds
  BY <1>0, TouchedType, MatchedType DEF Fail
<1>2. \A x \in WorkIds : work[x].attempts \in Nat
  BY <1>0 DEF WorkRow
<1>3. \A x \in WorkIds : /\ FreeRow("retrying", work[x].attempts, FALSE) \in WorkRow
                         /\ FreeRow("dead_letter", work[x].attempts, FALSE) \in WorkRow
  BY <1>2, FreeRowType DEF WorkStatus
<1>4. CASE retryable /\ wk[w].attempt < MaxAttempts
  <2>1. /\ work' = [x \in WorkIds |-> IF x \in MatchedRows(w) THEN FreeRow("retrying", work[x].attempts, FALSE)
                                      ELSE work[x]]
        /\ UNCHANGED <<gens, scopes>>
    BY <1>4 DEF Fail, UpdateRows
  <2>2. work' \in [WorkIds -> WorkRow] /\ \A x \in WorkIds \ MatchedRows(w) : work'[x] = work[x]
    BY <1>0, <1>3, <2>1
  <2>3. \A x \in MatchedRows(w) : work'[x].status = "retrying"
    BY <2>1, MatchedType DEF FreeRow
  <2> QED BY <1>0, <1>1, <2>1, <2>2, <2>3
<1>5. CASE ~(retryable /\ wk[w].attempt < MaxAttempts)
  <2>1. /\ work' = [x \in WorkIds |->
                     IF x \in MatchedRows(w) THEN FreeRow("dead_letter", work[x].attempts, FALSE)
                     ELSE work[x]]
        /\ gens' = [gens EXCEPT ![wk[w].scope][wk[w].gen] = IF @ \in {"pending", "active"} THEN "failed" ELSE @]
        /\ scopes' = [scopes EXCEPT ![wk[w].scope] =
                       [active |-> IF @.active = wk[w].gen THEN 0 ELSE @.active,
                        status |-> IF @.active \in {wk[w].gen, 0} THEN "failed" ELSE @.status]]
    BY <1>5 DEF Fail, UpdateRows
  <2>2. work' \in [WorkIds -> WorkRow] /\ \A x \in WorkIds \ MatchedRows(w) : work'[x] = work[x]
    BY <1>0, <1>3, <2>1
  <2>3. \A x \in MatchedRows(w) : work'[x].status = "dead_letter"
    BY <2>1, MatchedType DEF FreeRow
  <2>4. /\ gens' \in [Scopes -> GenRow]
        /\ \A s \in Scopes, n \in GenNo :
             gens'[s][n] = IF s = wk[w].scope /\ n = wk[w].gen /\ gens[s][n] \in {"pending", "active"}
                             THEN "failed" ELSE gens[s][n]
    BY <1>0, <2>1 DEF GenRow
  <2>5. /\ scopes' \in [Scopes -> ScopeRow]
        /\ \A s \in Scopes :
                    IF s # wk[w].scope THEN scopes'[s] = scopes[s]
                    ELSE \/ scopes'[s].active = 0
                         \/ scopes[s].active # wk[w].gen /\ scopes'[s] = scopes[s]
    BY <1>0, <2>1, ProjectionAssumption DEF ScopeRow
  <2> QED BY <1>1, <2>2, <2>3, <2>4, <2>5
<1> QED BY <1>4, <1>5

\* What the second half of an Ack does.
LEMMA AckEffect ==
  ASSUME ProjectionInv, NEW w \in Workers, AckCommit(w)
  PROVE  /\ TypeOK' /\ wk' = [wk EXCEPT ![w] = IdleWorker] /\ UNCHANGED <<graph, projected, overlapped>>
         /\ \A x \in WorkIds \ MatchedRows(w) : work'[x] = work[x]
         /\ \A x \in MatchedRows(w) : work'[x].status = "succeeded"
         /\ \A s \in Scopes, k \in GenNo :
              gens'[s][k] = IF s # wk[w].scope THEN gens[s][k]
                            ELSE IF k = wk[w].gen THEN "active"
                            ELSE IF k \in wk[w].sup /\ gens[s][k] = "active" THEN "superseded"
                            ELSE gens[s][k]
         /\ \A s \in Scopes : scopes'[s] = IF s = wk[w].scope THEN [active |-> wk[w].gen, status |-> "active"]
                                           ELSE scopes[s]
<1>0. /\ gens \in [Scopes -> GenRow] /\ scopes \in [Scopes -> ScopeRow] /\ work \in [WorkIds -> WorkRow]
      /\ order \subseteq WorkIds \X WorkIds /\ wk \in [Workers -> WorkerRow]
  BY TypeByTable DEF ProjectionInv
<1>a. wk[w].scope \in Scopes /\ wk[w].gen \in GenNo
  BY DEF AckCommit, ProjectionInv, WorkersOK, Holding
<1>1. order' \subseteq WorkIds \X WorkIds
  BY <1>0, TouchedType, MatchedType DEF AckCommit
<1>2. \A x \in WorkIds : FreeRow("succeeded", work[x].attempts, FALSE) \in WorkRow
  <2>1. \A x \in WorkIds : work[x].attempts \in Nat
    BY <1>0 DEF WorkRow
  <2> QED BY <2>1, FreeRowType DEF WorkStatus
<1>3. /\ work' = [x \in WorkIds |-> IF x \in MatchedRows(w) THEN FreeRow("succeeded", work[x].attempts, FALSE)
                                    ELSE work[x]]
      /\ gens' = [gens EXCEPT ![wk[w].scope] = [k \in GenNo |->
                   IF k = wk[w].gen THEN "active"
                   ELSE IF k \in wk[w].sup /\ @[k] = "active" THEN "superseded" ELSE @[k]]]
      /\ scopes' = [scopes EXCEPT ![wk[w].scope] = [active |-> wk[w].gen, status |-> "active"]]
      /\ wk' = [wk EXCEPT ![w] = IdleWorker] /\ UNCHANGED <<graph, projected, overlapped, faults, ops, checked>>
  BY DEF AckCommit, UpdateRows
<1>4. work' \in [WorkIds -> WorkRow] /\ \A x \in WorkIds \ MatchedRows(w) : work'[x] = work[x]
  BY <1>0, <1>2, <1>3
<1>5. \A x \in MatchedRows(w) : work'[x].status = "succeeded"
  BY <1>3, MatchedType DEF FreeRow
<1>6. \A s \in Scopes, k \in GenNo :
              gens'[s][k] = IF s # wk[w].scope THEN gens[s][k]
                            ELSE IF k = wk[w].gen THEN "active"
                            ELSE IF k \in wk[w].sup /\ gens[s][k] = "active" THEN "superseded"
                            ELSE gens[s][k]
  BY <1>0, <1>a, <1>3
<1>7. gens' \in [Scopes -> GenRow]
  BY <1>0, <1>a, <1>3 DEF GenRow
<1>8. scopes' \in [Scopes -> ScopeRow] /\ \A s \in Scopes :
        scopes'[s] = IF s = wk[w].scope THEN [active |-> wk[w].gen, status |-> "active"] ELSE scopes[s]
  <2>1. [active |-> wk[w].gen, status |-> "active"] \in ScopeRow
    BY <1>a DEF ScopeRow, GenNo
  <2> QED BY <1>0, <1>a, <1>3, <2>1
<1>9. wk' \in [Workers -> WorkerRow]
  BY <1>0, <1>3, IdleWorkerType
<1>10. TypeOK'
  <2>1. TypeOK
    BY DEF ProjectionInv
  <2> QED BY <1>1, <1>3, <1>4, <1>7, <1>8, <1>9, <2>1 DEF TypeOK, GenRow, ScopeRow, WorkRow, WorkerRow, Holding
<1> QED BY <1>3, <1>4, <1>5, <1>6, <1>8, <1>10

\* Rows that are known stay known, rows that are open stay open and rows that
\* are given up on stay or are opened again.
RowsStayOpen == \A x \in WorkIds :
  /\ work[x].status # "absent" => work'[x].status # "absent"
  /\ work[x].status \in OpenStatus => work'[x].status \in OpenStatus
  /\ work[x].status = "dead_letter" => work'[x].status \in OpenStatus \union {"dead_letter"}

\* The commit of a generation.
LEMMA CommitEffect ==
  ASSUME TypeOK, NEW s \in Scopes, NEW n \in GenNo, CommitScopeGeneration(s, n)
  PROVE  /\ TypeOK' /\ RowsStayOpen /\ UNCHANGED <<wk, graph, projected, overlapped>>
         /\ \A r \in Scopes : /\ scopes'[r].active = scopes[r].active
                              /\ scopes[r].active # 0 => scopes'[r] = scopes[r]
         /\ \A r \in Scopes, k \in GenNo : gens'[r][k] = IF r = s /\ k = n THEN "pending" ELSE gens[r][k]
         /\ LET x == [scope |-> s, gen |-> n, kind |-> "projector"]
            IN /\ x \in WorkIds /\ (work[x].status = "absent" => work'[x].status = "pending")
               /\ \A y \in WorkIds \ {x} : work'[y] = work[y]
<1> DEFINE x == [scope |-> s, gen |-> n, kind |-> "projector"]
<1>0. /\ gens \in [Scopes -> GenRow] /\ scopes \in [Scopes -> ScopeRow] /\ work \in [WorkIds -> WorkRow]
      /\ order \subseteq WorkIds \X WorkIds
  BY TypeByTable
<1>1. x \in WorkIds
  BY DEF WorkIds
<1>2. /\ gens' = [gens EXCEPT ![s][n] = "pending"] /\ n \in Deliverable(s)
      /\ scopes' = [scopes EXCEPT ![s].status = IF scopes[s].active # 0 THEN @ ELSE "pending"]
      /\ IF work[x].status = "absent"
          THEN work' = [work EXCEPT ![x] = FreeRow("pending", 0, TRUE)] /\ order' = Touched({x})
          ELSE UNCHANGED <<work, order>>
      /\ checked' = checked \ {<<s, n>>}
      /\ UNCHANGED <<wk, graph, projected, overlapped, faults, ops>>
  BY DEF CommitScopeGeneration
<1>3. FreeRow("pending", 0, TRUE) \in WorkRow /\ FreeRow("pending", 0, TRUE).status = "pending"
  BY FreeRowType DEF WorkStatus, FreeRow
<1> HIDE DEF x
<1>4. work' \in [WorkIds -> WorkRow] /\ order' \subseteq WorkIds \X WorkIds
  <2>1. Touched({x}) \subseteq WorkIds \X WorkIds
    BY <1>0, <1>1, TouchedType
  <2> QED BY <1>0, <1>1, <1>2, <1>3, <2>1
<1>5. /\ work[x].status = "absent" => work'[x].status = "pending"
      /\ \A y \in WorkIds \ {x} : work'[y] = work[y]
  BY <1>0, <1>1, <1>2, <1>3
<1>6. RowsStayOpen
  BY <1>0, <1>1, <1>2, <1>3 DEF RowsStayOpen, OpenStatus
<1>7. /\ gens' \in [Scopes -> GenRow]
      /\ \A r \in Scopes, k \in GenNo : gens'[r][k] = IF r = s /\ k = n THEN "pending" ELSE gens[r][k]
  BY <1>0, <1>2 DEF GenRow
<1>8. scopes' \in [Scopes -> ScopeRow]
  BY <1>0, <1>2 DEF ScopeRow
<1>9. \A r \in Scopes : /\ scopes'[r].active = scopes[r].active
                        /\ scopes[r].active # 0 => scopes'[r] = scopes[r]
  BY <1>0, <1>2 DEF ScopeRow
<1>10. TypeOK'
  BY <1>2, <1>4, <1>7, <1>8 DEF TypeOK, GenRow, ScopeRow, WorkRow
<1> QED BY <1>1, <1>2, <1>5, <1>6, <1>7, <1>9, <1>10 DEF x

\* Without redelivery a generation is committed once.
LEMMA CommittedOnce ==
  ASSUME NEW s \in Scopes, NEW n \in GenNo, CommitScopeGeneration(s, n), ~Redelivery
  PROVE  gens[s][n] = "absent"
<1>1. n \in Deliverable(s)
  BY DEF CommitScopeGeneration
<1> QED BY <1>1, Zenon DEF Deliverable

\* Operators and time change rows only, and close none; the unchanged check
\* changes no table.
LEMMA RowStepEffect ==
  ASSUME TypeOK,
         \/ \E s \in Scopes, n \in GenNo : CheckFreshness(s, n)
         \/ \E s \in Scopes : Refinalize(s)
         \/ \E S \in SUBSET Scopes : ReplayFailed(S)
         \/ \E x \in WorkIds : Lapse(x) \/ Visible(x)
  PROVE  /\ TypeOK' /\ RowsStayOpen /\ UNCHANGED <<gens, scopes, wk, graph, projected, overlapped>>
         /\ \A x \in WorkIds : x.kind = "projector" /\ work[x].status = "absent" =>
              work'[x].status = "absent"
<1> DEFINE Ok == /\ TypeOK' /\ RowsStayOpen /\ UNCHANGED <<gens, scopes, wk, graph, projected, overlapped>>
                 /\ \A x \in WorkIds : x.kind = "projector" /\ work[x].status = "absent" =>
                      work'[x].status = "absent"
<1>0. /\ scopes \in [Scopes -> ScopeRow] /\ work \in [WorkIds -> WorkRow]
      /\ order \subseteq WorkIds \X WorkIds
  BY TypeByTable
<1>1. FreeRow("pending", 0, TRUE) \in WorkRow /\ FreeRow("pending", 0, TRUE).status = "pending"
  BY FreeRowType DEF WorkStatus, FreeRow
<1>2. ASSUME NEW s \in Scopes, Refinalize(s) PROVE Ok
  <2> DEFINE x == [scope |-> s, gen |-> scopes[s].active, kind |-> "refinalize"]
  <2>1. x \in WorkIds /\ x.kind = "refinalize"
    BY <1>0, <1>2, ProjectionAssumption DEF Refinalize, WorkIds, GenNo, ScopeRow
  <2>2. /\ work' = [work EXCEPT ![x] = FreeRow("pending", 0, TRUE)] /\ order' = Touched({x}) /\ Op
        /\ UNCHANGED <<gens, scopes, wk, graph, projected, overlapped, faults, checked>>
    BY <1>2 DEF Refinalize
  <2> HIDE DEF x
  <2>3. work' \in [WorkIds -> WorkRow] /\ order' \subseteq WorkIds \X WorkIds
    BY <1>0, <1>1, <2>1, <2>2, TouchedType
  <2>4. RowsStayOpen
    BY <1>0, <1>1, <2>1, <2>2 DEF RowsStayOpen, OpenStatus
  <2>5. ops' \in 0 .. MaxOps
    BY <2>2, ProjectionAssumption DEF Op, TypeOK
  <2>6. TypeOK'
    BY <2>2, <2>3, <2>5 DEF TypeOK, WorkRow
  <2> QED BY <1>0, <2>1, <2>2, <2>4, <2>6
<1>3. ASSUME NEW S \in SUBSET Scopes, ReplayFailed(S) PROVE Ok
  <2>1. /\ work' = [x \in WorkIds |-> IF x \in ReplayRows(S) THEN FreeRow("pending", 0, TRUE) ELSE work[x]]
        /\ order' = Touched(ReplayRows(S)) /\ Op
        /\ UNCHANGED <<gens, scopes, wk, graph, projected, overlapped, faults, checked>>
    BY <1>3 DEF ReplayFailed, UpdateRows
  <2>2. ReplayRows(S) \in SUBSET WorkIds /\ \A x \in ReplayRows(S) : work[x].status = "dead_letter"
    BY DEF ReplayRows
  <2>3. work' \in [WorkIds -> WorkRow] /\ order' \subseteq WorkIds \X WorkIds
    BY <1>0, <1>1, <2>1, <2>2, TouchedType
  <2>4. RowsStayOpen
    BY <1>0, <1>1, <2>1, <2>2 DEF RowsStayOpen, OpenStatus
  <2>5. ops' \in 0 .. MaxOps
    BY <2>1, ProjectionAssumption DEF Op, TypeOK
  <2>6. TypeOK'
    BY <2>1, <2>3, <2>5 DEF TypeOK, WorkRow
  <2> QED BY <2>1, <2>2, <2>4, <2>6
<1>4. ASSUME NEW x \in WorkIds, Lapse(x) \/ Visible(x) PROVE Ok
  <2>1. \A y \in WorkIds : work'[y].status = work[y].status
    BY <1>0, <1>4 DEF Lapse, Visible, WorkRow
  <2>2. work' \in [WorkIds -> WorkRow]
    <3>1. [work[x] EXCEPT !.lapsed = TRUE] \in WorkRow /\ [work[x] EXCEPT !.visible = TRUE] \in WorkRow
      BY <1>0 DEF WorkRow
    <3>2. \/ work' = [work EXCEPT ![x] = [work[x] EXCEPT !.lapsed = TRUE]]
          \/ work' = [work EXCEPT ![x] = [work[x] EXCEPT !.visible = TRUE]]
      BY <1>4 DEF Lapse, Visible
    <3> QED BY <1>0, <3>1, <3>2
  <2>3. faults' \in 0 .. MaxFaults /\ UNCHANGED <<gens, scopes, order, wk, graph, projected, overlapped, ops, checked>>
    BY <1>4, ProjectionAssumption DEF Lapse, Visible, Fault, TypeOK
  <2>4. TypeOK'
    BY <2>2, <2>3 DEF TypeOK, WorkRow
  <2> QED BY <2>1, <2>3, <2>4 DEF RowsStayOpen
<1>5. ASSUME NEW s \in Scopes, NEW n \in GenNo, CheckFreshness(s, n) PROVE Ok
  <2>1. /\ checked' = checked \union {<<s, n>>}
        /\ UNCHANGED <<gens, scopes, work, order, wk, graph, projected, overlapped, faults, ops>>
    BY <1>5 DEF CheckFreshness, tables
  <2>2. TypeOK'
    BY <2>1 DEF TypeOK
  <2> QED BY <2>1, <2>2 DEF RowsStayOpen
<1> QED BY <1>2, <1>3, <1>4, <1>5

\* A worker's steps other than Fail and the Ack's second half leave
\* generations and scopes alone and close no row; each goes one step further
\* with the item it holds, or drops it.
Works(w) ==
  \/ ClaimSelect(w) \/ ClaimCommit(w) \/ StartWriting(w) \/ FinishWriting(w) \/ AckBegin(w)
  \/ Heartbeat(w) \/ Abandon(w)

\* The effect of a step of w on w itself, the graph and the markers.
MovesOn(w) ==
  \/ wk'[w] = IdleWorker /\ UNCHANGED <<graph, projected, overlapped>>
  \/ /\ wk'[w].pc = "claiming" /\ wk'[w].scope = Null /\ UNCHANGED <<graph, projected, overlapped>>
     /\ wk'[w].claim \in WorkIds /\ work'[wk'[w].claim].status # "absent"
  \/ /\ wk[w].pc = "claiming" /\ wk'[w].pc = "claimed" /\ UNCHANGED <<graph, projected>>
     /\ wk[w].claim \in WorkIds /\ work'[wk[w].claim].status = "claimed"
     /\ wk'[w].scope = wk[w].claim.scope /\ wk'[w].gen = wk[w].claim.gen
     /\ overlapped \subseteq overlapped'
     /\ (\E v \in Workers : wk[v].scope = wk'[w].scope) => wk'[w].scope \in overlapped'
  \/ /\ wk[w].pc \in Holding /\ wk'[w].pc \in Holding
     /\ wk'[w].scope = wk[w].scope /\ wk'[w].gen = wk[w].gen /\ UNCHANGED overlapped
     /\ \/ wk'[w].pc = "writing" /\ UNCHANGED projected /\ graph' = [graph EXCEPT ![wk[w].scope] = 0]
        \/ /\ wk'[w].pc = "projected" /\ graph' = [graph EXCEPT ![wk[w].scope] = wk[w].gen]
           /\ projected' = projected \union {<<wk[w].scope, wk[w].gen>>}
        \/ wk'[w] = wk[w] /\ UNCHANGED <<graph, projected>>
        \/ /\ wk[w].pc = "projected" /\ wk'[w].pc = "acking" /\ UNCHANGED <<graph, projected>>
           /\ wk'[w].sup = {k \in GenNo : k # wk[w].gen /\ gens[wk[w].scope][k] = "active"}

\* Each of these steps does what MovesOn says.
LEMMA WorksEffect ==
  ASSUME ProjectionInv, NEW w \in Workers, Works(w)
  PROVE  /\ TypeOK' /\ RowsStayOpen /\ UNCHANGED <<gens, scopes>>
         /\ \A x \in WorkIds : work[x].status = "absent" => work'[x].status = "absent"
         /\ \A v \in Workers \ {w} : wk'[v] = wk[v]
         /\ MovesOn(w)
<1> DEFINE Ok == /\ TypeOK' /\ RowsStayOpen /\ UNCHANGED <<gens, scopes>>
                 /\ \A x \in WorkIds : work[x].status = "absent" => work'[x].status = "absent"
                 /\ \A v \in Workers \ {w} : wk'[v] = wk[v]
                 /\ MovesOn(w)
<1>0. /\ TypeOK /\ WorkersOK /\ gens \in [Scopes -> GenRow] /\ scopes \in [Scopes -> ScopeRow]
      /\ work \in [WorkIds -> WorkRow] /\ order \subseteq WorkIds \X WorkIds
      /\ wk \in [Workers -> WorkerRow] /\ graph \in [Scopes -> 0 .. MaxGen]
      /\ projected \subseteq Scopes \X GenNo /\ overlapped \subseteq Scopes
  BY TypeByTable DEF ProjectionInv
<1>a. UNCHANGED work =>
        RowsStayOpen /\ \A x \in WorkIds : work[x].status = "absent" => work'[x].status = "absent"
  BY DEF RowsStayOpen
<1>b. IdleWorker \in WorkerRow /\ IdleWorker.pc = "idle" /\ IdleWorker.scope = Null
  BY IdleWorkerType DEF IdleWorker
<1>1. CASE Abandon(w)
  <2>1. wk' \in [Workers -> WorkerRow] /\ faults' \in 0 .. MaxFaults /\ UNCHANGED work /\ MovesOn(w)
    BY <1>0, <1>b, <1>1, ProjectionAssumption DEF Abandon, Fault, tables, TypeOK, MovesOn
  <2>2. TypeOK'
    BY <1>0, <1>1, <2>1 DEF Abandon, tables, TypeOK, WorkerRow, Holding
  <2> QED BY <1>a, <1>1, <2>1, <2>2 DEF Abandon, tables
<1>2. CASE ClaimSelect(w)
  <2>1. PICK x \in WorkIds : /\ wk' = [wk EXCEPT ![w].pc = "claiming", ![w].claim = x]
                             /\ work[x].status # "absent"
    BY <1>2 DEF ClaimSelect, Candidate, Unleased
  <2>2. wk' \in [Workers -> WorkerRow]
    BY <1>0, <2>1 DEF WorkerRow
  <2>3. wk'[w].pc = "claiming" /\ wk'[w].scope = Null /\ wk'[w].claim = x
    BY <1>0, <1>2, <1>b, <2>1 DEF ClaimSelect, WorkersOK, WorkerRow
  <2>4. TypeOK'
    BY <1>0, <1>2, <2>2 DEF ClaimSelect, tables, TypeOK, WorkerRow, Holding
  <2>5. UNCHANGED <<gens, scopes, work, graph, projected, overlapped>>
    BY <1>2 DEF ClaimSelect, tables
  <2>6. MovesOn(w)
    BY <2>1, <2>3, <2>5 DEF MovesOn
  <2>7. \A v \in Workers \ {w} : wk'[v] = wk[v]
    BY <1>0, <2>1
  <2> QED BY <1>a, <2>4, <2>5, <2>6, <2>7
<1>3. CASE ClaimCommit(w)
  <2> DEFINE x == wk[w].claim
             row == [status |-> "claimed", attempts |-> work[x].attempts + 1,
                     owner |-> LeaseOwner[w], visible |-> TRUE, lapsed |-> FALSE]
             me == [pc |-> "claimed", claim |-> Null, scope |-> x.scope, gen |-> x.gen,
                    attempt |-> work[x].attempts + 1, sup |-> {}]
  <2>1. x \in WorkIds /\ work[x].status # "absent" /\ wk[w].pc = "claiming"
    BY <1>0, <1>3 DEF ClaimCommit, WorkersOK
  <2>2. /\ work' = [work EXCEPT ![x] = row] /\ order' = Touched({x}) /\ wk' = [wk EXCEPT ![w] = me]
        /\ UNCHANGED <<gens, scopes, graph, projected, faults, ops, checked>>
        /\ overlapped' = IF \E v \in Workers : wk[v].scope = x.scope THEN overlapped \union {x.scope}
                         ELSE overlapped
    BY <1>3 DEF ClaimCommit
  <2>3. row \in WorkRow /\ row.status = "claimed"
    BY <1>0, <2>1 DEF WorkRow, WorkStatus
  <2>4. x.scope \in Scopes /\ x.gen \in GenNo /\ x.gen \in 0 .. MaxGen
    BY <2>1 DEF WorkIds, GenNo
  <2>5. me \in WorkerRow /\ me.pc = "claimed" /\ me.scope = x.scope /\ me.gen = x.gen
    <3>1. work[x].attempts + 1 \in Nat
      BY <1>0, <2>1 DEF WorkRow
    <3> HIDE DEF x
    <3> QED BY <2>4, <3>1 DEF WorkerRow, Holding
  <2> HIDE DEF x, row, me
  <2>6. work' \in [WorkIds -> WorkRow] /\ order' \subseteq WorkIds \X WorkIds
    BY <1>0, <2>1, <2>2, <2>3, TouchedType
  <2>7. wk' \in [Workers -> WorkerRow] /\ overlapped' \subseteq Scopes
    BY <1>0, <2>2, <2>4, <2>5
  <2>8. TypeOK'
    BY <1>0, <2>2, <2>6, <2>7 DEF TypeOK, WorkRow, WorkerRow, Holding
  <2>9. RowsStayOpen /\ \A y \in WorkIds : work[y].status = "absent" => work'[y].status = "absent"
    BY <1>0, <2>1, <2>2, <2>3 DEF RowsStayOpen, OpenStatus
  <2>10. MovesOn(w)
    <3>1. wk'[w] = me /\ work'[x].status = "claimed" /\ overlapped \subseteq overlapped'
      BY <1>0, <2>1, <2>2, <2>3
    <3>2. (\E v \in Workers : wk[v].scope = x.scope) => x.scope \in overlapped'
      BY <2>2
    <3> QED BY <2>1, <2>2, <2>5, <3>1, <3>2 DEF MovesOn, x
  <2> QED BY <2>2, <2>8, <2>9, <2>10
<1>4. CASE StartWriting(w)
  <2>1. wk[w].pc = "claimed" /\ wk[w].scope \in Scopes
    BY <1>0, <1>4 DEF StartWriting, WorkersOK, Holding
  <2>2. /\ wk' \in [Workers -> WorkerRow] /\ wk'[w].pc = "writing"
        /\ wk'[w].scope = wk[w].scope /\ wk'[w].gen = wk[w].gen
    BY <1>0, <1>4 DEF StartWriting, WorkerRow, Holding
  <2>3. graph' \in [Scopes -> 0 .. MaxGen]
    BY <1>0, <1>4, <2>1, ProjectionAssumption DEF StartWriting
  <2>4. TypeOK'
    BY <1>0, <1>4, <2>2, <2>3 DEF StartWriting, tables, TypeOK, WorkerRow, Holding
  <2> QED BY <1>a, <1>4, <2>1, <2>2, <2>4 DEF StartWriting, tables, MovesOn, Holding
<1>5. CASE FinishWriting(w)
  <2>1. wk[w].pc = "writing" /\ wk[w].scope \in Scopes /\ wk[w].gen \in GenNo
    BY <1>0, <1>5 DEF FinishWriting, WorkersOK, Holding
  <2>2. /\ wk' \in [Workers -> WorkerRow] /\ wk'[w].pc = "projected"
        /\ wk'[w].scope = wk[w].scope /\ wk'[w].gen = wk[w].gen
    BY <1>0, <1>5 DEF FinishWriting, WorkerRow, Holding
  <2>3. graph' \in [Scopes -> 0 .. MaxGen] /\ projected' \subseteq Scopes \X GenNo
    BY <1>0, <1>5, <2>1 DEF FinishWriting, GenNo
  <2>4. TypeOK'
    BY <1>0, <1>5, <2>2, <2>3 DEF FinishWriting, tables, TypeOK, WorkerRow, Holding
  <2> QED BY <1>a, <1>5, <2>1, <2>2, <2>4 DEF FinishWriting, tables, MovesOn, Holding
<1>6. CASE AckBegin(w)
  <2> DEFINE sup == {k \in GenNo : k # wk[w].gen /\ gens[wk[w].scope][k] = "active"}
  <2>1. wk[w].pc = "projected"
    BY <1>6 DEF AckBegin
  <2>2. /\ wk' \in [Workers -> WorkerRow] /\ wk'[w].pc = "acking" /\ wk'[w].sup = sup
        /\ wk'[w].scope = wk[w].scope /\ wk'[w].gen = wk[w].gen
    BY <1>0, <1>6 DEF AckBegin, WorkerRow, Holding
  <2>4. TypeOK'
    BY <1>0, <1>6, <2>2 DEF AckBegin, tables, TypeOK, WorkerRow, Holding
  <2> QED BY <1>a, <1>6, <2>1, <2>2, <2>4 DEF AckBegin, tables, MovesOn, Holding
<1>7. CASE Heartbeat(w) /\ MatchedRows(w) = {}
  <2>1. wk' = [wk EXCEPT ![w] = IdleWorker]
    BY <1>7 DEF Heartbeat
  <2>2. wk' \in [Workers -> WorkerRow] /\ wk'[w] = IdleWorker
    BY <1>0, <1>b, <2>1
  <2>3. TypeOK'
    BY <1>0, <1>7, <2>2 DEF Heartbeat, TypeOK, WorkerRow, Holding
  <2> QED BY <1>a, <1>7, <2>1, <2>2, <2>3 DEF Heartbeat, MovesOn
<1>8. CASE Heartbeat(w) /\ MatchedRows(w) # {}
  <2>1. /\ work' = [x \in WorkIds |->
                     IF x \in MatchedRows(w) THEN [work[x] EXCEPT !.lapsed = FALSE] ELSE work[x]]
        /\ order' = Touched(MatchedRows(w))
        /\ UNCHANGED <<gens, scopes, wk, graph, projected, overlapped, faults, ops, checked>>
        /\ wk[w].pc \in Holding
    BY <1>8 DEF Heartbeat, UpdateRows, Holding
  <2>2. \A x \in WorkIds : /\ [work[x] EXCEPT !.lapsed = FALSE] \in WorkRow
                           /\ [work[x] EXCEPT !.lapsed = FALSE].status = work[x].status
    BY <1>0 DEF WorkRow
  <2>3. work' \in [WorkIds -> WorkRow] /\ \A x \in WorkIds : work'[x].status = work[x].status
    BY <1>0, <2>1, <2>2
  <2>4. order' \subseteq WorkIds \X WorkIds
    BY <1>0, <2>1, TouchedType, MatchedType
  <2>5. TypeOK'
    BY <1>0, <2>1, <2>3, <2>4 DEF TypeOK, WorkRow
  <2> QED BY <2>1, <2>3, <2>5 DEF RowsStayOpen, MovesOn
<1> QED BY <1>1, <1>2, <1>3, <1>4, <1>5, <1>6, <1>7, <1>8 DEF Works

\* A projection that fails.
LEMMA FailsEffect ==
  ASSUME ProjectionInv, NEW w \in Workers, ProjectionFails(w)
  PROVE  /\ TypeOK' /\ wk' = [wk EXCEPT ![w] = IdleWorker] /\ UNCHANGED <<graph, projected, overlapped>>
         /\ wk[w].scope \in Scopes /\ wk[w].gen \in GenNo
         /\ \E retryable \in BOOLEAN : Fail(w, retryable)
<1>0. /\ TypeOK /\ WorkersOK /\ wk \in [Workers -> WorkerRow]
  BY TypeByTable DEF ProjectionInv
<1>1. wk[w].scope \in Scopes /\ wk[w].gen \in GenNo
  BY <1>0 DEF ProjectionFails, WorkersOK, Holding
<1>2. PICK retryable \in BOOLEAN : Fail(w, retryable)
  BY DEF ProjectionFails
<1>3. /\ gens' \in [Scopes -> GenRow] /\ scopes' \in [Scopes -> ScopeRow]
      /\ work' \in [WorkIds -> WorkRow] /\ order' \subseteq WorkIds \X WorkIds
  BY <1>0, <1>1, <1>2, FailEffect
<1>4. wk' = [wk EXCEPT ![w] = IdleWorker] /\ UNCHANGED <<graph, projected, overlapped, ops, checked>>
  BY DEF ProjectionFails
<1>5. wk' \in [Workers -> WorkerRow] /\ faults' \in 0 .. MaxFaults
  BY <1>0, <1>4, IdleWorkerType, ProjectionAssumption DEF ProjectionFails, Fault, TypeOK
<1>6. TypeOK'
  BY <1>0, <1>3, <1>4, <1>5 DEF TypeOK, GenRow, ScopeRow, WorkRow, WorkerRow, Holding
<1> QED BY <1>1, <1>2, <1>4, <1>6

\* Only the unchanged check, operators and time.
RowStep ==
  \/ \E s \in Scopes, n \in GenNo : CheckFreshness(s, n)
  \/ \E s \in Scopes : Refinalize(s)
  \/ \E S \in SUBSET Scopes : ReplayFailed(S)
  \/ \E x \in WorkIds : Lapse(x) \/ Visible(x)

\* Every step is of one of the kinds above.
LEMMA StepCases ==
  ASSUME [Next]_vars
  PROVE  \/ \E s \in Scopes, n \in GenNo : CommitScopeGeneration(s, n)
         \/ RowStep
         \/ \E w \in Workers : Works(w) \/ ProjectionFails(w) \/ AckCommit(w)
         \/ UNCHANGED vars
  BY DEF Next, RowStep, Works, Progress

-----------------------------------------------------------------------------
(* What holds always.                                                      *)

\* A worker other than w keeps its record; what it has projected stays
\* projected and a row it has locked stays known.
LEMMA OthersStayOK ==
  ASSUME WorkersOK, NEW v \in Workers, wk'[v] = wk[v], projected \subseteq projected',
         \A x \in WorkIds : work[x].status # "absent" => work'[x].status # "absent"
  PROVE  /\ wk'[v].pc = "idle" => wk'[v] = IdleWorker
         /\ wk'[v].pc = "claiming" => /\ wk'[v].claim \in WorkIds /\ wk'[v].scope = Null
                                      /\ work'[wk'[v].claim].status # "absent"
         /\ wk'[v].pc \in Holding => wk'[v].scope \in Scopes /\ wk'[v].gen \in GenNo
         /\ wk'[v].pc \in {"projected", "acking"} => <<wk'[v].scope, wk'[v].gen>> \in projected'
  BY DEF WorkersOK

\* The invariant is kept by every step.
LEMMA ProjectionInvStep ==
  ASSUME ProjectionInv, [Next]_vars
  PROVE  ProjectionInv'
<1> DEFINE OK(v) ==
         /\ wk'[v].pc = "idle" => wk'[v] = IdleWorker
         /\ wk'[v].pc = "claiming" => /\ wk'[v].claim \in WorkIds /\ wk'[v].scope = Null
                                      /\ work'[wk'[v].claim].status # "absent"
         /\ wk'[v].pc \in Holding => wk'[v].scope \in Scopes /\ wk'[v].gen \in GenNo
         /\ wk'[v].pc \in {"projected", "acking"} => <<wk'[v].scope, wk'[v].gen>> \in projected'
<1>0. TypeOK /\ WorkersOK /\ ActiveIsProjected
  BY DEF ProjectionInv
<1>1. ASSUME \A v \in Workers : OK(v) PROVE WorkersOK'
  BY <1>1 DEF WorkersOK
<1>2. IdleWorker.pc = "idle" /\ IdleWorker.scope = Null
  BY DEF IdleWorker
<1>3. \A v \in Workers : wk'[v] = IdleWorker => OK(v)
  BY <1>2 DEF Holding
<1>4. ASSUME NEW s \in Scopes, NEW n \in GenNo, CommitScopeGeneration(s, n)
      PROVE  ProjectionInv'
  <2>1. /\ TypeOK' /\ RowsStayOpen /\ UNCHANGED <<wk, projected>>
        /\ \A r \in Scopes : scopes'[r].active = scopes[r].active
    BY <1>0, <1>4, CommitEffect
  <2>2. WorkersOK'
    BY <1>0, <1>1, <2>1, OthersStayOK DEF RowsStayOpen
  <2> QED BY <1>0, <2>1, <2>2 DEF ProjectionInv, ActiveIsProjected
<1>5. CASE RowStep
  <2>1. TypeOK' /\ RowsStayOpen /\ UNCHANGED <<scopes, wk, projected>>
    BY <1>0, <1>5, RowStepEffect DEF RowStep
  <2>2. WorkersOK'
    BY <1>0, <1>1, <2>1, OthersStayOK DEF RowsStayOpen
  <2> QED BY <1>0, <2>1, <2>2 DEF ProjectionInv, ActiveIsProjected
<1>6. ASSUME NEW w \in Workers, Works(w) PROVE ProjectionInv'
  <2>1. TypeOK' /\ RowsStayOpen /\ UNCHANGED scopes /\ MovesOn(w) /\ \A v \in Workers \ {w} : wk'[v] = wk[v]
    BY <1>6, WorksEffect
  <2>2. projected \subseteq projected'
    BY <2>1 DEF MovesOn
  <2>3. \A v \in Workers \ {w} : OK(v)
    BY <1>0, <2>1, <2>2, OthersStayOK DEF RowsStayOpen
  <2>4. OK(w)
    <3>1. CASE wk'[w] = IdleWorker
      BY <1>3, <3>1
    <3>2. CASE wk'[w].pc = "claiming"
      BY <2>1, <3>2, <1>2 DEF MovesOn, Holding
    <3>3. CASE wk[w].pc = "claiming" /\ wk'[w].pc = "claimed"
      <4>1. wk[w].claim.scope \in Scopes /\ wk[w].claim.gen \in GenNo
        BY <1>0, <3>3 DEF WorkersOK, WorkIds
      <4> QED BY <1>2, <2>1, <3>3, <4>1 DEF MovesOn, Holding
    <3>4. CASE wk[w].pc \in Holding /\ wk'[w].pc \in Holding
      <4>1. /\ wk[w].scope \in Scopes /\ wk[w].gen \in GenNo
            /\ wk[w].pc \in {"projected", "acking"} => <<wk[w].scope, wk[w].gen>> \in projected
        BY <1>0, <3>4 DEF WorkersOK
      <4>2. wk'[w].scope = wk[w].scope /\ wk'[w].gen = wk[w].gen
        BY <1>2, <2>1, <3>4 DEF MovesOn, Holding
      <4>3. wk'[w].pc \in {"projected", "acking"} =>
              wk[w].pc \in {"projected", "acking"} \/ <<wk[w].scope, wk[w].gen>> \in projected'
        BY <1>2, <2>1, <3>4 DEF MovesOn, Holding
      <4> QED BY <2>2, <3>4, <4>1, <4>2, <4>3 DEF Holding
    <3> QED BY <2>1, <3>1, <3>2, <3>3, <3>4 DEF MovesOn
  <2>5. WorkersOK'
    BY <1>1, <2>3, <2>4
  <2> QED BY <1>0, <2>1, <2>2, <2>5 DEF ProjectionInv, ActiveIsProjected
<1>7. ASSUME NEW w \in Workers, ProjectionFails(w) PROVE ProjectionInv'
  <2>1. /\ TypeOK' /\ wk' = [wk EXCEPT ![w] = IdleWorker] /\ UNCHANGED <<graph, projected, overlapped>>
        /\ wk[w].scope \in Scopes /\ wk[w].gen \in GenNo
    BY <1>7, FailsEffect
  <2>2. PICK retryable \in BOOLEAN : Fail(w, retryable)
    BY <1>7, FailsEffect
  <2>3. /\ \A x \in WorkIds : work[x].status # "absent" => work'[x].status # "absent"
        /\ \A s \in Scopes : scopes'[s].active \in {0, scopes[s].active}
    BY <1>0, <2>1, <2>2, FailEffect
  <2>4. wk'[w] = IdleWorker /\ \A v \in Workers \ {w} : wk'[v] = wk[v]
    BY <1>0, <2>1 DEF TypeOK
  <2>5. WorkersOK'
    BY <1>0, <1>1, <1>3, <2>1, <2>3, <2>4, OthersStayOK
  <2> QED BY <1>0, <2>1, <2>3, <2>5 DEF ProjectionInv, ActiveIsProjected
<1>8. ASSUME NEW w \in Workers, AckCommit(w) PROVE ProjectionInv'
  <2>1. /\ TypeOK' /\ wk' = [wk EXCEPT ![w] = IdleWorker] /\ UNCHANGED projected
        /\ \A x \in WorkIds : work[x].status # "absent" => work'[x].status # "absent"
    BY <1>8, AckEffect
  <2>2. \A s \in Scopes : scopes'[s].active = IF s = wk[w].scope THEN wk[w].gen ELSE scopes[s].active
    <3>1. \A s \in Scopes : scopes'[s] = IF s = wk[w].scope THEN [active |-> wk[w].gen, status |-> "active"]
                                          ELSE scopes[s]
      BY <1>8, AckEffect
    <3> QED BY <3>1
  <2>3. <<wk[w].scope, wk[w].gen>> \in projected
    BY <1>0, <1>8 DEF AckCommit, WorkersOK
  <2>4. wk'[w] = IdleWorker /\ \A v \in Workers \ {w} : wk'[v] = wk[v]
    BY <1>0, <2>1 DEF TypeOK
  <2>5. WorkersOK'
    BY <1>0, <1>1, <1>3, <2>1, <2>4, OthersStayOK
  <2> QED BY <1>0, <2>1, <2>2, <2>3, <2>5 DEF ProjectionInv, ActiveIsProjected
<1>9. CASE UNCHANGED vars
  BY <1>9 DEF ProjectionInv, TypeOK, WorkersOK, ActiveIsProjected, vars
<1> QED BY <1>4, <1>5, <1>6, <1>7, <1>8, <1>9, StepCases

-----------------------------------------------------------------------------
(* What holds when a generation is delivered once.                         *)

\* At the start nothing is pending and nothing active.
LEMMA InitOnce == Init => OnceInv
<1> SUFFICES ASSUME Init PROVE OnceInv
  OBVIOUS
<1>1. ActivePointerAgrees /\ PendingHasWork
  BY DEF Init, ActivePointerAgrees, PendingHasWork
<1>2. AbsentHasNoWork
  BY DEF Init, AbsentHasNoWork, WorkIds
<1> QED BY <1>1, <1>2, InitInv DEF OnceInv

\* The row that keeps a pending generation from being stranded.
HasOpenRow(s, n) == \E x \in WorkIds : x.scope = s /\ x.gen = n /\ work[x].status \in OpenStatus

\* Rows that stay open keep doing so for their generation.
LEMMA OpenRowStays ==
  ASSUME RowsStayOpen, NEW s, NEW n, HasOpenRow(s, n)
  PROVE  \E x \in WorkIds : x.scope = s /\ x.gen = n /\ work'[x].status \in OpenStatus
  BY DEF RowsStayOpen, HasOpenRow

\* The invariant is kept by every step.
LEMMA OnceStep ==
  ASSUME OnceInv, [Next]_vars, ~Redelivery
  PROVE  OnceInv'
<1>0. /\ ProjectionInv /\ ActivePointerAgrees /\ AbsentHasNoWork /\ PendingHasWork
      /\ TypeOK /\ WorkersOK /\ scopes \in [Scopes -> ScopeRow]
  BY TypeByTable DEF OnceInv, ProjectionInv
<1>1. ProjectionInv'
  BY <1>0, ProjectionInvStep
<1>2. SUFFICES /\ ActivePointerAgrees' /\ AbsentHasNoWork'
               /\ \A s \in Scopes, n \in GenNo : gens'[s][n] = "pending" =>
                    \E x \in WorkIds : x.scope = s /\ x.gen = n /\ work'[x].status \in OpenStatus
  BY <1>1 DEF OnceInv, PendingHasWork, OpenStatus
<1>3. \A s \in Scopes : scopes[s].active # 0 => scopes[s].active \in GenNo
  BY <1>0, ProjectionAssumption DEF ScopeRow, GenNo
<1>4. \A s \in Scopes, n \in GenNo : gens[s][n] = "pending" => HasOpenRow(s, n)
  BY <1>0 DEF PendingHasWork, HasOpenRow, OpenStatus
<1> DEFINE Goal == /\ ActivePointerAgrees' /\ AbsentHasNoWork'
                   /\ \A s \in Scopes, n \in GenNo : gens'[s][n] = "pending" =>
                        \E x \in WorkIds : x.scope = s /\ x.gen = n /\ work'[x].status \in OpenStatus
<1>5. \A s \in Scopes, n \in GenNo : LET x == [scope |-> s, gen |-> n, kind |-> "projector"]
        IN x \in WorkIds /\ x.scope = s /\ x.gen = n /\ x.kind = "projector"
  BY DEF WorkIds
<1>6. ASSUME NEW s \in Scopes, NEW n \in GenNo, CommitScopeGeneration(s, n)
      PROVE  Goal
  <2> DEFINE x == [scope |-> s, gen |-> n, kind |-> "projector"]
  <2>0. gens[s][n] = "absent"
    BY <1>6, CommittedOnce
  <2>1. /\ RowsStayOpen
        /\ \A r \in Scopes : scopes[r].active # 0 => scopes'[r] = scopes[r]
        /\ \A r \in Scopes : scopes'[r].active = scopes[r].active
        /\ \A r \in Scopes, k \in GenNo : gens'[r][k] = IF r = s /\ k = n THEN "pending" ELSE gens[r][k]
    BY <1>0, <1>6, CommitEffect
  <2>2. x \in WorkIds /\ (work[x].status = "absent" => work'[x].status = "pending")
        /\ \A y \in WorkIds \ {x} : work'[y] = work[y]
    BY <1>0, <1>6, CommitEffect
  <2>3. ActivePointerAgrees'
    BY <1>0, <1>3, <2>0, <2>1 DEF ActivePointerAgrees
  <2>4. AbsentHasNoWork'
    <3> SUFFICES ASSUME NEW r \in Scopes, NEW k \in GenNo, gens'[r][k] = "absent"
                 PROVE  work'[[scope |-> r, gen |-> k, kind |-> "projector"]].status = "absent"
      BY DEF AbsentHasNoWork
    <3>1. ~(r = s /\ k = n) /\ gens[r][k] = "absent"
      BY <2>1
    <3>2. [scope |-> r, gen |-> k, kind |-> "projector"] \in WorkIds \ {x}
      BY <1>5, <3>1
    <3> QED BY <1>0, <2>2, <3>1, <3>2 DEF AbsentHasNoWork
  <2>5. ASSUME NEW r \in Scopes, NEW k \in GenNo, gens'[r][k] = "pending"
        PROVE  \E y \in WorkIds : y.scope = r /\ y.gen = k /\ work'[y].status \in OpenStatus
    <3>1. CASE r = s /\ k = n
      <4>1. work'[x].status = "pending"
        BY <1>0, <2>0, <2>2 DEF AbsentHasNoWork
      <4> QED BY <1>5, <2>2, <3>1, <4>1 DEF OpenStatus
    <3>2. CASE ~(r = s /\ k = n)
      BY <1>4, <2>1, <2>5, <3>2, OpenRowStays
    <3> QED BY <3>1, <3>2
  <2> QED BY <2>3, <2>4, <2>5
<1>7. ASSUME RowsStayOpen, UNCHANGED <<gens, scopes>>,
             \A x \in WorkIds : x.kind = "projector" /\ work[x].status = "absent" =>
                                work'[x].status = "absent"
      PROVE  Goal
  <2>1. ActivePointerAgrees'
    BY <1>0, <1>7 DEF ActivePointerAgrees
  <2>2. AbsentHasNoWork'
    BY <1>0, <1>5, <1>7 DEF AbsentHasNoWork
  <2>3. \A s \in Scopes, n \in GenNo : gens'[s][n] = "pending" =>
          \E x \in WorkIds : x.scope = s /\ x.gen = n /\ work'[x].status \in OpenStatus
    BY <1>4, <1>7, OpenRowStays
  <2> QED BY <2>1, <2>2, <2>3
<1>8. CASE RowStep
  BY <1>0, <1>7, <1>8, RowStepEffect DEF RowStep
<1>9. ASSUME NEW w \in Workers, Works(w) PROVE Goal
  BY <1>0, <1>7, <1>9, WorksEffect
<1>10. ASSUME NEW w \in Workers, ProjectionFails(w) PROVE Goal
  <2>1. wk[w].scope \in Scopes /\ wk[w].gen \in GenNo
    BY <1>0, <1>10, FailsEffect
  <2>2. PICK retryable \in BOOLEAN : Fail(w, retryable)
    BY <1>0, <1>10, FailsEffect
  <2>3. CASE /\ UNCHANGED <<gens, scopes>>
             /\ \A x \in MatchedRows(w) : work'[x].status = "retrying"
    <3>1. \A x \in WorkIds \ MatchedRows(w) : work'[x] = work[x]
      BY <1>0, <2>1, <2>2, FailEffect
    <3>2. RowsStayOpen
      BY <2>3, <3>1, MatchedType DEF RowsStayOpen, OpenStatus
    <3>3. \A x \in WorkIds : work[x].status = "absent" => work'[x].status = "absent"
      BY <3>1, MatchedType
    <3> QED BY <1>7, <2>3, <3>2, <3>3
  <2>4. CASE /\ \A x \in MatchedRows(w) : work'[x].status = "dead_letter"
             /\ \A s \in Scopes, n \in GenNo :
                  gens'[s][n] = IF s = wk[w].scope /\ n = wk[w].gen /\ gens[s][n] \in {"pending", "active"}
                                  THEN "failed" ELSE gens[s][n]
             /\ \A s \in Scopes :
                  IF s # wk[w].scope THEN scopes'[s] = scopes[s]
                  ELSE \/ scopes'[s].active = 0
                       \/ scopes[s].active # wk[w].gen /\ scopes'[s] = scopes[s]
    <3>1. \A x \in WorkIds \ MatchedRows(w) : work'[x] = work[x]
      BY <1>0, <2>1, <2>2, FailEffect
    <3>2. ActivePointerAgrees'
      <4> SUFFICES ASSUME NEW s \in Scopes, scopes'[s].active # 0
                   PROVE  gens'[s][scopes'[s].active] = "active" /\ scopes'[s].status = "active"
        BY DEF ActivePointerAgrees
      <4>1. scopes'[s] = scopes[s] /\ ~(s = wk[w].scope /\ scopes[s].active = wk[w].gen)
        BY <2>4
      <4>2. gens[s][scopes[s].active] = "active" /\ scopes[s].status = "active" /\ scopes[s].active \in GenNo
        BY <1>0, <1>3, <4>1 DEF ActivePointerAgrees
      <4> QED BY <2>4, <4>1, <4>2
    <3>3. AbsentHasNoWork'
      <4> SUFFICES ASSUME NEW s \in Scopes, NEW n \in GenNo, gens'[s][n] = "absent"
                   PROVE  work'[[scope |-> s, gen |-> n, kind |-> "projector"]].status = "absent"
        BY DEF AbsentHasNoWork
      <4>1. gens[s][n] = "absent"
        BY <2>4
      <4>2. work[[scope |-> s, gen |-> n, kind |-> "projector"]].status = "absent"
        BY <1>0, <4>1 DEF AbsentHasNoWork
      <4> QED BY <1>5, <3>1, <4>2, MatchedType
    <3>4. ASSUME NEW s \in Scopes, NEW n \in GenNo, gens'[s][n] = "pending"
          PROVE  \E x \in WorkIds : x.scope = s /\ x.gen = n /\ work'[x].status \in OpenStatus
      <4>1. gens[s][n] = "pending" /\ ~(s = wk[w].scope /\ n = wk[w].gen)
        BY <2>4, <3>4
      <4>2. PICK x \in WorkIds : x.scope = s /\ x.gen = n /\ work[x].status \in OpenStatus
        BY <1>4, <4>1 DEF HasOpenRow
      <4> QED BY <3>1, <4>1, <4>2, MatchedType
    <3> QED BY <3>2, <3>3, <3>4
  <2> QED BY <1>0, <2>1, <2>2, <2>3, <2>4, FailEffect
<1>11. ASSUME NEW w \in Workers, AckCommit(w) PROVE Goal
  <2>0. wk[w].scope \in Scopes /\ wk[w].gen \in GenNo
    BY <1>0, <1>11 DEF AckCommit, WorkersOK, Holding
  <2>1. \A x \in WorkIds \ MatchedRows(w) : work'[x] = work[x]
    BY <1>0, <1>11, AckEffect
  <2>2. \A s \in Scopes, k \in GenNo :
              gens'[s][k] = IF s # wk[w].scope THEN gens[s][k]
                            ELSE IF k = wk[w].gen THEN "active"
                            ELSE IF k \in wk[w].sup /\ gens[s][k] = "active" THEN "superseded"
                            ELSE gens[s][k]
    BY <1>0, <1>11, AckEffect
  <2>3. \A s \in Scopes : scopes'[s] = IF s = wk[w].scope THEN [active |-> wk[w].gen, status |-> "active"]
                                       ELSE scopes[s]
    BY <1>0, <1>11, AckEffect
  <2>4. ActivePointerAgrees'
    BY <1>0, <1>3, <2>0, <2>2, <2>3 DEF ActivePointerAgrees
  <2>5. AbsentHasNoWork'
    <3> SUFFICES ASSUME NEW s \in Scopes, NEW n \in GenNo, gens'[s][n] = "absent"
                 PROVE  work'[[scope |-> s, gen |-> n, kind |-> "projector"]].status = "absent"
      BY DEF AbsentHasNoWork
    <3>1. gens[s][n] = "absent"
      BY <2>2
    <3>2. work[[scope |-> s, gen |-> n, kind |-> "projector"]].status = "absent"
      BY <1>0, <3>1 DEF AbsentHasNoWork
    <3> QED BY <1>5, <2>1, <3>2, MatchedType
  <2>6. ASSUME NEW s \in Scopes, NEW n \in GenNo, gens'[s][n] = "pending"
        PROVE  \E x \in WorkIds : x.scope = s /\ x.gen = n /\ work'[x].status \in OpenStatus
    <3>1. gens[s][n] = "pending" /\ ~(s = wk[w].scope /\ n = wk[w].gen)
      BY <2>2, <2>6
    <3>2. PICK x \in WorkIds : x.scope = s /\ x.gen = n /\ work[x].status \in OpenStatus
      BY <1>4, <3>1 DEF HasOpenRow
    <3> QED BY <2>1, <3>1, <3>2, MatchedType
  <2> QED BY <2>4, <2>5, <2>6
<1>12. CASE UNCHANGED vars
  <2>1. UNCHANGED <<gens, scopes, work>>
    BY <1>12 DEF vars
  <2>2. RowsStayOpen
    BY <2>1 DEF RowsStayOpen
  <2> QED BY <1>7, <2>1, <2>2
<1> QED BY <1>6, <1>8, <1>9, <1>10, <1>11, <1>12, StepCases

-----------------------------------------------------------------------------
(* What holds of a scope that no two workers have held at once.            *)

\* At the start no worker holds anything and all graphs are empty.
LEMMA InitExclusive == Init => ExclusiveInv
<1> SUFFICES ASSUME Init PROVE ExclusiveInv
  OBVIOUS
<1>1. \A w \in Workers : wk[w].scope \notin Scopes
  BY ProjectionAssumption DEF Init, IdleWorker
<1>2. OneHolder /\ HoldersOK
  BY <1>1 DEF OneHolder, HoldersOK
<1>3. OneActiveGeneration /\ RestIsActive
  BY DEF Init, OneActiveGeneration, RestIsActive
<1> QED BY <1>2, <1>3, InitInv DEF ExclusiveInv

\* What HoldersOK says of one worker in the next state.
HolderNext(w) ==
  /\ \E x \in WorkIds : /\ x.scope = wk'[w].scope /\ x.gen = wk'[w].gen
                        /\ work'[x].status \in OpenStatus
  /\ wk'[w].pc \in {"projected", "acking"} => graph'[wk'[w].scope] = wk'[w].gen
  /\ wk'[w].pc = "acking" => \A k \in GenNo \ {wk'[w].gen} :
       gens'[wk'[w].scope][k] = "active" => k \in wk'[w].sup

\* What RestIsActive says of one scope in the next state.
RestNext(s) ==
  (\A x \in WorkIds : x.scope = s => work'[x].status \notin OpenStatus \union {"dead_letter"}) =>
    graph'[s] = scopes'[s].active

\* The next state in terms of the two.
LEMMA ExclusiveNext ==
  ASSUME ProjectionInv', OneHolder',
         \A w \in Workers : wk'[w].scope \in Scopes \ overlapped' => HolderNext(w),
         \A s \in Scopes \ overlapped' : RestNext(s), OneActiveGeneration'
  PROVE  ExclusiveInv'
<1>1. HoldersOK'
  BY DEF HoldersOK, HolderNext
<1>2. RestIsActive'
  BY DEF RestIsActive, RestNext, Open, DeadLetters, OpenStatus
<1> QED BY <1>1, <1>2 DEF ExclusiveInv

\* A scope at rest before a step that closes no row.
LEMMA RestBefore ==
  ASSUME RestIsActive, RowsStayOpen, NEW s \in Scopes \ overlapped,
         \A x \in WorkIds : x.scope = s => work'[x].status \notin OpenStatus \union {"dead_letter"}
  PROVE  graph[s] = scopes[s].active
  BY DEF RestIsActive, RowsStayOpen, Open, DeadLetters, OpenStatus

\* A holder that keeps its record, its graph and its rows.
LEMMA HolderStays ==
  ASSUME HoldersOK, NEW v \in Workers, wk[v].scope \in Scopes \ overlapped, wk'[v] = wk[v],
         graph'[wk[v].scope] = graph[wk[v].scope],
         \A k \in GenNo : gens'[wk[v].scope][k] = "active" => gens[wk[v].scope][k] = "active",
         \A x \in WorkIds : x.scope = wk[v].scope /\ work[x].status \in OpenStatus =>
                            work'[x].status \in OpenStatus
  PROVE  HolderNext(v)
<1>1. PICK x \in WorkIds : /\ x.scope = wk[v].scope /\ x.gen = wk[v].gen
                           /\ work[x].status \in OpenStatus
  BY DEF HoldersOK
<1>2. \E y \in WorkIds : y.scope = wk'[v].scope /\ y.gen = wk'[v].gen /\ work'[y].status \in OpenStatus
  BY <1>1
<1>3. /\ wk'[v].pc \in {"projected", "acking"} => graph'[wk'[v].scope] = wk'[v].gen
      /\ wk'[v].pc = "acking" => \A k \in GenNo \ {wk'[v].gen} :
           gens'[wk'[v].scope][k] = "active" => k \in wk'[v].sup
  BY DEF HoldersOK
<1> QED BY <1>2, <1>3 DEF HolderNext

\* The steps of a worker that close no row.
LEMMA WorksExclusive ==
  ASSUME ExclusiveInv, NEW w \in Workers, Works(w), ProjectionInv'
  PROVE  ExclusiveInv'
<1>0. /\ ProjectionInv /\ OneHolder /\ HoldersOK /\ OneActiveGeneration /\ RestIsActive
      /\ WorkersOK /\ graph \in [Scopes -> 0 .. MaxGen]
  BY TypeByTable DEF ExclusiveInv, ProjectionInv
<1>1. /\ RowsStayOpen /\ UNCHANGED <<gens, scopes>> /\ MovesOn(w)
      /\ \A v \in Workers \ {w} : wk'[v] = wk[v]
  BY <1>0, WorksEffect
<1>2. overlapped \subseteq overlapped'
  BY <1>1 DEF MovesOn
<1>3. IdleWorker.scope = Null /\ IdleWorker.pc = "idle" /\ Null \notin Scopes
  BY ProjectionAssumption DEF IdleWorker
<1>4. \A v \in Workers : wk[v].pc \in Holding <=> wk[v].scope \in Scopes
  <2>1. \A v \in Workers : wk[v].pc \in Holding => wk[v].scope \in Scopes
    BY <1>0 DEF WorkersOK
  <2>2. \A v \in Workers : wk[v].pc \in {"idle", "claiming"} \union Holding
    BY <1>0 DEF ProjectionInv, TypeOK, Holding
  <2> QED BY <1>0, <1>3, <2>1, <2>2 DEF WorkersOK
<1>5. OneHolder'
  <2> SUFFICES ASSUME NEW s \in Scopes \ overlapped', NEW u \in Workers, NEW v \in Workers,
                      wk'[u].scope = s, wk'[v].scope = s
               PROVE  u = v
    BY DEF OneHolder
  <2>1. CASE \A x \in Workers : wk'[x].scope = s => wk[x].scope = s
    BY <1>0, <1>2, <2>1 DEF OneHolder
  <2>2. CASE wk'[w].scope = s /\ wk[w].scope # s
    <3>1. ~\E x \in Workers : wk[x].scope = s
      BY <1>1, <1>3, <2>2 DEF MovesOn
    <3> QED BY <1>1, <3>1
  <2> QED BY <1>1, <2>1, <2>2
<1>6. ASSUME NEW v \in Workers, wk'[v].scope \in Scopes \ overlapped' PROVE HolderNext(v)
  <2>1. CASE v # w
    <3>1. wk'[v] = wk[v] /\ wk[v].scope \in Scopes \ overlapped
      BY <1>1, <1>2, <1>6, <2>1
    <3>2. graph'[wk[v].scope] = graph[wk[v].scope]
      <4>1. CASE UNCHANGED graph
        BY <4>1
      <4>2. CASE ~UNCHANGED graph
        <5>1. wk[w].pc \in Holding /\ \E n : graph' = [graph EXCEPT ![wk[w].scope] = n]
          BY <1>1, <4>2 DEF MovesOn
        <5>2. wk[w].scope # wk[v].scope
          BY <1>0, <2>1, <3>1 DEF OneHolder
        <5> QED BY <1>0, <3>1, <5>1, <5>2
      <4> QED BY <4>1, <4>2
    <3>3. \A x \in WorkIds : work[x].status \in OpenStatus => work'[x].status \in OpenStatus
      BY <1>1 DEF RowsStayOpen
    <3> QED BY <1>0, <1>1, <3>1, <3>2, <3>3, HolderStays
  <2>2. CASE v = w /\ wk[w].pc = "claiming"
    <3>1. wk'[w].pc = "claimed" /\ wk[w].claim \in WorkIds /\ work'[wk[w].claim].status = "claimed"
          /\ wk'[w].scope = wk[w].claim.scope /\ wk'[w].gen = wk[w].claim.gen
      BY <1>1, <1>3, <1>6, <2>2 DEF MovesOn, Holding
    <3> QED BY <2>2, <3>1 DEF HolderNext, OpenStatus
  <2>3. CASE v = w /\ wk[w].pc # "claiming"
    <3>1. /\ wk[w].pc \in Holding /\ wk'[w].pc \in Holding
          /\ wk'[w].scope = wk[w].scope /\ wk'[w].gen = wk[w].gen
          /\ \/ wk'[w].pc = "writing"
             \/ wk'[w].pc = "projected" /\ graph' = [graph EXCEPT ![wk[w].scope] = wk[w].gen]
             \/ wk'[w] = wk[w] /\ UNCHANGED graph
             \/ /\ wk[w].pc = "projected" /\ wk'[w].pc = "acking" /\ UNCHANGED graph
                /\ wk'[w].sup = {k \in GenNo : k # wk[w].gen /\ gens[wk[w].scope][k] = "active"}
      BY <1>1, <1>3, <1>6, <2>3 DEF MovesOn
    <3>2. wk[w].scope \in Scopes \ overlapped
      BY <1>2, <1>6, <2>3, <3>1
    <3>3. \E x \in WorkIds : /\ x.scope = wk'[w].scope /\ x.gen = wk'[w].gen
                             /\ work'[x].status \in OpenStatus
      BY <1>0, <1>1, <3>1, <3>2 DEF HoldersOK, RowsStayOpen
    <3>4. wk'[w].pc \in {"projected", "acking"} => graph'[wk'[w].scope] = wk'[w].gen
      BY <1>0, <3>1, <3>2 DEF HoldersOK
    <3>5. wk'[w].pc = "acking" => \A k \in GenNo \ {wk'[w].gen} :
            gens'[wk'[w].scope][k] = "active" => k \in wk'[w].sup
      BY <1>0, <1>1, <3>1, <3>2 DEF HoldersOK
    <3> QED BY <2>3, <3>3, <3>4, <3>5 DEF HolderNext
  <2> QED BY <2>1, <2>2, <2>3
<1>7. ASSUME NEW s \in Scopes \ overlapped' PROVE RestNext(s)
  <2> SUFFICES ASSUME \A x \in WorkIds : x.scope = s => work'[x].status \notin OpenStatus \union {"dead_letter"}
               PROVE  graph'[s] = scopes'[s].active
    BY DEF RestNext
  <2>1. graph[s] = scopes[s].active
    BY <1>0, <1>1, <1>2, <1>7, RestBefore
  <2>2. wk[w].pc \in Holding => wk[w].scope # s
    <3>1. ASSUME wk[w].pc \in Holding, wk[w].scope = s PROVE FALSE
      <4>1. PICK x \in WorkIds : x.scope = s /\ work[x].status \in OpenStatus
        BY <1>0, <1>2, <1>7, <3>1 DEF HoldersOK
      <4> QED BY <1>1, <4>1 DEF RowsStayOpen
    <3> QED BY <3>1
  <2>3. graph'[s] = graph[s]
    <3>1. UNCHANGED graph \/ (wk[w].pc \in Holding /\ \E n : graph' = [graph EXCEPT ![wk[w].scope] = n])
      BY <1>1 DEF MovesOn
    <3> QED BY <1>0, <2>2, <3>1
  <2> QED BY <1>1, <2>1, <2>3
<1>8. OneActiveGeneration'
  BY <1>0, <1>1, <1>2 DEF OneActiveGeneration
<1> QED BY <1>5, <1>6, <1>7, <1>8, ExclusiveNext

\* A worker that drops its item and may close its rows, without writing.
LEMMA DropsExclusive ==
  ASSUME ExclusiveInv, NEW w \in Workers, wk[w].scope \in Scopes, ProjectionInv',
         wk' = [wk EXCEPT ![w] = IdleWorker], UNCHANGED <<graph, overlapped>>,
         \A x \in WorkIds \ MatchedRows(w) : work'[x] = work[x],
         \A s \in Scopes \ {wk[w].scope} : scopes'[s] = scopes[s] /\ \A k \in GenNo : gens'[s][k] = gens[s][k],
         wk[w].scope \notin overlapped =>
            /\ RestNext(wk[w].scope)
            /\ \A k, n \in GenNo : gens'[wk[w].scope][k] = "active" /\ gens'[wk[w].scope][n] = "active" => k = n
  PROVE  ExclusiveInv'
<1>0. /\ ProjectionInv /\ OneHolder /\ HoldersOK /\ OneActiveGeneration /\ RestIsActive
      /\ wk \in [Workers -> WorkerRow]
  BY TypeByTable DEF ExclusiveInv, ProjectionInv
<1>1. wk'[w].scope \notin Scopes /\ \A v \in Workers \ {w} : wk'[v] = wk[v]
  BY <1>0, ProjectionAssumption DEF IdleWorker
<1>2. \A x \in WorkIds : x.scope # wk[w].scope => work'[x] = work[x]
  BY MatchedType
<1>3. OneHolder'
  BY <1>0, <1>1 DEF OneHolder
<1>4. ASSUME NEW v \in Workers, wk'[v].scope \in Scopes \ overlapped' PROVE HolderNext(v)
  <2>1. v # w /\ wk'[v] = wk[v] /\ wk[v].scope \in Scopes \ overlapped
    BY <1>1, <1>4
  <2>2. wk[v].scope # wk[w].scope
    BY <1>0, <2>1 DEF OneHolder
  <2> QED BY <1>0, <1>2, <2>1, <2>2, HolderStays
<1>5. ASSUME NEW s \in Scopes \ overlapped', s # wk[w].scope PROVE RestNext(s)
  BY <1>0, <1>2, <1>5 DEF RestNext, RestIsActive, Open, DeadLetters, OpenStatus
<1>6. OneActiveGeneration'
  BY <1>0 DEF OneActiveGeneration
<1> QED BY <1>3, <1>4, <1>5, <1>6, ExclusiveNext

\* The invariant is kept by every step.
LEMMA ExclusiveStep ==
  ASSUME ExclusiveInv, [Next]_vars
  PROVE  ExclusiveInv'
<1>0. /\ ProjectionInv /\ OneHolder /\ HoldersOK /\ OneActiveGeneration /\ RestIsActive
      /\ TypeOK /\ WorkersOK
  BY DEF ExclusiveInv, ProjectionInv
<1>1. ProjectionInv'
  BY <1>0, ProjectionInvStep
<1>2. ASSUME RowsStayOpen, UNCHANGED <<wk, graph, overlapped>>,
             \A s \in Scopes : scopes'[s].active = scopes[s].active,
             \A s \in Scopes, k \in GenNo : gens'[s][k] = "active" => gens[s][k] = "active"
      PROVE  ExclusiveInv'
  <2>1. OneHolder' /\ OneActiveGeneration'
    BY <1>0, <1>2 DEF OneHolder, OneActiveGeneration
  <2>2. \A x \in WorkIds : work[x].status \in OpenStatus => work'[x].status \in OpenStatus
    BY <1>2 DEF RowsStayOpen
  <2>3. \A v \in Workers : wk'[v].scope \in Scopes \ overlapped' => HolderNext(v)
    BY <1>0, <1>2, <2>2, HolderStays
  <2>4. \A s \in Scopes \ overlapped' : RestNext(s)
    BY <1>0, <1>2, RestBefore DEF RestNext
  <2> QED BY <1>1, <2>1, <2>3, <2>4, ExclusiveNext
<1>3. ASSUME NEW s \in Scopes, NEW n \in GenNo, CommitScopeGeneration(s, n)
      PROVE  ExclusiveInv'
  <2>1. /\ RowsStayOpen /\ UNCHANGED <<wk, graph, overlapped>>
        /\ \A r \in Scopes : scopes'[r].active = scopes[r].active
        /\ \A r \in Scopes, k \in GenNo : gens'[r][k] = IF r = s /\ k = n THEN "pending" ELSE gens[r][k]
    BY <1>0, <1>3, CommitEffect
  <2> QED BY <1>2, <2>1
<1>4. CASE RowStep
  BY <1>0, <1>2, <1>4, RowStepEffect DEF RowStep
<1>5. ASSUME NEW w \in Workers, Works(w) PROVE ExclusiveInv'
  BY <1>1, <1>5, WorksExclusive
<1>6. ASSUME NEW w \in Workers, ProjectionFails(w) PROVE ExclusiveInv'
  <2>1. /\ wk' = [wk EXCEPT ![w] = IdleWorker] /\ UNCHANGED <<graph, overlapped>>
        /\ wk[w].scope \in Scopes /\ wk[w].gen \in GenNo
    BY <1>0, <1>6, FailsEffect
  <2>2. PICK retryable \in BOOLEAN : Fail(w, retryable)
    BY <1>0, <1>6, FailsEffect
  <2>3. /\ \A x \in WorkIds \ MatchedRows(w) : work'[x] = work[x]
        /\ \A x \in MatchedRows(w) : work'[x].status \in {"retrying", "dead_letter"}
        /\ \A s \in Scopes \ {wk[w].scope} : scopes'[s] = scopes[s] /\ \A k \in GenNo : gens'[s][k] = gens[s][k]
        /\ \A k \in GenNo : gens'[wk[w].scope][k] = "active" => gens[wk[w].scope][k] = "active"
    BY <1>0, <2>1, <2>2, FailEffect
  <2>4. ASSUME wk[w].scope \notin overlapped PROVE RestNext(wk[w].scope)
    <3>1. PICK x \in WorkIds : x.scope = wk[w].scope /\ work[x].status \in OpenStatus
      BY <1>0, <2>1, <2>4 DEF HoldersOK
    <3> QED BY <2>3, <3>1 DEF RestNext, OpenStatus
  <2>5. wk[w].scope \notin overlapped => \A k, n \in GenNo :
          gens'[wk[w].scope][k] = "active" /\ gens'[wk[w].scope][n] = "active" => k = n
    BY <1>0, <2>1, <2>3 DEF OneActiveGeneration
  <2> QED BY <1>1, <2>1, <2>3, <2>4, <2>5, DropsExclusive
<1>7. ASSUME NEW w \in Workers, AckCommit(w) PROVE ExclusiveInv'
  <2>0. wk[w].scope \in Scopes /\ wk[w].gen \in GenNo /\ wk[w].pc = "acking"
    BY <1>0, <1>7 DEF AckCommit, WorkersOK, Holding
  <2>1. /\ wk' = [wk EXCEPT ![w] = IdleWorker] /\ UNCHANGED <<graph, overlapped>>
        /\ \A x \in WorkIds \ MatchedRows(w) : work'[x] = work[x]
    BY <1>0, <1>7, AckEffect
  <2>2. \A s \in Scopes, k \in GenNo :
              gens'[s][k] = IF s # wk[w].scope THEN gens[s][k]
                            ELSE IF k = wk[w].gen THEN "active"
                            ELSE IF k \in wk[w].sup /\ gens[s][k] = "active" THEN "superseded"
                            ELSE gens[s][k]
    BY <1>0, <1>7, AckEffect
  <2>3. \A s \in Scopes : scopes'[s] = IF s = wk[w].scope THEN [active |-> wk[w].gen, status |-> "active"]
                                       ELSE scopes[s]
    BY <1>0, <1>7, AckEffect
  <2>4. ASSUME wk[w].scope \notin overlapped PROVE RestNext(wk[w].scope)
    <3>1. graph[wk[w].scope] = wk[w].gen
      BY <1>0, <2>0, <2>4 DEF HoldersOK
    <3> QED BY <2>0, <2>1, <2>3, <3>1 DEF RestNext
  <2>5. ASSUME wk[w].scope \notin overlapped, NEW k \in GenNo, gens'[wk[w].scope][k] = "active"
        PROVE  k = wk[w].gen
    BY <1>0, <2>0, <2>2, <2>5 DEF HoldersOK
  <2>6. \A s \in Scopes \ {wk[w].scope} : scopes'[s] = scopes[s] /\ \A k \in GenNo : gens'[s][k] = gens[s][k]
    BY <2>2, <2>3
  <2>7. wk[w].scope \notin overlapped => \A k, n \in GenNo :
          gens'[wk[w].scope][k] = "active" /\ gens'[wk[w].scope][n] = "active" => k = n
    BY <2>5
  <2> QED BY <1>1, <2>0, <2>1, <2>4, <2>6, <2>7, DropsExclusive
<1>8. CASE UNCHANGED vars
  <2>1. UNCHANGED <<gens, scopes, work, wk, graph, overlapped>>
    BY <1>8 DEF vars
  <2>2. RowsStayOpen
    BY <2>1 DEF RowsStayOpen
  <2> QED BY <1>2, <2>1, <2>2
<1> QED BY <1>3, <1>4, <1>5, <1>6, <1>7, <1>8, StepCases

-----------------------------------------------------------------------------
\* The tables and workers keep their types, with or without redelivery.
THEOREM ProjectionTypes == Spec => []TypeOK
<1>1. ProjectionInv => TypeOK
  BY DEF ProjectionInv
<1> QED BY InitInv, ProjectionInvStep, <1>1, PTL DEF Spec

\* Readers are only ever pointed at generations whose graph, content and
\* reducer intents were completely written (ProjectorQueue.Ack after
\* Runtime.Project), for any numbers of everything, with or without
\* redelivery.
THEOREM ActiveIsAlwaysProjected == Spec => []ActiveIsProjected
<1>1. ProjectionInv => ActiveIsProjected
  BY DEF ProjectionInv
<1> QED BY InitInv, ProjectionInvStep, <1>1, PTL DEF Spec

\* When no generation is delivered twice, the scope's pointer and the
\* generation's status agree, under overlapping Acks and stale Fails too.
THEOREM PointerAgrees ==
  ASSUME ~Redelivery
  PROVE  Spec => []ActivePointerAgrees
<1>1. OnceInv => ActivePointerAgrees
  BY DEF OnceInv
<1>2. OnceInv /\ [Next]_vars => OnceInv'
  BY OnceStep
<1> QED BY InitOnce, <1>1, <1>2, PTL DEF Spec

\* Nor is a pending generation ever stranded without a work item that will
\* still be tried (ProjectorQueue.Fail and Ack match rows by lease owner, but
\* settle the generation in the same transaction).
THEOREM PendingIsNeverStranded ==
  ASSUME ~Redelivery
  PROVE  Spec => []PendingHasWork
<1>1. OnceInv => PendingHasWork
  BY DEF OnceInv
<1>2. OnceInv /\ [Next]_vars => OnceInv'
  BY OnceStep
<1> QED BY InitOnce, <1>1, <1>2, PTL DEF Spec

\* A scope that no two workers have held at once has at most one active
\* generation, whatever crashed, was retried, replayed or re-finalized.
THEOREM OneActive == Spec => []OneActiveGeneration
<1>1. ExclusiveInv => OneActiveGeneration
  BY DEF ExclusiveInv
<1> QED BY InitExclusive, ExclusiveStep, <1>1, PTL DEF Spec

\* And once it is at rest its canonical graph is that of the generation
\* readers are told is active.
THEOREM QuietIsActive == Spec => []QuietGraphIsActive
<1>1. ExclusiveInv => QuietGraphIsActive
  BY DEF ExclusiveInv, RestIsActive, QuietGraphIsActive, Quiet
<1> QED BY InitExclusive, ExclusiveStep, <1>1, PTL DEF Spec
=============================================================================
