--------------------------- MODULE AgentRunsProofs ---------------------------
(***************************************************************************)
(* Proofs about AgentRuns, for every set of runs and workers and every     *)
(* value of the bounds; and, for those under which no lease is overrun,    *)
(* that a run's timeline is what its row says, that a run is ended by its  *)
(* own attempt, and that AgentRuns implements RunLifecycle.                *)
(***************************************************************************)
EXTENDS AgentRuns, TLAPS

-----------------------------------------------------------------------------
(* Type correctness                                                        *)

(* A worker that moves to a well-typed record keeps the workers typed.     *)
LEMMA WorkerMoves ==
  ASSUME WorkersOK, NEW w \in Workers, NEW x \in WorkerType,
         x.pc # "idle" => x.run \in Runs,
         x.pc = "finish" => x.next \in Terminal,
         worker' = [worker EXCEPT ![w] = x]
  PROVE  WorkersOK'
BY DEF WorkersOK

(* A worker inside the handler, as the record it is.                       *)
LEMMA WorkerShape ==
  ASSUME WorkersOK, NEW w \in Workers
  PROVE  /\ worker[w] \in WorkerType
         /\ worker[w].pc # "idle" => worker[w].run \in Runs
         /\ worker[w].pc = "finish" => worker[w].next \in Terminal
BY DEF WorkersOK

(* Every handler action, Poll and Crash keep the workers typed.            *)
LEMMA WorkersMove ==
  ASSUME RowsOK, WorkersOK, NEW w \in Workers,
         Handler(w) \/ Crash(w) \/ \E r \in Runs : Poll(w, r)
  PROVE  WorkersOK'
<1>a. /\ {"idle", "claim", "commit", "reread", "loop", "report", "detail",
          "finish"} \subseteq Positions
      /\ "FAILED" \in Terminal /\ Terminal \cup {"loop"} \subseteq Verdicts
      /\ "work" \in Kinds
  BY DEF Positions, Investigating, Terminal, Kinds, Verdicts
<1>b. /\ worker[w] \in WorkerType
      /\ worker[w].pc # "idle" => worker[w].run \in Runs
      /\ worker[w].pc = "finish" => worker[w].next \in Terminal
  BY WorkerShape
<1>c. /\ worker[w].number + 1 \in Nat /\ worker[w].count + 1 \in Nat
      /\ worker[w].next \in Verdicts
  BY <1>b DEF WorkerType
<1>d. /\ worker[w].run \in Runs => row[worker[w].run].attempts \in Nat
      /\ worker[w].run \in Runs => row[worker[w].run].attempts + 1 \in Nat
  BY DEF RowsOK, RowType
<1> USE <1>a, <1>b DEF WorkerType
<1>1. CASE ClaimRun(w)
  <2> DEFINE x == [worker[w] EXCEPT !.pc = "reread",
                                    !.claim = row[worker[w].run].attempts + 1]
  <2>1. x \in WorkerType /\ x.pc = "reread" /\ x.run \in Runs
    BY <1>d, <1>1 DEF ClaimRun
  <2>2. worker' = [worker EXCEPT ![w] = x]
    BY <1>1 DEF ClaimRun
  <2> QED BY <2>1, <2>2, WorkerMoves
<1>2. CASE RefusedClaim(w)
  BY <1>2, WorkerMoves DEF RefusedClaim, Goto
<1>3. CASE Reread(w)
  BY <1>d, <1>3, WorkerMoves DEF Reread
<1>4. CASE Decide(w)
  <2>1. PICK kind \in Kinds, next \in Verdicts :
          worker' = [worker EXCEPT ![w] =
                       [@ EXCEPT !.pc = "report", !.number = worker[w].number + 1,
                                 !.kind = kind, !.next = next]]
    BY <1>4 DEF Decide
  <2> DEFINE x == [worker[w] EXCEPT !.pc = "report", !.number = worker[w].number + 1,
                                    !.kind = kind, !.next = next]
  <2>2. x \in WorkerType /\ x.pc = "report" /\ x.run \in Runs
    BY <1>4, <1>c DEF Decide
  <2>3. worker' = [worker EXCEPT ![w] = x]
    BY <2>1
  <2> QED BY <2>2, <2>3, WorkerMoves
<1>5. CASE ModelFails(w)
  <2> DEFINE x == [worker[w] EXCEPT !.pc = "finish", !.number = worker[w].number + 1,
                                    !.next = "FAILED"]
  <2>1. x \in WorkerType /\ x.next = "FAILED" /\ x.run \in Runs
    BY <1>5, <1>c DEF ModelFails
  <2>2. worker' = [worker EXCEPT ![w] = x]
    BY <1>5 DEF ModelFails
  <2> QED BY <2>1, <2>2, WorkerMoves
<1>6. CASE CreateStep(w)
  BY <1>6, WorkerMoves DEF CreateStep, Goto
<1>7. CASE CreateDetail(w)
  <2> DEFINE x == [worker[w] EXCEPT
                     !.pc = IF worker[w].next = "loop" THEN "loop" ELSE "finish",
                     !.count = worker[w].count + 1]
  <2>1. x \in WorkerType /\ x.run \in Runs /\ (x.pc = "finish" => x.next \in Terminal)
    BY <1>7, <1>c DEF CreateDetail, Verdicts
  <2>2. worker' = [worker EXCEPT ![w] = x]
    BY <1>7 DEF CreateDetail
  <2> QED BY <2>1, <2>2, WorkerMoves
<1>8. CASE ReportFails(w)
  BY <1>8, WorkerMoves DEF ReportFails, EndsWith
<1>9. CASE FinishRun(w)
  BY <1>9, WorkerMoves DEF FinishRun, Goto
<1>10. CASE StatementFails(w)
  BY <1>10, WorkerMoves DEF StatementFails, Goto
<1>11. CASE Commit(w) \/ CommitFails(w) \/ Crash(w)
  BY <1>11, WorkerMoves DEF Commit, CommitFails, Crash, Idle
<1>12. CASE \E r \in Runs : Poll(w, r)
  <2>1. PICK r \in Runs : Poll(w, r)
    BY <1>12
  <2> DEFINE x == [Idle EXCEPT !.pc = "claim", !.run = r]
  <2>2. x \in WorkerType /\ x.pc = "claim" /\ x.run \in Runs
    BY DEF Idle
  <2>3. worker' = [worker EXCEPT ![w] = x]
    BY <2>1 DEF Poll
  <2> QED BY <2>2, <2>3, WorkerMoves
<1> QED
  BY <1>1, <1>2, <1>3, <1>4, <1>5, <1>6, <1>7, <1>8, <1>9, <1>10, <1>11, <1>12
  DEF Handler

(* What happens to the rows: created, claimed, reported to, finished, aged.*)
LEMMA RowsMove ==
  ASSUME RowsOK, WorkersOK, [Next]_vars
  PROVE  RowsOK'
<1> USE DEF RowsOK
<1>1. ASSUME NEW r \in Runs, CreateRun(r) PROVE RowsOK'
  BY <1>1 DEF CreateRun, RowType, Active
<1>2. ASSUME NEW w \in Workers, ClaimRun(w) PROVE RowsOK'
  <2>1. worker[w].run \in Runs
    BY <1>2, WorkerShape DEF ClaimRun
  <2>2. row' \in [Runs -> RowType]
    BY <1>2, <2>1 DEF ClaimRun, RowType, Active
  <2> QED BY <1>2, <2>2 DEF ClaimRun
<1>3. ASSUME NEW w \in Workers, CreateStep(w) PROVE RowsOK'
  <2>1. OwnRow(w) \in StepType
    BY WorkerShape DEF OwnRow, WorkerType, StepType
  <2> QED BY <1>3, <2>1 DEF CreateStep
<1>4. ASSUME NEW w \in Workers, FinishRun(w) PROVE RowsOK'
  <2>1. worker[w].next \in Terminal /\ worker[w].count \in Nat
    BY <1>4, WorkerShape DEF FinishRun, WorkerType
  <2> DEFINE x == [row[worker[w].run] EXCEPT !.status = worker[w].next,
                                             !.count = worker[w].count]
  <2>2. ASSUME worker[w].run \in Runs PROVE x \in RowType
    BY <2>1, <2>2 DEF RowType
  <2> HIDE DEF x
  <2>3. row' = row \/ row' = [row EXCEPT ![worker[w].run] = x]
    BY <1>4 DEF FinishRun, x
  <2>4. worker[w].run \in Runs
    BY <1>4, WorkerShape DEF FinishRun
  <2> QED BY <1>4, <2>2, <2>3, <2>4 DEF FinishRun
<1>5. ASSUME NEW r \in Runs, Age(r) PROVE RowsOK'
  BY <1>5 DEF Age
<1>6. CASE UNCHANGED database
  BY <1>6 DEF database
<1>7. \/ \E r \in Runs : CreateRun(r) \/ Age(r)
      \/ \E w \in Workers : ClaimRun(w) \/ CreateStep(w) \/ FinishRun(w)
      \/ UNCHANGED database
  BY DEF Next, Handler, vars, EnqueueRun, EnqueueLost, Evict, Duplicate, Assign, Poll,
     SweepProduce, SweepProduceFails, RefusedClaim, Reread, Decide, ModelFails,
     CreateDetail, ReportFails, StatementFails, Commit, CommitFails, Crash,
     SweepList, database
<1> QED BY <1>1, <1>2, <1>3, <1>4, <1>5, <1>6, <1>7

(* The queue: a commit never passes what was read, a read never passes     *)
(* what was produced, and losing a partition only forgets.                 *)
LEMMA BrokerMoves ==
  ASSUME BrokerOK, [Next]_vars
  PROVE  BrokerOK'
<1> USE DEF BrokerOK
<1>1. ASSUME NEW r \in Runs, CreateRun(r) PROVE BrokerOK'
  BY <1>1 DEF CreateRun, broker
<1>2. ASSUME NEW r \in Runs, EnqueueRun(r) PROVE BrokerOK'
  BY <1>2 DEF EnqueueRun, Produce
<1>3. ASSUME NEW r \in Runs, EnqueueLost(r) PROVE BrokerOK'
  BY <1>3 DEF EnqueueLost, broker
<1>4. ASSUME NEW r \in Runs, Evict(r) PROVE BrokerOK'
  BY <1>4 DEF Evict
<1>5. ASSUME NEW r \in Runs, Duplicate(r) PROVE BrokerOK'
  BY <1>5 DEF Duplicate, Produce
<1>6. ASSUME NEW r \in Runs, NEW w \in Workers, Assign(r, w) PROVE BrokerOK'
  BY <1>6 DEF Assign
<1>7. ASSUME NEW r \in Runs, NEW w \in Workers, Poll(w, r) PROVE BrokerOK'
  BY <1>7 DEF Poll
<1>8. ASSUME NEW r \in Runs, NEW w \in Workers, SweepProduce(w, r) PROVE BrokerOK'
  BY <1>8 DEF SweepProduce, Produce
<1>9. ASSUME NEW w \in Workers, Commit(w) PROVE BrokerOK'
  BY <1>9 DEF Commit
<1>10. ASSUME NEW w \in Workers, Crash(w) PROVE BrokerOK'
  BY <1>10 DEF Crash
<1>11. CASE UNCHANGED <<unsent, broker>>
  BY <1>11 DEF broker
<1>12. \/ \E r \in Runs : \/ CreateRun(r) \/ EnqueueRun(r) \/ EnqueueLost(r)
                         \/ Evict(r) \/ Duplicate(r)
       \/ \E w \in Workers, r \in Runs : \/ Assign(r, w) \/ Poll(w, r)
                                         \/ SweepProduce(w, r)
       \/ \E w \in Workers : Commit(w) \/ Crash(w)
       \/ UNCHANGED <<unsent, broker>>
  BY DEF Next, Handler, vars, SweepProduceFails, Age, ClaimRun, RefusedClaim, Reread,
     Decide, ModelFails, CreateStep, CreateDetail, ReportFails, FinishRun,
     StatementFails, CommitFails, SweepList, broker
<1> QED
  BY <1>1, <1>2, <1>3, <1>4, <1>5, <1>6, <1>7, <1>8, <1>9, <1>10, <1>11, <1>12

(* A sweep's candidates are runs, and faults are counted.                  *)
LEMMA SweepMoves ==
  ASSUME swept \in [Workers -> SUBSET Runs], faults \in Nat, [Next]_vars
  PROVE  swept' \in [Workers -> SUBSET Runs] /\ faults' \in Nat
<1>1. faults' \in {faults, faults + 1}
  BY DEF Next, Handler, vars, CreateRun, EnqueueRun, EnqueueLost, Evict, Duplicate,
     Age, Assign, Poll, SweepProduce, SweepProduceFails, ClaimRun, RefusedClaim,
     Reread, Decide, ModelFails, CreateStep, CreateDetail, ReportFails, FinishRun,
     StatementFails, Commit, CommitFails, Crash, SweepList, Fault
<1>2. ASSUME NEW w \in Workers, SweepList(w) PROVE swept' \in [Workers -> SUBSET Runs]
  <2>1. Oldest(NeverEnqueued) \cup Oldest(Abandoned) \in SUBSET Runs
    BY DEF Oldest, NeverEnqueued, Abandoned
  <2> QED BY <1>2, <2>1 DEF SweepList
<1>3. ASSUME NEW w \in Workers, NEW r \in Runs,
             SweepProduce(w, r) \/ SweepProduceFails(w, r)
      PROVE  swept' \in [Workers -> SUBSET Runs]
  BY <1>3 DEF SweepProduce, SweepProduceFails
<1>4. ASSUME NEW w \in Workers, Crash(w) PROVE swept' \in [Workers -> SUBSET Runs]
  BY <1>4 DEF Crash
<1>5. \/ \E w \in Workers : SweepList(w) \/ Crash(w)
      \/ \E w \in Workers, r \in Runs : SweepProduce(w, r) \/ SweepProduceFails(w, r)
      \/ UNCHANGED swept
  BY DEF Next, Handler, vars, CreateRun, EnqueueRun, EnqueueLost, Evict, Duplicate,
     Age, Assign, Poll, ClaimRun, RefusedClaim, Reread, Decide, ModelFails,
     CreateStep, CreateDetail, ReportFails, FinishRun, StatementFails, Commit,
     CommitFails
<1> QED BY <1>1, <1>2, <1>3, <1>4, <1>5

(* The variables keep their types, no member of the group reads past the   *)
(* end of a backlog, and FinishRun always has an outcome to write.         *)
THEOREM TypeCorrect == Spec => []TypeOK
<1>1. Init => TypeOK
  BY RunsAssumption DEF Init, TypeOK, RowsOK, RowType, BrokerOK, WorkersOK, WorkerType,
     Idle, Positions, Kinds, Verdicts
<1>2. ASSUME TypeOK, [Next]_vars PROVE TypeOK'
  <2>1. RowsOK' /\ BrokerOK'
    BY <1>2, RowsMove, BrokerMoves DEF TypeOK
  <2>2. WorkersOK'
    <3>1. \/ \E w \in Workers : \/ Handler(w) \/ Crash(w)
                                \/ \E r \in Runs : Poll(w, r)
          \/ UNCHANGED worker
      BY <1>2 DEF Next, vars, CreateRun, EnqueueRun, EnqueueLost, Evict, Duplicate,
         Age, Assign, SweepProduce, SweepProduceFails, SweepList
    <3>2. CASE UNCHANGED worker
      BY <1>2, <3>2 DEF TypeOK, WorkersOK
    <3> QED BY <1>2, <3>1, <3>2, WorkersMove DEF TypeOK
  <2>3. swept' \in [Workers -> SUBSET Runs] /\ faults' \in Nat
    BY <1>2, SweepMoves DEF TypeOK
  <2> QED BY <2>1, <2>2, <2>3 DEF TypeOK
<1>3. QED BY <1>1, <1>2, PTL DEF Spec
-----------------------------------------------------------------------------
(* One investigation, one timeline                                         *)

(* A worker that stays inside an investigation keeps its run and its claim,*)
(* and after the reread the attempt too.                                   *)
LEMMA Continues ==
  ASSUME TypeOK, NEW w \in Workers,
         \/ Decide(w) \/ ModelFails(w) \/ CreateStep(w) \/ CreateDetail(w) \/ ReportFails(w)
  PROVE  /\ worker[w].pc \in Investigating /\ worker[w].pc # "reread"
         /\ worker'[w].pc \in Investigating
         /\ worker'[w].run = worker[w].run
         /\ worker'[w].claim = worker[w].claim
         /\ worker'[w].attempt = worker[w].attempt
         /\ \A v \in Workers : v # w => worker'[v] = worker[v]
         /\ UNCHANGED <<row, aged>>
<1>1. worker \in [Workers -> WorkerType] /\ worker[w] \in WorkerType
  BY DEF TypeOK, WorkersOK
<1> USE <1>1 DEF WorkerType, Investigating, database
<1>2. CASE Decide(w)
  <2>1. PICK kind \in Kinds, next \in Verdicts :
          worker' = [worker EXCEPT ![w] =
                       [@ EXCEPT !.pc = "report", !.number = worker[w].number + 1,
                                 !.kind = kind, !.next = next]]
    BY <1>2 DEF Decide
  <2> QED BY <1>2, <2>1 DEF Decide
<1>3. CASE ModelFails(w)
  BY <1>3 DEF ModelFails
<1>4. CASE CreateStep(w)
  BY <1>4 DEF CreateStep, Goto
<1>5. CASE CreateDetail(w)
  BY <1>5 DEF CreateDetail
<1>6. CASE ReportFails(w)
  BY <1>6 DEF ReportFails, EndsWith
<1> QED BY <1>2, <1>3, <1>4, <1>5, <1>6

(* A worker outside an investigation, or leaving one, is outside after.    *)
LEMMA Leaves ==
  ASSUME TypeOK, NEW w \in Workers,
         \/ RefusedClaim(w) \/ FinishRun(w) \/ StatementFails(w) \/ Commit(w)
         \/ CommitFails(w) \/ Crash(w) \/ \E r \in Runs : Poll(w, r)
  PROVE  /\ worker'[w].pc \notin Investigating
         /\ \A v \in Workers : v # w => worker'[v] = worker[v]
<1>1. worker \in [Workers -> WorkerType] /\ worker[w] \in WorkerType
  BY DEF TypeOK, WorkersOK
<1> USE <1>1 DEF WorkerType, Investigating
<1>2. CASE \E r \in Runs : Poll(w, r)
  BY <1>2 DEF Poll, Idle
<1>3. CASE Commit(w) \/ CommitFails(w) \/ Crash(w)
  BY <1>3 DEF Commit, CommitFails, Crash, Idle
<1>4. CASE RefusedClaim(w) \/ FinishRun(w) \/ StatementFails(w)
  BY <1>4 DEF RefusedClaim, FinishRun, StatementFails, Goto
<1> QED BY <1>2, <1>3, <1>4

(* What a claim leaves: a fresh row, an empty timeline, a worker in it.    *)
LEMMA Claims ==
  ASSUME TypeOK, NEW w \in Workers, ClaimRun(w)
  PROVE  LET r == worker[w].run IN
         /\ r \in Runs /\ worker[w].pc = "claim"
         /\ row'[r].status = "RUNNING" /\ row'[r].attempts = row[r].attempts + 1
         /\ steps'[r] = {} /\ ~aged'[r]
         /\ \A q \in Runs : q # r => /\ row'[q] = row[q] /\ steps'[q] = steps[q]
                                     /\ aged'[q] = aged[q]
         /\ worker'[w].pc = "reread" /\ worker'[w].run = r
         /\ worker'[w].claim = row'[r].attempts
         /\ \A v \in Workers : v # w => worker'[v] = worker[v]
<1>1. worker \in [Workers -> WorkerType] /\ worker[w] \in WorkerType
  BY DEF TypeOK, WorkersOK
<1>2. worker[w].run \in Runs /\ worker[w].pc = "claim"
  BY DEF ClaimRun, TypeOK, WorkersOK
<1>3. /\ row \in [Runs -> RowType] /\ steps \in [Runs -> SUBSET StepType]
      /\ aged \in [Runs -> BOOLEAN]
  BY DEF TypeOK, RowsOK
<1>4. /\ worker'[w].pc = "reread" /\ worker'[w].run = worker[w].run
      /\ worker'[w].claim = row[worker[w].run].attempts + 1
      /\ \A v \in Workers : v # w => worker'[v] = worker[v]
  BY <1>1 DEF ClaimRun, WorkerType
<1> QED BY <1>2, <1>3, <1>4 DEF ClaimRun

(* The invariant is kept by every step of workers whose leases outlast     *)
(* them.                                                                   *)
LEMMA InvestigationStep ==
  ASSUME Overrun = FALSE, InvestigationInv, [Next]_vars
  PROVE  LeaseKept' /\ OneInvestigation' /\ TimelineOfOneAttempt'
<1> USE DEF InvestigationInv
<1>1. ASSUME NEW w \in Workers, ClaimRun(w)
      PROVE  LeaseKept' /\ OneInvestigation' /\ TimelineOfOneAttempt'
  <2> DEFINE r == worker[w].run
  <2>1. ASSUME NEW v \in Workers, v # w, worker[v].pc \in Investigating
        PROVE  worker[v].run # r
    BY <1>1, <2>1 DEF LeaseKept, ClaimRun, Claimable
  <2>2. LeaseKept'
    BY <1>1, <2>1, Claims DEF LeaseKept, TypeOK, WorkersOK, Investigating
  <2>3. OneInvestigation'
    BY <1>1, <2>1, Claims DEF OneInvestigation
  <2>4. TimelineOfOneAttempt'
    BY <1>1, Claims DEF TimelineOfOneAttempt
  <2> QED BY <2>2, <2>3, <2>4
<1>2. ASSUME NEW w \in Workers, Reread(w)
      PROVE  LeaseKept' /\ OneInvestigation' /\ TimelineOfOneAttempt'
  <2>1. /\ worker[w].pc = "reread" /\ worker'[w].pc = "loop"
        /\ worker'[w].run = worker[w].run /\ worker'[w].claim = worker[w].claim
        /\ worker'[w].attempt = row[worker[w].run].attempts
        /\ \A v \in Workers : v # w => worker'[v] = worker[v]
    <3>1. worker \in [Workers -> WorkerType] /\ worker[w] \in WorkerType
      BY DEF TypeOK, WorkersOK
    <3> QED BY <1>2, <3>1 DEF Reread, WorkerType
  <2>2. LeaseKept'
    BY <1>2, <2>1 DEF LeaseKept, Reread, database, Investigating
  <2>3. OneInvestigation'
    BY <1>2, <2>1 DEF OneInvestigation, Investigating
  <2>4. TimelineOfOneAttempt'
    BY <1>2 DEF TimelineOfOneAttempt, Reread, database
  <2> QED BY <2>2, <2>3, <2>4
<1>3. ASSUME NEW w \in Workers,
             \/ Decide(w) \/ ModelFails(w) \/ CreateStep(w) \/ CreateDetail(w)
             \/ ReportFails(w)
      PROVE  LeaseKept' /\ OneInvestigation' /\ TimelineOfOneAttempt'
  <2>1. LeaseKept'
    BY <1>3, Continues DEF LeaseKept
  <2>2. OneInvestigation'
    BY <1>3, Continues DEF OneInvestigation
  <2>3. CASE CreateStep(w)
    <3>1. worker[w].run \in Runs /\ OwnRow(w).by = row[worker[w].run].attempts
      BY <2>3 DEF CreateStep, TypeOK, WorkersOK, LeaseKept, OwnRow, Investigating
    <3> QED
      BY <2>1, <2>2, <2>3, <3>1 DEF CreateStep, TimelineOfOneAttempt, TypeOK, RowsOK
  <2>4. CASE UNCHANGED database
    BY <2>1, <2>2, <2>4 DEF database, TimelineOfOneAttempt
  <2> QED
    BY <1>3, <2>3, <2>4 DEF Decide, ModelFails, CreateDetail, ReportFails
<1>4. ASSUME NEW w \in Workers,
             \/ RefusedClaim(w) \/ StatementFails(w) \/ Commit(w) \/ CommitFails(w)
             \/ Crash(w) \/ \E r \in Runs : Poll(w, r)
      PROVE  LeaseKept' /\ OneInvestigation' /\ TimelineOfOneAttempt'
  <2>1. UNCHANGED database
    BY <1>4 DEF RefusedClaim, StatementFails, Commit, CommitFails, Crash, Poll, database
  <2>2. LeaseKept'
    BY <1>4, <2>1, Leaves DEF LeaseKept, database
  <2>3. OneInvestigation'
    BY <1>4, Leaves DEF OneInvestigation
  <2> QED BY <2>1, <2>2, <2>3 DEF TimelineOfOneAttempt, database
<1>5. ASSUME NEW w \in Workers, FinishRun(w)
      PROVE  LeaseKept' /\ OneInvestigation' /\ TimelineOfOneAttempt'
  <2> DEFINE r == worker[w].run
  <2>1. r \in Runs /\ worker[w].pc \in Investigating
    BY <1>5 DEF FinishRun, TypeOK, WorkersOK, Investigating
  <2>2. /\ \A q \in Runs : q # r => row'[q] = row[q]
        /\ row'[r].attempts = row[r].attempts
        /\ UNCHANGED <<steps, aged>>
    <3>1. row \in [Runs -> RowType] /\ row[r] \in RowType
      BY <2>1 DEF TypeOK, RowsOK
    <3>2. [row[r] EXCEPT !.status = worker[w].next,
                         !.count = worker[w].count].attempts = row[r].attempts
      BY <3>1 DEF RowType
    <3> QED BY <1>5, <2>1, <3>1, <3>2 DEF FinishRun
  <2>3. OneInvestigation'
    BY <1>5, Leaves DEF OneInvestigation
  <2>4. ASSUME NEW v \in Workers, v # w, worker[v].pc \in Investigating
        PROVE  worker[v].run # r /\ worker[v].run \in Runs
    BY <2>1, <2>4 DEF OneInvestigation, TypeOK, WorkersOK, Investigating
  <2>5. LeaseKept'
    BY <1>5, <2>2, <2>4, Leaves DEF LeaseKept
  <2>6. TimelineOfOneAttempt'
    BY <2>1, <2>2 DEF TimelineOfOneAttempt
  <2> QED BY <2>3, <2>5, <2>6
<1>6. ASSUME NEW r \in Runs, CreateRun(r)
      PROVE  LeaseKept' /\ OneInvestigation' /\ TimelineOfOneAttempt'
  <2>1. /\ \A q \in Runs : q # r => row'[q] = row[q] /\ aged'[q] = aged[q]
        /\ row'[r].attempts = row[r].attempts /\ row[r].status = "NONE"
        /\ UNCHANGED <<steps, worker>>
    BY <1>6 DEF CreateRun, TypeOK, RowsOK, RowType
  <2>2. \A v \in Workers : worker[v].pc \in Investigating =>
          worker[v].run \in Runs /\ worker[v].run # r
    BY <2>1 DEF LeaseKept, TypeOK, WorkersOK, Investigating
  <2> QED BY <2>1, <2>2 DEF LeaseKept, OneInvestigation, TimelineOfOneAttempt
<1>7. ASSUME NEW r \in Runs, Age(r)
      PROVE  LeaseKept' /\ OneInvestigation' /\ TimelineOfOneAttempt'
  <2>1. /\ \A q \in Runs : q # r => aged'[q] = aged[q]
        /\ UNCHANGED <<row, steps, worker>>
    BY <1>7 DEF Age, TypeOK, RowsOK
  <2>2. \A v \in Workers : worker[v].pc \in Investigating =>
          worker[v].run \in Runs /\ worker[v].run # r
    BY <1>7 DEF Age, Holds, LeaseKept, TypeOK, WorkersOK, Investigating
  <2> QED BY <2>1, <2>2 DEF LeaseKept, OneInvestigation, TimelineOfOneAttempt
<1>8. CASE UNCHANGED <<row, steps, aged, worker>>
  BY <1>8 DEF LeaseKept, OneInvestigation, TimelineOfOneAttempt
<1>9. \/ \E w \in Workers : \/ Handler(w) \/ Crash(w) \/ \E r \in Runs : Poll(w, r)
      \/ \E r \in Runs : CreateRun(r) \/ Age(r)
      \/ UNCHANGED <<row, steps, aged, worker>>
  BY DEF Next, vars, database, EnqueueRun, EnqueueLost, Evict, Duplicate, Assign,
     SweepProduce, SweepProduceFails, SweepList
<1> QED
  BY <1>1, <1>2, <1>3, <1>4, <1>5, <1>6, <1>7, <1>8, <1>9 DEF Handler

(* No two workers inside one investigation, no spliced timeline: for every *)
(* number of runs, workers and faults, if leases outlast their attempts.   *)
THEOREM InvestigationCorrect ==
  ASSUME Overrun = FALSE
  PROVE  Spec => []InvestigationInv
<1>1. Init => LeaseKept /\ OneInvestigation /\ TimelineOfOneAttempt
  BY DEF Init, Idle, LeaseKept, OneInvestigation, TimelineOfOneAttempt, Investigating
<1>2. LeaseKept /\ OneInvestigation /\ TimelineOfOneAttempt /\ TypeOK /\ [Next]_vars
        => LeaseKept' /\ OneInvestigation' /\ TimelineOfOneAttempt'
  BY InvestigationStep DEF InvestigationInv
<1> QED BY <1>1, <1>2, TypeCorrect, PTL DEF Spec, InvestigationInv

(* Two workers are never inside the same investigation.                    *)
THEOREM InvestigationExclusive ==
  ASSUME Overrun = FALSE
  PROVE  Spec => []OneInvestigation
BY InvestigationCorrect, PTL DEF InvestigationInv

(* Every step row a reader finds was written by the attempt that is        *)
(* current: no crashed attempt's steps survive a restart (ADR 0009).       *)
THEOREM TimelineUnspliced ==
  ASSUME Overrun = FALSE
  PROVE  Spec => []TimelineOfOneAttempt
BY InvestigationCorrect, PTL DEF InvestigationInv

(* An ended run never moves again, neither its row nor its timeline.       *)
THEOREM EndedIsFinal ==
  ASSUME Overrun = FALSE
  PROVE  Spec => EndedRunIsFinal
<1> DEFINE Frozen == \A r \in Runs : row[r].status \in Terminal =>
                       row'[r] = row[r] /\ steps'[r] = steps[r]
<1>1. ASSUME InvestigationInv, [Next]_vars PROVE Frozen
  <2> USE <1>1 DEF InvestigationInv, Terminal
  <2>1. ASSUME NEW w \in Workers, ClaimRun(w) PROVE Frozen
    BY <2>1, Claims DEF ClaimRun, Claimable
  <2>2. ASSUME NEW w \in Workers, CreateStep(w) PROVE Frozen
    <3>1. worker[w].run \in Runs /\ row[worker[w].run].status = "RUNNING"
      BY <2>2 DEF CreateStep, TypeOK, WorkersOK, LeaseKept, Investigating
    <3> QED BY <2>2, <3>1 DEF CreateStep, TypeOK, RowsOK
  <2>3. ASSUME NEW w \in Workers, FinishRun(w) PROVE Frozen
    BY <2>3 DEF FinishRun, TypeOK, RowsOK
  <2>4. ASSUME NEW r \in Runs, CreateRun(r) PROVE Frozen
    BY <2>4 DEF CreateRun, TypeOK, RowsOK
  <2>5. CASE UNCHANGED <<row, steps>>
    BY <2>5
  <2>6. \/ \E w \in Workers : ClaimRun(w) \/ CreateStep(w) \/ FinishRun(w)
        \/ \E r \in Runs : CreateRun(r)
        \/ UNCHANGED <<row, steps>>
    BY DEF Next, Handler, vars, database, EnqueueRun, EnqueueLost, Evict, Duplicate,
       Age, Assign, Poll, SweepProduce, SweepProduceFails, RefusedClaim, Reread,
       Decide, ModelFails, CreateDetail, ReportFails, StatementFails, Commit,
       CommitFails, Crash, SweepList
  <2> QED BY <2>1, <2>2, <2>3, <2>4, <2>5, <2>6
<1>2. Spec => [][Frozen]_vars
  BY <1>1, InvestigationCorrect, PTL DEF Spec
<1> QED BY <1>2 DEF EndedRunIsFinal

-----------------------------------------------------------------------------
(* The timeline is what the row says, and AgentRuns implements RunLifecycle *)

(* A worker that does not move still knows what it knew, if no one else    *)
(* wrote to the timeline it is writing.                                    *)
LEMMA KnowsStill ==
  ASSUME NEW v \in Workers, Knows(v), worker'[v] = worker[v],
         worker[v].pc \in Investigating =>
           steps'[worker[v].run] = steps[worker[v].run]
  PROVE  Knows(v)'
<1>1. CASE worker[v].pc \in Investigating
  BY <1>1 DEF Knows, Numbers, Worked, Concluded
<1>2. CASE worker[v].pc \notin Investigating
  BY <1>2 DEF Knows, Investigating
<1> QED BY <1>1, <1>2

(* The step a report writes is the next of the numbering.                  *)
LEMMA NextNumber ==
  ASSUME TypeOK, NEW w \in Workers, CreateStep(w)
  PROVE  LET r == worker[w].run IN
         /\ r \in Runs
         /\ steps'[r] = steps[r] \cup {OwnRow(w)}
         /\ Numbers(r)' = Numbers(r) \cup {worker[w].number}
         /\ \A s \in steps[r] : s.number # worker[w].number
         /\ \A q \in Runs : q # r => steps'[q] = steps[q]
<1>1. worker[w].run \in Runs
  BY DEF CreateStep, TypeOK, WorkersOK
<1>2. steps \in [Runs -> SUBSET StepType]
  BY DEF TypeOK, RowsOK
<1>3. steps'[worker[w].run] = steps[worker[w].run] \cup {OwnRow(w)}
  BY <1>1, <1>2 DEF CreateStep
<1>4. OwnRow(w).number = worker[w].number
  BY DEF OwnRow
<1>5. Numbers(worker[w].run)' = {s.number : s \in steps'[worker'[w].run]}
  BY DEF Numbers
<1>6. worker'[w].run = worker[w].run
  BY DEF CreateStep, Goto, TypeOK, WorkersOK, WorkerType
<1> QED BY <1>1, <1>2, <1>3, <1>4, <1>5, <1>6 DEF CreateStep, Taken, Numbers

(* An interval of naturals and the number after it.                        *)
LEMMA Interval ==
  ASSUME NEW c \in Nat
  PROVE  (1..c) \cup {c + 1} = 1..(c + 1)
OBVIOUS

(* What the worker that moves knows after its own step, action by action.  *)
LEMMA KnowsNext ==
  ASSUME TypeOK, NEW w \in Workers, Knows(w),
         LeaseKept, OneInvestigation,
         Handler(w) \/ Crash(w) \/ \E r \in Runs : Poll(w, r)
  PROVE  Knows(w)'
<1>1. worker \in [Workers -> WorkerType] /\ worker[w] \in WorkerType
  BY DEF TypeOK, WorkersOK
<1>2. worker[w].number \in Nat /\ worker[w].count \in Nat
  BY <1>1 DEF WorkerType
<1>3. CASE RefusedClaim(w) \/ FinishRun(w) \/ StatementFails(w) \/ Commit(w)
           \/ CommitFails(w) \/ Crash(w) \/ \E r \in Runs : Poll(w, r)
  <2>1. \/ worker'[w].pc \in {"idle", "commit"}
        \/ worker'[w].pc = "claim" /\ worker'[w].number = 0 /\ worker'[w].count = 0
    <3>1. CASE RefusedClaim(w) \/ FinishRun(w) \/ StatementFails(w)
      BY <1>1, <3>1 DEF RefusedClaim, FinishRun, StatementFails, Goto, WorkerType
    <3>2. CASE Commit(w) \/ CommitFails(w) \/ Crash(w)
      BY <1>1, <3>2 DEF Commit, CommitFails, Crash, Idle
    <3>3. CASE \E r \in Runs : Poll(w, r)
      BY <1>1, <3>3 DEF Poll, Idle
    <3> QED BY <1>3, <3>1, <3>2, <3>3
  <2> QED BY <2>1 DEF Knows
<1>4. CASE ClaimRun(w)
  <2>1. worker'[w].number = 0 /\ worker'[w].count = 0
    BY <1>1, <1>4 DEF ClaimRun, Knows, WorkerType
  <2> QED BY <1>4, <2>1, Claims DEF Knows
<1>5. CASE Reread(w)
  <2>1. /\ worker[w].pc = "reread" /\ worker'[w].pc = "loop"
        /\ worker'[w].number = worker[w].number /\ worker'[w].count = worker[w].count
        /\ worker'[w].run = worker[w].run /\ UNCHANGED steps
    BY <1>1, <1>5 DEF Reread, WorkerType, database
  <2> QED BY <2>1 DEF Knows, Numbers, Worked
<1>6. CASE Decide(w)
  <2>1. PICK kind \in Kinds, next \in Verdicts :
          /\ (kind = "finish") <=> (next = "SUCCEEDED")
          /\ worker' = [worker EXCEPT ![w] =
                          [@ EXCEPT !.pc = "report", !.number = worker[w].number + 1,
                                    !.kind = kind, !.next = next]]
    BY <1>6 DEF Decide
  <2>2. /\ worker'[w].pc = "report" /\ worker'[w].number = worker[w].number + 1
        /\ worker'[w].kind = kind /\ worker'[w].next = next
        /\ worker'[w].count = worker[w].count /\ worker'[w].run = worker[w].run
    BY <1>1, <2>1 DEF WorkerType
  <2>3. worker[w].pc = "loop" /\ UNCHANGED steps
    BY <1>6 DEF Decide, database
  <2> QED BY <2>1, <2>2, <2>3 DEF Knows, Numbers, Worked
<1>7. CASE ModelFails(w)
  <2>1. /\ worker[w].pc = "loop" /\ worker'[w].pc = "finish" /\ worker'[w].next = "FAILED"
        /\ worker'[w].count = worker[w].count /\ worker'[w].run = worker[w].run
        /\ UNCHANGED steps
    BY <1>1, <1>7 DEF ModelFails, WorkerType, database
  <2> QED BY <2>1 DEF Knows, Numbers
<1>8. CASE CreateStep(w)
  <2>1. /\ worker[w].pc = "report" /\ worker'[w].pc = "detail"
        /\ worker'[w].number = worker[w].number /\ worker'[w].count = worker[w].count
        /\ worker'[w].kind = worker[w].kind /\ worker'[w].next = worker[w].next
        /\ worker'[w].run = worker[w].run
    BY <1>1, <1>8 DEF CreateStep, Goto, WorkerType
  <2>2. Numbers(worker[w].run)' = Numbers(worker[w].run) \cup {worker[w].count + 1}
    BY <1>8, <2>1, NextNumber DEF Knows
  <2>3. Numbers(worker[w].run)' = 1..(worker[w].count + 1)
    <3>1. Numbers(worker[w].run) = 1..worker[w].count
      BY <2>1 DEF Knows
    <3> QED BY <1>2, <2>2, <3>1, Interval
  <2>4. \A s \in steps'[worker[w].run] :
          s.kind = IF s.number = worker[w].number THEN worker[w].kind ELSE "work"
    BY <1>8, <2>1, NextNumber DEF Knows, Worked, OwnRow
  <2>5. worker[w].number = worker[w].count + 1
    BY <2>1 DEF Knows
  <2> QED BY <2>1, <2>3, <2>4, <2>5 DEF Knows
<1>9. CASE CreateDetail(w)
  <2>1. /\ worker[w].pc = "detail" /\ UNCHANGED steps
        /\ worker'[w].pc = IF worker[w].next = "loop" THEN "loop" ELSE "finish"
        /\ worker'[w].number = worker[w].number
        /\ worker'[w].count = worker[w].count + 1
        /\ worker'[w].next = worker[w].next
        /\ worker'[w].run = worker[w].run
    BY <1>1, <1>9 DEF CreateDetail, WorkerType, database
  <2>2. worker[w].number = worker[w].count + 1 /\ Numbers(worker[w].run) = 1..worker[w].number
    BY <2>1 DEF Knows
  <2>3. worker[w].kind \in {"finish", "work"} /\ worker[w].next \in {"loop", "SUCCEEDED", "FAILED"}
    BY <1>1 DEF WorkerType, Kinds, Verdicts, Terminal
  <2>4. CASE worker[w].next = "loop"
    BY <1>2, <2>1, <2>2, <2>3, <2>4 DEF Knows, Numbers, Worked
  <2>5. CASE worker[w].next = "SUCCEEDED"
    BY <1>2, <2>1, <2>2, <2>3, <2>5 DEF Knows, Numbers, Concluded
  <2>6. CASE worker[w].next = "FAILED"
    BY <1>2, <2>1, <2>2, <2>3, <2>6 DEF Knows, Numbers
  <2> QED BY <2>3, <2>4, <2>5, <2>6
<1>10. CASE ReportFails(w)
  <2>1. /\ worker[w].pc \in {"report", "detail"} /\ UNCHANGED steps
        /\ worker'[w].pc = "finish" /\ worker'[w].next = "FAILED"
        /\ worker'[w].count = worker[w].count /\ worker'[w].run = worker[w].run
    BY <1>1, <1>10 DEF ReportFails, EndsWith, WorkerType, database
  <2> QED BY <2>1 DEF Knows, Numbers
<1> QED BY <1>3, <1>4, <1>5, <1>6, <1>7, <1>8, <1>9, <1>10 DEF Handler

(* A worker's own step leaves the other workers, and the timelines they    *)
(* are writing, alone.                                                     *)
LEMMA OthersLeftAlone ==
  ASSUME InvestigationInv, NEW w \in Workers, NEW v \in Workers, v # w,
         Handler(w) \/ Crash(w) \/ \E r \in Runs : Poll(w, r)
  PROVE  /\ worker'[v] = worker[v]
         /\ worker[v].pc \in Investigating =>
              steps'[worker[v].run] = steps[worker[v].run]
<1> USE DEF InvestigationInv
<1>1. worker[v].pc \in Investigating => worker[v].run \in Runs
  BY DEF TypeOK, WorkersOK, Investigating
<1>2. CASE ClaimRun(w)
  <2>1. worker[v].pc \in Investigating => worker[v].run # worker[w].run
    BY <1>2 DEF LeaseKept, ClaimRun, Claimable
  <2> QED BY <1>1, <1>2, <2>1, Claims
<1>3. CASE CreateStep(w)
  <2>1. worker[v].pc \in Investigating => worker[v].run # worker[w].run
    BY <1>3 DEF OneInvestigation, CreateStep, Investigating
  <2> QED BY <1>1, <1>3, <2>1, NextNumber, Continues
<1>4. CASE Decide(w) \/ ModelFails(w) \/ CreateDetail(w) \/ ReportFails(w)
  <2>1. UNCHANGED steps
    BY <1>4 DEF Decide, ModelFails, CreateDetail, ReportFails, database
  <2> QED BY <1>4, <2>1, Continues
<1>5. CASE \/ RefusedClaim(w) \/ FinishRun(w) \/ StatementFails(w) \/ Commit(w)
           \/ CommitFails(w) \/ Crash(w) \/ \E r \in Runs : Poll(w, r)
  <2>1. UNCHANGED steps
    BY <1>5 DEF RefusedClaim, FinishRun, StatementFails, Commit, CommitFails, Crash,
       Poll, database
  <2> QED BY <1>5, <2>1, Leaves
<1>6. CASE Reread(w)
  BY <1>6 DEF Reread, database, TypeOK, WorkersOK
<1> QED BY <1>2, <1>3, <1>4, <1>5, <1>6 DEF Handler

(* The workers' steps, and those of everyone else.                         *)
LEMMA Movers ==
  ASSUME [Next]_vars
  PROVE  \/ \E w \in Workers : Handler(w) \/ Crash(w) \/ \E r \in Runs : Poll(w, r)
         \/ \E r \in Runs : CreateRun(r)
         \/ UNCHANGED <<row, steps, worker>>
BY DEF Next, vars, database, EnqueueRun, EnqueueLost, Evict, Duplicate, Age, Assign,
   SweepProduce, SweepProduceFails, SweepList

(* What each worker knows of the timeline it is writing stays true.        *)
LEMMA KnowsStep ==
  ASSUME TimelineInv, [Next]_vars
  PROVE  \A v \in Workers : Knows(v)'
<1> USE DEF TimelineInv
<1> SUFFICES ASSUME NEW v \in Workers PROVE Knows(v)'
  OBVIOUS
<1>1. ASSUME NEW w \in Workers, Handler(w) \/ Crash(w) \/ \E r \in Runs : Poll(w, r)
      PROVE  Knows(v)'
  <2>1. CASE v = w
    BY <1>1, <2>1, KnowsNext DEF InvestigationInv
  <2>2. CASE v # w
    BY <1>1, <2>2, OthersLeftAlone, KnowsStill
  <2> QED BY <2>1, <2>2
<1>2. CASE \/ \E r \in Runs : CreateRun(r)
           \/ UNCHANGED <<row, steps, worker>>
  BY <1>2, KnowsStill DEF CreateRun
<1> QED BY <1>1, <1>2, Movers

(* What a run's last step makes of the row and the timeline stays true.    *)
LEMMA EndedStep ==
  ASSUME TimelineInv, [Next]_vars
  PROVE  EndedTimeline'
<1> USE DEF TimelineInv
<1>1. row \in [Runs -> RowType]
  BY DEF InvestigationInv, TypeOK, RowsOK
<1>2. ASSUME NEW w \in Workers, FinishRun(w) PROVE EndedTimeline'
  <2> DEFINE r == worker[w].run
  <2>1. worker[w].pc = "finish" /\ UNCHANGED steps /\ r \in Runs
    BY <1>2 DEF FinishRun, InvestigationInv, TypeOK, WorkersOK
  <2>2. CASE UNCHANGED row
    BY <2>1, <2>2 DEF EndedTimeline, Concluded, Numbers
  <2>3. CASE row' = [row EXCEPT ![r] = [@ EXCEPT !.status = worker[w].next,
                                                !.count = worker[w].count]]
    <3>1. /\ row'[r].status = worker[w].next /\ row'[r].count = worker[w].count
          /\ \A q \in Runs : q # r => row'[q] = row[q]
      BY <1>1, <2>1, <2>3 DEF RowType
    <3>2. \/ worker[w].next = "SUCCEEDED" /\ Concluded(r, worker[w].count)
          \/ worker[w].next = "FAILED"
             /\ Numbers(r) \in {1..worker[w].count, 1..(worker[w].count + 1)}
      BY <2>1 DEF Knows
    <3>3. ASSUME NEW q \in Runs
          PROVE  /\ row'[q].status = "SUCCEEDED" =>
                      /\ {s.number : s \in steps[q]} = 1..row'[q].count
                      /\ row'[q].count > 0
                      /\ \A s \in steps[q] :
                           s.kind = "finish" <=> s.number = row'[q].count
                 /\ row'[q].status = "FAILED" =>
                      {s.number : s \in steps[q]}
                        \in {1..row'[q].count, 1..(row'[q].count + 1)}
      <4>1. CASE q = r
        BY <3>1, <3>2, <4>1 DEF Concluded, Numbers
      <4>2. CASE q # r
        BY <3>1, <4>2 DEF EndedTimeline, Concluded, Numbers
      <4> QED BY <4>1, <4>2
    <3> QED BY <2>1, <3>3 DEF EndedTimeline, Concluded, Numbers
  <2> QED BY <1>2, <2>2, <2>3 DEF FinishRun
<1>3. ASSUME NEW w \in Workers, ClaimRun(w) PROVE EndedTimeline'
  BY <1>3, Claims DEF InvestigationInv, EndedTimeline, Concluded, Numbers
<1>4. ASSUME NEW w \in Workers, CreateStep(w) PROVE EndedTimeline'
  <2>1. row[worker[w].run].status = "RUNNING" /\ UNCHANGED row
    BY <1>4 DEF InvestigationInv, LeaseKept, CreateStep, Investigating
  <2> QED BY <1>4, <2>1, NextNumber DEF InvestigationInv, EndedTimeline, Concluded, Numbers
<1>5. ASSUME NEW r \in Runs, CreateRun(r) PROVE EndedTimeline'
  <2>1. /\ row'[r].status = "PENDING" /\ UNCHANGED steps
        /\ \A q \in Runs : q # r => row'[q] = row[q]
    BY <1>1, <1>5 DEF CreateRun, RowType
  <2> QED BY <2>1 DEF EndedTimeline, Concluded, Numbers
<1>6. CASE UNCHANGED <<row, steps>>
  BY <1>6 DEF EndedTimeline, Concluded, Numbers
<1>7. \/ \E w \in Workers : FinishRun(w) \/ ClaimRun(w) \/ CreateStep(w)
      \/ \E r \in Runs : CreateRun(r)
      \/ UNCHANGED <<row, steps>>
  BY Movers DEF Handler, database, Poll, RefusedClaim, Reread, Decide, ModelFails,
     CreateDetail, ReportFails, StatementFails, Commit, CommitFails, Crash
<1> QED BY <1>2, <1>3, <1>4, <1>5, <1>6, <1>7

(* The inductive invariant, with what each worker knows.                   *)
THEOREM TimelineCorrect ==
  ASSUME Overrun = FALSE
  PROVE  Spec => []TimelineInv
<1>1. Init => (\A w \in Workers : Knows(w)) /\ EndedTimeline
  BY DEF Init, Idle, Knows, EndedTimeline
<1>2. TimelineInv /\ [Next]_vars => (\A w \in Workers : Knows(w))' /\ EndedTimeline'
  BY KnowsStep, EndedStep
<1>3. InvestigationInv /\ (\A w \in Workers : Knows(w)) /\ EndedTimeline <=> TimelineInv
  BY DEF TimelineInv
<1> QED BY <1>1, <1>2, <1>3, InvestigationCorrect, PTL DEF Spec

(* What FinishRun records of an ended run agrees with the rows its reports *)
(* wrote: steps 1..step_count, the last the only finish, if it SUCCEEDED.  *)
THEOREM EndedAsCounted ==
  ASSUME Overrun = FALSE
  PROVE  Spec => []EndedTimeline
<1>1. TimelineInv => EndedTimeline
  BY DEF TimelineInv
<1> QED BY <1>1, TimelineCorrect, PTL

(* A run is ended by the attempt its row counts: FinishRun's condition on  *)
(* the attempt read back is a condition on the attempt that was claimed.   *)
THEOREM EndedByOwnAttempt ==
  ASSUME Overrun = FALSE
  PROVE  Spec => EndedByItsAttempt
<1> DEFINE Own == \A r \in Runs :
       row[r].status = "RUNNING" /\ row'[r].status \in Terminal =>
         \E w \in Workers : /\ worker[w].pc = "finish" /\ worker'[w].pc = "commit"
                            /\ Holds(w, r)
<1>1. ASSUME InvestigationInv, [Next]_vars PROVE Own
  <2> SUFFICES ASSUME NEW r \in Runs, row[r].status = "RUNNING",
                      row'[r].status \in Terminal
               PROVE  \E w \in Workers : /\ worker[w].pc = "finish"
                                          /\ worker'[w].pc = "commit"
                                          /\ Holds(w, r)
    OBVIOUS
  <2> USE <1>1 DEF InvestigationInv
  <2>1. row \in [Runs -> RowType] /\ row[r].status \notin Terminal
    BY DEF TypeOK, RowsOK, Terminal
  <2>2. ASSUME NEW w \in Workers, FinishRun(w)
        PROVE  worker[w].pc = "finish" /\ worker'[w].pc = "commit" /\ Holds(w, r)
    <3>1. worker[w].pc = "finish" /\ worker'[w].pc = "commit"
      BY <2>2 DEF FinishRun, Goto, TypeOK, WorkersOK, WorkerType
    <3>2. worker[w].run = r
      BY <2>1, <2>2 DEF FinishRun
    <3> QED BY <3>1, <3>2 DEF Holds, LeaseKept, Investigating
  <2>3. ASSUME NEW w \in Workers, ClaimRun(w) PROVE FALSE
    <3>1. row'[r].status = "RUNNING"
      BY <2>3, Claims
    <3> QED BY <3>1 DEF Terminal
  <2>4. ASSUME NEW q \in Runs, CreateRun(q) PROVE FALSE
    BY <2>1, <2>4 DEF CreateRun, Terminal, RowType
  <2>5. \/ \E w \in Workers : FinishRun(w) \/ ClaimRun(w)
        \/ \E q \in Runs : CreateRun(q)
        \/ UNCHANGED row
    BY Movers DEF Handler, database, Poll, RefusedClaim, Reread, Decide, ModelFails,
       CreateStep, CreateDetail, ReportFails, StatementFails, Commit, CommitFails, Crash
  <2> QED BY <2>1, <2>2, <2>3, <2>4, <2>5
<1>2. Spec => [][Own]_vars
  BY <1>1, InvestigationCorrect, PTL DEF Spec
<1> QED BY <1>2 DEF EndedByItsAttempt

-----------------------------------------------------------------------------
(* Refinement                                                              *)

(* Every step of AgentRuns is a step of RunLifecycle or leaves it alone.   *)
LEMMA StepRefines ==
  ASSUME Overrun = FALSE, TimelineInv, TimelineInv', [Next]_vars
  PROVE  [Lifecycle!Next]_(Lifecycle!vars)
<1> USE DEF TimelineInv
<1>1. row \in [Runs -> RowType] /\ row' \in [Runs -> RowType]
  BY DEF InvestigationInv, TypeOK, RowsOK
<1> DEFINE status   == [r \in Runs |-> row[r].status]
           attempts == [r \in Runs |-> row[r].attempts]
           timeline == [r \in Runs |-> Numbers(r)]
<1>2. ASSUME NEW r \in Runs, CreateRun(r) PROVE Lifecycle!Create(r)
  <2>1. /\ row[r].status = "NONE" /\ row'[r].status = "PENDING"
        /\ row'[r].attempts = row[r].attempts /\ UNCHANGED steps
        /\ \A q \in Runs : q # r => row'[q] = row[q]
        /\ \A q \in Runs : IncidentOf[q] = IncidentOf[r] => row[q].status \notin Active
    BY <1>1, <1>2 DEF CreateRun, RowType
  <2> QED BY <2>1 DEF Lifecycle!Create, Lifecycle!Active, Active, Numbers
<1>3. ASSUME NEW w \in Workers, ClaimRun(w) PROVE \E r \in Runs : Lifecycle!Start(r)
  <2>1. PICK r \in Runs : r = worker[w].run
    BY <1>3, Claims DEF InvestigationInv
  <2>2. /\ row[r].status \in Active
        /\ row'[r].status = "RUNNING" /\ row'[r].attempts = row[r].attempts + 1
        /\ steps'[r] = {}
        /\ \A q \in Runs : q # r => row'[q] = row[q] /\ steps'[q] = steps[q]
    BY <1>3, <2>1, Claims DEF InvestigationInv, ClaimRun, Claimable, Active
  <2>3. /\ status' = [status EXCEPT ![r] = "RUNNING"]
        /\ attempts' = [attempts EXCEPT ![r] = @ + 1]
    BY <2>2
  <2>4. timeline' = [timeline EXCEPT ![r] = {}]
    <3>1. {s.number : s \in steps'[r]} = {}
      BY <2>2
    <3> QED BY <2>2, <3>1 DEF Numbers
  <2> QED BY <2>1, <2>2, <2>3, <2>4 DEF Lifecycle!Start, Lifecycle!Active, Active
<1>4. ASSUME NEW w \in Workers, CreateStep(w)
      PROVE  \E r \in Runs : Lifecycle!Record(r)
  <2> DEFINE c == worker[w].count
  <2>a. PICK r \in Runs : r = worker[w].run
    BY <1>4 DEF CreateStep, InvestigationInv, TypeOK, WorkersOK
  <2>1. /\ c \in Nat /\ worker[w].pc = "report"
        /\ worker[w].number = c + 1 /\ Numbers(r) = 1..c
    BY <1>4, <2>a DEF CreateStep, Knows, InvestigationInv, TypeOK, WorkersOK, WorkerType
  <2>2. row[r].status = "RUNNING" /\ UNCHANGED row
    BY <1>4, <2>a DEF InvestigationInv, LeaseKept, CreateStep, Investigating
  <2>3. {s.number : s \in steps'[r]} = 1..(c + 1)
    <3>1. Numbers(worker[w].run)' = {s.number : s \in steps'[r]}
      BY <1>4, <2>a, Continues DEF InvestigationInv, Numbers
    <3> QED BY <1>4, <2>a, <2>1, <3>1, NextNumber, Interval DEF InvestigationInv
  <2>4. \A q \in Runs : q # r => steps'[q] = steps[q]
    BY <1>4, <2>a, NextNumber DEF InvestigationInv
  <2>5. timeline' = [timeline EXCEPT ![r] = 1..(c + 1)]
    BY <2>1, <2>3, <2>4 DEF Numbers
  <2>6. c \in timeline[r] \cup {0} /\ timeline[r] = 1..c
    BY <2>1
  <2> QED BY <2>1, <2>2, <2>5, <2>6 DEF Lifecycle!Record
<1>5. ASSUME NEW w \in Workers, FinishRun(w)
      PROVE  (\E r \in Runs : Lifecycle!End(r)) \/ UNCHANGED <<row, steps>>
  <2>a. PICK r \in Runs : r = worker[w].run
    BY <1>5 DEF FinishRun, InvestigationInv, TypeOK, WorkersOK
  <2>1. worker[w].next \in Lifecycle!Terminal /\ UNCHANGED steps
    BY <1>5 DEF FinishRun, InvestigationInv, TypeOK, WorkersOK, Terminal, Lifecycle!Terminal
  <2>2. CASE /\ row[r].status = "RUNNING"
             /\ row' = [row EXCEPT ![r] = [@ EXCEPT !.status = worker[w].next,
                                                   !.count = worker[w].count]]
    <3>1. /\ row'[r].status = worker[w].next /\ row'[r].attempts = row[r].attempts
          /\ \A q \in Runs : q # r => row'[q] = row[q]
      BY <1>1, <2>1, <2>2 DEF RowType
    <3>2. status' = [status EXCEPT ![r] = worker[w].next] /\ attempts' = attempts
      BY <2>1, <3>1
    <3> QED BY <2>1, <2>2, <3>2 DEF Lifecycle!End, Numbers
  <2> QED BY <1>5, <2>a, <2>1, <2>2 DEF FinishRun
<1>6. ASSUME UNCHANGED <<row, steps>> PROVE UNCHANGED Lifecycle!vars
  BY <1>6 DEF Lifecycle!vars, Numbers
<1>7. \/ \E w \in Workers : FinishRun(w) \/ ClaimRun(w) \/ CreateStep(w)
      \/ \E r \in Runs : CreateRun(r)
      \/ UNCHANGED <<row, steps>>
  BY Movers DEF Handler, database, Poll, RefusedClaim, Reread, Decide, ModelFails,
     CreateDetail, ReportFails, StatementFails, Commit, CommitFails, Crash
<1>8. Lifecycle!Next \/ UNCHANGED Lifecycle!vars
  <2>1. CASE \E r \in Runs : CreateRun(r)
    BY <1>2, <2>1 DEF Lifecycle!Next
  <2>2. CASE \E w \in Workers : ClaimRun(w)
    BY <1>3, <2>2 DEF Lifecycle!Next
  <2>3. CASE \E w \in Workers : CreateStep(w)
    BY <1>4, <2>3 DEF Lifecycle!Next
  <2>4. CASE \E w \in Workers : FinishRun(w)
    BY <1>5, <1>6, <2>4 DEF Lifecycle!Next
  <2> QED BY <1>6, <1>7, <2>1, <2>2, <2>3, <2>4
<1> QED BY <1>8

(* AgentRuns implements RunLifecycle: to a reader of the database the API, *)
(* the queue, the workers and the sweep are a run that starts, records its *)
(* steps in order, begins again, and ends once.                            *)
THEOREM ImplementsLifecycle ==
  ASSUME Overrun = FALSE
  PROVE  Spec => RefinesLifecycle
<1>1. Init => Lifecycle!Init
  BY DEF Init, Lifecycle!Init, Numbers
<1>2. TimelineInv /\ TimelineInv' /\ [Next]_vars => [Lifecycle!Next]_(Lifecycle!vars)
  BY StepRefines
<1> QED BY <1>1, <1>2, TimelineCorrect, PTL DEF Spec, RefinesLifecycle, Lifecycle!Spec
=============================================================================
