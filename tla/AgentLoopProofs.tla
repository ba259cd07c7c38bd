--------------------------- MODULE AgentLoopProofs ---------------------------
(***************************************************************************)
(* Proofs about AgentLoop: one attempt keeps its budget, its rows tell the *)
(* story of its outcome, its citations are true, and it implements         *)
(* LoopContract, for every budget, index, tool, model and failure.         *)
(***************************************************************************)
EXTENDS AgentLoop, FiniteSetTheorems, TLAPS

Texts        == Queries \cup Tools \cup Docs \cup {NoDoc}
EvidenceType == [step : Nat, call : BOOLEAN, doc : Docs \cup {NoDoc}, ref : Texts]
StepType     == [action : Actions, ref : Texts, hits : SUBSET Docs,
                 evidence : SUBSET EvidenceType]
RowType      == [number : Nat, action : Actions]
TurnType     == [number : Nat, none : BOOLEAN]
OutcomeType  == [status : {"", "SUCCEEDED", "FAILED"},
                 reason : Bounds \cup {"", "ERROR", "COMPLETED"},
                 steps : Nat, calls : Nat]
DbType       == [steps : SUBSET RowType, calls : SUBSET Nat,
                 evidence : SUBSET EvidenceType]

InStep    == {"chat", "act", "report", "call", "evidence", "return"}
Running   == InStep \cup {"loop"}
Observing == {"RETRIEVE", "TOOL_CALL"}

TypeOK ==
  /\ pc \in Running \cup {"done", "cancelled"}
  /\ number \in Nat /\ count \in Nat /\ toolCalls \in Nat /\ streak \in Nat
  /\ records \in [1..count -> StepType]
  /\ turns \in Seq(TurnType)
  /\ forced \in Bounds \cup {""}
  /\ step \in StepType
  /\ db \in DbType
  /\ outcome \in OutcomeType

(* Where in a step each position of the code is, and what is in hand there.*)
PositionKept ==
  /\ pc = "loop" => number = count /\ forced = ""
  /\ pc \in InStep => number = count + 1
  /\ pc \notin Running => number \in {count, count + 1}
  /\ pc = "act" => forced = "" /\ step.action \in Observing
  /\ pc \in {"loop", "chat", "act"} => step.action # "FINISH"
  /\ pc = "call" => step.action = "TOOL_CALL"
  /\ pc = "evidence" => step.action = "FINISH"
  /\ step.evidence # {} => step.action = "FINISH"
  /\ forced # "" /\ pc \in {"report", "call", "evidence", "return"} =>
       step.action \notin Observing
  /\ IF pc = "done" THEN /\ outcome.status # "" /\ outcome.steps = count
                         /\ outcome.calls = toolCalls
                    ELSE outcome.status = ""

BudgetLeft ==
  /\ number <= MaxSteps + 1 /\ (forced = "" => number <= MaxSteps)
  /\ toolCalls <= MaxToolCalls
  /\ pc \in {"chat", "act"} /\ forced = "" => toolCalls < MaxToolCalls

Row(n, action) == [number |-> n, action |-> action]

(* The rows of agent_steps are those of the records, and of the step in    *)
(* hand once its row is written.                                           *)
RowsKept ==
  /\ \A n \in 1..count : Row(n, records[n].action) \in db.steps
  /\ \A s \in db.steps : s.number \in 1..(count + 1)
  /\ \A s \in db.steps : s.number \in 1..count => s.action = records[s.number].action
  /\ \A s \in db.steps : s.number = count + 1 =>
       /\ pc \in {"call", "evidence", "return", "done", "cancelled"}
       /\ outcome.status # "SUCCEEDED"
       /\ s.action = step.action
  /\ pc \in {"call", "evidence", "return"} => Row(count + 1, step.action) \in db.steps
  /\ \A s \in db.steps : s.number = number /\ forced # "" => s.action # "TOOL_CALL"
  /\ IF outcome.status = "SUCCEEDED"
     THEN count > 0 /\ \A n \in 1..count : records[n].action = "FINISH" <=> n = count
     ELSE \A n \in 1..count : records[n].action # "FINISH"

(* A call that was made and has no row yet, and the calls made so far.     *)
Owing == pc \in {"report", "call"} /\ step.action = "TOOL_CALL"

Made == IF Owing THEN Cardinality(db.calls) + 1 ELSE Cardinality(db.calls)

(* The rows of tool_calls likewise, against the calls that were counted.   *)
CallsKept ==
  /\ db.calls \subseteq 1..(count + 1)
  /\ \A n \in 1..count : n \in db.calls <=> records[n].action = "TOOL_CALL"
  /\ count + 1 \in db.calls =>
       /\ pc \in {"return", "done", "cancelled"} /\ step.action = "TOOL_CALL"
       /\ outcome.status # "SUCCEEDED"
  /\ pc = "return" /\ step.action = "TOOL_CALL" => count + 1 \in db.calls
  /\ Made <= toolCalls
  /\ pc \in Running \/ outcome.status = "SUCCEEDED" => Made = toolCalls

(* Of two unusable answers in a row the second ends the run.               *)
StreakKept ==
  /\ \A n \in 1..count : Row(n, "NONE") \in db.steps /\ Row(n + 1, "NONE") \in db.steps =>
       \A s \in db.steps : s.number # n + 2
  /\ pc \in Running =>
       /\ \A n \in 1..count : n + 1 \in 1..count /\ records[n].action = "NONE" =>
            records[n + 1].action # "NONE"
       /\ streak = 0 /\ count > 0 => records[count].action # "NONE"

(* A citation, resolved: what it names is on record.                       *)
Grounded(e) ==
  /\ e.step \in 1..count
  /\ records[e.step].action \in Observing
  /\ e.call <=> records[e.step].action = "TOOL_CALL"
  /\ e.doc # NoDoc => e.doc \in records[e.step].hits

SourcesKept ==
  /\ \A e \in step.evidence : Grounded(e)
  /\ \A e \in db.evidence : Grounded(e) /\ (e.doc # NoDoc => e.doc \in Live)

LabelsKept ==
  pc \in Running => /\ Len(turns) = count
                    /\ \A i \in 1..count : turns[i].number = i

(* The inductive invariant.                                                *)
LoopInv == /\ TypeOK /\ PositionKept /\ BudgetLeft /\ RowsKept /\ CallsKept
           /\ StreakKept /\ SourcesKept /\ LabelsKept

-----------------------------------------------------------------------------
(* What the actions do, in the terms of the invariant                      *)

(* The bound in force is one of the four, or none.                         *)
LEMMA BoundIsBound == Bound \in Bounds \cup {""}
BY DEF Bound, Bounds

(* A counter that is one more stays within a bound that is one more, and   *)
(* one below a bound has room for one.                                     *)
LEMMA OneMore ==
  ASSUME NEW a \in Nat, NEW b \in Nat
  PROVE  /\ a <= b => a + 1 <= b + 1
         /\ ~(a >= b) => a < b
         /\ a < b => a + 1 <= b
         /\ a <= a /\ (a + 1 <= b => a <= b /\ a < b)
OBVIOUS

(* No bound in force leaves room for one more step and one more call.      *)
LEMMA Unbound ==
  ASSUME number \in Nat, toolCalls \in Nat, Bound = ""
  PROVE  number + 1 <= MaxSteps /\ toolCalls < MaxToolCalls
<1>1. MaxSteps \in Nat /\ MaxToolCalls \in Nat
  BY LoopAssumption
<1>2. ~(number >= MaxSteps)
  BY Zenon DEF Bound
<1>3. ~(toolCalls >= MaxToolCalls)
  BY <1>2, Zenon DEF Bound
<1> QED BY <1>1, <1>2, <1>3, OneMore, Zenon

(* What a finish cites, resolved, is grounded in the records.              *)
LEMMA Resolved ==
  ASSUME TypeOK, NEW cited \in SUBSET Citations
  PROVE  /\ Resolve(cited) \subseteq EvidenceType
         /\ \A e \in Resolve(cited) : Grounded(e)
<1> DEFINE observed == {d \in cited : /\ d[1] \in DOMAIN records
                                     /\ records[d[1]].action \in {"RETRIEVE", "TOOL_CALL"}}
           resolved(c) ==
             LET r == records[c[1]]
                 hit == r.action = "RETRIEVE" /\ c[2] \in r.hits
             IN [step |-> c[1], call |-> r.action = "TOOL_CALL",
                 doc |-> IF hit THEN c[2] ELSE NoDoc, ref |-> IF hit THEN c[2] ELSE r.ref]
<1>1. ASSUME NEW e \in Resolve(cited)
      PROVE  e \in EvidenceType /\ Grounded(e)
  <2>1. PICK c \in observed : e = resolved(c)
    BY <1>1 DEF Resolve
  <2>2. c[2] \in Docs \cup {NoDoc}
    BY DEF Citations
  <2>3. /\ count \in Nat /\ c[1] \in 1..count
        /\ records[c[1]] \in StepType /\ records[c[1]].ref \in Texts
        /\ records[c[1]].action \in Observing
    BY DEF TypeOK, Observing, StepType
  <2>4. /\ e.step = c[1] /\ e.call = (records[c[1]].action = "TOOL_CALL")
        /\ e.doc \in {c[2], NoDoc} /\ (e.doc # NoDoc => e.doc \in records[c[1]].hits)
        /\ e.ref \in {c[2], records[c[1]].ref}
    BY <2>1
  <2>5. e.step \in Nat /\ e.doc \in Docs \cup {NoDoc} /\ e.ref \in Texts
    BY <2>2, <2>3, <2>4 DEF Texts
  <2>6. e.call \in BOOLEAN
    BY <2>4, Zenon
  <2>7. e = [step |-> e.step, call |-> e.call, doc |-> e.doc, ref |-> e.ref]
    BY <2>1, Zenon
  <2>8. e \in EvidenceType
    BY <2>5, <2>6, <2>7, Zenon DEF EvidenceType
  <2> QED BY <2>3, <2>4, <2>8 DEF Grounded
<1> QED BY <1>1

(* The three statements of a report, in the rows they write.               *)
LEMMA StepWritten ==
  ASSUME TypeOK, NEW d, d = WithStep
  PROVE  /\ d \in DbType
         /\ d.steps = db.steps \cup {Row(number, step.action)}
         /\ d.calls = db.calls /\ d.evidence = db.evidence
<1>1. Row(number, step.action) \in RowType
  BY DEF TypeOK, StepType, RowType, Row
<1> QED BY <1>1 DEF TypeOK, DbType, WithStep, Row

(* The tool_calls row bears the number of the step in hand.                *)
LEMMA CallWritten ==
  ASSUME TypeOK, NEW d, d = WithCall
  PROVE  /\ d \in DbType
         /\ d.calls = db.calls \cup {number}
         /\ d.steps = db.steps /\ d.evidence = db.evidence
BY DEF TypeOK, DbType, WithCall

(* An evidence row is the citation it came from, less a document that is   *)
(* gone.                                                                   *)
LEMMA EvidenceWritten ==
  ASSUME TypeOK, NEW e \in step.evidence, NEW d, d = WithEvidence(e)
  PROVE  /\ d \in DbType
         /\ d.steps = db.steps /\ d.calls = db.calls
         /\ \E r \in EvidenceType :
              /\ d.evidence = db.evidence \cup {r}
              /\ r.step = e.step /\ r.call = e.call
              /\ r.doc # NoDoc => r.doc = e.doc /\ r.doc \in Live
<1> DEFINE r == [e EXCEPT !.doc = IF @ \in Live THEN @ ELSE NoDoc]
<1>1. e \in EvidenceType
  BY DEF TypeOK, StepType
<1>2. r \in EvidenceType /\ r.step = e.step /\ r.call = e.call
  BY <1>1 DEF EvidenceType
<1>3. r.doc = IF e.doc \in Live THEN e.doc ELSE NoDoc
  BY <1>1 DEF EvidenceType
<1>4. d = [db EXCEPT !.evidence = db.evidence \cup {r}]
  BY DEF WithEvidence
<1>5. db \in DbType
  BY DEF TypeOK
<1> HIDE DEF r
<1>6. /\ d \in DbType /\ d.evidence = db.evidence \cup {r}
      /\ d.steps = db.steps /\ d.calls = db.calls
  BY <1>2, <1>4, <1>5 DEF DbType
<1> QED BY <1>2, <1>3, <1>6

(* What a report that fails, or is cut short, may have written.            *)
LEMMA MayHaveWritten ==
  ASSUME NEW d \in {db} \cup Applied
  PROVE  \/ d = db
         \/ pc = "report" /\ number \notin Numbers /\ d = WithStep
         \/ pc = "call" /\ d = WithCall
         \/ pc = "evidence" /\ \E e \in step.evidence : d = WithEvidence(e)
<1>1. CASE pc = "report"
  BY <1>1 DEF Applied
<1>2. CASE pc = "call"
  BY <1>2 DEF Applied
<1>3. CASE pc = "evidence"
  BY <1>3 DEF Applied
<1>4. CASE pc \notin {"report", "call", "evidence"}
  BY <1>4 DEF Applied
<1> QED BY <1>1, <1>2, <1>3, <1>4

(* The step in hand goes on record.                                        *)
LEMMA RecordedStep ==
  ASSUME TypeOK, PositionKept, pc = "return", Recorded
  PROVE  /\ count' = count + 1 /\ number = count + 1
         /\ records' \in [1..count' -> StepType]
         /\ records'[count + 1] = step
         /\ \A n \in 1..count : records'[n] = records[n]
<1>1. number = count + 1 /\ count \in Nat /\ step \in StepType
      /\ records \in [1..count -> StepType]
  BY DEF TypeOK, PositionKept, InStep
<1>2. records' = [n \in 1..(count + 1) |-> IF n = count + 1 THEN step ELSE records[n]]
  BY <1>1 DEF Recorded
<1> QED BY <1>1, <1>2 DEF Recorded

-----------------------------------------------------------------------------
(* Every step keeps every part of the invariant                            *)

(* Which statements may have changed the rows, and at which position: the  *)
(* one the step names, whether or not its caller saw it succeed.           *)
LEMMA DbStep ==
  ASSUME TypeOK, [Next]_vars
  PROVE  \/ db' = db
         \/ /\ pc = "report" /\ number \notin Numbers /\ db' = WithStep
            /\ CreateStep \/ ReportFails \/ Stop
         \/ /\ pc = "call" /\ db' = WithCall
            /\ CreateToolCall \/ ReportFails \/ Stop
         \/ /\ pc = "evidence" /\ \E e \in step.evidence : db' = WithEvidence(e)
            /\ CreateEvidence \/ ReportFails \/ Stop
<1>1. CASE CreateStep
  BY <1>1 DEF CreateStep
<1>2. CASE CreateToolCall
  BY <1>2 DEF CreateToolCall
<1>3. CASE CreateEvidence
  BY <1>3 DEF CreateEvidence
<1>4. CASE ReportFails
  BY <1>4, MayHaveWritten DEF ReportFails
<1>5. CASE Stop
  BY <1>5, MayHaveWritten DEF Stop
<1>6. CASE UNCHANGED vars
  BY <1>6 DEF vars
<1>7. CASE Cancel \/ RunsLate
  BY <1>7 DEF Cancel, RunsLate
<1>8. CASE Ask \/ Unusable \/ ModelFails \/ Finish \/ Choose \/ Retrieve \/ CallTool
  BY <1>8 DEF Ask, Unusable, ModelFails, Finish, Choose, Chooses, Retrieve, CallTool, Reports
<1>9. CASE ReturnObserved \/ ReturnUnusable \/ ReturnFinish
  BY <1>9 DEF ReturnObserved, ReturnUnusable, ReturnFinish
<1> QED BY <1>1, <1>2, <1>3, <1>4, <1>5, <1>6, <1>7, <1>8, <1>9 DEF Next, Run

(* Every step keeps the types.                                             *)
LEMMA TypeStep ==
  ASSUME TypeOK, PositionKept, [Next]_vars
  PROVE  TypeOK'
<1>0. /\ number + 1 \in Nat /\ count + 1 \in Nat /\ toolCalls + 1 \in Nat /\ streak + 1 \in Nat
      /\ \A b \in BOOLEAN : Append(turns, [number |-> number, none |-> b]) \in Seq(TurnType)
  <2>1. /\ number \in Nat /\ count \in Nat /\ toolCalls \in Nat /\ streak \in Nat
        /\ turns \in Seq(TurnType)
    BY DEF TypeOK
  <2>2. \A b \in BOOLEAN : [number |-> number, none |-> b] \in TurnType
    BY <2>1 DEF TurnType
  <2> QED BY <2>1, <2>2
<1>1. db' \in DbType
  BY DbStep, StepWritten, CallWritten, EvidenceWritten DEF TypeOK
<1>2. CASE Ask
  <2>1. forced' \in Bounds \cup {""}
    BY <1>2, BoundIsBound DEF Ask, Bounds
  <2>2. pc' = "chat" /\ number' \in Nat
        /\ UNCHANGED <<count, toolCalls, streak, records, turns, step, outcome>>
    BY <1>0, <1>2 DEF Ask, counters
  <2> QED BY <1>1, <2>1, <2>2 DEF TypeOK, Running, InStep
<1>3. NoTool \in StepType
  BY DEF NoTool, StepType, Texts, Actions
<1>4. CASE Unusable
  BY <1>1, <1>3, <1>4 DEF Unusable, Reports, TypeOK, counters, control, world, Running, InStep
<1>5. CASE ModelFails
  BY <1>1, <1>5 DEF ModelFails, Fails, Ends, OutcomeType, TypeOK, counters, control
<1>6. CASE Finish
  <2>1. PICK cited \in SUBSET Citations :
          Reports([NoTool EXCEPT !.action = "FINISH", !.evidence = Resolve(cited)])
    BY <1>6 DEF Finish
  <2>2. step' \in StepType
    BY <1>3, <2>1, Resolved DEF Reports, StepType, Actions
  <2> QED BY <1>1, <2>1, <2>2 DEF Reports, TypeOK, counters, control, world, Running, InStep
<1>7. CASE Choose
  <2>1. PICK action \in Observing, ref \in Texts :
          Chooses([NoTool EXCEPT !.action = action, !.ref = ref])
    BY <1>7 DEF Choose, Texts, Observing
  <2>2. step' \in StepType
    BY <1>3, <2>1 DEF Chooses, StepType, Actions, Observing
  <2> QED BY <1>1, <2>1, <2>2 DEF Chooses, TypeOK, counters, control, world, Running, InStep
<1>8. CASE Retrieve
  <2>1. step' \in StepType
    BY <1>8 DEF Retrieve, StepType, TypeOK
  <2> QED BY <1>1, <1>8, <2>1 DEF Retrieve, TypeOK, counters, control, world, Running, InStep
<1>9. CASE CallTool
  <2>1. pc' = "report" /\ toolCalls' \in Nat
        /\ UNCHANGED <<number, count, streak, records, turns, forced, step, outcome>>
    BY <1>0, <1>9 DEF CallTool, control
  <2> QED BY <1>1, <2>1 DEF TypeOK, Running, InStep
<1>10. CASE CreateStep \/ CreateToolCall
  BY <1>1, <1>10 DEF CreateStep, CreateToolCall, TypeOK, counters, control, world, Running, InStep
<1>11. CASE CreateEvidence
  <2>1. step' \in StepType
    BY <1>11 DEF CreateEvidence, StepType, TypeOK
  <2> QED BY <1>1, <1>11, <2>1 DEF CreateEvidence, TypeOK, counters, control, world, Running, InStep
<1>12. CASE ReportFails
  BY <1>1, <1>12 DEF ReportFails, Fails, Ends, OutcomeType, TypeOK, counters, control
<1>13. CASE ReturnObserved
  <2>1. /\ pc' = "loop" /\ streak' = 0
        /\ turns' = Append(turns, [number |-> number, none |-> FALSE])
        /\ UNCHANGED <<number, toolCalls, forced, step, outcome>>
    BY <1>13 DEF ReturnObserved, control
  <2>2. turns' \in Seq(TurnType)
    BY <1>0, <2>1
  <2>3. count' \in Nat /\ records' \in [1..count' -> StepType]
    BY <1>13, RecordedStep DEF ReturnObserved, TypeOK
  <2> QED BY <1>1, <2>1, <2>2, <2>3 DEF TypeOK, Running
<1>14. CASE ReturnUnusable
  <2>1. turns' \in Seq(TurnType) /\ streak' \in Nat
    <3>1. turns \in Seq(TurnType) /\ streak \in Nat
      BY DEF TypeOK
    <3> QED BY <1>0, <1>14, <3>1 DEF ReturnUnusable
  <2>2. count' \in Nat /\ records' \in [1..count' -> StepType]
    BY <1>14, RecordedStep DEF ReturnUnusable, TypeOK
  <2>3. \/ pc' = "loop" /\ outcome' = outcome
        \/ /\ pc' = "done"
           /\ outcome' = [status |-> "FAILED", reason |-> "ERROR", steps |-> count + 1,
                          calls |-> toolCalls]
    BY <1>14 DEF ReturnUnusable, Ends
  <2>4. UNCHANGED <<number, toolCalls, forced, step>>
    BY <1>14 DEF ReturnUnusable, control
  <2>5. outcome' \in OutcomeType
    <3>1. outcome \in OutcomeType /\ toolCalls \in Nat
      BY DEF TypeOK
    <3>2. [status |-> "FAILED", reason |-> "ERROR", steps |-> count + 1,
           calls |-> toolCalls] \in OutcomeType
      BY <1>0, <3>1 DEF OutcomeType
    <3> QED BY <2>3, <3>1, <3>2
  <2> QED BY <1>1, <2>1, <2>2, <2>3, <2>4, <2>5 DEF TypeOK, Running
<1>15. CASE ReturnFinish
  <2>1. count' \in Nat /\ records' \in [1..count' -> StepType]
    BY <1>15, RecordedStep DEF ReturnFinish, TypeOK
  <2>2. /\ pc' = "done"
        /\ UNCHANGED <<number, toolCalls, streak, turns, forced, step>>
    BY <1>15 DEF ReturnFinish, Ends, control
  <2>3. outcome' = [status |-> "SUCCEEDED",
                    reason |-> IF forced = "" THEN "COMPLETED" ELSE forced,
                    steps |-> count + 1, calls |-> toolCalls]
    BY <1>15 DEF ReturnFinish, Ends
  <2>4. outcome' \in OutcomeType
    <3>1. forced \in Bounds \cup {""} /\ toolCalls \in Nat
      BY DEF TypeOK
    <3> QED BY <1>0, <2>3, <3>1 DEF OutcomeType
  <2> QED BY <1>1, <2>1, <2>2, <2>4 DEF TypeOK
<1>16. CASE Stop
  BY <1>1, <1>16 DEF Stop, TypeOK, counters, control, world
<1>17. CASE Cancel \/ RunsLate \/ UNCHANGED vars
  BY <1>1, <1>17 DEF Cancel, RunsLate, vars, TypeOK, counters, control
<1> QED BY <1>2, <1>4, <1>5, <1>6, <1>7, <1>8, <1>9, <1>10, <1>11, <1>12, <1>13, <1>14,
           <1>15, <1>16, <1>17 DEF Next, Run

(* Every step keeps the position consistent with what is in hand there.    *)
LEMMA PositionStep ==
  ASSUME TypeOK, PositionKept, [Next]_vars
  PROVE  PositionKept'
<1> USE DEF PositionKept, Running, InStep, Observing
<1>0. number \in Nat /\ count \in Nat /\ pc \in Running \cup {"done", "cancelled"}
      /\ step \in StepType /\ step.action \in Actions
  BY DEF TypeOK, StepType
<1>1. CASE Ask
  BY <1>0, <1>1 DEF Ask, counters
<1>2. CASE Unusable
  <2>1. step'.action = "NONE" /\ step'.evidence = {} /\ pc' = "report"
    BY <1>2 DEF Unusable, Reports, NoTool
  <2> QED BY <1>0, <1>2, <2>1 DEF Unusable, Answering, Reports, counters, control
<1>3. CASE ModelFails
  BY <1>0, <1>3 DEF ModelFails, Answering, Fails, Ends, counters, control
<1>4. CASE Finish
  <2>1. step'.action = "FINISH" /\ pc' = "report"
    BY <1>4 DEF Finish, Reports, NoTool
  <2> QED BY <1>0, <1>4, <2>1 DEF Finish, Answering, Reports, counters, control
<1>5. CASE Choose
  <2>1. /\ pc' = "act" /\ step'.action \in Observing /\ step'.evidence = {} /\ forced = ""
        /\ pc = "chat" /\ UNCHANGED <<number, count, toolCalls, forced, outcome>>
    BY <1>5 DEF Choose, Chooses, Answering, NoTool, counters, control
  <2> QED BY <1>0, <2>1
<1>6. CASE Retrieve
  <2>1. step'.action = step.action /\ step'.evidence = step.evidence
    BY <1>0, <1>6 DEF Retrieve, StepType
  <2> QED BY <1>0, <1>6, <2>1 DEF Retrieve, counters, control
<1>7. CASE CallTool
  BY <1>0, <1>7 DEF CallTool, control
<1>8. CASE CreateStep \/ CreateToolCall
  BY <1>0, <1>8 DEF CreateStep, CreateToolCall, counters, control
<1>9. CASE CreateEvidence
  <2>1. step'.action = step.action
    BY <1>0, <1>9 DEF CreateEvidence, StepType
  <2> QED BY <1>0, <1>9, <2>1 DEF CreateEvidence, counters, control
<1>10. CASE ReportFails
  BY <1>0, <1>10 DEF ReportFails, Fails, Ends, counters, control
<1>11. CASE ReturnObserved
  BY <1>0, <1>11, RecordedStep DEF ReturnObserved, control
<1>12. CASE ReturnUnusable
  <2>1. count' = count + 1 /\ number' = count' /\ UNCHANGED <<toolCalls, forced, step>>
    BY <1>12, RecordedStep DEF ReturnUnusable, control
  <2>2. step.action = "NONE" /\ pc = "return"
    BY <1>12 DEF ReturnUnusable
  <2>3. CASE pc' = "loop" /\ outcome' = outcome /\ forced = ""
    BY <1>0, <2>1, <2>2, <2>3
  <2>4. CASE /\ pc' = "done"
             /\ outcome' = [status |-> "FAILED", reason |-> "ERROR", steps |-> count + 1,
                            calls |-> toolCalls]
    BY <1>0, <2>1, <2>2, <2>4
  <2> QED BY <1>12, <2>3, <2>4 DEF ReturnUnusable, Ends
<1>13. CASE ReturnFinish
  BY <1>0, <1>13, RecordedStep DEF ReturnFinish, Ends, control
<1>14. CASE Stop
  BY <1>0, <1>14 DEF Stop, counters, control
<1>15. CASE Cancel \/ RunsLate \/ UNCHANGED vars
  BY <1>15 DEF Cancel, RunsLate, vars, counters, control
<1> QED BY <1>1, <1>2, <1>3, <1>4, <1>5, <1>6, <1>7, <1>8, <1>9, <1>10, <1>11, <1>12, <1>13,
           <1>14, <1>15 DEF Next, Run

(* No step spends a budget that is spent: Ask begins a step only under both *)
(* bounds or forces the finish, and only a step so begun may call a tool.  *)
LEMMA BudgetStep ==
  ASSUME TypeOK, PositionKept, BudgetLeft, [Next]_vars
  PROVE  BudgetLeft'
<1>0. /\ number \in Nat /\ toolCalls \in Nat /\ MaxSteps \in Nat /\ MaxToolCalls \in Nat
  BY LoopAssumption DEF TypeOK
<1>1. CASE Ask
  <2>1. /\ number' = number + 1 /\ toolCalls' = toolCalls /\ forced = ""
    BY <1>1 DEF Ask, PositionKept, counters
  <2>2. forced' = "" => Bound = ""
    BY <1>1 DEF Ask
  <2>3. forced' = "" => number' <= MaxSteps /\ toolCalls' < MaxToolCalls
    BY <1>0, <2>1, <2>2, Unbound
  <2>4. number <= MaxSteps /\ toolCalls' <= MaxToolCalls
    BY <2>1 DEF BudgetLeft
  <2>5. number' <= MaxSteps + 1
    BY <1>0, <2>1, <2>4, OneMore, Zenon
  <2> QED BY <2>3, <2>4, <2>5 DEF BudgetLeft
<1>2. CASE CallTool
  <2>1. toolCalls < MaxToolCalls
    BY <1>2 DEF CallTool, BudgetLeft, PositionKept
  <2>2. pc' = "report" /\ toolCalls' = toolCalls + 1 /\ UNCHANGED <<number, forced>>
    BY <1>2 DEF CallTool, control
  <2>3. toolCalls' <= MaxToolCalls
    BY <1>0, <2>1, <2>2
  <2>4. pc' = "report" /\ UNCHANGED <<number, forced>>
    BY <2>2
  <2> QED BY <2>3, <2>4 DEF BudgetLeft
<1>3. CASE Choose
  BY <1>3 DEF Choose, Chooses, Answering, counters, control, BudgetLeft
<1>4. CASE \/ Unusable \/ ModelFails \/ Finish \/ Retrieve \/ CreateStep \/ CreateToolCall
           \/ CreateEvidence \/ ReportFails \/ ReturnObserved \/ ReturnUnusable
           \/ ReturnFinish \/ Stop
  <2>1. pc' \notin {"chat", "act"}
    BY <1>4 DEF Unusable, ModelFails, Finish, Reports, Fails, Ends, Retrieve, CreateStep,
       CreateToolCall, CreateEvidence, ReportFails, ReturnObserved, ReturnUnusable,
       ReturnFinish, Stop
  <2>2. UNCHANGED <<number, forced, toolCalls>>
    BY <1>4 DEF Unusable, ModelFails, Finish, Reports, Fails, Ends, Retrieve, CreateStep,
       CreateToolCall, CreateEvidence, ReportFails, ReturnObserved, ReturnUnusable,
       ReturnFinish, Stop, counters, control
  <2> QED BY <2>1, <2>2 DEF BudgetLeft
<1>5. CASE Cancel \/ RunsLate \/ UNCHANGED vars
  BY <1>5 DEF Cancel, RunsLate, vars, counters, control, BudgetLeft
<1> QED BY <1>1, <1>2, <1>3, <1>4, <1>5 DEF Next, Run

(* What a step does to the rows of agent_steps and to the records: it      *)
(* writes the row of the step in hand, puts that step on record, or leaves *)
(* both alone.                                                             *)
Writes ==
  /\ pc = "report" /\ number \notin Numbers
  /\ db'.steps = db.steps \cup {Row(number, step.action)}
  /\ UNCHANGED <<count, records, turns, streak, step, control>>
  /\ pc' \in {"call", "evidence", "return", "done", "cancelled"}
  /\ outcome'.status # "SUCCEEDED"

Returns ==
  /\ pc = "return" /\ Recorded
  /\ UNCHANGED <<db, step, control>>
  /\ pc' \in {"loop", "done"}
  /\ pc' = "loop" =>
       /\ step.action = "NONE" => streak = 0 /\ streak' # 0
       /\ \E b \in BOOLEAN : turns' = Append(turns, [number |-> number, none |-> b])
  /\ outcome'.status = "SUCCEEDED" <=> step.action = "FINISH"

Keeps ==
  /\ db'.steps = db.steps
  /\ UNCHANGED <<count, records, turns, streak>>
  /\ outcome'.status = "SUCCEEDED" <=> outcome.status = "SUCCEEDED"
  /\ UNCHANGED control \/ (pc = "loop" /\ number' = number + 1)
  /\ \/ /\ pc \in {"loop", "chat", "act", "report"}
        /\ pc' \notin {"call", "evidence", "return"}
     \/ /\ pc \in {"call", "evidence", "return", "done", "cancelled"}
        /\ pc' \in {"call", "evidence", "return", "done", "cancelled"}
        /\ pc' \in {"call", "evidence", "return"} => pc \in {"call", "evidence", "return"}
        /\ step'.action = step.action

(* A counter that is not positive is zero, and one more is not.            *)
LEMMA NoStreak ==
  ASSUME NEW k \in Nat, ~(k > 0)
  PROVE  k = 0 /\ k + 1 # 0
OBVIOUS

(* The three ways out of a report put the step on record.                  *)
LEMMA ReturnReturns ==
  ASSUME TypeOK, PositionKept, ReturnObserved \/ ReturnUnusable \/ ReturnFinish
  PROVE  Returns
<1>0. pc = "return" => outcome.status = ""
  BY DEF PositionKept
<1>1. CASE ReturnObserved
  BY <1>0, <1>1 DEF ReturnObserved, Returns
<1>2. CASE ReturnUnusable
  <2>1. /\ pc = "return" /\ Recorded /\ step.action = "NONE"
        /\ UNCHANGED <<db, step, control>>
    BY <1>2 DEF ReturnUnusable
  <2>2. \/ pc' = "loop" /\ outcome' = outcome
        \/ /\ pc' = "done"
           /\ outcome' = [status |-> "FAILED", reason |-> "ERROR", steps |-> count + 1,
                          calls |-> toolCalls]
    BY <1>2 DEF ReturnUnusable, Ends
  <2>3. pc' \in {"loop", "done"} /\ outcome'.status \in {outcome.status, "FAILED"}
    BY <2>2
  <2>4. /\ turns' = turns \/ turns' = Append(turns, [number |-> number, none |-> TRUE])
        /\ forced = "" => turns' = Append(turns, [number |-> number, none |-> TRUE])
        /\ forced = "" => streak' = streak + 1
    BY <1>2 DEF ReturnUnusable
  <2>5. pc' = "loop" => forced = "" /\ ~(streak > 0)
    BY <1>2 DEF ReturnUnusable, Ends
  <2>6. forced = "" /\ ~(streak > 0) => streak = 0 /\ streak' # 0
    <3>1. streak \in Nat
      BY DEF TypeOK
    <3>2. ~(streak > 0) => streak = 0 /\ streak + 1 # 0
      BY <3>1, NoStreak
    <3> QED BY <2>4, <3>2
  <2> QED BY <1>0, <2>1, <2>3, <2>4, <2>5, <2>6 DEF Returns, Running, InStep
<1>3. CASE ReturnFinish
  BY <1>0, <1>3 DEF ReturnFinish, Ends, Returns
<1> QED BY <1>1, <1>2, <1>3

(* Every step does one of the three.                                       *)
LEMMA WritesReturnsKeeps ==
  ASSUME TypeOK, PositionKept, [Next]_vars
  PROVE  Writes \/ Returns \/ Keeps
<1>0. /\ pc \in Running \cup {"done", "cancelled"} /\ step \in StepType
      /\ pc # "done" => outcome.status = ""
      /\ pc \in Running \/ pc = "cancelled" => outcome.status # "SUCCEEDED"
  BY DEF TypeOK, PositionKept, Running, InStep
<1>1. CASE Ask
  BY <1>1 DEF Ask, Keeps, counters
<1>2. CASE Unusable \/ Finish \/ Choose
  BY <1>2 DEF Unusable, Finish, Choose, Chooses, Answering, Reports, Keeps, counters, control
<1>3. CASE ModelFails
  BY <1>0, <1>3 DEF ModelFails, Answering, Fails, Ends, Keeps, counters, control
<1>4. CASE Retrieve \/ CallTool
  BY <1>4 DEF Retrieve, CallTool, Keeps, counters, control
<1>5. CASE CreateStep
  BY <1>0, <1>5, StepWritten DEF CreateStep, Writes, counters, control
<1>6. CASE CreateToolCall
  BY <1>6, CallWritten DEF CreateToolCall, Keeps, counters, control
<1>7. CASE CreateEvidence
  <2>1. step'.action = step.action
    BY <1>0, <1>7 DEF CreateEvidence, StepType
  <2>2. db'.steps = db.steps
    BY <1>7, EvidenceWritten DEF CreateEvidence
  <2> QED BY <1>7, <2>1, <2>2 DEF CreateEvidence, Keeps, counters, control
<1>8. CASE ReportFails
  <2>1. /\ pc \in {"report", "call", "evidence"} /\ pc' = "done" /\ outcome.status = ""
        /\ outcome'.status = "FAILED" /\ UNCHANGED <<count, records, turns, streak, step, control>>
    BY <1>0, <1>8 DEF ReportFails, Fails, Ends, counters
  <2>2. \/ db'.steps = db.steps
        \/ /\ pc = "report" /\ number \notin Numbers
           /\ db'.steps = db.steps \cup {Row(number, step.action)}
    BY DbStep, StepWritten, CallWritten, EvidenceWritten
  <2> QED BY <2>1, <2>2 DEF Keeps, Writes
<1>9. CASE Stop
  <2>1. /\ pc \in {"loop", "chat", "act", "report", "call", "evidence"} /\ pc' = "cancelled"
        /\ outcome' = outcome /\ outcome.status = ""
        /\ UNCHANGED <<count, records, turns, streak, step, control>>
    BY <1>0, <1>9 DEF Stop, counters
  <2>2. \/ db'.steps = db.steps
        \/ /\ pc = "report" /\ number \notin Numbers
           /\ db'.steps = db.steps \cup {Row(number, step.action)}
    BY DbStep, StepWritten, CallWritten, EvidenceWritten
  <2> QED BY <2>1, <2>2 DEF Keeps, Writes
<1>10. CASE ReturnObserved \/ ReturnUnusable \/ ReturnFinish
  BY <1>10, ReturnReturns
<1>13. CASE Cancel \/ RunsLate \/ UNCHANGED vars
  <2>1. UNCHANGED <<pc, db, count, records, turns, streak, control, step, outcome>>
    BY <1>13 DEF Cancel, RunsLate, vars, counters, control
  <2> QED BY <1>0, <2>1 DEF Keeps, Running, InStep
<1> QED BY <1>1, <1>2, <1>3, <1>4, <1>5, <1>6, <1>7, <1>8, <1>9, <1>10, <1>13
        DEF Next, Run

(* Counting one more: where the numbers up to count + 1 lie.               *)
LEMMA Counting ==
  ASSUME NEW c \in Nat
  PROVE  /\ c + 1 \in Nat /\ c + 1 # c /\ c + 1 > 0
         /\ 1..(c + 1) = 1..c \cup {c + 1} /\ c + 1 \notin 1..c
         /\ 1..((c + 1) + 1) = 1..(c + 1) \cup {(c + 1) + 1}
         /\ (c + 1) + 1 \notin 1..(c + 1)
OBVIOUS

(* Every step keeps the rows and the records in agreement.                 *)
LEMMA RowsStep ==
  ASSUME TypeOK, PositionKept, RowsKept, [Next]_vars
  PROVE  RowsKept'
<1> DEFINE next == count + 1
<1>0. /\ count \in Nat /\ next \in Nat /\ next # count /\ next > 0
      /\ 1..next = 1..count \cup {next} /\ next \notin 1..count
      /\ 1..(next + 1) = 1..next \cup {next + 1} /\ next + 1 \notin 1..next
  BY Counting DEF TypeOK
<1>1. CASE Writes
  <2> DEFINE row == Row(next, step.action)
  <2>1. /\ number = next /\ row.number = next /\ row.action = step.action
        /\ db'.steps = db.steps \cup {row} /\ \A s \in db.steps : s.number # next
        /\ forced # "" => step.action # "TOOL_CALL"
    BY <1>1 DEF Writes, PositionKept, InStep, Row, Numbers, Observing
  <2>2. /\ UNCHANGED <<count, records, step, number, forced>>
        /\ pc' \in {"call", "evidence", "return", "done", "cancelled"}
        /\ outcome'.status # "SUCCEEDED" /\ outcome.status # "SUCCEEDED"
    BY <1>1 DEF Writes, control, PositionKept
  <2> HIDE DEF next, row
  <2>3. /\ \A n \in 1..count : Row(n, records[n].action) \in db'.steps
        /\ \A s \in db'.steps : s.number \in 1..next
        /\ \A s \in db'.steps : s.number \in 1..count => s.action = records[s.number].action
    BY <1>0, <2>1 DEF RowsKept, next
  <2>4. /\ \A s \in db'.steps : s.number = next => s.action = step.action
        /\ \A s \in db'.steps : s.number = number /\ forced # "" => s.action # "TOOL_CALL"
        /\ row \in db'.steps
    BY <2>1
  <2>5. \A n \in 1..count : records[n].action # "FINISH"
    BY <2>2 DEF RowsKept
  <2> QED BY <2>2, <2>3, <2>4, <2>5 DEF RowsKept, next, row
<1>2. CASE Keeps
  <2> HIDE DEF next
  <2>1. UNCHANGED <<count, records>> /\ db'.steps = db.steps
    BY <1>2 DEF Keeps
  <2>2. /\ \A n \in 1..count' : Row(n, records'[n].action) \in db'.steps
        /\ \A s \in db'.steps : s.number \in 1..next'
        /\ \A s \in db'.steps : s.number \in 1..count' => s.action = records'[s.number].action
    BY <2>1 DEF RowsKept, next
  <2>3. /\ pc \in {"loop", "chat", "act", "report"} => \A s \in db.steps : s.number # next
    BY <1>0, <1>2 DEF RowsKept, next
  <2>4. \/ UNCHANGED <<number, forced>>
        \/ pc = "loop" /\ number' = next
    BY <1>2 DEF Keeps, PositionKept, control, next
  <2>5. \A s \in db.steps : s.number = number' /\ forced' # "" => s.action # "TOOL_CALL"
    BY <2>3, <2>4 DEF RowsKept
  <2>6. \/ pc' \notin {"call", "evidence", "return"} /\ \A s \in db.steps : s.number # next
        \/ /\ pc \in {"call", "evidence", "return", "done", "cancelled"}
           /\ pc' \in {"call", "evidence", "return", "done", "cancelled"}
           /\ pc' \in {"call", "evidence", "return"} => pc \in {"call", "evidence", "return"}
           /\ step'.action = step.action
    BY <1>2, <2>3 DEF Keeps
  <2>7. outcome'.status = "SUCCEEDED" <=> outcome.status = "SUCCEEDED"
    BY <1>2 DEF Keeps
  <2>8. \A s \in db'.steps : s.number = count' + 1 =>
          /\ pc' \in {"call", "evidence", "return", "done", "cancelled"}
          /\ outcome'.status # "SUCCEEDED"
          /\ s.action = step'.action
    BY <2>1, <2>6, <2>7 DEF RowsKept, next
  <2>9. pc' \in {"call", "evidence", "return"} => Row(count' + 1, step'.action) \in db'.steps
    BY <2>1, <2>6 DEF RowsKept, next
  <2>10. IF outcome'.status = "SUCCEEDED"
         THEN count' > 0 /\ \A n \in 1..count' : records'[n].action = "FINISH" <=> n = count'
         ELSE \A n \in 1..count' : records'[n].action # "FINISH"
    BY <2>1, <2>7 DEF RowsKept
  <2> QED BY <2>1, <2>2, <2>5, <2>8, <2>9, <2>10 DEF RowsKept, next
<1>3. CASE Returns
  <2>1. /\ count' = next /\ number = next /\ pc = "return"
        /\ records'[next] = step /\ \A n \in 1..count : records'[n] = records[n]
    BY <1>3, RecordedStep DEF Returns
  <2>2. UNCHANGED <<number, forced, step>> /\ db' = db
    BY <1>3 DEF Returns, control
  <2>3. outcome.status # "SUCCEEDED" /\ (outcome'.status = "SUCCEEDED" <=> step.action = "FINISH")
    BY <1>3, <2>1 DEF Returns, PositionKept
  <2> HIDE DEF next
  <2>4. /\ \A n \in 1..count : Row(n, records[n].action) \in db.steps
        /\ Row(next, step.action) \in db.steps
        /\ \A s \in db.steps : s.number \in 1..next
        /\ \A s \in db.steps : s.number \in 1..count => s.action = records[s.number].action
        /\ \A s \in db.steps : s.number = next => s.action = step.action
        /\ \A s \in db.steps : s.number = number /\ forced # "" => s.action # "TOOL_CALL"
        /\ \A n \in 1..count : records[n].action # "FINISH"
    BY <2>1, <2>3 DEF RowsKept, next
  <2>5. /\ \A n \in 1..next : Row(n, records'[n].action) \in db.steps
        /\ \A s \in db.steps : s.number \in 1..next => s.action = records'[s.number].action
        /\ \A s \in db.steps : s.number \in 1..(next + 1) /\ s.number # next + 1
    BY <1>0, <2>1, <2>4
  <2>6. IF outcome'.status = "SUCCEEDED"
        THEN next > 0 /\ \A n \in 1..next : records'[n].action = "FINISH" <=> n = next
        ELSE \A n \in 1..next : records'[n].action # "FINISH"
    BY <1>0, <2>1, <2>3, <2>4
  <2>7. pc' \notin {"call", "evidence", "return"}
    BY <1>3 DEF Returns
  <2> QED BY <2>1, <2>2, <2>4, <2>5, <2>6, <2>7 DEF RowsKept
<1> QED BY <1>1, <1>2, <1>3, WritesReturnsKeeps

(* What a step does to tool_calls and the count of the calls: a call is    *)
(* made, its row written, its step recorded; or nothing of the kind, and   *)
(* then a call still owed its row stays so while the attempt runs.         *)
CallMade ==
  /\ pc = "act" /\ step.action = "TOOL_CALL" /\ pc' = "report"
  /\ toolCalls' = toolCalls + 1
  /\ db'.calls = db.calls
  /\ UNCHANGED <<count, records, step, outcome>>

CallRow ==
  /\ pc = "call" /\ pc' \in {"return", "done", "cancelled"}
  /\ db'.calls = db.calls \cup {number}
  /\ UNCHANGED <<toolCalls, count, records, step>>
  /\ outcome'.status # "SUCCEEDED"

CallReturns ==
  /\ Returns
  /\ UNCHANGED toolCalls

NoCall ==
  /\ db'.calls = db.calls
  /\ UNCHANGED <<toolCalls, count, records>>
  /\ outcome'.status = "SUCCEEDED" <=> outcome.status = "SUCCEEDED"
  /\ Owing' => Owing
  /\ pc' \in Running => pc \in Running /\ (Owing => Owing')
  /\ pc \in {"return", "done", "cancelled"} =>
       step' = step /\ pc' \in {"return", "done", "cancelled"}
  /\ pc' = "return" /\ step'.action = "TOOL_CALL" => pc = "return"
  /\ outcome.status = "SUCCEEDED" => pc = "done" /\ pc' = "done"

(* Every step does one of the four.                                        *)
LEMMA CallKinds ==
  ASSUME TypeOK, PositionKept, [Next]_vars
  PROVE  CallMade \/ CallRow \/ CallReturns \/ NoCall
<1> USE DEF Running, InStep, Owing
<1>0. /\ pc \in Running \cup {"done", "cancelled"} /\ step \in StepType
      /\ pc # "done" => outcome.status = ""
      /\ pc = "chat" => step.action # "FINISH"
      /\ pc = "evidence" => step.action = "FINISH"
      /\ pc = "act" => step.action \in Observing
  BY DEF TypeOK, PositionKept
<1>1. CASE Ask
  BY <1>0, <1>1 DEF Ask, NoCall, counters
<1>2. CASE Unusable \/ Finish
  <2>1. /\ pc = "chat" /\ pc' = "report" /\ step'.action # "TOOL_CALL"
        /\ UNCHANGED <<db, toolCalls, count, records, outcome>>
    <3>1. CASE Unusable
      BY <3>1 DEF Unusable, Answering, Reports, NoTool, counters
    <3>2. CASE Finish
      BY <3>2 DEF Finish, Answering, Reports, NoTool, counters
    <3> QED BY <1>2, <3>1, <3>2
  <2> QED BY <1>0, <2>1 DEF NoCall
<1>3. CASE ModelFails
  BY <1>0, <1>3 DEF ModelFails, Answering, Fails, Ends, NoCall, counters
<1>4. CASE Choose
  BY <1>0, <1>4 DEF Choose, Chooses, Answering, NoCall, counters
<1>5. CASE Retrieve
  <2>1. step'.action = step.action
    BY <1>0, <1>5 DEF Retrieve, StepType
  <2> QED BY <1>0, <1>5, <2>1 DEF Retrieve, NoCall, counters
<1>6. CASE CallTool
  BY <1>6 DEF CallTool, CallMade
<1>7. CASE CreateStep
  <2>1. db'.calls = db.calls
    BY <1>7, StepWritten DEF CreateStep
  <2> QED BY <1>0, <1>7, <2>1 DEF CreateStep, NoCall, counters
<1>8. CASE CreateToolCall
  BY <1>0, <1>8, CallWritten DEF CreateToolCall, CallRow, counters
<1>9. CASE CreateEvidence
  <2>1. step'.action = step.action
    BY <1>0, <1>9 DEF CreateEvidence, StepType
  <2>2. db'.calls = db.calls
    BY <1>9, EvidenceWritten DEF CreateEvidence
  <2> QED BY <1>0, <1>9, <2>1, <2>2 DEF CreateEvidence, NoCall, counters
<1>10. CASE ReportFails
  <2>1. /\ pc \in {"report", "call", "evidence"} /\ pc' = "done" /\ outcome.status = ""
        /\ outcome'.status = "FAILED" /\ UNCHANGED <<toolCalls, count, records, step>>
    BY <1>0, <1>10 DEF ReportFails, Fails, Ends, counters
  <2>2. \/ db'.calls = db.calls
        \/ pc = "call" /\ db'.calls = db.calls \cup {number}
    BY DbStep, StepWritten, CallWritten, EvidenceWritten
  <2> QED BY <2>1, <2>2 DEF NoCall, CallRow
<1>11. CASE Stop
  <2>1. /\ pc \in {"loop", "chat", "act", "report", "call", "evidence"} /\ pc' = "cancelled"
        /\ outcome' = outcome /\ outcome.status = ""
        /\ UNCHANGED <<toolCalls, count, records, step>>
    BY <1>0, <1>11 DEF Stop, counters
  <2>2. \/ db'.calls = db.calls
        \/ pc = "call" /\ db'.calls = db.calls \cup {number}
    BY DbStep, StepWritten, CallWritten, EvidenceWritten
  <2> QED BY <2>1, <2>2 DEF NoCall, CallRow
<1>12. CASE ReturnObserved \/ ReturnUnusable \/ ReturnFinish
  <2>1. Returns
    BY <1>12, ReturnReturns
  <2> QED BY <1>12, <2>1 DEF ReturnObserved, ReturnUnusable, ReturnFinish, CallReturns
<1>13. CASE Cancel \/ RunsLate \/ UNCHANGED vars
  <2>1. UNCHANGED <<pc, db, count, records, toolCalls, step, outcome>>
    BY <1>13 DEF Cancel, RunsLate, vars, counters, control
  <2> QED BY <1>0, <2>1 DEF NoCall
<1> QED BY <1>1, <1>2, <1>3, <1>4, <1>5, <1>6, <1>7, <1>8, <1>9, <1>10, <1>11, <1>12, <1>13
        DEF Next, Run

(* There are finitely many numbers up to c + 1.                            *)
LEMMA UpToFinite ==
  ASSUME NEW c \in Nat
  PROVE  IsFiniteSet(1..(c + 1))
BY FS_Interval

(* The numbers that have a tool_calls row can be counted.                  *)
LEMMA CallsCounted ==
  ASSUME TypeOK, CallsKept
  PROVE  IsFiniteSet(db.calls) /\ Cardinality(db.calls) \in Nat
<1>1. IsFiniteSet(1..(count + 1))
  BY UpToFinite DEF TypeOK
<1>2. IsFiniteSet(db.calls)
  BY <1>1, FS_Subset DEF CallsKept
<1> QED BY <1>2, FS_CardinalityType

(* Every step keeps the tool_calls rows and the counted calls in agreement. *)
LEMMA CallsStep ==
  ASSUME TypeOK, PositionKept, CallsKept, [Next]_vars
  PROVE  CallsKept'
<1> DEFINE next == count + 1
           made == Cardinality(db.calls)
<1>0. /\ count \in Nat /\ next \in Nat /\ next # count
      /\ 1..next = 1..count \cup {next} /\ next \notin 1..count
      /\ 1..(next + 1) = 1..next \cup {next + 1} /\ next + 1 \notin 1..next
  BY Counting DEF TypeOK
<1>1. made \in Nat /\ made + 1 \in Nat /\ IsFiniteSet(db.calls)
  BY CallsCounted
<1>2. /\ db.calls \subseteq 1..next
      /\ \A n \in 1..count : n \in db.calls <=> records[n].action = "TOOL_CALL"
      /\ next \in db.calls =>
           /\ pc \in {"return", "done", "cancelled"} /\ step.action = "TOOL_CALL"
           /\ outcome.status # "SUCCEEDED"
      /\ pc = "return" /\ step.action = "TOOL_CALL" => next \in db.calls
  BY DEF CallsKept
<1>3. toolCalls \in Nat /\ toolCalls + 1 \in Nat /\ toolCalls <= toolCalls
      /\ toolCalls + 1 <= toolCalls + 1 /\ (made + 1 <= toolCalls => made <= toolCalls)
  <2>1. toolCalls \in Nat
    BY DEF TypeOK
  <2> QED BY <1>1, <2>1, OneMore
<1> HIDE DEF next, made
<1>4. CASE CallMade
  <2>1. /\ ~Owing /\ pc \in Running /\ Owing' /\ toolCalls' = toolCalls + 1
        /\ UNCHANGED <<count, records, step, outcome>> /\ db'.calls = db.calls
        /\ pc' = "report" /\ pc \notin {"return", "done", "cancelled"}
    BY <1>4 DEF CallMade, Owing, Running, InStep
  <2>2. Made = made /\ Made = toolCalls /\ Made' = made + 1
    BY <2>1 DEF CallsKept, Made, made
  <2>3. Made' <= toolCalls' /\ Made' = toolCalls'
    BY <1>3, <2>1, <2>2
  <2> QED BY <1>2, <2>1, <2>3 DEF CallsKept, next
<1>5. CASE CallRow
  <2>1. /\ db'.calls = db.calls \cup {next} /\ next \notin db.calls
        /\ UNCHANGED <<toolCalls, count, records, step>>
        /\ pc \in Running /\ outcome'.status # "SUCCEEDED" /\ step.action = "TOOL_CALL"
        /\ pc' \in {"return", "done", "cancelled"} /\ Owing /\ ~Owing'
    BY <1>2, <1>5 DEF CallRow, PositionKept, InStep, Running, Owing, next
  <2>2. Cardinality(db'.calls) = made + 1
    BY <1>1, <2>1, FS_AddElement DEF made
  <2>3. Made' = Made /\ Made <= toolCalls /\ Made = toolCalls
    BY <2>1, <2>2 DEF CallsKept, Made, made
  <2>4. /\ db'.calls \subseteq 1..next
        /\ \A n \in 1..count : n \in db'.calls <=> records[n].action = "TOOL_CALL"
    BY <1>0, <1>2, <2>1
  <2> QED BY <2>1, <2>3, <2>4 DEF CallsKept, next
<1>6. CASE CallReturns
  <2>1. /\ count' = next /\ number = next /\ pc = "return" /\ db' = db
        /\ records'[next] = step /\ \A n \in 1..count : records'[n] = records[n]
        /\ pc' \in {"loop", "done"} /\ toolCalls' = toolCalls /\ step' = step
    BY <1>6, RecordedStep DEF CallReturns, Returns, next
  <2>2. Made' = Made /\ Made <= toolCalls /\ Made = toolCalls
    BY <2>1 DEF CallsKept, Made, Owing, Running, InStep
  <2>3. /\ db.calls \subseteq 1..(next + 1) /\ next + 1 \notin db.calls
        /\ \A n \in 1..next : n \in db.calls <=> records'[n].action = "TOOL_CALL"
    BY <1>0, <1>2, <2>1
  <2> QED BY <2>1, <2>2, <2>3 DEF CallsKept
<1>7. CASE NoCall
  <2>1. UNCHANGED <<toolCalls, count, records>> /\ db'.calls = db.calls
    BY <1>7 DEF NoCall
  <2>2. Made' <= toolCalls' /\ (pc' \in Running \/ outcome'.status = "SUCCEEDED" => Made' = toolCalls')
    <3>1. Made \in {made, made + 1} /\ Made' \in {made, made + 1} /\ Made <= toolCalls
      BY <2>1 DEF CallsKept, Made, made
    <3>2. CASE Owing' <=> Owing
      <4>1. Made' = Made
        BY <2>1, <3>2 DEF Made
      <4> QED BY <1>7, <2>1, <4>1 DEF NoCall, CallsKept
    <3>3. CASE Owing /\ ~Owing'
      <4>1. Made = made + 1 /\ Made' = made
        BY <2>1, <3>3 DEF Made, made
      <4>2. Made' <= toolCalls'
        BY <1>3, <2>1, <3>1, <4>1
      <4> QED BY <1>7, <3>3, <4>2 DEF NoCall, Owing
    <3> QED BY <1>7, <3>2, <3>3 DEF NoCall
  <2>3. next \in db.calls =>
           /\ pc' \in {"return", "done", "cancelled"} /\ step'.action = "TOOL_CALL"
           /\ outcome'.status # "SUCCEEDED"
    BY <1>2, <1>7 DEF NoCall
  <2>4. pc' = "return" /\ step'.action = "TOOL_CALL" => next \in db.calls
    BY <1>2, <1>7 DEF NoCall
  <2> QED BY <1>2, <2>1, <2>2, <2>3, <2>4 DEF CallsKept, next
<1> QED BY <1>4, <1>5, <1>6, <1>7, CallKinds

(* One after, and two after, a number up to c.                             *)
LEMMA NextButOne ==
  ASSUME NEW c \in Nat, NEW n \in 1..c
  PROVE  /\ n + 1 \in 1..(c + 1) /\ n \in 1..(c + 1)
         /\ n + 1 \in 1..c \/ n = c
         /\ n + 1 # n /\ (n + 1 = c + 1 => n = c)
         /\ n + 2 \in 1..(c + 1) => n + 1 \in 1..c
OBVIOUS

(* What has a successor up to c + 1 is at most c.                          *)
LEMMA Before ==
  ASSUME NEW c \in Nat, NEW n \in 1..(c + 1), n + 1 \in 1..(c + 1)
  PROVE  n \in 1..c
OBVIOUS

(* One more and one less is none the less.                                 *)
LEMMA Less == ASSUME NEW c \in Nat PROVE (c + 1) - 1 = c
OBVIOUS

(* Every step keeps the streak true: two unusable answers in a row are on  *)
(* record only in an attempt that ended with the second.                   *)
LEMMA StreakStep ==
  ASSUME TypeOK, PositionKept, RowsKept, StreakKept, RowsKept', [Next]_vars
  PROVE  StreakKept'
<1> DEFINE next == count + 1
           none(n) == records[n].action = "NONE"
<1>0. /\ count \in Nat /\ next \in Nat /\ next # count /\ next > 0 /\ streak \in Nat
      /\ 1..next = 1..count \cup {next} /\ next \notin 1..count
      /\ next + 1 \notin 1..next
  BY Counting DEF TypeOK
<1>1. pc \in Running => /\ \A n \in 1..count : n + 1 \in 1..count /\ none(n) => ~none(n + 1)
                        /\ streak = 0 /\ count > 0 => ~none(count)
  BY DEF StreakKept
<1>2. \A s \in db.steps : /\ s.number \in 1..next
                          /\ s.number \in 1..count => s.action = records[s.number].action
  BY DEF RowsKept
<1>3. \A n \in 1..count : n + 1 \in 1..next /\ (n + 2 \in 1..next => n + 1 \in 1..count)
  BY <1>0, NextButOne
<1>4. CASE pc \in Running /\ UNCHANGED <<count, records, streak>>
  <2>1. \A s \in db'.steps : /\ s.number \in 1..next
                             /\ s.number \in 1..count => s.action = records[s.number].action
    BY <1>4 DEF RowsKept
  <2> HIDE DEF next
  <2>2. ASSUME NEW n \in 1..count, Row(n, "NONE") \in db'.steps, Row(n + 1, "NONE") \in db'.steps,
               NEW s \in db'.steps, s.number = n + 2
        PROVE  FALSE
    <3>1. n + 1 \in 1..count
      BY <1>3, <2>1, <2>2
    <3>2. none(n) /\ none(n + 1)
      BY <2>1, <2>2, <3>1 DEF Row
    <3> QED BY <1>1, <1>4, <3>1, <3>2
  <2> QED BY <1>1, <1>4, <2>2 DEF StreakKept
<1>5. CASE Returns
  <2>1. /\ count' = next /\ number = next /\ pc = "return" /\ db' = db
        /\ records'[next] = step /\ \A n \in 1..count : records'[n] = records[n]
    BY <1>5, RecordedStep DEF Returns
  <2>2. pc \in Running
    BY <2>1 DEF Running, InStep
  <2>3. pc' \in Running /\ step.action = "NONE" => streak = 0 /\ streak' # 0
    BY <1>5 DEF Returns, Running, InStep
  <2> HIDE DEF next
  <2>4. \A n \in 1..next : n \in 1..count \/ n = next
    BY <1>0
  <2>5. ASSUME NEW n \in 1..next, Row(n, "NONE") \in db.steps, Row(n + 1, "NONE") \in db.steps,
               NEW s \in db.steps, s.number = n + 2
        PROVE  FALSE
    <3>1. n \in 1..count
      BY <1>0, <1>2, <2>4, <2>5 DEF Row
    <3>2. n + 1 \in 1..count
      BY <1>2, <1>3, <2>5, <3>1
    <3>3. none(n) /\ none(n + 1)
      BY <1>2, <2>5, <3>1, <3>2 DEF Row
    <3> QED BY <1>1, <2>2, <3>1, <3>2, <3>3
  <2>6. ASSUME pc' \in Running, NEW n \in 1..next, n + 1 \in 1..next,
               records'[n].action = "NONE"
        PROVE  records'[n + 1].action # "NONE"
    <3>1. n \in 1..count
      BY <1>0, <2>4, <2>6
    <3>2. CASE n + 1 \in 1..count
      BY <1>1, <2>1, <2>2, <2>6, <3>1, <3>2
    <3>3. CASE n + 1 = next
      <4>1. n = count /\ count > 0
        BY <1>0, <3>1, <3>3, NextButOne DEF next
      <4> QED BY <1>1, <2>1, <2>2, <2>3, <2>6, <3>1, <3>3, <4>1
    <3> QED BY <2>4, <2>6, <3>2, <3>3
  <2>7. pc' \in Running /\ streak' = 0 => records'[next].action # "NONE"
    BY <1>0, <2>1, <2>3
  <2> QED BY <2>1, <2>5, <2>6, <2>7 DEF StreakKept
<1>6. CASE pc \notin Running /\ pc' \notin Running /\ UNCHANGED <<count, records>> /\ db'.steps = db.steps
  BY <1>6 DEF StreakKept
<1> QED BY <1>4, <1>5, <1>6, WritesReturnsKeeps DEF Writes, Keeps, Running, InStep

(* A citation stays grounded: no step changes what is on record.           *)
LEMMA StaysGrounded ==
  ASSUME TypeOK, PositionKept, [Next]_vars, NEW e, Grounded(e)
  PROVE  Grounded(e)'
<1>1. CASE UNCHANGED <<count, records>>
  BY <1>1 DEF Grounded
<1>2. CASE Returns
  <2>1. /\ count' = count + 1 /\ \A n \in 1..count : records'[n] = records[n]
    BY <1>2, RecordedStep DEF Returns
  <2>2. 1..(count + 1) = 1..count \cup {count + 1}
    BY Counting DEF TypeOK
  <2> QED BY <2>1, <2>2 DEF Grounded
<1> QED BY <1>1, <1>2, WritesReturnsKeeps DEF Writes, Keeps

(* The citations of the step in hand: a finish brings resolved ones, a     *)
(* written one leaves.                                                     *)
LEMMA CitationsInHand ==
  ASSUME TypeOK, [Next]_vars
  PROVE  \A e \in step'.evidence : e \in step.evidence \/ Grounded(e)
<1>0. step \in StepType
  BY DEF TypeOK
<1>1. CASE Finish
  <2>1. PICK cited \in SUBSET Citations : step'.evidence = Resolve(cited)
    BY <1>1 DEF Finish, Reports, NoTool
  <2> QED BY <2>1, Resolved
<1>2. CASE Unusable \/ Choose
  <2>1. step'.evidence = {}
    <3>1. CASE Unusable
      BY <3>1 DEF Unusable, Reports, NoTool
    <3>2. CASE Choose
      BY <3>2 DEF Choose, Chooses, NoTool
    <3> QED BY <1>2, <3>1, <3>2
  <2> QED BY <2>1
<1>3. CASE Retrieve
  <2>1. step'.evidence = step.evidence
    BY <1>0, <1>3 DEF Retrieve, StepType
  <2> QED BY <2>1
<1>4. CASE CreateEvidence
  <2>1. step'.evidence \subseteq step.evidence
    BY <1>0, <1>4 DEF CreateEvidence, StepType
  <2> QED BY <2>1
<1>5. CASE step' = step
  BY <1>5
<1>6. CASE Ask \/ ModelFails \/ CallTool \/ CreateStep \/ CreateToolCall
  BY <1>5, <1>6 DEF Ask, ModelFails, CallTool, CreateStep, CreateToolCall
<1>7. CASE ReportFails \/ ReturnObserved \/ ReturnUnusable \/ ReturnFinish \/ Stop
  BY <1>5, <1>7 DEF ReportFails, ReturnObserved, ReturnUnusable, ReturnFinish, Stop
<1>8. CASE Cancel \/ RunsLate \/ UNCHANGED vars
  BY <1>5, <1>8 DEF Cancel, RunsLate, vars
<1> QED BY <1>1, <1>2, <1>3, <1>4, <1>6, <1>7, <1>8 DEF Next, Run

(* Every step keeps the citations grounded, in hand and in the table.      *)
LEMMA SourcesStep ==
  ASSUME TypeOK, PositionKept, SourcesKept, [Next]_vars
  PROVE  SourcesKept'
<1>1. \A e \in step'.evidence : Grounded(e)'
  <2>1. \A e \in step'.evidence : Grounded(e)
    BY CitationsInHand DEF SourcesKept
  <2> QED BY <2>1, StaysGrounded
<1>2. ASSUME NEW e \in db'.evidence
      PROVE  Grounded(e)' /\ (e.doc # NoDoc => e.doc \in Live)
  <2>1. CASE e \in db.evidence
    BY <2>1, StaysGrounded DEF SourcesKept
  <2>2. CASE e \notin db.evidence
    <3>1. PICK c \in step.evidence : db' = WithEvidence(c)
      BY <2>2, DbStep, StepWritten, CallWritten
    <3>2. /\ e.step = c.step /\ e.call = c.call
          /\ e.doc # NoDoc => e.doc = c.doc /\ e.doc \in Live
      BY <2>2, <3>1, EvidenceWritten
    <3>3. Grounded(c)'
      BY StaysGrounded DEF SourcesKept
    <3> QED BY <3>2, <3>3 DEF Grounded
  <2> QED BY <2>1, <2>2
<1> QED BY <1>1, <1>2 DEF SourcesKept

(* Appending to a sequence moves no element and adds one at the end.       *)
LEMMA Appended ==
  ASSUME NEW S, NEW s \in Seq(S), NEW e \in S
  PROVE  /\ Len(Append(s, e)) = Len(s) + 1
         /\ \A i \in 1..Len(s) : Append(s, e)[i] = s[i]
         /\ Append(s, e)[Len(s) + 1] = e
OBVIOUS

(* Every step keeps the labels of the prompt the numbers of the records.   *)
LEMMA LabelsStep ==
  ASSUME TypeOK, PositionKept, LabelsKept, [Next]_vars
  PROVE  LabelsKept'
<1> DEFINE next == count + 1
<1>1. CASE Returns /\ pc' = "loop"
  <2>1. /\ count' = next /\ number = next /\ pc \in Running
    BY <1>1, RecordedStep DEF Returns, Running, InStep
  <2>2. 1..next = 1..count \cup {next} /\ next \in Nat
    BY Counting DEF TypeOK
  <2>3. PICK b \in BOOLEAN : turns' = Append(turns, [number |-> number, none |-> b])
    BY <1>1 DEF Returns
  <2> DEFINE turn == [number |-> number, none |-> b]
  <2>4. turn.number = next /\ turn \in TurnType
    BY <2>1, <2>2 DEF TurnType
  <2> HIDE DEF turn
  <2>5. /\ Len(turns') = next /\ turns'[next] = turn
        /\ \A i \in 1..count : turns'[i] = turns[i]
    <3>1. turns \in Seq(TurnType) /\ Len(turns) = count /\ turns' = Append(turns, turn)
      BY <2>1, <2>3 DEF TypeOK, LabelsKept, turn
    <3> QED BY <2>4, <3>1, Appended
  <2> HIDE DEF next
  <2> QED BY <2>1, <2>2, <2>4, <2>5 DEF LabelsKept
<1>2. CASE Returns /\ pc' # "loop"
  BY <1>2 DEF Returns, LabelsKept, Running, InStep
<1>3. CASE Writes \/ Keeps
  <2>1. UNCHANGED <<turns, count>> /\ (pc' \in Running => pc \in Running)
    BY <1>3 DEF Writes, Keeps, Running, InStep
  <2> QED BY <2>1 DEF LabelsKept
<1> QED BY <1>1, <1>2, <1>3, WritesReturnsKeeps

-----------------------------------------------------------------------------
(* The theorems                                                            *)

(* What the empty attempt satisfies.                                       *)
LEMMA NothingYet ==
  /\ 1..0 = {} /\ 1..(0 + 1) = {1} /\ ~(0 > 0) /\ 0 <= 0 /\ 0 \in Nat /\ Len(<< >>) = 0
  /\ << >> \in [{} -> StepType] /\ << >> \in Seq(TurnType)
  /\ \A m \in Nat \ {0} : 0 <= m /\ 0 <= m + 1 /\ 0 < m
OBVIOUS

(* The invariant holds of an attempt that has not begun.                   *)
LEMMA LoopInvInit == Init => LoopInv
<1> SUFFICES ASSUME Init PROVE LoopInv
  OBVIOUS
<1>0. /\ pc = "loop" /\ number = 0 /\ count = 0 /\ toolCalls = 0 /\ streak = 0
      /\ records = << >> /\ turns = << >> /\ forced = "" /\ step = NoTool /\ outcome = NoOutcome
      /\ db = [steps |-> {}, calls |-> {}, evidence |-> {}]
  BY DEF Init
<1>1. TypeOK
  <2>1. NoTool \in StepType
    BY DEF NoTool, StepType, Texts, Actions
  <2>2. NoOutcome \in OutcomeType
    BY NothingYet DEF NoOutcome, OutcomeType
  <2>3. db \in DbType
    BY <1>0 DEF DbType
  <2>4. records \in [1..count -> StepType] /\ turns \in Seq(TurnType)
    BY <1>0, NothingYet
  <2>5. /\ pc \in Running \cup {"done", "cancelled"} /\ forced \in Bounds \cup {""}
    BY <1>0 DEF Running
  <2>6. number \in Nat /\ count \in Nat /\ toolCalls \in Nat /\ streak \in Nat
    BY <1>0, NothingYet
  <2> QED BY <1>0, <2>1, <2>2, <2>3, <2>4, <2>5, <2>6 DEF TypeOK
<1>2. PositionKept
  BY <1>0 DEF PositionKept, Running, InStep, NoTool, NoOutcome
<1>3. BudgetLeft
  <2>1. 0 <= MaxSteps + 1 /\ 0 <= MaxSteps /\ 0 <= MaxToolCalls
    BY LoopAssumption, NothingYet
  <2> QED BY <1>0, <2>1 DEF BudgetLeft
<1>4. RowsKept
  <2>1. db.steps = {} /\ 1..count = {} /\ outcome.status # "SUCCEEDED"
        /\ pc \notin {"call", "evidence", "return"}
    BY <1>0, NothingYet DEF NoOutcome
  <2> QED BY <2>1 DEF RowsKept
<1>5. CallsKept
  <2>1. db.calls = {} /\ Cardinality(db.calls) = 0 /\ 1..count = {} /\ toolCalls = 0
        /\ pc # "return" /\ ~Owing
    BY <1>0, NothingYet, FS_EmptySet DEF Owing
  <2>2. Made = toolCalls /\ Made <= toolCalls
    BY <2>1, NothingYet DEF Made
  <2> QED BY <2>1, <2>2 DEF CallsKept
<1>6. StreakKept
  <2>1. 1..count = {} /\ ~(count > 0)
    BY <1>0, NothingYet
  <2> QED BY <2>1 DEF StreakKept
<1>7. SourcesKept
  BY <1>0 DEF SourcesKept, NoTool
<1>8. LabelsKept
  <2>1. 1..count = {} /\ Len(turns) = count
    BY <1>0, NothingYet
  <2> QED BY <2>1 DEF LabelsKept
<1> QED BY <1>1, <1>2, <1>3, <1>4, <1>5, <1>6, <1>7, <1>8 DEF LoopInv

(* No step breaks it.                                                      *)
LEMMA LoopInvStep == LoopInv /\ [Next]_vars => LoopInv'
BY TypeStep, PositionStep, BudgetStep, RowsStep, CallsStep, StreakStep, SourcesStep, LabelsStep
   DEF LoopInv

(* The inductive invariant of one attempt.                                 *)
THEOREM LoopInvHolds == Spec => []LoopInv
BY LoopInvInit, LoopInvStep, PTL DEF Spec

-----------------------------------------------------------------------------
(* What the invariant says of the rows a reader finds                      *)

(* The actions recorded under a number are those of its rows.              *)
LEMMA RowsAt ==
  ASSUME TypeOK, NEW n, NEW a
  PROVE  a \in ActionsAt(n) <=> Row(n, a) \in db.steps
<1>1. \A s \in db.steps : s = Row(s.number, s.action)
  <2>1. \A s \in db.steps : s \in RowType
    BY DEF TypeOK, DbType
  <2> QED BY <2>1 DEF RowType, Row
<1> QED BY <1>1 DEF ActionsAt, Row

(* A step on record has one row, which bears its action.                   *)
LEMMA OneRow ==
  ASSUME TypeOK, RowsKept, NEW n \in 1..count
  PROVE  ActionsAt(n) = {records[n].action}
<1>1. Row(n, records[n].action) \in db.steps
  BY DEF RowsKept
<1>2. \A s \in db.steps : s.number = n => s.action = records[n].action
  BY DEF RowsKept
<1> QED BY <1>1, <1>2 DEF ActionsAt, Row

(* The numbers of the rows are those of the records, and at most one more, *)
(* that of the step in hand.                                               *)
LEMMA RowNumbers ==
  ASSUME TypeOK, RowsKept
  PROVE  /\ Numbers \in {1..count, 1..(count + 1)}
         /\ (\A s \in db.steps : s.number # count + 1) => Numbers = 1..count
<1> DEFINE next == count + 1
<1>1. 1..next = 1..count \cup {next}
  BY Counting DEF TypeOK
<1>2. 1..count \subseteq Numbers
  <2>1. \A n \in 1..count : \E s \in db.steps : s.number = n
    BY DEF RowsKept, Row
  <2> QED BY <2>1 DEF Numbers
<1>3. Numbers \subseteq 1..next
  BY DEF RowsKept, Numbers
<1> HIDE DEF next
<1>4. (\A s \in db.steps : s.number # next) => next \notin Numbers
  BY DEF Numbers
<1>5. Numbers = 1..count \/ Numbers = 1..next
  BY <1>1, <1>2, <1>3
<1>6. next \notin Numbers => Numbers = 1..count
  BY <1>1, <1>2, <1>3
<1> QED BY <1>4, <1>5, <1>6 DEF next

(* No bound is overrun by more than the forced finish it buys, no tool is  *)
(* called on that step, no call has a row without being counted, and of    *)
(* two unusable answers in a row the second is the last step.              *)
LEMMA InvBudget == LoopInv => BudgetKept
<1> SUFFICES ASSUME LoopInv PROVE BudgetKept
  OBVIOUS
<1>1. TypeOK /\ BudgetLeft /\ RowsKept /\ CallsKept /\ StreakKept
  BY DEF LoopInv
<1>2. number <= IF forced = "" THEN MaxSteps ELSE MaxSteps + 1
  BY <1>1, Zenon DEF BudgetLeft
<1>3. Cardinality(db.calls) <= toolCalls
  <2>1. Cardinality(db.calls) \in Nat /\ toolCalls \in Nat
    BY <1>1, CallsCounted DEF TypeOK
  <2>2. Made <= toolCalls /\ Made \in {Cardinality(db.calls), Cardinality(db.calls) + 1}
    BY <1>1 DEF CallsKept, Made
  <2> QED BY <2>1, <2>2, OneMore
<1>4. forced # "" => "TOOL_CALL" \notin ActionsAt(number)
  BY <1>1 DEF RowsKept, ActionsAt
<1>5. ASSUME NEW n \in Numbers, ActionsAt(n) = {"NONE"}, ActionsAt(n + 1) = {"NONE"}
      PROVE  n + 2 \notin Numbers
  <2>1. Row(n, "NONE") \in db.steps /\ Row(n + 1, "NONE") \in db.steps
    BY <1>1, <1>5, RowsAt
  <2>2. n \in 1..(count + 1) /\ n + 1 \in 1..(count + 1)
    BY <1>1, <2>1 DEF RowsKept, Row
  <2>3. n \in 1..count
    <3>1. count \in Nat
      BY <1>1 DEF TypeOK
    <3> QED BY <2>2, <3>1, Before
  <2> QED BY <1>1, <2>1, <2>3 DEF StreakKept, Numbers
<1> QED BY <1>1, <1>2, <1>3, <1>4, <1>5 DEF BudgetKept, BudgetLeft

(* The rows tell the outcome's story.                                      *)
LEMMA InvAudit == LoopInv => AuditTrail
<1> SUFFICES ASSUME LoopInv PROVE AuditTrail
  OBVIOUS
<1>1. TypeOK /\ PositionKept /\ RowsKept /\ CallsKept
  BY DEF LoopInv
<1>2. outcome.status # "" => pc = "done" /\ outcome.steps = count /\ outcome.calls = toolCalls
  BY <1>1 DEF PositionKept
<1>3. ASSUME outcome.status = "SUCCEEDED"
      PROVE  /\ Numbers = 1..outcome.steps
             /\ \A s \in db.steps : s.action = "FINISH" <=> s.number = outcome.steps
             /\ outcome.calls = Cardinality(db.calls)
  <2>1. Numbers = 1..count
    BY <1>1, <1>3, RowNumbers DEF RowsKept
  <2>2. \A s \in db.steps : s.number \in 1..count /\ s.action = records[s.number].action
    BY <1>1, <2>1 DEF RowsKept, Numbers
  <2>3. \A n \in 1..count : records[n].action = "FINISH" <=> n = count
    BY <1>1, <1>3 DEF RowsKept
  <2>4. Made = toolCalls /\ ~Owing
    BY <1>1, <1>2, <1>3 DEF CallsKept, Owing
  <2>5. toolCalls = Cardinality(db.calls)
    BY <2>4 DEF Made
  <2> QED BY <1>2, <1>3, <2>1, <2>2, <2>3, <2>5
<1>4. outcome.status = "FAILED" => Numbers \in {1..outcome.steps, 1..(outcome.steps + 1)}
  BY <1>1, <1>2, RowNumbers
<1>5. outcome.status # "" =>
        \A n \in 1..outcome.steps : n \in db.calls <=> ActionsAt(n) = {"TOOL_CALL"}
  <2>1. \A n \in 1..count : n \in db.calls <=> ActionsAt(n) = {"TOOL_CALL"}
    BY <1>1, OneRow DEF CallsKept
  <2> QED BY <1>2, <2>1
<1> QED BY <1>3, <1>4, <1>5 DEF AuditTrail

(* The labels of the prompt are the numbers of the rows, and the evidence  *)
(* rows are true of them.                                                  *)
LEMMA InvCitations == LoopInv => CitationsHold
<1> SUFFICES ASSUME LoopInv PROVE CitationsHold
  OBVIOUS
<1>1. TypeOK /\ RowsKept /\ CallsKept /\ SourcesKept /\ LabelsKept
  BY DEF LoopInv
<1>2. LabelsAreSteps
  <2>1. pc = "loop" => Numbers = 1..count
    BY <1>1, RowNumbers DEF RowsKept
  <2> QED BY <1>1, <2>1 DEF LabelsAreSteps, LabelsKept, Running
<1>3. ASSUME NEW e \in db.evidence
      PROVE  /\ ActionsAt(e.step) \in {{"RETRIEVE"}, {"TOOL_CALL"}}
             /\ e.call <=> e.step \in db.calls
             /\ e.doc # NoDoc => e.doc \in records[e.step].hits \cap Live
  <2>1. Grounded(e) /\ (e.doc # NoDoc => e.doc \in Live)
    BY <1>1 DEF SourcesKept
  <2>2. ActionsAt(e.step) = {records[e.step].action}
    BY <1>1, <2>1, OneRow DEF Grounded
  <2>3. e.step \in db.calls <=> records[e.step].action = "TOOL_CALL"
    BY <1>1, <2>1 DEF CallsKept, Grounded
  <2> QED BY <2>1, <2>2, <2>3 DEF Grounded, Observing
<1> QED BY <1>2, <1>3 DEF CitationsHold, EvidenceHolds

(* BudgetKept, for every budget: the two bounds of a run hold whatever the *)
(* model answers and whichever statement fails.                            *)
THEOREM BudgetHolds == Spec => []BudgetKept
BY LoopInvHolds, InvBudget, PTL

(* AuditTrail: the rows of a run that ended tell the story of its outcome. *)
THEOREM AuditHolds == Spec => []AuditTrail
BY LoopInvHolds, InvAudit, PTL

(* CitationsHold: from the label the model was shown to the evidence row,  *)
(* a citation names a step of this run that observed what it says.         *)
THEOREM CitationsAreTrue == Spec => []CitationsHold
BY LoopInvHolds, InvCitations, PTL

-----------------------------------------------------------------------------
(* AgentLoop implements LoopContract                                       *)

Reporting == {"call", "evidence", "return"}

(* The contract's variables, position by position.                         *)
ContractAt ==
  /\ pc \in {"loop", "chat", "act"} =>
       /\ ContractPc = "loop" /\ ContractNumber = count /\ ContractCount = count
       /\ ContractKind = "work" /\ ContractNext = "loop"
  /\ pc \in {"report"} \cup Reporting =>
       /\ ContractPc = IF pc = "report" THEN "report" ELSE "detail"
       /\ ContractNumber = count + 1 /\ ContractCount = count
       /\ ContractKind = IF step.action = "FINISH" THEN "finish" ELSE "work"
       /\ ContractNext = CASE step.action = "FINISH" -> "SUCCEEDED"
                           [] step.action = "NONE" /\ (forced # "" \/ streak > 0) -> "FAILED"
                           [] OTHER -> "loop"
  /\ pc = "done" =>
       /\ ContractPc = "finish" /\ ContractNumber = number /\ ContractCount = count
       /\ ContractKind = IF step.action = "FINISH" THEN "finish" ELSE "work"
       /\ ContractNext = outcome.status
  /\ pc = "cancelled" =>
       /\ ContractPc = "cancelled" /\ ContractNumber = 0 /\ ContractCount = 0
       /\ ContractKind = "work" /\ ContractNext = "loop"

(* The invariant fixes the contract's variables at every position.         *)
LEMMA InvContractAt == LoopInv => ContractAt
<1> SUFFICES ASSUME LoopInv PROVE ContractAt
  OBVIOUS
<1>1. /\ pc \in {"loop", "chat", "act", "report", "done", "cancelled"} \cup Reporting
      /\ count \in Nat
      /\ pc \in {"loop", "chat", "act"} => step.action # "FINISH"
      /\ pc = "loop" => number = count
      /\ pc \in {"chat", "act", "report"} \cup Reporting => number = count + 1
      /\ pc = "done" => outcome.status # "" /\ outcome.steps = count
      /\ pc # "done" => outcome.status = ""
  BY DEF LoopInv, TypeOK, PositionKept, Running, InStep, Reporting
<1>2. (count + 1) - 1 = count
  BY <1>1, Less
<1>3. CASE pc = "loop"
  BY <1>1, <1>3 DEF ContractAt, ContractPc, ContractNumber, ContractCount,
     ContractKind, ContractNext, Reporting
<1>4. CASE pc \in {"chat", "act"}
  BY <1>1, <1>2, <1>4 DEF ContractAt, ContractPc, ContractNumber, ContractCount,
     ContractKind, ContractNext, Reporting
<1>5. CASE pc \in {"report"} \cup Reporting
  BY <1>1, <1>5 DEF ContractAt, ContractPc, ContractNumber, ContractCount,
     ContractKind, ContractNext, Reporting
<1>6. CASE pc = "done"
  BY <1>1, <1>6 DEF ContractAt, ContractPc, ContractNumber, ContractCount,
     ContractKind, ContractNext, Reporting
<1>7. CASE pc = "cancelled"
  BY <1>1, <1>7 DEF ContractAt, ContractPc, ContractNumber, ContractCount,
     ContractKind, ContractNext, Reporting
<1> QED BY <1>1, <1>3, <1>4, <1>5, <1>6, <1>7

(* An attempt begins where the contract does.                              *)
LEMMA InitRefines == Init => Contract!Init
<1> SUFFICES ASSUME Init PROVE Contract!Init
  OBVIOUS
<1>1. ContractAt
  BY LoopInvInit, InvContractAt
<1>2. pc = "loop" /\ count = 0
  BY DEF Init
<1> QED BY <1>1, <1>2 DEF ContractAt, Contract!Init

(* Every step of the attempt is a step of the contract or none.            *)
LEMMA StepRefines ==
  ASSUME LoopInv, ContractAt, ContractAt', [Next]_vars
  PROVE  [Contract!Next]_Contract!vars
<1> DEFINE next == count + 1
<1>0. /\ TypeOK /\ PositionKept /\ BudgetLeft /\ step \in StepType
      /\ pc \in {"chat", "act"} => number = next
  BY DEF LoopInv, TypeOK, PositionKept, InStep
<1>a. pc \in {"chat", "act"} /\ forced = "" => count < MaxSteps
  <2>1. count \in Nat /\ MaxSteps \in Nat
    BY <1>0, LoopAssumption DEF TypeOK
  <2>2. pc \in {"chat", "act"} /\ forced = "" => count + 1 <= MaxSteps
    BY <1>0 DEF BudgetLeft
  <2> QED BY <2>1, <2>2, OneMore
<1> HIDE DEF next
<1>1. CASE Ask
  BY <1>0, <1>1 DEF Ask, ContractAt, counters, Contract!vars, PositionKept
<1>2. CASE Unusable
  <2>1. /\ pc = "chat" /\ pc' = "report" /\ step'.action = "NONE"
        /\ UNCHANGED <<count, forced, streak>>
    BY <1>2 DEF Unusable, Answering, Reports, NoTool, counters, control
  <2>2. /\ ContractPc = "loop" /\ ContractNumber = count /\ ContractCount = count
        /\ ContractPc' = "report" /\ ContractNumber' = count + 1 /\ ContractCount' = count
        /\ ContractKind' = "work"
        /\ ContractNext' = IF forced # "" \/ streak > 0 THEN "FAILED" ELSE "loop"
    BY <2>1 DEF ContractAt
  <2>3. ContractNext' = "FAILED" \/ (ContractNext' = "loop" /\ count < MaxSteps)
    BY <1>a, <2>1, <2>2
  <2> QED BY <2>2, <2>3 DEF Contract!Next, Contract!Decide
<1>3. CASE ModelFails
  <2>1. /\ pc = "chat" /\ pc' = "done" /\ outcome'.status = "FAILED" /\ forced = ""
        /\ UNCHANGED <<count, number, step>>
    BY <1>3 DEF ModelFails, Answering, Fails, Ends, counters, control
  <2>2. step.action # "FINISH" /\ number = count + 1
    BY <1>0, <2>1 DEF PositionKept, next
  <2>3. /\ ContractPc = "loop" /\ ContractNumber = count /\ ContractCount = count
        /\ ContractKind = "work"
        /\ ContractPc' = "finish" /\ ContractNumber' = count + 1 /\ ContractCount' = count
        /\ ContractKind' = "work" /\ ContractNext' = "FAILED"
    BY <2>1, <2>2 DEF ContractAt
  <2> QED BY <1>a, <2>1, <2>3 DEF Contract!Next, Contract!ModelFails
<1>4. CASE Finish
  <2>1. pc = "chat" /\ pc' = "report" /\ step'.action = "FINISH" /\ UNCHANGED count
    BY <1>4 DEF Finish, Answering, Reports, NoTool, counters
  <2>2. /\ ContractPc = "loop" /\ ContractNumber = count /\ ContractCount = count
        /\ ContractPc' = "report" /\ ContractNumber' = count + 1 /\ ContractCount' = count
        /\ ContractKind' = "finish" /\ ContractNext' = "SUCCEEDED"
    BY <2>1 DEF ContractAt
  <2> QED BY <2>2 DEF Contract!Next, Contract!Decide
<1>5. CASE Choose
  <2>1. pc = "chat" /\ pc' = "act" /\ UNCHANGED count
    BY <1>5 DEF Choose, Chooses, Answering, counters
  <2> QED BY <2>1 DEF ContractAt, Contract!vars
<1>6. CASE Retrieve \/ CallTool
  <2>1. /\ pc = "act" /\ pc' = "report" /\ step'.action \in Observing /\ UNCHANGED count
    <3>1. CASE Retrieve
      BY <1>0, <3>1 DEF Retrieve, StepType, counters, Observing
    <3>2. CASE CallTool
      BY <3>2 DEF CallTool, Observing
    <3> QED BY <1>6, <3>1, <3>2
  <2>2. /\ ContractPc = "loop" /\ ContractNumber = count /\ ContractCount = count
        /\ ContractPc' = "report" /\ ContractNumber' = count + 1 /\ ContractCount' = count
        /\ ContractKind' = "work" /\ ContractNext' = "loop"
    BY <2>1 DEF ContractAt, Observing
  <2>3. count < MaxSteps
    BY <1>0, <1>a, <2>1 DEF PositionKept
  <2> QED BY <2>2, <2>3 DEF Contract!Next, Contract!Decide
<1>7. CASE CreateStep
  <2>1. /\ pc = "report" /\ pc' \in Reporting
        /\ UNCHANGED <<count, step, forced, streak>>
    BY <1>7 DEF CreateStep, counters, control, Reporting
  <2>2. /\ ContractPc = "report" /\ ContractPc' = "detail"
        /\ UNCHANGED <<ContractNumber, ContractCount, ContractKind, ContractNext>>
    BY <2>1 DEF ContractAt, Reporting
  <2> QED BY <2>2 DEF Contract!Next, Contract!CreateStep
<1>8. CASE CreateToolCall \/ CreateEvidence
  <2>1. /\ pc \in Reporting /\ pc' \in Reporting /\ step'.action = step.action
        /\ UNCHANGED <<count, forced, streak>>
    <3>1. CASE CreateToolCall
      BY <3>1 DEF CreateToolCall, counters, control, Reporting
    <3>2. CASE CreateEvidence
      BY <1>0, <3>2 DEF CreateEvidence, StepType, counters, control, Reporting
    <3> QED BY <1>8, <3>1, <3>2
  <2> QED BY <2>1 DEF ContractAt, Reporting, Contract!vars
<1>9. CASE ReportFails
  <2>1. /\ pc \in {"report", "call", "evidence"} /\ pc' = "done" /\ outcome'.status = "FAILED"
        /\ UNCHANGED <<count, number, step>>
    BY <1>9 DEF ReportFails, Fails, Ends, counters, control
  <2>2. number = count + 1
    BY <1>0, <2>1 DEF PositionKept, InStep
  <2>3. /\ ContractPc \in {"report", "detail"} /\ ContractPc' = "finish" /\ ContractNext' = "FAILED"
        /\ UNCHANGED <<ContractNumber, ContractCount, ContractKind>>
    BY <2>1, <2>2 DEF ContractAt, Reporting
  <2> QED BY <2>3 DEF Contract!Next, Contract!ReportFails
<1>10. CASE ReturnObserved \/ ReturnUnusable \/ ReturnFinish
  <2>1. /\ pc = "return" /\ count' = next /\ number = next /\ number' = number /\ step' = step
        /\ pc' \in {"loop", "done"}
    BY <1>0, <1>10, ReturnReturns, RecordedStep DEF Returns, control, next
  <2>2. \/ pc' = "loop" /\ step.action \in Observing
        \/ pc' = "loop" /\ step.action = "NONE" /\ forced = "" /\ ~(streak > 0)
        \/ /\ pc' = "done" /\ step.action = "NONE" /\ (forced # "" \/ streak > 0)
           /\ outcome'.status = "FAILED"
        \/ pc' = "done" /\ step.action = "FINISH" /\ outcome'.status = "SUCCEEDED"
    <3>1. CASE ReturnObserved
      BY <3>1 DEF ReturnObserved, Observing
    <3>2. CASE ReturnUnusable
      <4>1. CASE forced # "" \/ streak > 0
        <5>1. pc' = "done" /\ step.action = "NONE"
          BY <3>2, <4>1 DEF ReturnUnusable, Ends
        <5>2. outcome' = [status |-> "FAILED", reason |-> "ERROR", steps |-> count + 1,
                          calls |-> toolCalls]
          BY <3>2, <4>1 DEF ReturnUnusable, Ends
        <5>3. outcome'.status = "FAILED"
          BY <5>2
        <5> QED BY <4>1, <5>1, <5>3
      <4>2. CASE ~(forced # "" \/ streak > 0)
        <5>1. pc' = "loop" /\ step.action = "NONE"
          BY <3>2, <4>2 DEF ReturnUnusable
        <5> QED BY <4>2, <5>1
      <4> QED BY <4>1, <4>2
    <3>3. CASE ReturnFinish
      BY <3>3 DEF ReturnFinish, Ends
    <3> QED BY <1>10, <3>1, <3>2, <3>3
  <2>3. /\ ContractPc = "detail" /\ ContractNumber = next /\ ContractCount = count
        /\ ContractKind = IF step.action = "FINISH" THEN "finish" ELSE "work"
        /\ ContractNext = CASE step.action = "FINISH" -> "SUCCEEDED"
                            [] step.action = "NONE" /\ (forced # "" \/ streak > 0) -> "FAILED"
                            [] OTHER -> "loop"
    BY <2>1 DEF ContractAt, Reporting, next
  <2>4. /\ ContractNumber' = next /\ ContractCount' = next
        /\ ContractKind' = IF step.action = "FINISH" THEN "finish" ELSE "work"
        /\ ContractPc' = IF pc' = "loop" THEN "loop" ELSE "finish"
        /\ ContractNext' = IF pc' = "loop" THEN "loop" ELSE outcome'.status
    BY <2>1, <2>2 DEF ContractAt, Observing
  <2>5. ContractNext' = ContractNext /\ (ContractNext = "loop" <=> pc' = "loop")
    BY <2>2, <2>3, <2>4 DEF Observing
  <2> QED BY <2>3, <2>4, <2>5 DEF Contract!Next, Contract!CreateDetail, next
<1>13. CASE Stop
  <2>1. /\ pc \in {"loop", "chat", "act", "report", "call", "evidence"} /\ pc' = "cancelled"
    BY <1>13 DEF Stop
  <2>2. /\ ContractPc \in {"loop", "report", "detail"} /\ ContractPc' = "cancelled"
        /\ ContractNumber' = 0 /\ ContractCount' = 0 /\ ContractKind' = "work" /\ ContractNext' = "loop"
    BY <2>1 DEF ContractAt, Reporting
  <2> QED BY <2>2 DEF Contract!Next, Contract!Cancel
<1>14. CASE Cancel \/ RunsLate \/ UNCHANGED vars
  <2>1. UNCHANGED <<pc, number, count, outcome, step, forced, streak>>
    BY <1>14 DEF Cancel, RunsLate, vars, counters, control
  <2> QED BY <2>1 DEF ContractPc, ContractNumber, ContractCount, ContractKind, ContractNext,
             Contract!vars
<1> QED BY <1>1, <1>2, <1>3, <1>4, <1>5, <1>6, <1>7, <1>8, <1>9, <1>10, <1>13, <1>14 DEF Next, Run

(* The attempt implements the contract AgentRuns relies on, for every      *)
(* budget, model answer and failure.                                       *)
THEOREM ImplementsContract == Spec => RefinesContract
<1>1. LoopInv => ContractAt
  BY InvContractAt
<1>2. LoopInv /\ ContractAt /\ ContractAt' /\ [Next]_vars => [Contract!Next]_Contract!vars
  BY StepRefines
<1> QED BY <1>1, <1>2, InitRefines, LoopInvHolds, PTL DEF Spec, RefinesContract, Contract!Spec

=============================================================================
