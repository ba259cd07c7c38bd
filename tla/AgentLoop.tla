------------------------------ MODULE AgentLoop ------------------------------
(***************************************************************************)
(* One attempt at an investigation: Agent.Run and the ReportStep callback  *)
(* it writes its steps through.  The model and the tools may answer        *)
(* anything; a statement may fail, applied or not; the process may be told *)
(* to stop between any two of them.                                        *)
(*                                                                         *)
(* A text is a model value.  TooLong are the texts a column does not hold. *)
(* What the prompt's size depends on is left out, so TOKEN_BUDGET may stop *)
(* the run at any step.  "faults" counts failed statements.                *)
(***************************************************************************)
EXTENDS Naturals, Sequences, FiniteSets

CONSTANTS MaxSteps,      \* agent_runs.max_steps
          MaxToolCalls,  \* agent_runs.max_tool_calls
          Docs,          \* document ids the index may return
          Live,          \* those that still have a row in documents
          NoDoc,         \* a citation that names no document
          Queries,       \* what search_knowledge may be asked
          Tools,         \* tool names the model may call, offered or invented
          TooLong,       \* queries and names longer than their columns
          MaxCitations,  \* bound on the evidence of one finish
          MaxFaults      \* bound on faults

ASSUME LoopAssumption ==
  /\ MaxSteps \in Nat \ {0}
  /\ MaxToolCalls \in Nat \ {0}
  /\ Live \subseteq Docs
  /\ NoDoc \notin Docs
  /\ MaxFaults \in Nat

VARIABLES
  pc,         \* position in Agent.Run
  number,     \* runState.stepNumber
  count,      \* runState.stepCount
  toolCalls,  \* runState.toolCalls
  streak,     \* runState.noToolStreak
  records,    \* runState.records, by step number
  turns,      \* runState.turns: the number and the none flag of each
  forced,     \* the bound that forced the finish, "" before
  step,       \* the Step being executed or reported
  late,       \* has MaxRunDuration passed?
  cancelled,  \* the context's state
  db,         \* the rows of agent_steps, tool_calls and evidence
  outcome,    \* what Agent.Run returned
  faults

vars == <<pc, number, count, toolCalls, streak, records, turns, forced, step,
          late, cancelled, db, outcome, faults>>

Actions == {"RETRIEVE", "TOOL_CALL", "FINISH", "NONE"}
Bounds  == {"MAX_STEPS", "MAX_TOOL_CALLS", "TIMEOUT", "TOKEN_BUDGET"}

NoOutcome == [status |-> "", reason |-> "", steps |-> 0, calls |-> 0]

(* ref is the text a citation of the step falls back on: the query or the  *)
(* tool's name.                                                            *)
NoTool == [action |-> "NONE", ref |-> NoDoc, hits |-> {}, evidence |-> {}]

Init ==
  /\ pc = "loop"
  /\ number = 0 /\ count = 0 /\ toolCalls = 0 /\ streak = 0
  /\ records = << >> /\ turns = << >>
  /\ forced = ""
  /\ step = NoTool
  /\ late = FALSE /\ cancelled = FALSE
  /\ db = [steps |-> {}, calls |-> {}, evidence |-> {}]
  /\ outcome = NoOutcome
  /\ faults = 0

counters == <<count, toolCalls, streak, records, turns>>
control  == <<number, forced>>
world    == <<late, cancelled, faults>>

(* The run returns how it ended; forced and unforced endings alike.        *)
Ends(status, reason, steps, calls) ==
  /\ outcome' = [status |-> status, reason |-> reason, steps |-> steps, calls |-> calls]
  /\ pc' = "done"

Fails == Ends("FAILED", "ERROR", count, toolCalls)

-----------------------------------------------------------------------------
(* The loop, and what the model answers                                    *)

(* A mistaken order of the bounds' conditions: the step budget is one off. *)
BoundOneLate ==
  IF number > MaxSteps THEN "MAX_STEPS"
  ELSE IF toolCalls >= MaxToolCalls THEN "MAX_TOOL_CALLS"
  ELSE IF late THEN "TIMEOUT" ELSE ""

Bound ==
  IF number >= MaxSteps THEN "MAX_STEPS"
  ELSE IF toolCalls >= MaxToolCalls THEN "MAX_TOOL_CALLS"
  ELSE IF late THEN "TIMEOUT" ELSE ""

(* The prompt is built and the model called, with every tool or, at a      *)
(* bound, with finish alone.                                               *)
Ask ==
  /\ pc = "loop"
  /\ ~cancelled
  /\ forced' \in IF Bound # "" THEN {Bound} ELSE {"", "TOKEN_BUDGET"}
  /\ number' = number + 1
  /\ pc' = "chat"
  /\ UNCHANGED <<counters, step, world, db, outcome>>

Answering == pc = "chat" /\ ~cancelled

Reports(s) ==
  /\ step' = s
  /\ pc' = "report"
  /\ UNCHANGED <<counters, control, world, db, outcome>>

(* A mistaken loop that asks again without recording an unusable answer. *)
UnusableIgnored ==
  /\ Answering
  /\ number' = number - 1
  /\ pc' = "loop"
  /\ UNCHANGED <<counters, forced, step, world, db, outcome>>

(* No call, a nameless call, arguments that are not JSON, a finish with    *)
(* nothing usable in it; at a forced finish also any other tool, or a      *)
(* model that cannot be called.                                            *)
Unusable == Answering /\ Reports(NoTool)

ModelFails ==
  /\ Answering
  /\ forced = ""
  /\ Fails
  /\ UNCHANGED <<counters, control, step, world, db>>

Citations == (0..MaxSteps) \X (Docs \cup {NoDoc})

(* A mistaken resolution that trusts the document the model named. *)
ResolveTrusting(cited) ==
  {[step |-> c[1], call |-> records[c[1]].action = "TOOL_CALL",
    doc |-> c[2], ref |-> IF c[2] = NoDoc THEN records[c[1]].ref ELSE c[2]] :
     c \in {d \in cited : /\ d[1] \in DOMAIN records
                          /\ records[d[1]].action \in {"RETRIEVE", "TOOL_CALL"}}}

(* A citation counts when its step is on record and observed something,    *)
(* and its document when that step returned it; the rest is dropped.       *)
Resolve(cited) ==
  {LET r == records[c[1]]
       hit == r.action = "RETRIEVE" /\ c[2] \in r.hits
   IN [step |-> c[1], call |-> r.action = "TOOL_CALL",
       doc |-> IF hit THEN c[2] ELSE NoDoc, ref |-> IF hit THEN c[2] ELSE r.ref] :
     c \in {d \in cited : /\ d[1] \in DOMAIN records
                          /\ records[d[1]].action \in {"RETRIEVE", "TOOL_CALL"}}}

Finish ==
  /\ Answering
  /\ \E cited \in SUBSET Citations :
       /\ Cardinality(cited) <= MaxCitations
       /\ Reports([NoTool EXCEPT !.action = "FINISH", !.evidence = Resolve(cited)])

Chooses(s) ==
  /\ Answering
  /\ forced = ""
  /\ step' = s
  /\ pc' = "act"
  /\ UNCHANGED <<counters, control, world, db, outcome>>

Choose ==
  \/ \E q \in Queries : Chooses([NoTool EXCEPT !.action = "RETRIEVE", !.ref = q])
  \/ \E t \in Tools : Chooses([NoTool EXCEPT !.action = "TOOL_CALL", !.ref = t])

(* The search answers with hits or fails with none; either is an           *)
(* observation.                                                            *)
Retrieve ==
  /\ pc = "act" /\ ~cancelled
  /\ step.action = "RETRIEVE"
  /\ \E hits \in SUBSET Docs : step' = [step EXCEPT !.hits = hits]
  /\ pc' = "report"
  /\ UNCHANGED <<counters, control, world, db, outcome>>

(* A refusal, a timeout and an error are observations too, and are counted *)
(* before they are recorded.                                               *)
CallTool ==
  /\ pc = "act" /\ ~cancelled
  /\ step.action = "TOOL_CALL"
  /\ toolCalls' = toolCalls + 1
  /\ pc' = "report"
  /\ UNCHANGED <<count, streak, records, turns, control, step, world, db, outcome>>

-----------------------------------------------------------------------------
(* ReportStep: the step's row, its tool_calls row, its evidence rows, each *)
(* a statement of its own                                                  *)

Numbers == {s.number : s \in db.steps}

WithStep == [db EXCEPT !.steps = @ \cup {[number |-> number, action |-> step.action]}]

WithCall == [db EXCEPT !.calls = @ \cup {number}]

(* A document whose row is gone is left out of the citation that named it. *)
WithEvidence(e) ==
  [db EXCEPT !.evidence =
     @ \cup {[e EXCEPT !.doc = IF @ \in Live THEN @ ELSE NoDoc]}]

CreateStep ==
  /\ pc = "report" /\ ~cancelled
  /\ number \notin Numbers
  /\ db' = WithStep
  /\ pc' = IF step.action = "TOOL_CALL" THEN "call"
           ELSE IF step.evidence # {} THEN "evidence" ELSE "return"
  /\ UNCHANGED <<counters, control, step, world, outcome>>

CreateToolCall ==
  /\ pc = "call" /\ ~cancelled
  /\ step.ref \notin TooLong
  /\ db' = WithCall
  /\ pc' = "return"
  /\ UNCHANGED <<counters, control, step, world, outcome>>

CreateEvidence ==
  /\ pc = "evidence" /\ ~cancelled
  /\ \E e \in step.evidence :
       /\ e.ref \notin TooLong
       /\ db' = WithEvidence(e)
       /\ step' = [step EXCEPT !.evidence = @ \ {e}]
       /\ pc' = IF step.evidence = {e} THEN "return" ELSE "evidence"
  /\ UNCHANGED <<counters, control, world, outcome>>

(* The statement the callback is at, had it been applied.                  *)
Applied ==
  CASE pc = "report"   -> IF number \in Numbers THEN {} ELSE {WithStep}
    [] pc = "call"     -> IF step.ref \in TooLong THEN {} ELSE {WithCall}
    [] pc = "evidence" -> {WithEvidence(e) : e \in {d \in step.evidence : d.ref \notin TooLong}}
    [] OTHER           -> {}

Refused ==
  \/ pc = "report" /\ number \in Numbers
  \/ pc = "call" /\ step.ref \in TooLong
  \/ pc = "evidence" /\ \E e \in step.evidence : e.ref \in TooLong

(* A step that cannot be recorded ends the run, whether the database       *)
(* refused it or failed, and whether or not the rows are there.            *)
ReportFails ==
  /\ pc \in {"report", "call", "evidence"} /\ ~cancelled
  /\ \/ Refused /\ UNCHANGED <<db, faults>>
     \/ faults < MaxFaults /\ faults' = faults + 1 /\ db' \in {db} \cup Applied
  /\ Fails
  /\ UNCHANGED <<counters, control, step, late, cancelled>>

Recorded ==
  /\ count' = count + 1
  /\ records' = [n \in DOMAIN records \cup {number} |->
                   IF n = number THEN step ELSE records[n]]

(* A mistaken label: the model's turns counted instead of its steps. *)
ReturnObservedCounting ==
  /\ pc = "return"
  /\ step.action \in {"RETRIEVE", "TOOL_CALL"}
  /\ Recorded
  /\ turns' = Append(turns, [number |-> Len(SelectSeq(turns, LAMBDA t : ~t.none)) + 1,
                             none |-> FALSE])
  /\ streak' = 0
  /\ pc' = "loop"
  /\ UNCHANGED <<toolCalls, control, step, world, db, outcome>>

ReturnObserved ==
  /\ pc = "return"
  /\ step.action \in {"RETRIEVE", "TOOL_CALL"}
  /\ Recorded
  /\ turns' = Append(turns, [number |-> number, none |-> FALSE])
  /\ streak' = 0
  /\ pc' = "loop"
  /\ UNCHANGED <<toolCalls, control, step, world, db, outcome>>

(* A forced finish that produced nothing is not retried; an ordinary step  *)
(* is, once.                                                               *)
ReturnUnusable ==
  /\ pc = "return" /\ step.action = "NONE"
  /\ Recorded
  /\ IF forced # ""
     THEN UNCHANGED <<turns, streak>>
     ELSE /\ turns' = Append(turns, [number |-> number, none |-> TRUE])
          /\ streak' = streak + 1
  /\ IF forced # "" \/ streak > 0
     THEN Ends("FAILED", "ERROR", count + 1, toolCalls)
     ELSE pc' = "loop" /\ UNCHANGED outcome
  /\ UNCHANGED <<toolCalls, control, step, world, db>>

(* A mistaken finish that reports its count before its own step. *)
ReturnFinishUncounted ==
  /\ pc = "return" /\ step.action = "FINISH"
  /\ Recorded
  /\ Ends("SUCCEEDED", IF forced = "" THEN "COMPLETED" ELSE forced, count, toolCalls)
  /\ UNCHANGED <<toolCalls, streak, turns, control, step, world, db>>

(* A bounded run with a diagnosis succeeds, and says which bound it was.   *)
ReturnFinish ==
  /\ pc = "return" /\ step.action = "FINISH"
  /\ Recorded
  /\ Ends("SUCCEEDED", IF forced = "" THEN "COMPLETED" ELSE forced, count + 1, toolCalls)
  /\ UNCHANGED <<toolCalls, streak, turns, control, step, world, db>>

-----------------------------------------------------------------------------
(* Cancellation and time                                                   *)

Ended == pc \in {"done", "cancelled"}

Cancel ==
  /\ ~cancelled /\ ~Ended
  /\ cancelled' = TRUE
  /\ UNCHANGED <<pc, counters, control, step, late, db, outcome, faults>>

(* A cancelled run notices at its next call and returns no outcome; the    *)
(* statement it was in may have been applied.  Once the last row of a step *)
(* is written nothing is left in the step to notice.                       *)
Stop ==
  /\ cancelled
  /\ pc \in {"loop", "chat", "act", "report", "call", "evidence"}
  /\ db' \in {db} \cup Applied
  /\ pc' = "cancelled"
  /\ UNCHANGED <<counters, control, step, world, outcome>>

RunsLate ==
  /\ ~late /\ ~Ended
  /\ late' = TRUE
  /\ UNCHANGED <<pc, counters, control, step, cancelled, db, outcome, faults>>

Run ==
  \/ Ask \/ Unusable \/ ModelFails \/ Finish \/ Choose \/ Retrieve \/ CallTool
  \/ CreateStep \/ CreateToolCall \/ CreateEvidence \/ ReportFails
  \/ ReturnObserved \/ ReturnUnusable \/ ReturnFinish \/ Stop

Next == Run \/ Cancel \/ RunsLate

Spec == Init /\ [][Next]_vars

(* Every call the loop makes returns: the model's client, the tool client  *)
(* and the database driver all have timeouts.                              *)
FairSpec == Spec /\ WF_vars(Run)

-----------------------------------------------------------------------------
ActionsAt(n) == {s.action : s \in {r \in db.steps : r.number = n}}

(* No bound is overrun by more than the one forced finish: a bound stops   *)
(* new work, no tool is called on the step it buys, and an unusable answer *)
(* buys one more step, not two.                                            *)
BudgetKept ==
  /\ number <= IF forced = "" THEN MaxSteps ELSE MaxSteps + 1
  /\ toolCalls <= MaxToolCalls
  /\ Cardinality(db.calls) <= toolCalls
  /\ forced # "" => "TOOL_CALL" \notin ActionsAt(number)
  /\ \A n \in Numbers : ActionsAt(n) = {"NONE"} /\ ActionsAt(n + 1) = {"NONE"} =>
                         n + 2 \notin Numbers

(* The rows a reader finds tell the outcome's story.  A SUCCEEDED run shows*)
(* every step once, its one finish last, and a tool_calls row under every  *)
(* tool call; a FAILED one may show part of one more step.                 *)
AuditTrail ==
  /\ outcome.status = "SUCCEEDED" =>
       /\ Numbers = 1..outcome.steps
       /\ \A s \in db.steps : s.action = "FINISH" <=> s.number = outcome.steps
       /\ outcome.calls = Cardinality(db.calls)
  /\ outcome.status = "FAILED" =>
       Numbers \in {1..outcome.steps, 1..(outcome.steps + 1)}
  /\ outcome.status # "" =>
       \A n \in 1..outcome.steps : n \in db.calls <=> ActionsAt(n) = {"TOOL_CALL"}

(* A citation that reaches the evidence table is true: its step is of this *)
(* run and observed something, its tool call is that step's, its document  *)
(* is one that step returned and still has a row.                          *)
EvidenceHolds ==
  \A e \in db.evidence :
    /\ ActionsAt(e.step) \in {{"RETRIEVE"}, {"TOOL_CALL"}}
    /\ e.call <=> e.step \in db.calls
    /\ e.doc # NoDoc => e.doc \in records[e.step].hits \cap Live

(* The numbers the prompt shows the model are the ones it may cite: every  *)
(* label is the number of a recorded row, in order, and no row is missing. *)
LabelsAreSteps ==
  pc = "loop" => /\ \A i \in 1..Len(turns) : turns[i].number = i
                 /\ Len(turns) = count
                 /\ Numbers = 1..count

(* From the label in the prompt to the row in the evidence table.          *)
CitationsHold == LabelsAreSteps /\ EvidenceHolds

(* Whatever the model answers, the attempt ends.                           *)
AttemptEnds == <>Ended

(* The rest of the system sees no more of the loop than LoopContract, the  *)
(* form in which AgentRuns contains it: a step is decided when the model's *)
(* answer and its tool's are in, and is detailed until its report returns. *)
ContractPc ==
  CASE pc \in {"loop", "chat", "act"}        -> "loop"
    [] pc \in {"call", "evidence", "return"} -> "detail"
    [] pc = "done"                           -> "finish"
    [] OTHER                                 -> pc

ContractNumber ==
  CASE pc = "cancelled"       -> 0
    [] pc \in {"chat", "act"} -> number - 1
    [] OTHER                  -> number

ContractCount ==
  CASE pc = "cancelled"     -> 0
    [] outcome.status # "" -> outcome.steps
    [] OTHER               -> count

ContractKind == IF pc # "cancelled" /\ step.action = "FINISH" THEN "finish" ELSE "work"

ContractNext ==
  IF pc = "done" THEN outcome.status
  ELSE IF pc \notin {"report", "call", "evidence", "return"} THEN "loop"
  ELSE IF step.action = "FINISH" THEN "SUCCEEDED"
  ELSE IF step.action = "NONE" /\ (forced # "" \/ streak > 0) THEN "FAILED"
  ELSE "loop"

Contract == INSTANCE LoopContract
  WITH pc <- ContractPc, number <- ContractNumber, count <- ContractCount,
       kind <- ContractKind, next <- ContractNext

RefinesContract == Contract!Spec

(* A wrong citation does not discard a correct diagnosis                   *)
(* (resolveEvidence): with no statement failing, a finish step that was    *)
(* written ends the run SUCCEEDED.                                         *)
CitationKeepsDiagnosis ==
  faults = 0 /\ outcome.status = "FAILED" =>
    \A s \in db.steps : s.action # "FINISH"

=============================================================================
