------------------------------ MODULE AgentRuns ------------------------------
(***************************************************************************)
(* How an investigation is executed: the API that creates and enqueues a   *)
(* run, the Kafka records that carry it, the agent workers that claim it,  *)
(* report its steps and finish it, and the sweep each worker runs beside   *)
(* its consumer.  MySQL is the system of record; everything here is one    *)
(* statement or one transaction against it, one produce, or one commit.    *)
(*                                                                         *)
(* A run's records share a key and so a partition, whose read and commit   *)
(* positions are modelled per run.  Redis is left out: its failures are    *)
(* swallowed and no state below is derived from it.  The loop between two  *)
(* reports is reduced to what it may decide; AgentLoop models it in full.  *)
(*                                                                         *)
(* "faults" counts crashes, evictions, failed statements, failed commits   *)
(* and unacknowledged produces; MaxFaults and MaxBacklog bound the model.  *)
(***************************************************************************)
EXTENDS Naturals, FiniteSets

CONSTANTS Runs,         \* run ids; ULIDs, so ordered by creation
          Incidents,    \* incident ids
          IncidentOf,   \* the incident each run is created for
          Workers,      \* agent-worker processes
          NoWorker,     \* a partition no group member owns
          MaxAttempts,  \* RUN_MAX_ATTEMPTS
          MaxSteps,     \* agent_runs.max_steps
          Batch,        \* RECONCILE_BATCH
          Overrun,      \* may a lease expire under a live attempt?
          MaxFaults,    \* bound on faults
          MaxBacklog    \* bound on a run's unread records

ASSUME RunsAssumption ==
  /\ Runs \subseteq Nat \ {0}
  /\ IncidentOf \in [Runs -> Incidents]
  /\ NoWorker \notin Workers

ASSUME BoundsAssumption ==
  /\ MaxAttempts \in Nat \ {0}
  /\ MaxSteps \in Nat \ {0}
  /\ Batch \in Nat \ {0}
  /\ Overrun \in BOOLEAN
  /\ MaxFaults \in Nat
  /\ MaxBacklog \in Nat \ {0}

VARIABLES
  row,      \* agent_runs: status, attempts, step_count
  steps,    \* agent_steps: number and kind; "by" is the claim that wrote it
  aged,     \* the row's timestamp is past PendingAfter or past the lease
  unsent,   \* runs whose createRun has not produced yet
  backlog,  \* records of the run past the group's committed offset
  read,     \* how many of those the owner has been given
  owner,    \* the group member that owns the run's partition
  worker,   \* each worker's position in Handler.Handle
  swept,    \* the candidates each worker's sweep has still to produce
  faults

vars == <<row, steps, aged, unsent, backlog, read, owner, worker, swept, faults>>

Active   == {"PENDING", "RUNNING"}
Terminal == {"SUCCEEDED", "FAILED"}
Kinds    == {"finish", "work"}
Verdicts == {"loop"} \cup Terminal

(* "claim" is the attempt ClaimRun gave the worker, which the code never   *)
(* sees; "attempt" is the one GetRun read back, which FinishRun is given.  *)
Idle == [pc |-> "idle", run |-> 0, claim |-> 0, attempt |-> 0,
         number |-> 0, count |-> 0, kind |-> "work", next |-> "loop"]

Init ==
  /\ row     = [r \in Runs |-> [status |-> "NONE", attempts |-> 0, count |-> 0]]
  /\ steps   = [r \in Runs |-> {}]
  /\ aged    = [r \in Runs |-> FALSE]
  /\ unsent  = {}
  /\ backlog = [r \in Runs |-> 0]
  /\ read    = [r \in Runs |-> 0]
  /\ owner   = [r \in Runs |-> NoWorker]
  /\ worker  = [w \in Workers |-> Idle]
  /\ swept   = [w \in Workers |-> {}]
  /\ faults  = 0

database == <<row, steps, aged>>
broker   == <<backlog, read, owner>>

Fault == /\ faults < MaxFaults
         /\ faults' = faults + 1

-----------------------------------------------------------------------------
(* POST /api/incidents/{id}/runs                                           *)

(* uniq_active_run refuses a second active run of the incident.            *)
CreateRun(r) ==
  /\ row[r].status = "NONE"
  /\ \A q \in Runs : q < r => row[q].status # "NONE"
  /\ \A q \in Runs : IncidentOf[q] = IncidentOf[r] => row[q].status \notin Active
  /\ row'    = [row EXCEPT ![r] = [@ EXCEPT !.status = "PENDING"]]
  /\ aged'   = [aged EXCEPT ![r] = FALSE]
  /\ unsent' = unsent \cup {r}
  /\ UNCHANGED <<steps, broker, worker, swept, faults>>

Room(r) == backlog[r] - read[r] < MaxBacklog

Produce(r) ==
  /\ Room(r)
  /\ backlog' = [backlog EXCEPT ![r] = @ + 1]

EnqueueRun(r) ==
  /\ r \in unsent
  /\ unsent' = unsent \ {r}
  /\ Produce(r)
  /\ UNCHANGED <<database, read, owner, worker, swept, faults>>

(* The produce failed, or the API died first: 201 either way.              *)
EnqueueLost(r) ==
  /\ r \in unsent
  /\ unsent' = unsent \ {r}
  /\ UNCHANGED <<database, broker, worker, swept, faults>>

-----------------------------------------------------------------------------
(* Kafka: assignment of partitions and delivery                            *)

(* A member joins or rejoins only between records (BlockRebalanceOnPoll);  *)
(* a new owner reads on from the committed offset, so losing the partition *)
(* forgets what was read and not committed.                                *)
Assign(r, w) ==
  /\ owner[r] = NoWorker
  /\ worker[w].pc = "idle"
  /\ owner' = [owner EXCEPT ![r] = w]
  /\ UNCHANGED <<database, unsent, backlog, read, worker, swept, faults>>

(* The group moves the partition, evicting an owner that does not answer;  *)
(* its handler, if it is inside one, keeps running.                        *)
Evict(r) ==
  /\ owner[r] # NoWorker
  /\ Fault
  /\ owner' = [owner EXCEPT ![r] = NoWorker]
  /\ read'  = [read EXCEPT ![r] = 0]
  /\ UNCHANGED <<database, unsent, backlog, worker, swept>>

(* A retried produce wrote the record twice.                               *)
Duplicate(r) ==
  /\ backlog[r] > 0
  /\ Fault
  /\ Produce(r)
  /\ UNCHANGED <<database, unsent, read, owner, worker, swept>>

Poll(w, r) ==
  /\ worker[w].pc = "idle"
  /\ owner[r] = w
  /\ read[r] < backlog[r]
  /\ read'   = [read EXCEPT ![r] = @ + 1]
  /\ worker' = [worker EXCEPT ![w] = [Idle EXCEPT !.pc = "claim", !.run = r]]
  /\ UNCHANGED <<database, unsent, backlog, owner, swept, faults>>

Goto(w, pc) == worker' = [worker EXCEPT ![w] = [@ EXCEPT !.pc = pc]]

(* Whatever the handler concluded, the offset is committed...              *)
Commit(w) ==
  /\ worker[w].pc = "commit"
  /\ LET r == worker[w].run IN
       IF owner[r] = w
       THEN /\ backlog' = [backlog EXCEPT ![r] = @ - read[r]]
            /\ read'    = [read EXCEPT ![r] = 0]
       ELSE UNCHANGED <<backlog, read>>
  /\ worker' = [worker EXCEPT ![w] = Idle]
  /\ UNCHANGED <<database, unsent, owner, swept, faults>>

(* ...unless the commit itself fails, which is logged.                     *)
CommitFails(w) ==
  /\ worker[w].pc = "commit"
  /\ Fault
  /\ worker' = [worker EXCEPT ![w] = Idle]
  /\ UNCHANGED <<database, unsent, broker, swept>>

-----------------------------------------------------------------------------
(* Handler.Handle, one statement at a time                                 *)

(* A mistaken claim that does not look at the lease. *)
ClaimableUnexpired(r) == row[r].status \in Active

Claimable(r) ==
  \/ row[r].status = "PENDING"
  \/ row[r].status = "RUNNING" /\ aged[r]

(* A mistaken claim that leaves the previous attempt's steps in place. *)
ClaimRunKeepingSteps(w) ==
  LET r == worker[w].run IN
  /\ worker[w].pc = "claim"
  /\ Claimable(r)
  /\ row'    = [row EXCEPT ![r] = [status |-> "RUNNING",
                                   attempts |-> @.attempts + 1, count |-> 0]]
  /\ aged'   = [aged EXCEPT ![r] = FALSE]
  /\ worker' = [worker EXCEPT ![w] = [@ EXCEPT !.pc = "reread",
                                             !.claim = row[r].attempts + 1]]
  /\ UNCHANGED <<steps, unsent, broker, swept, faults>>

(* One transaction: take the run, reset its counters, delete its steps.    *)
ClaimRun(w) ==
  LET r == worker[w].run IN
  /\ worker[w].pc = "claim"
  /\ Claimable(r)
  /\ row'    = [row EXCEPT ![r] = [status |-> "RUNNING",
                                   attempts |-> @.attempts + 1, count |-> 0]]
  /\ steps'  = [steps EXCEPT ![r] = {}]
  /\ aged'   = [aged EXCEPT ![r] = FALSE]
  /\ worker' = [worker EXCEPT ![w] = [@ EXCEPT !.pc = "reread",
                                             !.claim = row[r].attempts + 1]]
  /\ UNCHANGED <<unsent, broker, swept, faults>>

RefusedClaim(w) ==
  /\ worker[w].pc = "claim"
  /\ ~Claimable(worker[w].run)
  /\ Goto(w, "commit")
  /\ UNCHANGED <<database, unsent, broker, swept, faults>>

(* GetRun is a statement of its own: it reads whatever attempt is current. *)
Reread(w) ==
  /\ worker[w].pc = "reread"
  /\ worker' = [worker EXCEPT ![w] =
                  [@ EXCEPT !.pc = "loop", !.attempt = row[worker[w].run].attempts]]
  /\ UNCHANGED <<database, unsent, broker, swept, faults>>

(* The loop takes its next step: ordinary work while the budget lasts, a   *)
(* finish or an unusable answer that ends it, forced or not.               *)
Decide(w) ==
  /\ worker[w].pc = "loop"
  /\ \E kind \in Kinds, next \in Verdicts :
       /\ (kind = "finish") <=> (next = "SUCCEEDED")
       /\ next = "loop" => worker[w].number < MaxSteps
       /\ worker' = [worker EXCEPT ![w] =
                       [@ EXCEPT !.pc = "report", !.number = worker[w].number + 1,
                                 !.kind = kind, !.next = next]]
  /\ UNCHANGED <<database, unsent, broker, swept, faults>>

(* A mistaken loop that skips a step it could not record. *)
EndsWithRetry(w, outcome) ==
  worker' = [worker EXCEPT ![w] =
              [@ EXCEPT !.pc = IF worker[w].number < MaxSteps THEN "loop" ELSE "finish",
                        !.next = outcome]]

EndsWith(w, outcome) ==
  worker' = [worker EXCEPT ![w] = [@ EXCEPT !.pc = "finish", !.next = outcome]]

(* The model could not be called: the step is begun and never recorded.    *)
ModelFails(w) ==
  /\ worker[w].pc = "loop"
  /\ worker[w].number < MaxSteps
  /\ worker' = [worker EXCEPT ![w] =
                  [@ EXCEPT !.pc = "finish", !.number = worker[w].number + 1,
                            !.next = "FAILED"]]
  /\ UNCHANGED <<database, unsent, broker, swept, faults>>

Taken(w) == \E s \in steps[worker[w].run] : s.number = worker[w].number

OwnRow(w) == [number |-> worker[w].number, kind |-> worker[w].kind,
              by |-> worker[w].claim]

(* ReportStep: the step's row, keyed (run_id, step_number)...              *)
CreateStep(w) ==
  /\ worker[w].pc = "report"
  /\ ~Taken(w)
  /\ steps' = [steps EXCEPT ![worker[w].run] = @ \cup {OwnRow(w)}]
  /\ Goto(w, "detail")
  /\ UNCHANGED <<row, aged, unsent, broker, swept, faults>>

(* ...then the tool call or evidence rows that hang off it, if it has any, *)
(* then back.                                                              *)
CreateDetail(w) ==
  /\ worker[w].pc = "detail"
  /\ worker' = [worker EXCEPT ![w] =
                  [@ EXCEPT !.pc = IF worker[w].next = "loop" THEN "loop" ELSE "finish",
                            !.count = worker[w].count + 1]]
  /\ UNCHANGED <<database, unsent, broker, swept, faults>>

(* A duplicate step number, or a child row whose step has been deleted,    *)
(* fails the report; so does the database.                                 *)
ReportFails(w) ==
  /\ \/ worker[w].pc = "report" /\ (IF Taken(w) THEN UNCHANGED faults ELSE Fault)
     \/ worker[w].pc = "detail" /\ (IF OwnRow(w) \notin steps[worker[w].run]
                                    THEN UNCHANGED faults ELSE Fault)
  /\ EndsWith(w, "FAILED")
  /\ UNCHANGED <<database, unsent, broker, swept>>

(* A mistaken finish that counts the steps begun, not those recorded. *)
FinishRunCountingBegun(w) ==
  LET r == worker[w].run IN
  /\ worker[w].pc = "finish"
  /\ IF row[r].status = "RUNNING" /\ row[r].attempts = worker[w].attempt
     THEN row' = [row EXCEPT ![r] = [@ EXCEPT !.status = worker[w].next,
                                              !.count = worker[w].number]]
     ELSE UNCHANGED row
  /\ Goto(w, "commit")
  /\ UNCHANGED <<steps, aged, unsent, broker, swept, faults>>

(* Conditional on RUNNING and on the attempt that was read back; an        *)
(* attempt that no longer matches discards its outcome.                    *)
FinishRun(w) ==
  LET r == worker[w].run IN
  /\ worker[w].pc = "finish"
  /\ IF row[r].status = "RUNNING" /\ row[r].attempts = worker[w].attempt
     THEN row' = [row EXCEPT ![r] = [@ EXCEPT !.status = worker[w].next,
                                              !.count = worker[w].count]]
     ELSE UNCHANGED row
  /\ Goto(w, "commit")
  /\ UNCHANGED <<steps, aged, unsent, broker, swept, faults>>

(* A claim, a read or a terminal write that errors leaves the row as it is *)
(* and returns the error; the offset moves on regardless.                  *)
StatementFails(w) ==
  /\ worker[w].pc \in {"claim", "reread", "finish"}
  /\ Fault
  /\ Goto(w, "commit")
  /\ UNCHANGED <<database, unsent, broker, swept>>

(* A crash, or a shutdown: a cancelled run writes nothing terminal and its *)
(* commit goes out on a cancelled context.  The process comes back idle.   *)
Crash(w) ==
  /\ worker[w] # Idle \/ swept[w] # {}
  /\ Fault
  /\ worker' = [worker EXCEPT ![w] = Idle]
  /\ swept'  = [swept EXCEPT ![w] = {}]
  /\ owner'  = [r \in Runs |-> IF owner[r] = w THEN NoWorker ELSE owner[r]]
  /\ read'   = [r \in Runs |-> IF owner[r] = w THEN 0 ELSE read[r]]
  /\ UNCHANGED <<database, unsent, backlog>>

-----------------------------------------------------------------------------
(* Time, and the sweep                                                     *)

Investigating == {"reread", "loop", "report", "detail", "finish"}

Holds(w, r) ==
  /\ worker[w].pc \in Investigating
  /\ worker[w].run = r
  /\ worker[w].claim = row[r].attempts

(* LoadAgentWorker sizes the lease to outlast a run: unless the estimate   *)
(* is overrun, no lease expires under the attempt that holds it.           *)
Age(r) ==
  /\ row[r].status \in Active
  /\ ~aged[r]
  /\ row[r].status = "RUNNING" => Overrun \/ ~\E w \in Workers : Holds(w, r)
  /\ aged' = [aged EXCEPT ![r] = TRUE]
  /\ UNCHANGED <<row, steps, unsent, broker, worker, swept, faults>>

(* ORDER BY id LIMIT batch                                                 *)
Oldest(S) == {r \in S : Cardinality({q \in S : q < r}) < Batch}

NeverEnqueued == {r \in Runs : row[r].status = "PENDING" /\ aged[r]}

(* A mistaken sweep that gives up one attempt early. *)
AbandonedTooEarly == {r \in Runs : /\ row[r].status = "RUNNING"
                                   /\ aged[r]
                                   /\ row[r].attempts + 1 < MaxAttempts}

Abandoned == {r \in Runs : /\ row[r].status = "RUNNING"
                           /\ aged[r]
                           /\ row[r].attempts < MaxAttempts}

(* Sweep lists its candidates...                                           *)
SweepList(w) ==
  /\ swept[w] = {}
  /\ NeverEnqueued \cup Abandoned # {}
  /\ swept' = [swept EXCEPT ![w] = Oldest(NeverEnqueued) \cup Oldest(Abandoned)]
  /\ UNCHANGED <<database, unsent, broker, worker, faults>>

(* ...and produces for each, on what the list said: one record more of a   *)
(* run with MaxBacklog of them unread already is not modelled.  A failure  *)
(* waits for a later sweep.                                                *)
SweepProduce(w, r) ==
  /\ r \in swept[w]
  /\ swept' = [swept EXCEPT ![w] = @ \ {r}]
  /\ IF Room(r) THEN Produce(r) ELSE UNCHANGED backlog
  /\ UNCHANGED <<database, unsent, read, owner, worker, faults>>

SweepProduceFails(w, r) ==
  /\ r \in swept[w]
  /\ Fault
  /\ swept' = [swept EXCEPT ![w] = @ \ {r}]
  /\ UNCHANGED <<database, unsent, broker, worker>>

-----------------------------------------------------------------------------
Handler(w) ==
  \/ ClaimRun(w) \/ RefusedClaim(w) \/ Reread(w)
  \/ Decide(w) \/ ModelFails(w) \/ CreateStep(w) \/ CreateDetail(w)
  \/ ReportFails(w) \/ FinishRun(w) \/ StatementFails(w)
  \/ Commit(w) \/ CommitFails(w)

Next ==
  \/ \E r \in Runs : \/ CreateRun(r) \/ EnqueueRun(r) \/ EnqueueLost(r)
                     \/ Evict(r) \/ Duplicate(r) \/ Age(r)
  \/ \E w \in Workers, r \in Runs : \/ Assign(r, w) \/ Poll(w, r)
                                    \/ SweepProduce(w, r)
                                    \/ SweepProduceFails(w, r)
  \/ \E w \in Workers : Handler(w) \/ Crash(w) \/ SweepList(w)

Spec == Init /\ [][Next]_vars

(* The API and the faults owe nothing.  A worker process runs its handler  *)
(* and its sweep, the group assigns an unowned partition, and time passes. *)
Fairness ==
  /\ \A r \in Runs : WF_vars(Age(r))
  /\ \A r \in Runs : WF_vars(\E w \in Workers : Assign(r, w))
  /\ \A w \in Workers :
       /\ WF_vars(Handler(w))
       /\ WF_vars(SweepList(w))
       /\ \A r \in Runs : WF_vars(Poll(w, r)) /\ WF_vars(SweepProduce(w, r))

FairSpec == Spec /\ Fairness

-----------------------------------------------------------------------------
RowType == [status: {"NONE"} \cup Active \cup Terminal, attempts: Nat, count: Nat]

StepType == [number: Nat, kind: Kinds, by: Nat]

Positions == Investigating \cup {"idle", "claim", "commit"}

WorkerType == [pc: Positions,
               run: Runs \cup {0}, claim: Nat, attempt: Nat, number: Nat,
               count: Nat, kind: Kinds, next: Verdicts]

RowsOK ==
  /\ row \in [Runs -> RowType]
  /\ steps \in [Runs -> SUBSET StepType]
  /\ aged \in [Runs -> BOOLEAN]

BrokerOK ==
  /\ unsent \subseteq Runs
  /\ backlog \in [Runs -> Nat]
  /\ read \in [Runs -> Nat]
  /\ \A r \in Runs : read[r] <= backlog[r]
  /\ owner \in [Runs -> Workers \cup {NoWorker}]

WorkersOK ==
  /\ worker \in [Workers -> WorkerType]
  /\ \A w \in Workers : /\ worker[w].pc # "idle" => worker[w].run \in Runs
                        /\ worker[w].pc = "finish" => worker[w].next \in Terminal

(* Types; no member is given a record past the end of a backlog, and no    *)
(* run reaches its terminal write without an outcome.                      *)
TypeOK == /\ RowsOK /\ BrokerOK /\ WorkersOK
          /\ swept \in [Workers -> SUBSET Runs]
          /\ faults \in Nat

Numbers(r) == {s.number : s \in steps[r]}

(* Two workers are never inside the same investigation, whatever is        *)
(* redelivered, duplicated, re-enqueued or evicted: ClaimRun's condition   *)
(* and the lease's sizing together exclude it.                             *)
OneInvestigation ==
  \A v, w \in Workers :
    /\ worker[v].pc \in Investigating
    /\ worker[w].pc \in Investigating
    /\ worker[v].run = worker[w].run
    => v = w

(* A timeline is never spliced (ADR 0009): every step row a reader finds   *)
(* was written by the attempt the run's row counts, so neither a crashed   *)
(* attempt's rows nor a late one's survive beside a restart.               *)
TimelineOfOneAttempt ==
  \A r \in Runs : \A s \in steps[r] : s.by = row[r].attempts

(* Why those two hold when no lease is overrun: a worker inside an         *)
(* investigation is the run's current attempt under a live lease, so no    *)
(* claim can take the run from it, and the attempt it reads back is its    *)
(* own claim.                                                              *)
LeaseKept ==
  \A w \in Workers : worker[w].pc \in Investigating =>
    LET r == worker[w].run IN
    /\ row[r].status = "RUNNING"
    /\ ~aged[r]
    /\ worker[w].claim = row[r].attempts
    /\ worker[w].pc # "reread" => worker[w].attempt = worker[w].claim

InvestigationInv ==
  TypeOK /\ LeaseKept /\ OneInvestigation /\ TimelineOfOneAttempt

Concluded(r, count) ==
  /\ Numbers(r) = 1..count
  /\ count > 0
  /\ \A s \in steps[r] : s.kind = "finish" <=> s.number = count

(* What finish records agrees with what reports wrote.  A SUCCEEDED run    *)
(* shows steps 1..step_count and ends in its only finish step; a FAILED    *)
(* one may show a last step whose child rows could not be written, which   *)
(* step_count leaves out.                                                  *)
EndedTimeline ==
  \A r \in Runs :
    /\ row[r].status = "SUCCEEDED" => Concluded(r, row[r].count)
    /\ row[r].status = "FAILED" =>
         Numbers(r) \in {1..row[r].count, 1..(row[r].count + 1)}

Worked(S) == \A s \in S : s.kind = "work"

(* Why: a worker inside an investigation knows what its reports have       *)
(* written.  The rows are numbered 1..count and are work, but for the one  *)
(* it is reporting, whose kind says whether it ends the run SUCCEEDED.     *)
Knows(w) ==
  LET r == worker[w].run
      n == worker[w].number
      c == worker[w].count
  IN
  /\ worker[w].pc \in {"claim", "reread"} => n = 0 /\ c = 0
  /\ worker[w].pc = "reread" => steps[r] = {}
  /\ worker[w].pc = "loop"   => n = c /\ Numbers(r) = 1..c /\ Worked(steps[r])
  /\ worker[w].pc \in {"report", "detail"} =>
       n = c + 1 /\ (worker[w].kind = "finish" <=> worker[w].next = "SUCCEEDED")
  /\ worker[w].pc = "report" => Numbers(r) = 1..c /\ Worked(steps[r])
  /\ worker[w].pc = "detail" =>
       /\ Numbers(r) = 1..n
       /\ \A s \in steps[r] : s.kind = IF s.number = n THEN worker[w].kind ELSE "work"
  /\ worker[w].pc = "finish" =>
       \/ worker[w].next = "SUCCEEDED" /\ Concluded(r, c)
       \/ worker[w].next = "FAILED" /\ Numbers(r) \in {1..c, 1..(c + 1)}

TimelineInv ==
  InvestigationInv /\ (\A w \in Workers : Knows(w)) /\ EndedTimeline

(* Nothing about an ended run moves again: not its row, and not its        *)
(* timeline, although steps are written with no condition on the run.      *)
EndedRunIsFinal ==
  [][\A r \in Runs : row[r].status \in Terminal =>
        row'[r] = row[r] /\ steps'[r] = steps[r]]_vars

(* A reader of runs and their timelines cannot tell this system from the   *)
(* abstract one, where a restart is one step.                              *)
Lifecycle == INSTANCE RunLifecycle
  WITH status   <- [r \in Runs |-> row[r].status],
       attempts <- [r \in Runs |-> row[r].attempts],
       timeline <- [r \in Runs |-> Numbers(r)]

RefinesLifecycle == Lifecycle!Spec

(* Every run that is created ends, or runs out of attempts and is left     *)
(* RUNNING for a human: whatever message was lost, duplicated or eaten by  *)
(* a failed handler, the sweep brings the run back.                        *)
Settled(r) ==
  \/ row[r].status \in Terminal
  \/ row[r].status = "RUNNING" /\ row[r].attempts >= MaxAttempts

EveryRunSettles ==
  \A r \in Runs : row[r].status = "PENDING" ~> Settled(r)

(* A run is ended by the attempt its row counts, never by a superseded one *)
(* (FinishRun's contract).                                                 *)
EndedByItsAttempt ==
  [][\A r \in Runs :
       row[r].status = "RUNNING" /\ row'[r].status \in Terminal =>
         \E w \in Workers : /\ worker[w].pc = "finish" /\ worker'[w].pc = "commit"
                            /\ Holds(w, r)]_vars

=============================================================================
