------------------------------ MODULE RunStream ------------------------------
(***************************************************************************)
(* How a run is watched: the worker that writes its rows and publishes to  *)
(* its Redis stream, the SSE handler that replays and follows the stream,  *)
(* and the page that fetches the run, subscribes, and reads it again when  *)
(* it is over.                                                             *)
(*                                                                         *)
(* One run and one page: streams are per run and readers do not meet.  The *)
(* worker is that of AgentRuns with its lease kept, so there is one at a   *)
(* time.  The stream's MAXLEN is never reached by a run's few events, and  *)
(* a malformed entry is not written by anything here.                      *)
(*                                                                         *)
(* "faults" counts crashes, failed statements, failed publishes, lost      *)
(* streams and broken connections.                                         *)
(***************************************************************************)
EXTENDS Naturals, Sequences

CONSTANTS MaxSteps,     \* agent_runs.max_steps
          MaxAttempts,  \* bound on the claims of the run
          MaxFaults     \* bound on faults

ASSUME StreamAssumption ==
  /\ MaxSteps \in Nat \ {0}
  /\ MaxAttempts \in Nat \ {0}
  /\ MaxFaults \in Nat

VARIABLES
  row,     \* agent_runs: status and attempts
  steps,   \* the step numbers a reader of the run finds
  writer,  \* the worker: its position and the step it is at
  stream,  \* the entries of the run's stream, oldest first
  lastId,  \* the last id Redis has given; a clock, so it outlives the stream
  torn,    \* history: a run.started, or the stream with it, was lost
  sse,     \* the SSE handler's position
  after,   \* the last entry it has read
  wire,    \* frames it has written and the page has not had
  page,    \* the page's position
  last,    \* the page's Last-Event-ID
  over,    \* whether the run was over when the page read its row
  shown,   \* the steps on the screen, each with the attempt it is of
  refused, \* history: a subscription was answered with an error
  faults

vars == <<row, steps, writer, stream, lastId, torn, sse, after, wire, page,
          last, over, shown, refused, faults>>

database   == <<row, steps>>
redis      == <<stream, lastId, torn>>
connection == <<sse, after, wire>>
browser    == <<page, last, over, shown, refused>>

Ended == {"SUCCEEDED", "FAILED"}

Init ==
  /\ row = [status |-> "NONE", attempts |-> 0]
  /\ steps = {}
  /\ writer = [pc |-> "none", number |-> 0]
  /\ stream = << >> /\ lastId = 0 /\ torn = FALSE
  /\ sse = "none" /\ after = 0 /\ wire = << >>
  /\ page = "closed" /\ last = 0 /\ over = FALSE /\ shown = {}
  /\ refused = FALSE
  /\ faults = 0

Fault == /\ faults < MaxFaults
         /\ faults' = faults + 1

-----------------------------------------------------------------------------
(* The worker: rows first, then the event that tells of them               *)

Goto(pc) == writer' = [writer EXCEPT !.pc = pc]

CreateRun ==
  /\ row.status = "NONE"
  /\ row' = [row EXCEPT !.status = "PENDING"]
  /\ UNCHANGED <<steps, writer, redis, connection, browser, faults>>

ClaimRun ==
  /\ writer.pc = "none"
  /\ row.status \in {"PENDING", "RUNNING"}
  /\ row.attempts < MaxAttempts
  /\ row' = [status |-> "RUNNING", attempts |-> row.attempts + 1]
  /\ steps' = {}
  /\ writer' = [pc |-> "trim", number |-> 0]
  /\ UNCHANGED <<redis, connection, browser, faults>>

(* Redis is not in the claim's transaction: the stream is emptied after.   *)
Trim ==
  /\ writer.pc = "trim"
  /\ stream' = << >>
  /\ Goto("started")
  /\ UNCHANGED <<database, lastId, torn, connection, browser, faults>>

Add(name) ==
  /\ lastId' = lastId + 1
  /\ stream' = Append(stream, [id |-> lastId + 1, name |-> name,
                               attempt |-> row.attempts, number |-> writer.number])

Publishing == {"started", "publish", "finished"}

EventOf == [started |-> "run.started", publish |-> "step.completed",
            finished |-> "run.finished"]

Published == Goto(IF writer.pc = "finished" THEN "none" ELSE "loop")

Publish ==
  /\ writer.pc \in Publishing
  /\ Add(EventOf[writer.pc])
  /\ Published
  /\ UNCHANGED <<database, torn, connection, browser, faults>>

(* A failed trim or publish is logged and ignored.  For run.finished the   *)
(* row is read again first, and a read that fails costs the event as well. *)
RedisFails ==
  /\ Fault
  /\ \/ writer.pc = "trim" /\ Goto("started") /\ UNCHANGED torn
     \/ /\ writer.pc \in Publishing
        /\ torn' = (torn \/ writer.pc = "started")
        /\ Published
  /\ UNCHANGED <<database, stream, lastId, connection, browser>>

(* ReportStep writes the rows of the next step.                            *)
CreateStep ==
  /\ writer.pc = "loop"
  /\ writer.number < MaxSteps
  /\ steps' = steps \cup {writer.number + 1}
  /\ writer' = [pc |-> "publish", number |-> writer.number + 1]
  /\ UNCHANGED <<row, redis, connection, browser, faults>>

(* A mistaken report that publishes a step it could not write. *)
StepFailsPublished ==
  /\ writer.pc = "loop"
  /\ writer.number < MaxSteps
  /\ Fault
  /\ writer' = [pc |-> "publish", number |-> writer.number + 1]
  /\ UNCHANGED <<database, redis, connection, browser>>

(* A row refused, or one of those that hang off it: the report fails, the  *)
(* run with it, and nothing is published.                                  *)
StepFails ==
  /\ writer.pc = "loop"
  /\ writer.number < MaxSteps
  /\ Fault
  /\ steps' \in {steps, steps \cup {writer.number + 1}}
  /\ Goto("failed")
  /\ UNCHANGED <<row, redis, connection, browser>>

FinishRun ==
  /\ \/ writer.pc = "loop" /\ writer.number > 0
     \/ writer.pc = "failed"
  /\ row' = [row EXCEPT !.status = IF writer.pc = "failed" THEN "FAILED" ELSE "SUCCEEDED"]
  /\ Goto("finished")
  /\ UNCHANGED <<steps, redis, connection, browser, faults>>

(* A crash, a shutdown, or a statement that fails outside ReportStep.      *)
Crash ==
  /\ writer.pc # "none"
  /\ Fault
  /\ Goto("none")
  /\ UNCHANGED <<database, redis, connection, browser>>

(* Redis restarts empty, or a quiet stream's TTL passes.                   *)
StreamLost ==
  /\ stream # << >>
  /\ Fault
  /\ stream' = << >>
  /\ torn' = TRUE
  /\ UNCHANGED <<database, writer, lastId, connection, browser>>

-----------------------------------------------------------------------------
(* GET /api/runs/{id}/events                                               *)

(* A mistaken range that includes the entry it resumes from. *)
EntriesInclusive(id) ==
  LET read == CHOOSE n \in 0..Len(stream) :
                \A i \in DOMAIN stream : i > n <=> stream[i].id >= id
  IN SubSeq(stream, read + 1, Len(stream))

(* The entries after an id, whether XRANGE or XREAD asks: those after the  *)
(* ones already read, since a stream is in the order of its ids.           *)
Entries(id) ==
  LET read == CHOOSE n \in 0..Len(stream) :
                \A i \in DOMAIN stream : i > n <=> stream[i].id > id
  IN SubSeq(stream, read + 1, Len(stream))

(* What is read is written to the client; run.finished ends the request.   *)
Send(entries, pc) ==
  /\ wire' = wire \o entries
  /\ after' = IF entries = << >> THEN after ELSE entries[Len(entries)].id
  /\ sse' = IF \E i \in DOMAIN entries : entries[i].name = "run.finished"
            THEN "done" ELSE pc

Replay ==
  /\ sse = "replay"
  /\ Send(Entries(after), "follow")
  /\ UNCHANGED <<database, writer, redis, browser, faults>>

(* A mistaken follow that starts an empty stream from its end ("$"). *)
FollowFromEnd ==
  /\ sse = "follow"
  /\ Entries(after) # << >>
  /\ IF after = 0 THEN after' = lastId /\ UNCHANGED <<sse, wire>>
                  ELSE Send(Entries(after), "follow")
  /\ UNCHANGED <<database, writer, redis, browser, faults>>

Follow ==
  /\ sse = "follow"
  /\ Entries(after) # << >>
  /\ Send(Entries(after), "follow")
  /\ UNCHANGED <<database, writer, redis, browser, faults>>

(* The block expired with nothing to read...                               *)
FollowIdle ==
  /\ sse = "follow"
  /\ Entries(after) = << >>
  /\ sse' = "ask"
  /\ UNCHANGED <<database, writer, redis, after, wire, browser, faults>>

(* A mistaken handler that trusts the stream to announce the end. *)
FinishedNever ==
  /\ sse = "ask"
  /\ sse' = "follow"
  /\ UNCHANGED <<database, writer, redis, after, wire, browser, faults>>

(* ...so MySQL is asked, since the stream cannot be trusted to announce    *)
(* the end.                                                                *)
Finished ==
  /\ sse = "ask"
  /\ sse' = IF row.status \in Ended THEN "done" ELSE "follow"
  /\ UNCHANGED <<database, writer, redis, after, wire, browser, faults>>

(* Redis: the request ends.  MySQL: taken as "not yet".                    *)
ReadFails ==
  /\ sse \in {"replay", "follow", "ask"}
  /\ Fault
  /\ sse' = IF sse = "ask" THEN "follow" ELSE "done"
  /\ UNCHANGED <<database, writer, redis, after, wire, browser>>

-----------------------------------------------------------------------------
(* The page                                                                *)

CloseStream == sse' = "none" /\ after' = 0 /\ wire' = << >>

OpenRun ==
  /\ page = "closed"
  /\ row.status # "NONE"
  /\ page' = "open"
  /\ shown' = {} /\ last' = 0
  /\ UNCHANGED <<database, writer, redis, connection, over, refused, faults>>

(* GET /api/runs/{id} reads the row...                                     *)
GetRun ==
  /\ page \in {"open", "reload"}
  /\ over' = (row.status \in Ended)
  /\ page' = IF page = "open" THEN "open steps" ELSE "reload steps"
  /\ UNCHANGED <<database, writer, redis, connection, last, shown, refused, faults>>

(* ...and then the steps.  A reload does not subscribe again.              *)
ListSteps ==
  /\ page \in {"open steps", "reload steps"}
  /\ shown' = {[number |-> n, attempt |-> row.attempts] : n \in steps}
  /\ page' = IF page = "open steps" /\ ~over THEN "connect" ELSE "settled"
  /\ UNCHANGED <<database, writer, redis, connection, last, over, refused, faults>>

(* The user is shown the error.                                            *)
GetFails ==
  /\ page \in {"open", "open steps", "reload", "reload steps"}
  /\ Fault
  /\ page' = "error"
  /\ UNCHANGED <<database, writer, redis, connection, last, over, shown, refused>>

(* A run that is over is 410, which closes the EventSource for good; any   *)
(* other run is streamed from the Last-Event-ID.                           *)
Connect ==
  /\ page = "connect"
  /\ IF row.status \in Ended
     THEN page' = "reload" /\ CloseStream
     ELSE page' = "live" /\ sse' = "replay" /\ after' = last /\ wire' = << >>
  /\ UNCHANGED <<database, writer, redis, last, over, shown, refused, faults>>

(* MySQL fails the handler's first read, or a proxy answers for it: any    *)
(* answer but 200 closes the EventSource as 410 does.                      *)
ConnectRefused ==
  /\ page = "connect"
  /\ Fault
  /\ page' = "reload"
  /\ refused' = TRUE
  /\ CloseStream
  /\ UNCHANGED <<database, writer, redis, last, over, shown>>

(* The connection breaks, or the API process goes; the browser reconnects  *)
(* with the id of the last frame it had.                                   *)
Disconnect ==
  /\ page = "live"
  /\ Fault
  /\ page' = "connect"
  /\ CloseStream
  /\ UNCHANGED <<database, writer, redis, last, over, shown, refused>>

(* The handler returned: the same, once its frames are in.                 *)
Reconnect ==
  /\ page = "live"
  /\ sse = "done" /\ wire = << >>
  /\ page' = "connect"
  /\ CloseStream
  /\ UNCHANGED <<database, writer, redis, last, over, shown, refused, faults>>

(* A mistaken page that merges a restarted run's steps into what it shows. *)
ShownAfterMerging(e) ==
  IF e.name = "step.completed"
  THEN {s \in shown : s.number # e.number} \cup {[number |-> e.number, attempt |-> e.attempt]}
  ELSE shown

(* run.started clears, step.completed replaces by step number.             *)
ShownAfter(e) ==
  CASE e.name = "run.started"    -> {}
    [] e.name = "step.completed" -> {s \in shown : s.number # e.number}
                                      \cup {[number |-> e.number, attempt |-> e.attempt]}
    [] OTHER                     -> shown

(* A mistaken page that trusts the events it had once run.finished comes. *)
DeliverTrusting ==
  /\ page = "live" /\ wire # << >>
  /\ last' = Head(wire).id
  /\ shown' = ShownAfter(Head(wire))
  /\ IF Head(wire).name = "run.finished"
     THEN page' = "settled" /\ CloseStream
     ELSE wire' = Tail(wire) /\ UNCHANGED <<page, sse, after>>
  /\ UNCHANGED <<database, writer, redis, over, refused, faults>>

(* A failed publish leaves a hole no later event fills, so on run.finished *)
(* the page closes the stream and reads the run again.                     *)
Deliver ==
  /\ page = "live" /\ wire # << >>
  /\ last' = Head(wire).id
  /\ shown' = ShownAfter(Head(wire))
  /\ IF Head(wire).name = "run.finished"
     THEN page' = "reload" /\ CloseStream
     ELSE wire' = Tail(wire) /\ UNCHANGED <<page, sse, after>>
  /\ UNCHANGED <<database, writer, redis, over, refused, faults>>

-----------------------------------------------------------------------------
Writer == \/ ClaimRun \/ Trim \/ Publish \/ RedisFails \/ CreateStep \/ StepFails
          \/ FinishRun \/ Crash

Handler == Replay \/ Follow \/ FollowIdle \/ Finished \/ ReadFails

Page == \/ GetRun \/ ListSteps \/ GetFails \/ Connect \/ ConnectRefused
        \/ Reconnect \/ Deliver

Next == CreateRun \/ Writer \/ StreamLost \/ Handler \/ OpenRun \/ Page \/ Disconnect

Spec == Init /\ [][Next]_vars

(* The handler's reads have timeouts and the browser goes on by itself.    *)
(* Nothing is owed by the worker or the user.                              *)
FairSpec == Spec /\ WF_vars(Handler) /\ WF_vars(Page)

-----------------------------------------------------------------------------
(* A reconnecting client is never sent an event twice or out of order, and *)
(* nothing published is passed over: what the handler has read of the      *)
(* stream is on its way to the page or has been delivered to it.           *)
SentOnce ==
  /\ \A i \in DOMAIN wire : wire[i].id > last
  /\ \A i, j \in DOMAIN wire : i < j => wire[i].id < wire[j].id
  /\ sse # "none" => \A i \in DOMAIN stream :
       stream[i].id \in (last + 1)..after => \E j \in DOMAIN wire : wire[j] = stream[i]

(* The screen is never spliced (ADR 0009): unless Redis lost a run.started *)
(* it shows the steps of one attempt, although the stream is not emptied   *)
(* with the claim, and trims and connections may fail.  And a step on the  *)
(* screen is in the database, or was until a restart (ReportStep publishes *)
(* after the rows exist).                                                  *)
ShownIsOneAttempt ==
  /\ torn \/ \A s, t \in shown : s.attempt = t.attempt
  /\ \A s \in shown : \/ s.attempt < row.attempts
                      \/ s.attempt = row.attempts /\ s.number \in steps

(* A lost event costs a live timeline, never a fact: a page that has       *)
(* stopped looking shows a run that is over, and all of it.  Only one      *)
(* whose subscription was refused may have stopped before that.            *)
SettledIsTruth ==
  page = "settled" =>
    IF over THEN /\ row.status \in Ended
                 /\ shown = {[number |-> n, attempt |-> row.attempts] : n \in steps}
            ELSE refused

(* A page on a run that ends gets to the end, though run.finished may      *)
(* never be published or arrive, or tells its user that it could not.      *)
PageSettles ==
  page # "closed" /\ row.status \in Ended ~> page \in {"settled", "error"}

(* The run that is watched is a run of RunLifecycle: its row and steps     *)
(* move as AgentRuns has them move, with the worker alone in place of the  *)
(* queue, the leases and the sweep.                                        *)
Watched == {"run"}

Lifecycle == INSTANCE RunLifecycle
  WITH Runs <- Watched, Incidents <- Watched, IncidentOf <- [r \in Watched |-> r],
       status   <- [r \in Watched |-> row.status],
       attempts <- [r \in Watched |-> row.attempts],
       timeline <- [r \in Watched |-> steps]

RefinesLifecycle == Lifecycle!Spec

=============================================================================
