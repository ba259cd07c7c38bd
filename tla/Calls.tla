---------------------------------- MODULE Calls ----------------------------------
(***************************************************************************)
(* One attempt of an investigation seen through the clients it calls: the  *)
(* chat client, the embedding client, the search client and the session    *)
(* with the tool server (Tools), with the time every call takes.  The      *)
(* embedding client also serves the ingestion of a document, whose chunks  *)
(* it embeds in batches.                                                   *)
(*                                                                         *)
(* The clock ticks only in calls; what the database takes is left out, as  *)
(* the worker's own estimate leaves it out.                                *)
(***************************************************************************)
EXTENDS Tools

CONSTANTS ChatTimeout, ChatRetries,   \* LLM_TIMEOUT, LLM_MAX_RETRIES
          EmbedTimeout, EmbedRetries, \* EMBED_TIMEOUT, EMBED_MAX_RETRIES
          SearchTimeout,              \* SEARCH_TIMEOUT
          ToolTimeout,                \* AGENT_TOOL_TIMEOUT
          MaxRun,                     \* AGENT_MAX_RUN_DURATION
          MaxSteps,                   \* bound on the steps of a run
          LongestSearch,              \* bound on what a search takes
          BaseDelay, MaxDelay,        \* baseRetryDelay, maxRetryDelay
          Width,                      \* bits of a duration
          RetryAfters,                \* what a provider may ask to wait
          Chunks, BatchSize           \* texts of the document, EMBED_BATCH_SIZE

ASSUME CallsAssumption ==
  /\ {ChatTimeout, EmbedTimeout, SearchTimeout, ToolTimeout, MaxRun, MaxSteps, BaseDelay,
      MaxDelay, Width, Chunks, BatchSize} \subseteq Nat \ {0}
  /\ {ChatRetries, EmbedRetries} \subseteq Nat /\ LongestSearch \in Nat
  /\ RetryAfters \subseteq Nat /\ BaseDelay <= MaxDelay

VARIABLES
  job,       \* who calls: an investigation, or the ingestion of a document
  pos,       \* what the caller is in
  forced,    \* the investigation is asked to finish
  steps,     \* its steps
  try,       \* the retry loop: attempt, whether to wait, what to wait for
  vectors,   \* the texts whose vectors the embedding has returned, in order
  clock,     \* what the calls took
  slept,     \* of it, waiting between attempts
  hung,      \* of it, what searches took beyond SEARCH_TIMEOUT
  row,       \* the status the last tool call is recorded with
  cancelled  \* the worker is stopping

callVars == <<job, pos, forced, steps, try, vectors, clock, slept, hung, row,
              cancelled>>
vars     == <<toolVars, callVars>>

NoTry == [attempt |-> 0, waiting |-> FALSE, asked |-> 0, after |-> 0]

Init ==
  /\ ToolInit
  /\ \/ job = "investigation" /\ pos = "bound"
     \/ job = "document" /\ pos = "embed"
  /\ forced = FALSE /\ steps = 0 /\ try = NoTry /\ vectors = <<>>
  /\ clock = 0 /\ slept = 0 /\ hung = 0 /\ row = "none" /\ cancelled = FALSE

(* Time passes for an investigation.                                       *)
Spend(d) == clock' = IF job = "investigation" THEN clock + d ELSE clock

-----------------------------------------------------------------------------
(* The two clients of models: one loop, two rules for what to retry.       *)

Budget(p) == IF p = "chat" THEN ChatRetries ELSE EmbedRetries
Limit(p)  == IF p = "chat" THEN ChatTimeout ELSE EmbedTimeout

(* What an attempt can come to, besides an answer.                         *)
Errors == {"400", "401", "413", "429", "500", "malformed", "transport", "timeout",
           "undecodable", "dimension"}

(* The chat client gives up on every 4xx but 429.                          *)
ChatRetryable(e) == e \notin {"400", "401", "413", "malformed"}

(* The embedding client gives up only on the document's own fault.         *)
EmbedRetryable(e) == e \notin {"400", "413", "malformed", "dimension"}

Retryable(p, e) == IF p = "chat" THEN ChatRetryable(e) ELSE EmbedRetryable(e)

(* x << n                                                                  *)
Shifted(x, n) ==
  LET by[k \in 0..n] == IF k = 0 THEN x ELSE 2 * by[k - 1] IN by[n]

(* A duration in so many bits, signed.                                     *)
Wrapped(n) ==
  LET m == n % Shifted(1, Width)
  IN IF m < Shifted(1, Width - 1) THEN m ELSE m - Shifted(1, Width)

(* Retry-After, in a duration's width and capped.                          *)
RetryAfter(seconds) == LesserOf(Wrapped(seconds), MaxDelay)

(* A mistaken delay, which is not capped.                                  *)
RetryDelayUncapped(attempt, after) ==
  IF after > 0 THEN after ELSE Wrapped(Shifted(BaseDelay, attempt - 1))

(* The wait before an attempt: what the provider asked for, or exponential *)
(* backoff, shifted in a duration's width.                                 *)
RetryDelay(attempt, after) ==
  IF after > 0 THEN after
  ELSE LesserOf(Wrapped(Shifted(BaseDelay, attempt - 1)), MaxDelay)

Modelled(p) == p \in {"chat", "embed"}

(* Between two attempts; the wait ends at once when the worker stops.      *)
Sleep ==
  /\ Modelled(pos) /\ try.waiting
  /\ LET n == try.attempt + 1
         delay == RetryDelay(n, try.after)
         d == IF cancelled \/ delay < 0 THEN 0 ELSE delay IN
     /\ Spend(d)
     /\ slept' = IF job = "investigation" THEN slept + d ELSE slept
     /\ IF cancelled THEN pos' = "end" /\ try' = NoTry
        ELSE /\ try' = [try EXCEPT !.attempt = n, !.waiting = FALSE]
             /\ UNCHANGED pos
  /\ UNCHANGED <<toolVars, job, forced, steps, vectors, hung, row, cancelled>>

(* What follows the failure of a call: the chat's ends the run, the        *)
(* retrieval's is an observation, the document's ends its ingestion.       *)
AfterFailure(p) == IF p = "chat" \/ job = "document" \/ cancelled THEN "end" ELSE "bound"

(* An attempt fails: it is retried, or the call has failed.                *)
RequestFails(e) ==
  /\ Modelled(pos) /\ ~try.waiting
  /\ e = "dimension" => pos = "embed"
  /\ \E d \in (IF e = "timeout" THEN {Limit(pos)} ELSE {0, Limit(pos)}),
        after \in (IF e \in {"401", "429", "500"} THEN RetryAfters ELSE {0}) :
       /\ Spend(d)
       /\ IF Retryable(pos, e) /\ ~cancelled /\ try.attempt < Budget(pos)
          THEN /\ try' = [try EXCEPT !.waiting = TRUE, !.asked = after,
                                     !.after = RetryAfter(after)]
               /\ UNCHANGED pos
          ELSE pos' = AfterFailure(pos) /\ try' = NoTry
  /\ UNCHANGED <<toolVars, job, forced, steps, vectors, slept, hung, row, cancelled>>

-----------------------------------------------------------------------------
(* The embedding client                                                    *)

TextCount == IF job = "document" THEN Chunks ELSE 1
Batch     == LesserOf(BatchSize, TextCount - Len(vectors))

(* A mistaken pairing, which takes the embeddings in the order they came.  *)
PairInOrder(data, want) ==
  IF Len(data) # want THEN None ELSE data

(* The embeddings of a response by the index each of them carries, None    *)
(* for a response that does not match the request.                         *)
Pair(data, want) ==
  IF \/ Len(data) # want
     \/ \E i \in 1..Len(data) : data[i] \notin 1..want
     \/ \E i, j \in 1..Len(data) : i # j /\ data[i] = data[j]
  THEN None
  ELSE [k \in 1..want |-> data[CHOOSE i \in 1..want : data[i] = k]]

(* A batch is answered, its embeddings in any order and under any indices. *)
EmbedBatch ==
  /\ pos = "embed" /\ ~try.waiting
  /\ \E data \in BoundedSeq(0..(Batch + 1), Batch + 1), d \in {0, EmbedTimeout} :
       LET out == Pair(data, Batch) IN
       /\ Spend(d)
       /\ try' = NoTry
       /\ IF out = None THEN pos' = AfterFailure(pos) /\ UNCHANGED vectors
          ELSE LET all == vectors \o [k \in 1..Batch |-> Len(vectors) + out[k]] IN
               IF Len(all) < TextCount THEN vectors' = all /\ UNCHANGED pos
               ELSE IF job = "document" THEN vectors' = all /\ pos' = "end"
               ELSE vectors' = <<>> /\ pos' = "search"
  /\ UNCHANGED <<toolVars, job, forced, steps, slept, hung, row, cancelled>>

-----------------------------------------------------------------------------
(* The investigation                                                       *)

(* The bounds are looked at between steps.                                 *)
Bound ==
  /\ pos = "bound"
  /\ IF cancelled THEN pos' = "end" /\ UNCHANGED <<forced, steps>>
     ELSE /\ pos' = "chat"
          /\ IF clock >= MaxRun \/ steps = MaxSteps
             THEN forced' = TRUE /\ UNCHANGED steps
             ELSE steps' = steps + 1 /\ UNCHANGED forced
  /\ try' = NoTry /\ row' = "none" /\ fault' = "none"
  /\ UNCHANGED <<calling, srv, ask, log, scan, expired, reply, view, job, vectors, clock,
                 slept, hung, cancelled>>

(* The model answers: it finishes, which the forced finish does whatever   *)
(* it answers; or calls no tool; or searches; or calls a tool of the       *)
(* server, or one there is not, which is refused without a call.           *)
Chat ==
  /\ pos = "chat" /\ ~try.waiting
  /\ \E d \in {0, ChatTimeout} : Spend(d)
  /\ try' = NoTry
  /\ \/ pos' = "end" /\ UNCHANGED <<calling, row, fault>>
     \/ ~forced /\ pos' \in {"bound", "embed"} /\ UNCHANGED <<calling, row, fault>>
     \/ ~forced /\ pos' = "call" /\ calling' \in ToolNames /\ UNCHANGED <<row, fault>>
     \/ /\ ~forced /\ pos' = "bound" /\ fault' = "model"
        /\ row' = IF cancelled THEN "none" ELSE "REFUSED"
        /\ UNCHANGED calling
  /\ UNCHANGED <<srv, ask, log, scan, expired, reply, view, job, forced, steps, vectors,
                 slept, hung, cancelled>>

(* search_knowledge: the query answered, or refused, or the connection     *)
(* lost, whenever that is: the timeout that is configured is not applied.  *)
Search ==
  /\ pos = "search"
  /\ \E d \in 0..LongestSearch :
       /\ Spend(d)
       /\ hung' = IF d > SearchTimeout THEN hung + (d - SearchTimeout) ELSE hung
  /\ pos' = IF cancelled THEN "end" ELSE "bound"
  /\ UNCHANGED <<toolVars, job, forced, steps, try, vectors, slept, row, cancelled>>

-----------------------------------------------------------------------------
(* The session with the tool server                                        *)

StatusFor(kind) == CASE kind = "ok" -> "OK" [] kind = "timeout" -> "TIMEOUT" [] OTHER -> "ERROR"

(* A mistaken reading, in which a result marked an error is a success when *)
(* its envelope does not say otherwise.                                    *)
ResultWithoutFlag(res) ==
  [status |-> StatusFor(res.kind), refused |-> res.refused]

(* A result in the terms of the store.  An error without an envelope is    *)
(* the SDK's, of arguments the model can mend.                             *)
Result(res) ==
  IF res.meta
  THEN [status |-> IF res.isError /\ StatusFor(res.kind) = "OK" THEN "ERROR"
                   ELSE StatusFor(res.kind),
        refused |-> res.refused]
  ELSE [status |-> "OK", refused |-> res.isError]

(* tool_calls.status: the status wins over the refusal.                    *)
StatusOf(r) == IF r.status = "OK" /\ r.refused THEN "REFUSED" ELSE r.status

(* The call is over; what the server was still at is dropped with it.      *)
(* Nothing is recorded of a run that is stopping.                          *)
CallEnds(status, d) ==
  /\ Spend(d)
  /\ row' = IF cancelled THEN "none" ELSE status
  /\ pos' = IF cancelled THEN "end" ELSE "bound"
  /\ calling' = None /\ srv' = "idle" /\ ask' = None /\ log' = <<>> /\ scan' = NoScan
  /\ expired' = FALSE /\ reply' = None /\ view' = None
  /\ UNCHANGED <<job, forced, steps, try, vectors, slept, hung, cancelled>>

(* The server's answer.                                                    *)
ToolAnswer ==
  /\ pos = "call" /\ srv = "answered"
  /\ \E d \in {0, ToolTimeout} : CallEnds(StatusOf(Result(reply)), d)
  /\ UNCHANGED fault

(* The client's own deadline, which an answer on its way does not outrun.  *)
ToolDeadline ==
  /\ pos = "call"
  /\ CallEnds("TIMEOUT", ToolTimeout)
  /\ fault' = "deadline"

(* The transport fails, or the worker is stopping.                         *)
ToolLost ==
  /\ pos = "call"
  /\ \E d \in {0, ToolTimeout} : CallEnds("ERROR", d)
  /\ fault' = "dependency"

(* The worker is told to stop; a call in flight fails with it.             *)
Cancel ==
  /\ ~cancelled /\ pos # "end"
  /\ cancelled' = TRUE
  /\ UNCHANGED <<toolVars, job, pos, forced, steps, try, vectors, clock, slept, hung,
                 row>>

Next ==
  \/ Bound \/ Chat \/ Sleep \/ EmbedBatch \/ Search \/ ToolAnswer \/ ToolDeadline \/ ToolLost
  \/ Cancel
  \/ \E e \in Errors : RequestFails(e)
  \/ ToolNext /\ pos = "call" /\ UNCHANGED callVars

Spec == Init /\ [][Next]_vars

-----------------------------------------------------------------------------
GreaterOf(a, b) == IF a > b THEN a ELSE b

(* A mistaken estimate, of the model's calls and the tool's alone.         *)
WorstCaseNoRetrieval ==
  MaxRun + 2 * ChatTimeout * (1 + ChatRetries) + ToolTimeout

(* What a worker sizes its lease by.                                       *)
WorstCase ==
  LET retrieval == EmbedTimeout * (1 + EmbedRetries) + SearchTimeout
  IN MaxRun + 2 * ChatTimeout * (1 + ChatRetries) + GreaterOf(ToolTimeout, retrieval)

(* The estimate the lease is sized by covers every run, however its calls  *)
(* fail and whenever its bounds are met, but for two things it leaves out: *)
(* the waits between attempts, and a search that does not answer in time   *)
(* (worstCaseRunDuration).                                                 *)
EstimateHolds == clock - slept - hung <= WorstCase

(* What configuration says of SEARCH_TIMEOUT: it bounds one query, and so  *)
(* makes the estimate honest (config/search.go).                           *)
SearchIsBounded == clock - slept <= WorstCase

(* Waits nobody asked for grow from the first delay up to the cap, none is *)
(* past it, and what a provider asks for is granted up to the cap, as long *)
(* as either fits the width of a duration (retryDelay, retryAfter).        *)
BackoffHolds ==
  try.waiting =>
    LET n == try.attempt + 1
        delay == RetryDelay(n, try.after)
    IN /\ delay <= MaxDelay
       /\ try.asked \in 1..(Shifted(1, Width - 1) - 1) => delay = LesserOf(try.asked, MaxDelay)
       /\ try.after <= 0 /\ Shifted(BaseDelay, n - 1) < Shifted(1, Width - 1) =>
            /\ delay >= BaseDelay
            /\ n > 1 => delay >= RetryDelay(n - 1, 0)

(* A document's vectors are those of its chunks, each in its chunk's place *)
(* and none missing once the embedding is done, whatever order and indices *)
(* the provider answers in (pair, Embed).                                  *)
VectorsInPlace ==
  /\ \A i \in 1..Len(vectors) : vectors[i] = i
  /\ Len(vectors) <= TextCount

(* What a tool call is recorded as is what became of it, through the       *)
(* handler, the envelope, the SDK, the session and the agent: a refusal is *)
(* what the model can mend, an error a dependency, a timeout a deadline.   *)
(* A deadline that passes in the body of an answer of Prometheus is an     *)
(* error, and a probe whose body breaks off is an answer.                  *)
StatusIsTrue ==
  row # "none" =>
    row = CASE fault \in {"none", "cut"} -> "OK"
            [] fault = "model" -> "REFUSED"
            [] fault = "deadline" -> "TIMEOUT"
            [] fault \in {"dependency", "late body"} -> "ERROR"

=============================================================================
