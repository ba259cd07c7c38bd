# incident_diag: a TLA+ verification project

incident_diag diagnoses production incidents. A user describes an incident and
starts a *run*; an agent worker lets a language model investigate it, step by
step, with a knowledge base built from uploaded documents and a set of
read-only operations tools; the run ends with a cited diagnosis, or fails. This
directory holds TLA+ modules for the parts of the program that decide whether
that works when messages are lost or repeated, workers die, statements fail and
leases expire, the TLC configurations that check them, and proofs checked by
TLAPS of the theorems that matter most.

1. [The system](#1-the-system)
2. [Modules, and how they correspond to the code](#2-modules-and-how-they-correspond-to-the-code)
3. [Runs: what is checked and what it shows](#3-runs-what-is-checked-and-what-it-shows)
4. [Bounds](#4-bounds)
5. [Fairness](#5-fairness)
6. [Proofs](#6-proofs)
7. [Disagreements found between the code and its own words](#7-disagreements-found-between-the-code-and-its-own-words)
8. [What is not modelled, and the plan](#8-what-is-not-modelled-and-the-plan)

## 1. The system

Paths are under `src/`. The API and two workers share MySQL (the system of record), Kafka (work queues), Elasticsearch (the chunks of ingested documents),
Redis (a live event stream for each run) and a directory of uploaded files; a fourth
process, the tool server, answers the agent's questions about the operated system.

| Part | State it keeps | Operations | Talks to |
|---|---|---|---|
| API (`internal/api`, `cmd/api`) | none of its own | create incident; create run and enqueue it; upload document and enqueue it; list; read a run; search; stream a run's events | MySQL, files, Kafka producer, Redis, Elasticsearch |
| Message queue (`internal/mq`) | Kafka offsets | `Produce`; `Consumer.Run`: poll, handle, commit, one record at a time | the two workers and the API |
| Run execution (`internal/agentrun`) | a worker's position in `Handle` | claim, read back, investigate, `ReportStep`, finish | MySQL, Redis, agent loop |
| Agent loop (`internal/agent`) | `runState`: counters, records, turns | `Agent.Run`: bounds, ask the model, act, report; forced finish; citations | model, tools, Elasticsearch, `ReportStep` |
| Run store (`internal/store` runs, steps, tool_calls, evidence) | `agent_runs`, `agent_steps`, `tool_calls`, `evidence` | `CreateRun`, `ClaimRun`, `FinishRun`, `Create*`, listing | MySQL |
| Ingestion worker (`internal/ingest/handler.go`) | a worker's position in `Handle` | claim, read, chunk, embed, delete, index, clean up, mark | MySQL, Elasticsearch, files, embedder |
| Document store (`internal/store/documents.go`) | `documents` | create, claim, the two terminal writes, listing | MySQL |
| Search client (`internal/search`) | the chunk index | bulk index with retry, delete by document, hybrid search | Elasticsearch |
| Reconciler (`internal/reconcile`) | none: it derives work from rows | a sweep: list by category, look again, produce | MySQL, Kafka producer; runs inside each worker beside its consumer |
| Event stream (`internal/events`) and SSE (`internal/api/sse.go`) | a Redis stream per run | publish, trim, replay, follow | run execution writes it, the API reads it |
| Web page (`web/index.html`) | the run on the screen | open, poll, subscribe, reload | API |
| Model and embedding clients (`internal/llm`, `internal/embed`) | none | call with retries and backoff | providers |
| Tool server and client (`internal/opsmcp`, `internal/mcpclient`) | none | Prometheus, logs, health probe | agent loop calls them |
| Lab services (`internal/lab`) | checkout-service: the order book; payment-service: the connection pool; both: a fault controller with its goroutines | order, charge, refund, read an order; set and clear faults | each other; the scenarios; Prometheus scrapes them |
| Lab scenarios (`internal/lab/scenario`) | the generator's counts, the script's position | clear, measure, inject, hold, clear again, measure, clean up | the lab services over HTTP |
| Chunker and parsers (`internal/ingest/chunk.go`, `parse.go`) | none | text to chunks | ingestion worker |
| Shutdown group (`internal/shutdown`) | the closers | close everything under one deadline | every process |
| Configuration (`internal/config`) | none | load, and refuse combinations that break the leases | every process |

### How the parts interact

A run is one row. `createRun` inserts it PENDING, where the unique index on a
generated column (`active_incident_id`) allows one active run per incident,
and then produces a record to Kafka keyed by the run, answering 201 whether or
not the produce worked. A consumer hands one record at a time to
`Handler.Handle`, which claims the row (one transaction: RUNNING, one attempt
more, counters zeroed, the rows of the previous attempt deleted), reads it back,
lets `Agent.Run` investigate while `ReportStep` writes each step as it happens,
and ends it with a conditional `FinishRun`. Whatever the handler concludes, the
consumer commits the offset: *retry is not the queue's business*. It is the
sweep's, which every few seconds lists PENDING rows that nobody picked up and
RUNNING rows whose lease has passed and produces a fresh record for each.
Documents take the same road with three differences: a FAILED document is
retried, with a backoff, up to an attempt limit; the result is in another store
(Elasticsearch), so there is no transaction across the result and the row; and
the terminal writes look only at the status and not at the attempt.

### Which behaviours are hard, and what makes each part correct

| Part | Hard behaviour | What must hold |
|---|---|---|
| Run execution | the same record delivered twice, duplicated, swept while it is being handled; eviction from the group with the handler still running; a crash between any two statements; the attempt read back by a separate statement | one worker in an investigation at a time; no spliced timeline; an ended run never moves; every run ends or is left for a human with its attempts spent |
| Queue | the offset is a position and not an acknowledgement; it is committed after failures as well, and a commit may fail | no lost or repeated record strands a row |
| Agent loop | any model answer; bounds crossed mid-step; a row that cannot be written after work has been counted; shutdown anywhere | the budget; rows agree with the outcome; a citation that is stored is true; the attempt ends |
| Ingestion | the row and the index move separately, either may fail, a request given up on may still be applied | READY means every chunk is there; one worker at a time; every document settles |
| Reconciler | lists with a limit and acts on the list later | old hopeless rows starve nobody; a stale candidate does no harm |
| Event stream, SSE, page | the stream is emptied after the claim and not with it; publishing may fail silently; readers reconnect | a follower sees one attempt, in order, and is let go when the run is over |
| Upload, listing | row, file and produce are three writes; a lost acknowledgement undoes the wrong one; rows appear out of the order of their ids while a client pages | a document that exists has its file; an answer is what was done; pages show each document once |
| Clients | two retry loops with different rules, backoff arithmetic, answers in any order, hung servers | delays stay within bounds; vectors stay with their texts; a run fits the estimate its lease is sized by |
| Tool server | a log read while it grows, deadlines anywhere, five layers between what happened and the status on record | an answer is of the data asked for, fits the cap and says when it was cut; the status is what became of the call |
| Start and shutdown | workers started together create the same topics and index; closers race one shared deadline; a poll blocks the group | neither makes the other fail; before the deadline nothing is closed under a handler or a request; the report is honest; the process is gone in time |
| Lab services | three parties in a row, each of which may give up on the next while the next goes on; a controller that waits for its goroutines under its lock | no connection is lost or taken twice; an order exists only for a charged card; no goroutine is left spinning, no deadlock |
| Lab scenarios | interrupts, kills and lost services between injecting a fault and clearing it; calls given up on and carried out late | a phase measures its own fault and no other; a clean-up that reports success has left the lab healthy |

`PROJECT.json` lists each hazard at its line of code with the properties that
would catch it.

## 2. Modules, and how they correspond to the code

| Module | What it is |
|---|---|
| `RunLifecycle` | Abstract: what a reader of a run is promised. Status, attempts and timeline only; a restart is one step; no queue, no workers. |
| `AgentRuns` | The core: API, Kafka records, workers, run store and sweep, one statement, produce or commit to an action. Implements `RunLifecycle`. |
| `AgentRunsProofs` | Theorems about `AgentRuns`: types, the lease, the timeline of one attempt and as its outcome counts it, and that it implements `RunLifecycle`. |
| `LoopContract` | Abstract: what the rest of the system relies on about one attempt. It has the form in which `AgentRuns` contains the loop. |
| `AgentLoop` | `Agent.Run` with its bounds, the model's possible answers, tools, retrieval, citations, the `ReportStep` callback and cancellation. Implements `LoopContract`. |
| `AgentLoopProofs` | Theorems about `AgentLoop`, and that it implements `LoopContract`. |
| `Ingestion` | API, queue, ingestion workers, document store, search index and sweep. |
| `IngestionProofs` | Theorems about `Ingestion`. |
| `RunStream` | How a run is watched: the worker's events, the Redis stream, the SSE handler and the page. Its worker implements `RunLifecycle` too. |
| `RunStreamProofs` | Theorems about `RunStream`, and that its worker implements `RunLifecycle`. |
| `Checkout` | The lab under load: generator, checkout-service, payment-service and its pool. |
| `LabFaults` | The fault controllers of the two services, and the scenario that injects, holds and clears a fault. |
| `LabProofs` | Theorems about the lab: `Checkout` and `LabFaults`, each with its own specification. |
| `Uploads` | The API's documents: an upload as its three writes, the reader of the file in the worker, and a client that pages through the listing. |
| `UploadsProofs` | Theorems about `Uploads`: the three writes, and the listing. |
| `Tools` | The tool server's three handlers, one call at a time, with the log, Prometheus or service each asks. |
| `Calls` | Extends `Tools`: an investigation and an ingestion seen through the clients they call, with the time calls take. |
| `CallsProofs` | Theorems about `Calls` and the `Tools` in it: the estimate, the waits, the vectors, the statuses and the answers. |
| `Processes` | The four processes from the first line of `run()` to the exit: what is opened, in which order, what a signal or a failure stops, and what is closed under the deadline. |
| `ProcessesProofs` | Theorems about `Processes`: from one start to one exit, whoever else starts. |
| `MCAgentRuns`, `MCAgentLoop`, `MCIngestion`, `MCRunStream`, `MCCheckout`, `MCLabFaults`, `MCUploads`, `MCCalls`, `MCProcesses` | Instances for TLC. |

The modules compose by contract: `AgentLoop` implements `LoopContract`, whose
actions (`Decide`, `ModelFails`, `CreateStep`, `CreateDetail`, `ReportFails`)
are the actions of the same names in `AgentRuns`, and `AgentRuns` implements
`RunLifecycle`. The loop's detail and the concurrency of the workers are thus
checked apart, each on instances large enough to be interesting. `RunStream` has
one worker where `AgentRuns` has many: what it uses of them is the lifecycle both
implement. `Ingestion` begins with a row and a file that can be read, which is what `Uploads`
shows of every row but one; `AgentRuns` and `Ingestion` take `Overrun` as given, and
`Calls` is about the estimate that is meant to keep it FALSE; what a worker's crash or
shutdown interrupts is an action there, and in `Processes` the thing itself. `Calls`
composes the agent's clients with the server at the other end of one of them. The lab is a system of its own: the agent meets it only through the
metrics and logs its tools read. `Checkout` and `LabFaults` divide it between the
requests and the faults. What they share is what a fault does to a request, and
`Checkout` allows it at any time: an error fault may fail any request, and a
latency or a saturated CPU makes any timeout fire.

### AgentRuns

| Variable | Code |
|---|---|
| `row` | `agent_runs`: `status`, `attempts`, `step_count` |
| `steps` | `agent_steps` of the run. `by` is a history field: which claim wrote the row |
| `aged` | whether the row's timestamp is past the cutoff that applies to its status (PendingAfter for PENDING, the lease for RUNNING) |
| `unsent` | the API has inserted the row and not produced yet |
| `backlog`, `read`, `owner` | records past the group's committed offset, how many of those the owner has been given, which member owns the partition |
| `worker` | where in `Handler.Handle` each worker is, with the attempt the code knows (`attempt`), the one it was really given (`claim`, which the code never sees), and the loop's counters |
| `swept` | candidates a sweep has listed and not yet produced for |

| Action | Code |
|---|---|
| `CreateRun`, `EnqueueRun`, `EnqueueLost` | `Server.createRun`, `enqueueRun` and its swallowed failure |
| `Assign`, `Evict`, `Duplicate`, `Poll`, `Commit`, `CommitFails` | the consumer group, `Consumer.Run`, `Consumer.handle` |
| `ClaimRun`, `RefusedClaim`, `Reread` | `Store.ClaimRun` (one transaction), its refusal, the `GetRun` after it |
| `Decide`, `ModelFails` | `Agent.Run` between two reports |
| `CreateStep`, `CreateDetail`, `ReportFails` | `Handler.ReportStep`: the step row, its child rows, an error from either |
| `FinishRun`, `StatementFails`, `Crash` | the conditional terminal write, an error from a statement, a crash or shutdown |
| `Age`, `SweepList`, `SweepProduce`, `SweepProduceFails` | time, and `Runner.Sweep` with `ListRunsToReconcile` and `DueRun` |

Redis is left out here and is `RunStream`'s subject: every failure of it is
swallowed by the code and nothing in MySQL is derived from it. Time is the single bit `aged`; `Overrun` says
whether a lease may expire under a live attempt. `LoadAgentWorker` refuses a
lease shorter than its estimate of the longest run, so `Overrun = FALSE` is the
configuration's intent and `Overrun = TRUE` is what happens when the estimate is
wrong (waits on MySQL and retry sleeps are not in it).

### AgentLoop

`number`, `count`, `toolCalls`, `streak`, `records`, `turns` and `forced` are
the fields of `runState`; `db` is the rows `ReportStep` has written. The model
may choose any tool, any query, finish with any citations, or answer nothing
usable; `forced` is the bound that left it `finish` alone. Texts are model
values and `TooLong` are those a column does not hold. What the prompt's size
depends on is left out, so TOKEN_BUDGET may stop the run at any step.

### Ingestion

`doc` is the row, `index` the batches the index holds for a document (a bulk request
is the unit), `late` the bulk requests and deletes by query that were given up on,
or whose worker crashed, and that Elasticsearch may still carry out (`Land`,
`LandDelete`), `struck` a document such a delete has taken chunks of, `aged` how far
the row's timestamp is past the sweep's cutoffs: the query for FAILED documents
knows only the shortest backoff ("listed"), and `DueDocument` looks again at the
backoff of the row's attempts ("due"). `Prepare` is everything before the index is
touched (read, parse, chunk, embed); `DeleteByDocument` is both the leading delete
and the cleanup's. `Terminal` is conditional on PROCESSING and on nothing else, as
in the store. The read position, modelled in `AgentRuns`, is reduced here to a
backlog.

### RunStream

| Variable | Code |
|---|---|
| `row`, `steps`, `writer` | the run, its step rows, and the one worker that holds it: rows first, then the event that tells of them |
| `stream`, `lastId` | the entries of `run:<id>:events`, and the clock Redis takes ids from, which outlives a stream that is deleted |
| `torn` | history: a `run.started` was not published, or the stream was lost after it |
| `sse`, `after`, `wire` | where `streamRunEvents` is (replay, follow, ask MySQL whether the run is over), the last entry it has read, the frames on their way |
| `page`, `last`, `over`, `shown` | the page's position, its Last-Event-ID, whether the row it read was over, the steps on the screen with the attempt each is of |

The worker's actions are the claim and the trim that follows it, `CreateStep`,
`Publish` and its failure, the terminal write; the handler's are a replay from
Last-Event-ID, a blocking read, and the idle question to MySQL; the page's are
`openRun` (a row, then its steps: two reads), the subscription, each frame, and the
reload that ends it. A broken connection loses the frames on their way and the
browser comes back with the last id it had. A subscription may be answered with an
error that is not 410; the history variable `refused` remembers it.

### Checkout

| Variable | Code |
|---|---|
| `gen`, `sent`, `posts`, `inFlight` | `Load.run`: the dispatching loop, what its phase has sent and sampled, the count that bounds it |
| `client`, `gone`, `missing` | `Load.request` of each order: the POST, then the control GET of what it created; requests it gave up on; orders it did not find again |
| `checkout`, `timeouts` | `createOrder` of each order, with the answer it gave; the counter of its client timeouts |
| `book`, `created` | `orderBook`: the map and the eviction order; history: everything put in it |
| `payment`, `left` | `charge` of each order in payment-service, with its answer; those whose caller has cancelled the call |
| `tokens`, `inUse` | the pool's channel, by the order each connection is held for; the gauge, which is a second update |
| `charged` | orders the simulated processor has authorized |

`callProcessor` is `Acquire`, `CountIn`, `Process`, `CountOut` and `Release`: the
processor's sleep does not look at the context, and `release` is deferred. The
wait for a connection is the one part of it that a caller's leaving may end
(`Refuse`). A request may reach a service after its sender has stopped waiting
(`Arrive`, `PaymentArrive`) or be dropped with its connection (`Drop`). Refunds go
through `callProcessor` too and would add a second kind of holder with the same steps.

### LabFaults

| Variable | Code |
|---|---|
| `fault`, `spinning`, `ending`, `lock` | `fault.Controller` of each service: the settings, the goroutines its cancel function reaches, those cancelled and not returned, who holds the mutex |
| `calls`, `reply` | requests to `/fault` the services have not carried out; what the scenario knows of the one it is making |
| `at`, `script`, `plan` | where `scenario.Run` (or a `Driver`: `Start`, hold, `Stop`) is, and the fault it injects |
| `stopping`, `cleared` | the cancelled context of an interrupt; whether the last clean-up reported success |
| `overtaken` | history: a service carried out a call before an earlier one its sender had given up on |

`setCPU` and `Clear` cancel the goroutines and wait for them under the mutex
(`Lock`, `BurnReturns`) before they set anything (`CarryOut`). `clearFaults` visits
the services in order and stops at the first that fails. A script's cleanup is
deferred only after its first clearing, a driver's `Stop` is the caller's to defer;
neither runs on a kill. `Restart` is a service that comes back healthy. Its specification
is `FaultsSpec` (`FairFaultsSpec` with fairness), since one module of proofs extends both
this one and `Checkout`.

### Uploads

| Variable | Code |
|---|---|
| `issued`, `up` | the ULIDs given, in order; where `uploadDocument` is with each request, what `readUpload` has collected, the answer |
| `disk` | the document's directory under the storage root: absent, empty, or a file of so many bytes of so many sent |
| `row`, `queue` | the `documents` row (its size and type); the produced records |
| `listing` | a client: filter, limit, cursor, and everything it has been shown |
| `lost`, `kept`, `misread` | history: inserts that were applied and reported failed, directories that could not be removed, files the worker did not find whole |

Parts of the multipart body come in any order and number (`FieldPart`,
`FileRefused`, `OpenFile`, `CopyFile`), reasons to refuse are collected, and only the
end of the body (`BodyEnds`) acts on them. `RemoveUpload` is every removal of the
code. `CreateFails` is an insert that fails or whose answer is lost, which the caller
cannot tell apart. `Crash` leaves whatever is on disk and in the table.
`ListDocuments` is one page: the query with its one row more, and `paginate`.

### Tools and Calls

| Variable | Code |
|---|---|
| `calling`, `srv`, `ask`, `expired` | the tool called, where its handler is, the arguments it took, its own deadline |
| `log`, `scan` | the lines of the service's log, which may grow; `scanLog`'s window and counts |
| `reply`, `view` | the answer with its envelope (`Meta`); history: its data and what they were made of |
| `fault` | history: what really happened to the call |
| `job`, `pos`, `forced`, `steps` | who calls (a run or an ingestion) and what it is in; `Agent.Run`'s bounds |
| `try`, `vectors` | the retry loop of a client; the vectors returned so far |
| `clock`, `slept`, `hung` | what an investigation's calls took; of it, waits between attempts, and searches beyond SEARCH_TIMEOUT |
| `row` | the status the last tool call is recorded with |

`RequestFails` and `Sleep` are one loop for both clients, as in the code, with
`ChatRetryable` and `EmbedRetryable` for where they differ. Delays are computed in
`Width` bits (`Wrapped`), as `time.Duration` is. `EmbedBatch` gives a batch any
answer: any order, too few, too many, an index twice or out of range. `Search`
takes as long as Elasticsearch takes, since the code applies no timeout to it.
`ToolAnswer`, `ToolDeadline` and `ToolLost` are the three ends of a session's call.
Texts are the widths of their runes, so that a cut inside a rune is possible;
series are points with NaN among their values. An answer and a refusal are capped
(`Ok`, `Refused`); the note of a failure, which may hold the whole query or path, and
the SDK's words for arguments it turns down are neither cut nor marked (`Failed`,
`Rejected`), as in the code.

### Processes

`Path(kind)` is what `run()` opens, in order, and which of it registers a closer.
`Open`, `OpenFails`, and for the two steps that are protocols `CreateTopic`,
`VerifyTopics` (with the broker's late metadata) and `ResolveAlias`, `CheckName`,
`CreateIndex`, `ResolveAgain`. A running worker has its consumer (`Poll`, `Handle`,
`Handled`, `AllowRebalance`, `RunReturns`), its sweep and its metrics server; a
server has its listener and a `Request`. `StopWorker`, `StopServer` and `GiveUp` are
the select of the main functions (where a tool server that has both a signal and a failed
listener may take either branch), `WaitFor` the wait for goroutines, `BeginClose`,
`CloserEnds` and `Awaited` are `runClose`, where the close function runs on a goroutine
of its own and may outlast the wait. `Tick` lets time pass only when no process that
is stopping has an instantaneous step (`Due`), so the clock measures what the code
waits for and nothing else.

## 3. Runs: what is checked and what it shows

| Run | Instance | What it shows |
|---|---|---|
| `agentruns` | 1 run, 2 workers, 2 attempts, 2 steps, 2 faults | no redelivery, duplicate, eviction, crash or failed statement puts two workers into one investigation (`OneInvestigation`), splices a timeline (`TimelineOfOneAttempt`, `EndedTimeline`), lets a superseded attempt end a run (`EndedByItsAttempt`) or strands it (`EveryRunSettles`); a reader sees the lifecycle it is promised (`RefinesLifecycle`), in which a restart is one step and an ended run never moves |
| `agentloop` | 3 steps, 2 tool calls, 2 documents of which one has lost its row, 2 citations, 1 fault | the budget is overrun by the forced finish only, and a second unusable answer in a row ends the run (`BudgetKept`); the rows tell the outcome's story (`AuditTrail`); stored citations are true, and the numbers the prompt shows are the ones it may cite (`CitationsHold`); the attempt ends (`AttemptEnds`) and implements `LoopContract` (`RefinesContract`) |
| `ingestion` | 1 document, 2 batches, 2 workers, 3 faults | READY means every chunk is in the index and stays there, unless a delete that was given up on takes them later (`ReadyIsComplete`); one worker at a time (`OneIngestion`); a document settles (`EveryDocumentSettles`) |
| `ingestion_batch` | 2 documents, the older broken, sweep limit 1 | the limit is applied after the attempts are looked at, so a document nothing can ingest does not starve a younger one |
| `runstream` | 1 run of 2 attempts and 2 steps, 1 page, 3 faults | an event is sent once and in order, and none is passed over between replay, follow and reconnection (`SentOnce`); the screen shows the steps of one attempt unless a `run.started` was lost, each of them written (`ShownIsOneAttempt`); a page that stopped looking shows the whole of a run that is over, unless its subscription was refused (`SettledIsTruth`), and it does stop (`PageSettles`) |
| `checkout` | 2 orders, a pool of 1, a book of 1 | no more connections are taken than there are, each for a charge in progress, and the gauge never shows more (`PoolKept`); an order exists only for a charged card, and of the answers an order may get only a timeout, a broken call and a client that left leave the charge open (`ChargeFate`); the book is the newest orders (`BookHoldsNewest`); a connection comes back whoever has left, and the phase returns (`HeldEnds`) |
| `labfaults` | 2 services, 2 goroutines to a CPU fault, 2 scenarios, 2 failures | a controller owns every goroutine it started (`SpinningOwned`); a phase measures its own fault, whatever earlier scenarios left (`OwnIncident`); a clean-up that reported success left the lab healthy (`LeftHealthy`); a scenario ends (`ScenarioEnds`) |
| `uploads` | 2 documents stored, 2 uploads at once, files below and above the limit, pages of 1 and 2, 2 failures | a row has its file, whole and within the limit, for whoever reads it, except where an insert's answer was lost (`RowHasFile`); 201 and every error are true of row and file (`AnswersAreTrue`); following the cursors shows each document that was there once, newest first, with no empty page (`PagesPartition`) |
| `calls` | 2 steps, 1 chat retry, 4 embedding retries, 3 chunks in batches of 2, a log of 2 lines, series of up to 5 points of which 3 are shown | an investigation stays within the estimate the lease is sized by, but for waits between attempts and searches that outlast their timeout (`EstimateHolds`); waits stay within their cap and grow (`BackoffHolds`); vectors stay with their texts (`VectorsInPlace`); a tool call is recorded as what became of it (`StatusIsTrue`); an answer is of the window or series asked for, and one that is no error fits the cap and says whether it was cut (`AnswerHolds`) |
| `processes` | two workers started together, one of them told to stop (two ingestion workers; one of each), and an agent worker, the API and the tool server alone | starting together is safe on every broker and index found (`StartsTogether`); nothing is closed under a handler before the deadline (`NothingClosedUnder`); what is reported incomplete or failed is so and nothing else is (`HonestReport`); leaving the group waits for a handler only (`LeavesGroup`); the process is gone within its budgets (`ExitWithin`); and no state of it is a deadlock |
| `agentloop_citation`, `calls_search` | as their cfg says | the disagreements of section 7; each finds a counterexample |

Each property of a passing run has a *mutant*: a definition beside the real one,
commented "A mistaken ...", that changes it as a plausible bug would (a claim
that does not look at the lease, a claim that keeps the old steps, a sweep that
gives up an attempt early, a loop over the batches that leaves the last one
out...). With the mutant in place of the definition TLC finds the property
violated under the same configuration. That is how we know that the instance is
large enough for the property to mean something.

`CHECK_DEADLOCK FALSE` is in every configuration but that of `processes`: a system
whose runs have all ended, whose backlog is empty and whose bounded faults are spent
has nothing to do, and rightly stops. `processes` checks deadlock: there, a process
that waits for what never comes is the error looked for, and one that has exited may
rest.

The type invariants are proved and in no run: each is a conjunct of its module's
inductive invariant (section 6; `CallsTyped`, `Reading` and `StatusInv` are what is typed
of `Calls` and `Tools`). So are `EndedRunIsFinal`, the `EndedByItsAttempt` of
`Ingestion`, `PhaseCounts`, and the `RefinesLifecycle` of `RunStream`.

## 4. Bounds

Every bound is a constant that appears in a guard, never a state constraint, so
liveness is checked on the whole of the bounded system.

| Bound | Stands for | Why the value is enough |
|---|---|---|
| `MaxFaults` | crashes, evictions, failed statements, failed commits, lost or doubled produces | two of any kind, in any order, at any point: one to lose the work and one to disturb its recovery. `ingestion` takes three, since it needs a failed bulk, a failed cleanup and a crash or an eviction together; `runstream` three, for a lost publish, a broken connection and a crash in one life of a page |
| `MaxBacklog` | unread records of one run | 1 for runs, on top of those the owner has already been given: a duplicate beside the record in hand. A sweep that would exceed it produces nothing. 2 for documents, where the record in hand counts |
| `MaxAttempts` | RUN_MAX_ATTEMPTS, INGEST_MAX_ATTEMPTS | 2: a first attempt and a restart, and a limit that is reached. In `RunStream` it bounds the claims themselves |
| `MaxSteps` | `agent_runs.max_steps` | 2 in `AgentRuns` and `RunStream` (a step that continues and one that ends); 3 in `AgentLoop`, so an unusable answer can come first, in the middle or last |
| `Batch` | RECONCILE_BATCH | 1, so that the limit bites |
| workers, runs, documents | | two workers are what a race takes; two documents only where the property relates documents. `agentruns` has one run: the runs of one incident meet only in `CreateRun`'s guard, and what two of them do together is in the theorem `ImplementsLifecycle`, which holds for any number |
| orders, `PoolSize`, `MaxOrders`, `MaxInFlight` | PAYMENT_POOL_SIZE, the book's bound, the generator's | 2 orders for 1 connection and a book of 1: one waits, one is evicted. The generator's bound is 2 so that both are in flight |
| `Workers` | a CPU fault's goroutines | 2: one may have returned while the canceller waits for the other |
| `MaxScenarios` | scenarios one after another | 2: one to leave something behind and one to find it |
| `MaxFailures` | interrupts, kills, failed calls and phases, restarts of a service | 2: a scenario that is interrupted and whose clean-up fails, or is killed and whose successor loses a service |
| `MaxCitations` | citations of one finish | 2: one that resolves and one that does not |
| `Stored`, `MaxUploads`, `Sizes`, `MaxBytes`; `MaxFailures` of `Uploads` | documents before and while the listing is read; DOCUMENT_MAX_UPLOAD_BYTES | 2 and 2, of two types, sizes 1 and 2 for a limit of 1: a page can end between, before and after a row that appears late, and a file can exceed the limit. 2 failures: one to undo a write and one to undo its undoing |
| `MaxLines`, `MaxLogLines`, `MaxPoints`, `Rendered`, `LimitBytes` | a log, its window, a series, what is shown of it, the cap | 2 lines for a window of 1 or 2, 5 points for 3 shown: one more than fits, and more than one more. A cap of 7 bytes with a marker of 2, for a text of 7, one that is cut between runes and one that is cut inside a rune |
| `MaxSteps`, `LongestSearch` of `Calls` | the steps of a run; what a search takes | 2 and 3, for a MaxRun of 2: a step that ends just before the bound and one that passes it. A search may take three times its timeout |
| `ChatRetries`, `EmbedRetries`, `Width` | LLM_MAX_RETRIES, EMBED_MAX_RETRIES, the 64 bits of a duration | 1 and 4 in 4 bits: the third wait meets the cap and the fourth overflows |
| `RetryAfters` | what a provider asks for | nothing, less than the cap, more than the cap, more than fits the width |
| `MaxBatch`, `MaxTrouble` | records of a poll; closers of a process that hang or fail | 2: the rest of a batch skipped; one closer that spends the deadline and one behind it |
| `MetadataLags`, `WorkTimes`, `CloserTimes` | | at, below and above the timeout each is measured against, and `Forever` |

Attempt numbers, step numbers and counters are unbounded naturals in the
theorems; in TLC the claims are bounded by faults and by the backlog.

## 5. Fairness

Weak fairness only, and only of what the code or its platform keeps doing: a
worker's handler takes its next step, its consumer polls a record it owns, its sweep
runs on a ticker (`reconcile.Runner.Run`), Kafka assigns an unowned partition, and
time passes. A handler's next step is its own statement or the end of a call. The
calls to the model, the embedding provider and the tool server have timeouts; MySQL
and Elasticsearch are called on the run's context, which has none
(`SEARCH_TIMEOUT` is not applied, section 7), so for these two the fairness assumes
that the server answers or the connection fails. A server that does neither holds the
handler for good, and its run until the worker is restarted.
Nothing is assumed of the API, of Elasticsearch applying a request that was
given up on, or of any fault. In particular `EnqueueRun` is not fair: that a run
whose record was never produced is nevertheless picked up is the sweep's doing,
and what `EveryRunSettles` is about. `AgentLoop` assumes fairness of its own
steps only, `RunStream` of the SSE handler (its reads have timeouts) and the page
(the browser reconnects by itself), and not of the worker or the user: what
`PageSettles` promises, it promises of a run that has ended. `Checkout` assumes it
of payment-service's handler once it holds a connection (a sleep and deferred
statements), and of the generator, whose loop has a deadline and whose requests
have timeouts; a charge that waits for a connection is not assumed to get one.
`LabFaults` assumes it of the services and of the scenario; a call to a service
is not assumed to be answered, except by the service. In `AgentLoop` the
model may answer nonsense for ever, and the attempt ends because
of the bounds. `Uploads`, `Calls` and `Processes` state no fairness: what they promise
is safety, `ExitWithin` included, which bounds the clock at every state.

## 6. Proofs

For any sets of runs, incidents, documents, workers, orders, services and processes, any
limits on attempts, steps, batches, faults and backlogs, any timeouts, and any logs,
series and texts:

| Module | Theorem | Statement |
|---|---|---|
| `AgentRunsProofs` | `TypeCorrect` | `Spec => []TypeOK`; no assumption about leases |
| | `InvestigationCorrect` | `~Overrun => (Spec => []InvestigationInv)` |
| | `InvestigationExclusive` | `~Overrun => (Spec => []OneInvestigation)` |
| | `TimelineUnspliced` | `~Overrun => (Spec => []TimelineOfOneAttempt)` |
| | `EndedIsFinal` | `~Overrun => (Spec => EndedRunIsFinal)` |
| | `TimelineCorrect` | `~Overrun => (Spec => []TimelineInv)` |
| | `EndedAsCounted` | `~Overrun => (Spec => []EndedTimeline)` |
| | `EndedByOwnAttempt` | `~Overrun => (Spec => EndedByItsAttempt)` |
| | `ImplementsLifecycle` | `~Overrun => (Spec => RefinesLifecycle)` |
| `IngestionProofs` | `TypeCorrect` | `Spec => []TypeOK`; no assumption about leases |
| | `IngestedByOne` | `~Overrun => (Spec => []OneIngestion)` |
| | `ReadyStaysComplete` | `~Overrun => (Spec => []ReadyIsComplete)` |
| | `EndedByOwnAttempt` | `~Overrun => (Spec => EndedByItsAttempt)` |
| `AgentLoopProofs` | `LoopInvHolds` | `Spec => []LoopInv` |
| | `BudgetHolds` | `Spec => []BudgetKept` |
| | `AuditHolds` | `Spec => []AuditTrail` |
| | `CitationsAreTrue` | `Spec => []CitationsHold` |
| | `ImplementsContract` | `Spec => RefinesContract` |
| `RunStreamProofs` | `WatchInvHolds` | `Spec => []WatchInv` |
| | `EventsSentOnce` | `Spec => []SentOnce` |
| | `ScreenIsOneAttempt` | `Spec => []ShownIsOneAttempt` |
| | `StoppedPageIsRight` | `Spec => []SettledIsTruth` |
| | `ImplementsLifecycle` | `Spec => RefinesLifecycle` |
| `LabProofs` | `CheckoutTypes` | `Spec => []TypeOK` |
| | `PoolIsKept` | `Spec => []PoolKept` |
| | `ChargesAreKnown` | `Spec => []ChargeFate` |
| | `PhaseIsCounted` | `Spec => []PhaseCounts` |
| | `BookIsNewest` | `Spec => []BookHoldsNewest` |
| | `LabInvHolds` | `FaultsSpec => []LabInv` |
| | `GoroutinesOwned` | `FaultsSpec => []SpinningOwned` |
| | `PhaseMeasuresItsOwn` | `FaultsSpec => []OwnIncident` |
| | `CleanUpLeavesHealthy` | `FaultsSpec => []LeftHealthy` |
| `UploadsProofs` | `UploadInvHolds` | `Spec => []UploadInv` |
| | `RowsHaveFiles` | `Spec => []RowHasFile` |
| | `AnswersHold` | `Spec => []AnswersAreTrue` |
| | `PagesArePartition` | `Spec => []PagesPartition` |
| `CallsProofs` | `EstimateInvHolds` | `Spec => []EstimateInv` |
| | `EstimateIsEnough` | `Spec => []EstimateHolds` |
| | `BoundedSearchIsEnough` | `LongestSearch <= SearchTimeout` gives `Spec => []SearchIsBounded` |
| | `BackoffIsBounded` | `Spec => []BackoffHolds` |
| | `VectorsAreInPlace` | `Spec => []VectorsInPlace` |
| | `StatusesAreTrue` | `Spec => []StatusIsTrue` |
| | `AnswersInvHolds` | `Spec => []AnswersInv` |
| | `AnswersAreRight` | `Spec => []AnswerHolds` |
| `ProcessesProofs` | `ProcessInvHolds` | `Spec => []ProcessInv` |
| | `StartsTogetherHolds` | `Spec => []StartsTogether` |
| | `NothingClosedUnderWork` | `Spec => []NothingClosedUnder` |
| | `ReportIsHonest` | `Spec => []HonestReport` |
| | `GroupIsLeft` | `Spec => []LeavesGroup` |
| | `ExitsInTime` | `Spec => []ExitWithin` |

The assumptions are the named ASSUMEs of the modules, which are about the constants
alone: limits are natural numbers, a set of orders, goroutines or ids is finite, a model
value is none of the values it stands apart from, the time that never ends exceeds the
timeouts, a timeout is at least 1 and the first delay is not above the cap, the marker of
a cut answer fits the cap, at least two points of a series are shown. No theorem of
`AgentLoop`, `RunStream`, `Checkout`, `LabFaults`, `Uploads`, `Calls` or `Processes` has a
hypothesis beyond them, but for `BoundedSearchIsEnough`, whose hypothesis is the very
thing the code does not see to (section 7). Those of `AgentRuns` and `Ingestion` have
`~Overrun` where the statement says so: the lease outlasts the attempt. Without it
`TimelineOfOneAttempt` and `OneIngestion` fail (section 7), so the configuration check
of `LoadAgentWorker` is not a convenience but the hypothesis on which they rest; what that
check computes is the subject of `EstimateIsEnough`.

*The lease.* `OneInvestigation` is not inductive: from a state in which one
worker is investigating and the row says PENDING, a second may claim. What
excludes that state is `LeaseKept`: a worker inside an investigation holds the
row's current attempt, the row is RUNNING, and its lease has not expired.
`InvestigationInv` adds it, with `TypeOK` and `TimelineOfOneAttempt`.
A claim then needs PENDING, or RUNNING with an expired lease, and so cannot take
a run from a worker in it; `Age` cannot expire a held lease (`~Overrun`);
`Reread` reads the worker's own attempt, because nobody can have claimed in
between; `FinishRun` moves the row away from RUNNING only as its writer leaves
the investigation; and a step is written only by the current attempt, while a
claim that changes the attempt deletes every row in the same transaction.
The proof is by one lemma to a kind of move (`Continues`: a worker goes on
inside; `Leaves`: it leaves; `Claims`: it enters) and one step for each action
(`InvestigationStep`). `EndedIsFinal` then follows from `LeaseKept` before the
step: the actions that change a row or its steps need a worker inside, and the
row of a worker inside is not terminal.

*The timeline.* That an outcome agrees with its rows is a fact about a worker's
local counters, which it reaches step by step: `Knows(w)` says, for each position
of the handler, what the worker knows of the timeline it is writing (at the top of
the loop the rows are numbered 1 to its count; between the step row and its
details they are numbered one further; at the terminal write they are as many as
the outcome claims, or one more if the last report failed). It is inductive only
with the lease: another worker's step would falsify it, and `OthersLeftAlone` says
that there is none. `TimelineInv` is `InvestigationInv` with `Knows` and
`EndedTimeline`.

*The refinement.* `StepRefines` maps each step to one of `RunLifecycle` or to a
stutter: `CreateRun`, `ClaimRun`, `CreateStep` and `FinishRun` are its `Create`, its
restart, its step and its end, and every other step leaves rows and timelines alone.
The guard of the abstract step (the numbers grow by one, without a gap, in a run
that is RUNNING) is what `TimelineInv` provides.

*Documents.* The same lease argument, with one difference: the result is in
another store. `IngestionInv` adds `BatchesKept`, what the worker has put into the
index so far, which holds because nobody else deletes what it wrote
(`OneIngestion`) and a late bulk request only adds. `ReadyIsComplete` follows where
the document becomes READY from `BatchesKept`, and is kept because a delete needs a
worker inside an ingestion, whose row is PROCESSING. Both except a document that a
late delete has taken chunks of since its last leading delete (`struck`), which needs
no worker at all (section 7). The lemmas are one to a kind of
step: `Apart`, `Outside`, `Inside`, `ClaimStep`, `TerminalStep`.

*The pool.* `PoolKept` compares a gauge with a set, and both change in steps of
their own. `PoolInv` says what each is the number of: `inUse` of the orders between
`CountIn` and `CountOut` (`CountedIn`), `tokens` the orders between `Acquire` and
`Release` (`HeldFor`), `inFlight` of those between `Dispatch` and `Record`
(`Sending`). The first is a subset of the second, so the gauge is never above the
connections taken. That a count goes down only by an order counted in it is what
keeps it a natural number, so `TypeOK` is itself inductive only with `PoolInv`.
`Uncharged` (payment-service has nothing of an order whose handler has not called
it) is what says that `Charge` disturbs none of the three. `ChargeInv` ties an
authorization to the places behind `Process`, and the answer 502 given without
leaving the call to a refusal that was read; `CountsInv` says that what was sent is
in flight or sampled.

*The order book.* A fetch misses only an order that a bound's worth of newer ones came
after. `BookInv` says that no order was created twice (`Distinct`), that the eviction
order is the newest `MaxOrders` of what was created and the map has just those
(`Newest`), that whoever fetches an order has been told it was created, and that each one
missed has `MaxOrders` created after it (`Passed`). `create` appends and drops from the
front in one action, so the suffix moves by one.

*The loop.* The three invariants of `AgentLoop` are about counters, rows and records
that one iteration moves one after the other, so none is inductive. `LoopInv` says what
is so at each position: `PositionKept` and `BudgetLeft` what the position says of
the decision in hand and of the limits still open; `RowsKept` that the step rows are numbered 1 to
`count`, or one further while a report is under way; `CallsKept` how many rows a tool
call has left by then; `StreakKept` that the streak is the unusable answers at the end
of the turns; `SourcesKept` and `LabelsKept` that what may be cited was retrieved and is shown
under the number it has. `CitationsHold` rests on the last two and on the citation
being decoded against the records of the same attempt. `ImplementsContract` maps each
report to a `CreateStep` or `CreateDetail` of `LoopContract` and everything between two
reports to one of its decisions or to a stutter.

*A watched run.* Stream, handler, socket and page each hold a piece of the same
sequence of events. `WatchInv` lines them up: `StreamKept` makes the entries an interval
of ids that ends at the last one given, so a trim or a deletion takes a prefix;
`WireKept` makes the frames on their way exactly what lies between the last id the page
had and the last entry the handler has read; `FactsKept` says that an entry told of a row
that was committed first; `PageKept` what each position of the page knows. Where no
`run.started` was lost (`~torn`), `Spliceless` says that behind a claim the stream either
still starts with the old attempt and has the new `run.started` to come, or has it already. `SentOnce`,
`ShownIsOneAttempt` and `SettledIsTruth` are consequences. `ImplementsLifecycle` needs of
it only that the writer's step number is the next of the row's steps (`RowsKept`): with
`AgentRunsProofs!ImplementsLifecycle`, what the page is shown to follow is what the
workers are shown to do.

*The faults.* `SpinningOwned` is false inside a controller's lock, and `LeftHealthy` is
about calls of long ago. `LabInv` has `LocksKept` (what is spinning and what is
ending, for each holder of the lock), `CallsKept` (requests carry the numbers they were
sent under, the scenario's own the newest) and, as long as no call was carried out before
an earlier one (`~overtaken`), `PlaceKept`: at each position of the script, which
services are known to be healthy and which fault, if any, is on. That last part is what
the exception in both properties is about, and the proof shows that it is the only one
needed.

*Uploads and the listing.* `UploadInv` states for each document, by the place its request
is in, how its directory, its row and the histories agree (`DocumentsKept`). A row
appears at any moment, with an id that may lie behind the client's cursor, so
`PagesPartition` cannot be read off the rows. A second inductive invariant, `ListKept`,
needs of the first that a row once written stays (`RowsAreStable`): what was shown
descends, that all of it lies at or above the cursor, that each document that was there
at the beginning has been shown or is still ahead, and that a cursor was given only
when there was something before it. `paginate`'s row more than the page is that last
fact.

*The processes.* `ProcessInv` has two halves. What a process keeps by itself (`Kept`) is
about a record and nothing else: what it has registered at each step of its
start (`StartKept`), that nothing is closed before the closing (`LifeKept`), how far its
clock may have come (`ClockKept`), and where its closers stand (`ClosingKept`): those not
yet come to are open, those behind it ended or were left incomplete after the deadline,
and from the first incomplete one on all are. That what handlers use is registered before what
waits for handlers is a fact about the four paths (`Order`), and `NothingClosedUnder`
follows from the two. What it knows of the others (`Knows`) is about
the broker and the index they share: a topic it has found, or created, is there and is
known in time unless the broker is slow; whoever's create of the index was refused knows
that one exists. `KnowsAdded`, `KnowsRepointed` and `KnowsAged` say that nobody is
made wrong by a topic that another creates, an alias that is moved, or time. Each action
is first reduced to what it changes of one record (`Loops`, `Begins`, `Awaits`...), and
the invariant is proved of these changes.

*Loops over data.* `Shifted`, `Bytes` and `Describe` are recursive functions: a CHOOSE of
a function that satisfies an equation, of which nothing is known until such a function is
shown to exist. The library's induction theorems take an operator as a parameter and
cannot be used; sets serve instead. `Smallest` (a set of naturals has a least member, from
the well-foundedness of `<`) gives `Induct`, and `Induct` gives `Loop`: for any step function
there is a function of what it computes round by round (`Rounds`). `Doubling`, `Summed` and
`Described` show each recursion equal to such a loop, after which what holds of a
shift, a size or a summary is an induction over its rounds.

*The estimate.* A run's clock is below the worst case at the end only because of what it
may have been before. `SpentKept` says what has been spent at most at each place of the
attempt, from the two facts of the code that a bound is looked at between steps
only and that the forced finish is one more call of the model; `Tried` adds what the
attempts of the call in hand took, never more than its retries allow (`Made`,
`Budget`). An ingestion keeps no clock. `BoundedSearchIsEnough` is the other half of the
finding about SEARCH_TIMEOUT: with a search that ends in its time the estimate holds as
the configuration says.

*The waits.* What is waited is a function of what was asked for and the number of the
attempt (`Asked`), and `AskedBackoff` is arithmetic: a shift grows (`ShiftGrows`), and what
fits the width is not changed by it (`WrappedFits`). The proof corrected the property. As
first stated it had every wait at least `BaseDelay`; but a wait a provider asks for is granted
also when it is shorter, as the code has it, and an earlier wait may have been longer.
The values in the run did not tell the two apart.

*The vectors.* A response is taken if its indices are within the batch and no two are the
same. That they are then all of the batch is counting (`AllOfThem`), and that each vector
lands at its text's place is `PairOrders`.

*The statuses.* `Answers` relates what a handler can answer to what happened to it, tool by
tool (`ToolSteps`). Each of the layers from the envelope to the row reads it the
same way (`AnswerConveyed`).

*The answers.* `AnswersInv` says what a handler has read so far. For a log, `Scanned`:
there is a numbering of the matching lines up to the place reached, in their order, and the
window is the last of it (`WindowMoves`: one more in, the oldest out when it is full); what the
service appends meanwhile lies behind that place (`LogGrows`). At the end of the log that
is `LogAnswer` (`ReadToTheEnd`). For a series, `Described` is an induction over its points,
and `SampleEven` is about integer quotients: steps of `a / b` from 0 to `b` differ by at
most one, begin at 0 and end at `a`. `CapFits` says that a cut gives up less than
a rune, from the sums over the starts of a text. `ResultFits` says it of the answers
that are no errors, refusals among them; of a failure's note it does not hold (section 7).

*Only model-checked:* what is temporal beyond invariants, action properties and
refinement (`EveryRunSettles`, `EveryDocumentSettles`, `AttemptEnds`, `PageSettles`,
`HeldEnds`, `ScenarioEnds`, which need fairness and ENABLED, outside this prover's
reach), and the absence of deadlock in `processes` (ENABLED again). Every other property of
a passing run is a theorem. *Only proved*, and in no run: the inductive invariants as wholes,
`AgentRuns!EndedRunIsFinal` (which `RefinesLifecycle` contains), the `EndedByItsAttempt` of
`Ingestion`, `PhaseCounts`, and `RunStream`'s `RefinesLifecycle`.

## 7. Disagreements found between the code and its own words

Two have a run whose counterexample TLC prints.

- **A citation can discard the diagnosis** (`agentloop_citation`).
  `resolveEvidence` falls back on `search_knowledge(<query>)`, which may be longer
  than `evidence.source_ref` holds; MySQL refuses the row, the report fails and
  the run ends FAILED with its diagnosis in hand.
- **SEARCH_TIMEOUT is not applied** (`calls_search`). The client stores it
  (`internal/search/search.go:128`) and `Client.Search` never reads it, so a run's
  search has no deadline, although "without it a hung Elasticsearch bounds a run at
  nothing at all, and LoadAgentWorker's worst case would not be honest"
  (`internal/config/search.go:30`). The counterexample is an attempt past the worst case
  its lease is sized by.

Five are in the models, where `Overrun = TRUE` or an exception in a property shows
them, and in no run:

- **An overrun costs more than an outcome.** `FinishRun` is conditional on the
  attempt, `CreateStep` is not (`internal/agentrun/report.go:32`): a superseded attempt
  writes into its successor's timeline, and the successor then fails on the duplicate
  number. `internal/config/agentworker.go:76` promises "a discarded outcome rather than a
  corrupted row". `AgentRuns` with `Overrun = TRUE` violates `TimelineOfOneAttempt`.
- **Two workers on one document.** "Survivable" (`internal/store/documents.go:236`); but
  a superseded attempt's delete can remove what its successor indexed
  (`internal/ingest/handler.go:215`), after which nothing retries a READY document.
- **A late delete leaves a READY document without its chunks.** A delete by query that
  times out, or whose worker dies, may be carried out after the next attempt has indexed
  the document. The comment at `internal/search/search.go:426` has the leading delete make
  re-processing converge; here it undoes it, and nothing sweeps a READY document. It is
  the exception `struck` in `ReadyIsComplete`, without which TLC finds it in `ingestion`.
- **Not everything that leaves the tool server is capped.** "The 8 KiB is the size of what
  leaves this server" and "the cap is applied here, once, so no tool can forget it"
  (`internal/opsmcp/result.go:56`, `:60`); but `failed` (`result.go:100`) does not go
  through `ok`. Its note embeds an error that holds the URL, with the model's query
  (`prometheus.go:211`) or path (`probe.go:58`), so it may be over the cap, and
  `Truncated` stays false. Nor are the SDK's words for arguments it rejects capped. The
  models have these texts as they are, and `ResultFits` leaves out errors.
- **A closed stream means the run is over** (`web/index.html:348`). Any answer but 200
  closes an EventSource, and `streamRunEvents` answers 500 when MySQL fails its first
  read: the page reads the run once more and stays on a run that goes on. It is the
  exception `refused` in `SettledIsTruth`.

Noticed while modelling the worker's side: `RUN_MAX_ATTEMPTS` is "how many times a run
may be claimed" (`internal/config/agentworker.go:28`), but `ClaimRun` does not look at it,
so a record still in the log claims a run the sweep has given up on; after a
document's last attempt there is no next leading delete to clear what that attempt
left in the index; `tool_call_count` counts calls begun, and a report that fails leaves
it one above the rows; a failed trim does not splice the screen, since the `run.started`
behind it clears the page, and only a lost `run.started` does; a forced finish is
labelled "step 9 of 8" in the prompt's budget line; an invented tool name longer than
`tool_name` VARCHAR(64) fails its report as a long citation does; an abandoned document
has no attempt limit, since only the FAILED category has one. The lab: a POST to
`/fault` that a scenario gave up on may be carried out after the clean-up's DELETE, and
leaves the fault on although the clean-up reported success (the exception `overtaken`
in `LeftHealthy`, where `internal/lab/scenario/driver.go:137` says that a deferred `Stop`
is enough).

The clients and the tools: the waits between attempts are not in
`worstCaseRunDuration` (`slept` in `EstimateHolds`); neither MAX_RETRIES has an upper
bound, and from the 36th retry on the backoff overflows a duration and the client does
not wait; a deadline that passes while Prometheus' body is read is recorded as ERROR and
not as TIMEOUT (`internal/opsmcp/prometheus.go:217`); a probe whose body breaks off is
answered as a whole one (`internal/opsmcp/probe.go:66`); a series that begins with NaN is
summarised with NaN as its least and greatest value (`internal/opsmcp/prometheus.go:400`).
The documents: `removeUpload` after an insert whose answer was lost deletes the file of
a row that exists (the exception `lost` in `RowHasFile`); a statement cancelled because
its client left is answered as 500, where `internal/store/store.go:199` has it left out of
what is unavailable because the client has gone.

The processes: `goroutineTimeout` is "part of the shutdown budget, not additional to it"
(`cmd/agent-worker/main.go:58`), but `waitFor` runs before `Close` gets its whole
15 seconds (`ExitWithin` has the sum), and it runs to its end at every shutdown, since
the metrics server's goroutine, which only its closer ends, is one of those it waits for;
the API does not report what `Close` returns when serving fails (`cmd/api/main.go:184`); a
tool server that cannot serve exits without closing anything (`cmd/ops-mcp/main.go:86`);
and `checkNameIsFree` lets any answer but 200 pass, which createIndex then refuses.

## 8. What is not modelled, and the plan

Not modelled because there is no state to get wrong, or it is pure I/O: logging,
metrics, wire types, rendering, request validation and middleware, the incidents' own
endpoints (one statement to a request), migrations, ranking of search results, the
end-to-end harness and the evaluation. The chunker and the parsers are functions of one
text: their cases are layouts of markdown, which their table tests list, and every
property of them that the rest relies on is a number of chunks. Abstracted: texts,
prompts, token counts, embeddings, timestamps (whether a cutoff has passed), and
everything in a row that no property tells apart.

Known limits of what is modelled: `RunStream` has one run on the page, so two
`openRun`s in quick succession (`web/index.html:301`, where nothing looks again at which
run is chosen after the answer arrives) are out of it, and two of the four statements of
`getRun` (`internal/api/runs.go:92`); `Checkout` has no refunds, which take the path of a
charge, and neither it nor `LabFaults` the graceful stop of a service; `Calls` drops what
the server is still at when its client gives up, since nothing of it is read again;
`Processes` has one signal, as the code treats a second like the first.

What is left: a second run on the page of `RunStream`, and the refunds of `Checkout`.
