----------------------------- MODULE Processes -----------------------------
(***************************************************************************)
(* The long-lived processes of the system, from the first line of run() to *)
(* the exit: the two workers, the API and the tool server (under cmd).  Each *)
(* opens its dependencies in a fixed order and registers a closer for some *)
(* of them; several may start at the same moment, against one broker and   *)
(* one Elasticsearch.  A worker then runs three goroutines (consumer,      *)
(* reconciler, metrics server), a server one listener, until a signal or   *)
(* the end of one of them; the worker gives its goroutines                 *)
(* goroutineTimeout, and shutdown.Group closes what was registered, last   *)
(* first, under one deadline shared by all.                                *)
(*                                                                         *)
(* Time passes by Tick, and only when no process that is shutting down has *)
(* an instantaneous step to take (Due): a bound on the clock is then a     *)
(* bound on what the code waits for, and a process that waits for nothing  *)
(* that comes is a deadlock.  Work in flight draws the time it still needs *)
(* when its process stops; Forever never ends.                             *)
(***************************************************************************)
EXTENDS Naturals, Sequences, FiniteSets

CONSTANTS Fleets,           \* the deployments: the kind of each process, and (a bound)
                            \* which of the processes may be told to stop
          Topics,           \* mq.DefaultTopics, in order
          Partitions,       \* the partitions a topic is asked for
          FoundPartitions,  \* what topics may have had before: 0 is absent
          MetadataLags,     \* how long a new topic may stay out of the metadata
          MetadataTimeout, GoroutineTimeout, ShutdownTimeout, ExportTimeout,
          WorkTimes,        \* how long work in flight may take once it is cancelled
          CloserTimes,      \* how long a close function may take
          Forever,          \* the time that never ends
          MaxBatch,         \* bound: the records of one poll
          MaxTrouble,       \* bound: how many closers of a process hang or fail
          None

ASSUME TimesAssumption ==
    /\ {MetadataTimeout, GoroutineTimeout, ShutdownTimeout, ExportTimeout, Forever} \subseteq Nat
    /\ MetadataLags \cup WorkTimes \cup CloserTimes \subseteq Nat
    /\ \A t \in (WorkTimes \cup CloserTimes) \ {Forever} : t < Forever
    /\ GoroutineTimeout + ShutdownTimeout < Forever /\ MetadataTimeout < Forever

Kinds == {"ingestion-worker", "agent-worker", "api", "ops-mcp"}
Workers == {"ingestion-worker", "agent-worker"}

\* What run() does in order, and which of its steps register a closer.  A
\* constructor that opens nothing (search.New) is part of the step before it.
Path(kind) ==
    CASE kind = "ingestion-worker" ->
           <<"config", "tracing", "mysql", "topics", "files", "index", "producer", "consumer", "metrics">>
      [] kind = "agent-worker" ->
           <<"config", "tracing", "mysql", "topics", "redis", "tools", "producer", "consumer", "metrics">>
      [] kind = "api" -> <<"config", "tracing", "mysql", "files", "producer", "redis", "http">>
      [] kind = "ops-mcp" -> <<"config", "tracing", "http">>
Closers == {"tracing", "mysql", "redis", "tools", "producer", "consumer", "metrics", "http"}
Listeners == {"metrics", "http"}
\* The steps that take the signal's context: a cancelled one fails them.
UsesContext == {"mysql", "topics", "index", "tools"}

\* What a handler of a message, or of an HTTP request, works with.
Uses(kind) ==
    {"tracing"} \cup
    CASE kind = "ingestion-worker" -> {"mysql"}
      [] kind = "agent-worker" -> {"mysql", "redis", "tools"}
      [] kind = "api" -> {"mysql", "producer", "redis"}
      [] kind = "ops-mcp" -> {}

\* What a start is refused for.
Refusals == {"failed", "topic unknown", "too few partitions", "alias fans out", "name taken",
             "index without alias"}

ASSUME FleetsAssumption ==
    /\ \A fleet \in Fleets : \A p \in DOMAIN fleet.kinds : fleet.kinds[p] \in Kinds
    /\ Topics \in Seq({Topics[i] : i \in DOMAIN Topics})
    /\ Partitions \in Nat \ {0} /\ FoundPartitions \subseteq Nat /\ MaxBatch \in Nat
    /\ None \notin Closers \cup Refusals

VARIABLES proc,    \* each process
          topics,  \* the broker: partitions of each topic, and the metadata's lag
          index    \* Elasticsearch: the alias' indices, chunks_v1, a concrete "chunks"
vars == <<proc, topics, index>>

Procs == DOMAIN proc

TopicNames == {Topics[i] : i \in DOMAIN Topics}
Starting(kind, stoppable) ==
    [kind |-> kind, stoppable |-> stoppable, life |-> "starting",
     step |-> 1, opened |-> <<>>, refusal |-> None, create |-> 1, existing |-> {}, waited |-> 0, es |-> "resolve",
     signal |-> FALSE, loop |-> "polling", records |-> 0, blocked |-> FALSE,
     sweep |-> "waiting", listener |-> "serving", request |-> FALSE,
     left |-> [a \in Closers \cup {"handler", "sweep", "request"} |-> 0],
     clock |-> 0, due |-> 0, closer |-> [c \in Closers |-> "open"], at |-> 0,
     awaited |-> None, incomplete |-> {}, failed |-> {}]

Init ==
    /\ \E fleet \in Fleets :
         proc = [p \in DOMAIN fleet.kinds |-> Starting(fleet.kinds[p], p \in fleet.stoppable)]
    /\ topics \in [TopicNames -> {[parts |-> n, slow |-> FALSE, hidden |-> 0] : n \in FoundPartitions}]
    /\ index \in {[alias |-> {}, v1 |-> FALSE, taken |-> FALSE],
                  [alias |-> {"v1"}, v1 |-> TRUE, taken |-> FALSE],
                  [alias |-> {"v1", "v2"}, v1 |-> TRUE, taken |-> FALSE],
                  [alias |-> {}, v1 |-> TRUE, taken |-> FALSE],
                  [alias |-> {}, v1 |-> FALSE, taken |-> TRUE]}

-----------------------------------------------------------------------------
(* Starting.  A step that fails returns from run(): the process is gone,   *)
(* and nothing that was registered is closed.                              *)

At(p, step) == proc[p].life = "starting" /\ Path(proc[p].kind)[proc[p].step] = step
\* Of a process that is gone only what it said is left.
Gone(r) ==
    [Starting(r.kind, r.stoppable) EXCEPT !.life = "exited", !.signal = r.signal, !.listener = r.listener]
Refuse(p, why) ==
    proc' = [proc EXCEPT ![p] = [Gone(@) EXCEPT !.refusal = why]]
\* A step done: its closer registered, and after the last one the goroutines started.
Done(p) ==
    LET path == Path(proc[p].kind)
        step == path[proc[p].step]
    IN  proc' = [proc EXCEPT
          ![p].opened = IF step \in Closers THEN Append(@, step) ELSE @,
          ![p].life = IF proc[p].step = Len(path) THEN "running" ELSE @,
          ![p].step = @ + 1, ![p].create = 1, ![p].existing = {}, ![p].waited = 0,
          ![p].es = "resolve"]

Open(p) ==
    /\ \E step \in {"config", "files"} \cup Closers :
         At(p, step) /\ (step \in UsesContext => ~proc[p].signal)
    /\ Done(p)
    /\ UNCHANGED <<topics, index>>

\* A configuration that does not parse, a dependency that does not answer in
\* its timeout, a cancelled context; http.Server and NewMetricsServer cannot fail.
OpenFails(p) ==
    /\ \E step \in {"config", "files", "topics", "index"} \cup (Closers \ Listeners) : At(p, step)
    /\ Refuse(p, "failed")
    /\ UNCHANGED <<topics, index>>

\* A mistaken creation, after which a topic that existed is not verified.
CreateTopicUnverified(p) ==
    /\ At(p, "topics") /\ ~proc[p].signal
    /\ proc[p].create <= Len(Topics)
    /\ proc' = [proc EXCEPT ![p].create = @ + 1]
    /\ LET t == Topics[proc[p].create]
       IN  IF topics[t].parts > 0 THEN UNCHANGED topics
           ELSE topics' = [topics EXCEPT ![t] = [parts |-> Partitions, slow |-> FALSE, hidden |-> 0]]
    /\ UNCHANGED index

\* EnsureTopics: one CreateTopics per spec; what exists already is remembered.
CreateTopic(p) ==
    /\ At(p, "topics") /\ ~proc[p].signal
    /\ proc[p].create <= Len(Topics)
    /\ LET t == Topics[proc[p].create]
       IN  \/ /\ topics[t].parts = 0
              /\ \E lag \in MetadataLags :
                   topics' = [topics EXCEPT ![t] = [parts |-> Partitions, slow |-> lag > MetadataTimeout,
                                                hidden |-> lag]]
              /\ proc' = [proc EXCEPT ![p].create = @ + 1]
           \/ /\ topics[t].parts > 0
              /\ proc' = [proc EXCEPT ![p].create = @ + 1, ![p].existing = @ \cup {t}]
              /\ UNCHANGED topics
    /\ UNCHANGED index

Unknown(p) == {t \in proc[p].existing : topics[t].hidden > 0}
\* describe, once every topic that existed is in the metadata or the wait is
\* spent, and the geometry check on what it returned.
VerifyTopics(p) ==
    /\ At(p, "topics") /\ ~proc[p].signal
    /\ proc[p].create > Len(Topics)
    /\ Unknown(p) = {} \/ proc[p].waited >= MetadataTimeout
    /\ IF Unknown(p) # {} THEN Refuse(p, "topic unknown")
       ELSE IF \E t \in proc[p].existing : topics[t].parts < Partitions
            THEN Refuse(p, "too few partitions")
            ELSE Done(p)
    /\ UNCHANGED <<topics, index>>

\* resolveAlias: one index is the target, several are refused, none goes on.
Resolve(p, ifNone) ==
    IF Cardinality(index.alias) = 1 THEN Done(p)
    ELSE IF index.alias # {} THEN Refuse(p, "alias fans out")
    ELSE ifNone

ResolveAlias(p) ==
    /\ At(p, "index") /\ ~proc[p].signal /\ proc[p].es = "resolve"
    /\ Resolve(p, proc' = [proc EXCEPT ![p].es = "check"])
    /\ UNCHANGED <<topics, index>>

\* checkNameIsFree: only a 200 says the name is a concrete index, so a server
\* that answers anything else lets the caller go on.
CheckName(p) ==
    /\ At(p, "index") /\ ~proc[p].signal /\ proc[p].es = "check"
    /\ \/ index.taken /\ Refuse(p, "name taken")
       \/ proc' = [proc EXCEPT ![p].es = "create"]
    /\ UNCHANGED <<topics, index>>

\* createIndex: the index and its alias in one request, refused when the alias'
\* name is an index and when chunks_v1 exists.
CreateIndex(p) ==
    /\ At(p, "index") /\ ~proc[p].signal /\ proc[p].es = "create"
    /\ \/ /\ index.v1
          /\ proc' = [proc EXCEPT ![p].es = "again"]
          /\ UNCHANGED index
       \/ /\ ~index.v1 /\ index.taken
          /\ Refuse(p, "name taken")
          /\ UNCHANGED index
       \/ /\ ~index.v1 /\ ~index.taken
          /\ index' = [index EXCEPT !.v1 = TRUE, !.alias = @ \cup {"v1"}]
          /\ Done(p)
    /\ UNCHANGED topics

\* A mistaken second worker, which takes the answer for an error.
ResolveAgainRefusing(p) ==
    /\ At(p, "index") /\ ~proc[p].signal /\ proc[p].es = "again"
    /\ Refuse(p, "index without alias")
    /\ UNCHANGED <<topics, index>>

\* resource_already_exists_exception: another worker may have created both.
ResolveAgain(p) ==
    /\ At(p, "index") /\ ~proc[p].signal /\ proc[p].es = "again"
    /\ Resolve(p, Refuse(p, "index without alias"))
    /\ UNCHANGED <<topics, index>>

\* An operator reindexes and points the alias at the new index.
SwitchAlias ==
    /\ index.alias = {"v1"}
    /\ index' = [index EXCEPT !.alias = {"v2"}]
    /\ UNCHANGED <<proc, topics>>

-----------------------------------------------------------------------------
(* Running, and stopping.                                                  *)

Signal(p) ==
    /\ proc[p].life \in {"starting", "running"} /\ ~proc[p].signal /\ proc[p].stoppable
    /\ proc' = [proc EXCEPT ![p].signal = TRUE]
    /\ UNCHANGED <<topics, index>>

\* ListenAndServe returns: the port is in use.
ServeFails(p) ==
    /\ proc[p].life = "running" /\ proc[p].listener = "serving" /\ proc[p].stoppable
    /\ proc' = [proc EXCEPT ![p].listener = "failed"]
    /\ UNCHANGED <<topics, index>>

Worker(p) == proc[p].kind \in Workers
Alive(p) == proc[p].life \in {"running", "waiting", "closing"}
Cancelled(p) == proc[p].signal \/ proc[p].life \in {"waiting", "closing"}
\* Work ends when it likes until the process stops, and after the time drawn then.
Over(p, work) == proc[p].left[work] = 0

InFlight(busy) == IF busy THEN WorkTimes ELSE {0}

\* Consumer.Run.  A poll that returns blocks the group's rebalances.
Poll(p) ==
    /\ Alive(p) /\ Worker(p) /\ proc[p].loop = "polling"
    /\ \/ /\ Cancelled(p) \/ proc[p].closer["consumer"] = "closed"
          /\ proc' = [proc EXCEPT ![p].loop = "stopping", ![p].blocked = TRUE]
       \/ /\ ~Cancelled(p)
          /\ \E n \in 1..MaxBatch :
               proc' = [proc EXCEPT ![p].loop = "holding", ![p].records = n, ![p].blocked = TRUE]
    /\ UNCHANGED <<topics, index>>

Handle(p) ==
    /\ Alive(p) /\ proc[p].loop = "holding" /\ proc[p].records > 0 /\ ~Cancelled(p)
    /\ proc' = [proc EXCEPT ![p].loop = "handling"]
    /\ UNCHANGED <<topics, index>>

Handled(p) ==
    /\ Alive(p) /\ proc[p].loop = "handling" /\ Over(p, "handler")
    /\ proc' = [proc EXCEPT ![p].loop = "holding", ![p].records = @ - 1]
    /\ UNCHANGED <<topics, index>>

\* The batch handled, or the rest of it skipped: the poll is over.
AllowRebalance(p) ==
    /\ Alive(p) /\ proc[p].loop = "holding"
    /\ proc[p].records = 0 \/ Cancelled(p)
    /\ proc' = [proc EXCEPT ![p].loop = "polling", ![p].records = 0, ![p].blocked = FALSE]
    /\ UNCHANGED <<topics, index>>

\* A mistaken return, without that call on the way out of the loop.
RunReturnsBlocking(p) ==
    /\ Alive(p) /\ proc[p].loop = "stopping"
    /\ proc' = [proc EXCEPT ![p].loop = "done"]
    /\ UNCHANGED <<topics, index>>

\* The same call on the way out of the loop.
RunReturns(p) ==
    /\ Alive(p) /\ proc[p].loop = "stopping"
    /\ proc' = [proc EXCEPT ![p].loop = "done", ![p].blocked = FALSE]
    /\ UNCHANGED <<topics, index>>

\* Runner.Run: a sweep at once and on every tick of its interval; the context
\* is looked at between two sweeps.
Sweep(p) ==
    /\ Alive(p) /\ Worker(p)
    /\ \/ /\ proc[p].sweep = "waiting" /\ ~Cancelled(p)
          /\ proc' = [proc EXCEPT ![p].sweep = "sweeping"]
       \/ /\ proc[p].sweep = "sweeping" /\ Over(p, "sweep")
          /\ proc' = [proc EXCEPT ![p].sweep = "waiting"]
       \/ /\ proc[p].sweep = "waiting" /\ Cancelled(p)
          /\ proc' = [proc EXCEPT ![p].sweep = "done"]
    /\ UNCHANGED <<topics, index>>

\* A request of the API or of the tool server.  Shutdown cancels none: it only
\* stops new ones from arriving.
Request(p) ==
    /\ Alive(p) /\ ~Worker(p)
    /\ \/ /\ ~proc[p].request /\ proc[p].listener = "serving"
          /\ \E d \in InFlight(proc[p].life = "closing") :
               proc' = [proc EXCEPT ![p].request = TRUE, ![p].left["request"] = d]
       \/ /\ proc[p].request /\ Over(p, "request")
          /\ proc' = [proc EXCEPT ![p].request = FALSE]
    /\ UNCHANGED <<topics, index>>

Told(p) == proc[p].life = "running" /\ (proc[p].signal \/ proc[p].listener = "failed")
\* The select in run(): a signal, or the end of a goroutine.  A worker cancels
\* the others and goes to wait for them.
StopWorker(p) ==
    /\ Told(p) /\ Worker(p)
    /\ \E h \in InFlight(proc[p].loop = "handling"), w \in InFlight(proc[p].sweep = "sweeping") :
         proc' = [proc EXCEPT ![p].life = "waiting",
                              ![p].left["handler"] = h, ![p].left["sweep"] = w]
    /\ UNCHANGED <<topics, index>>

\* The API goes to its closers, and so does the tool server on a signal, which
\* the select may take even when it cannot serve.
StopServer(p) ==
    /\ Told(p) /\ ~Worker(p) /\ (proc[p].kind = "api" \/ proc[p].signal)
    /\ \E r \in InFlight(proc[p].request) :
         proc' = [proc EXCEPT ![p].life = "closing", ![p].left["request"] = r,
                              ![p].due = ShutdownTimeout, ![p].at = Len(proc[p].opened)]
    /\ UNCHANGED <<topics, index>>

\* A tool server that cannot serve returns an error without its closers, if the
\* select takes that.
GiveUp(p) ==
    /\ Told(p) /\ proc[p].kind = "ops-mcp" /\ proc[p].listener = "failed"
    /\ Refuse(p, "failed")
    /\ UNCHANGED <<topics, index>>

Finished(p) == proc[p].loop = "done" /\ proc[p].sweep = "done" /\ proc[p].listener # "serving"
\* waitFor: the goroutines are done, or have had goroutineTimeout.  The metrics
\* server's goroutine is one of them, and only its closer ends it.
WaitFor(p) ==
    /\ proc[p].life = "waiting"
    /\ Finished(p) \/ proc[p].clock >= GoroutineTimeout
    /\ proc' = [proc EXCEPT ![p].life = "closing", ![p].due = proc[p].clock + ShutdownTimeout,
                            ![p].at = Len(proc[p].opened)]
    /\ UNCHANGED <<topics, index>>

-----------------------------------------------------------------------------
(* shutdown.Group.Close: the closers in reverse, the deadline shared.      *)

Troubled(p) == {c \in Closers : proc[p].left[c] > 0 \/ proc[p].closer[c] = "broken"}
CloseTimes(p, c) ==
    IF c \in Listeners \/ Cardinality(Troubled(p)) >= MaxTrouble THEN {0}
    ELSE IF c = "tracing" THEN {d \in CloserTimes : d <= ExportTimeout} ELSE CloserTimes
Expired(p) == proc[p].clock >= proc[p].due

\* A mistaken order, that of opening.
CurrentInOrder(p) == proc[p].opened[Len(proc[p].opened) + 1 - proc[p].at]
Current(p) == proc[p].opened[proc[p].at]

\* A mistaken close, which looks at the deadline only in the select.
BeginCloseUnchecked(p) ==
    /\ proc[p].life = "closing" /\ proc[p].awaited = None /\ proc[p].at > 0
    /\ \E d \in CloseTimes(p, Current(p)) :
         proc' = [proc EXCEPT
           ![p].closer[Current(p)] = "closing", ![p].left[Current(p)] = d,
           ![p].listener = IF Current(p) \in Listeners /\ @ = "serving" THEN "closed" ELSE @,
           ![p].awaited = Current(p)]
    /\ UNCHANGED <<topics, index>>

\* runClose: the close function starts on its own goroutine; after the deadline
\* it is reported without a wait.
BeginClose(p) ==
    /\ proc[p].life = "closing" /\ proc[p].awaited = None /\ proc[p].at > 0
    /\ LET c == Current(p)
       IN  \E d \in CloseTimes(p, c) :
             proc' = [proc EXCEPT
               ![p].closer[c] = "closing", ![p].left[c] = d,
               ![p].listener = IF c \in Listeners /\ @ = "serving" THEN "closed" ELSE @,
               ![p].at = IF Expired(p) THEN @ - 1 ELSE @,
               ![p].awaited = IF Expired(p) THEN None ELSE c,
               ![p].incomplete = IF Expired(p) THEN @ \cup {c} ELSE @]
    /\ UNCHANGED <<topics, index>>

\* What a close function waits for: the group's manager for the end of the
\* poll, a server for its requests.
Ready(p, c) ==
    /\ proc[p].left[c] = 0
    /\ c = "consumer" => ~proc[p].blocked
    /\ c = "http" => ~proc[p].request

CloserEnds(p, c) ==
    /\ proc[p].life = "closing" /\ proc[p].closer[c] = "closing" /\ Ready(p, c)
    /\ \E ended \in {"closed", "broken"} :
         /\ ended = "broken" =>
              c \in {"tracing", "mysql", "redis", "tools"} /\ Cardinality(Troubled(p)) < MaxTrouble
         /\ proc' = [proc EXCEPT ![p].closer[c] = ended]
    /\ UNCHANGED <<topics, index>>

\* A mistaken wait, with a deadline for each closer.
AwaitedEach(p) ==
    /\ proc[p].life = "closing" /\ proc[p].awaited # None
    /\ proc[p].closer[proc[p].awaited] # "closing" \/ Expired(p)
    /\ proc' = [proc EXCEPT ![p].awaited = None, ![p].at = @ - 1,
                            ![p].due = proc[p].clock + ShutdownTimeout]
    /\ UNCHANGED <<topics, index>>

\* The select in runClose: the close function ended, or the deadline passed.
Awaited(p) ==
    /\ proc[p].life = "closing" /\ proc[p].awaited # None
    /\ LET c == proc[p].awaited
       IN  \/ /\ proc[p].closer[c] # "closing"
              /\ proc' = [proc EXCEPT
                    ![p].awaited = None, ![p].at = @ - 1,
                    ![p].failed = IF proc[p].closer[c] = "broken" THEN @ \cup {c} ELSE @]
           \/ /\ Expired(p)
              /\ proc' = [proc EXCEPT ![p].awaited = None, ![p].at = @ - 1,
                                      ![p].incomplete = @ \cup {c}]
    /\ UNCHANGED <<topics, index>>

Exit(p) ==
    /\ proc[p].life = "closing" /\ proc[p].awaited = None /\ proc[p].at = 0
    /\ proc' = [proc EXCEPT ![p] =
         [Gone(@) EXCEPT !.opened = proc[p].opened, !.closer = proc[p].closer,
                         !.incomplete = proc[p].incomplete, !.failed = proc[p].failed]]
    /\ UNCHANGED <<topics, index>>

-----------------------------------------------------------------------------
(* Time.                                                                   *)

\* What a process that is shutting down does without waiting for anything.
Due(p) ==
    /\ proc[p].life \in {"waiting", "closing"}
    /\ \/ Worker(p) /\ proc[p].loop \in {"polling", "holding", "stopping"}
       \/ proc[p].loop = "handling" /\ Over(p, "handler")
       \/ Worker(p) /\ proc[p].sweep = "waiting"
       \/ proc[p].sweep = "sweeping" /\ Over(p, "sweep")
       \/ proc[p].request /\ Over(p, "request")
       \/ proc[p].life = "waiting" /\ (Finished(p) \/ proc[p].clock >= GoroutineTimeout)
       \/ proc[p].life = "closing" /\ (proc[p].awaited = None \/ Expired(p))
       \/ \E c \in Closers : proc[p].closer[c] = "closing" /\ Ready(p, c)
       \/ proc[p].awaited # None /\ proc[p].closer[proc[p].awaited] # "closing"

Stopping(p) == proc[p].life \in {"waiting", "closing"}
Describing(p) == At(p, "topics") /\ proc[p].create > Len(Topics) /\ Unknown(p) # {}
Down(n) == IF n \in {0, Forever} THEN n ELSE n - 1
Tick ==
    /\ \E p \in Procs : Stopping(p) \/ Describing(p)
    /\ \A p \in Procs : ~Due(p) /\ ~(Describing(p) /\ proc[p].waited >= MetadataTimeout)
    /\ topics' = [t \in TopicNames |-> [topics[t] EXCEPT !.hidden = Down(@)]]
    /\ proc' = [p \in Procs |->
         IF Stopping(p)
         THEN [proc[p] EXCEPT !.clock = IF @ < Forever THEN @ + 1 ELSE @, !.left = [a \in DOMAIN @ |-> Down(@[a])]]
         ELSE [proc[p] EXCEPT !.waited = IF Describing(p) THEN @ + 1 ELSE @]]
    /\ UNCHANGED index

Next ==
    \/ \E p \in Procs :
         \/ Open(p) \/ OpenFails(p)
         \/ CreateTopic(p) \/ VerifyTopics(p)
         \/ ResolveAlias(p) \/ CheckName(p) \/ CreateIndex(p) \/ ResolveAgain(p)
         \/ Signal(p) \/ ServeFails(p) \/ StopWorker(p) \/ StopServer(p) \/ GiveUp(p) \/ WaitFor(p)
         \/ Poll(p) \/ Handle(p) \/ Handled(p) \/ AllowRebalance(p) \/ RunReturns(p)
         \/ Sweep(p) \/ Request(p)
         \/ BeginClose(p) \/ (\E c \in Closers : CloserEnds(p, c)) \/ Awaited(p) \/ Exit(p)
    \/ SwitchAlias
    \/ Tick
    \/ (\A p \in Procs : proc[p].life = "exited") /\ UNCHANGED vars

Spec == Init /\ [][Next]_vars

-----------------------------------------------------------------------------
(* What is promised.                                                       *)

\* A worker that runs has both topics with the partitions its parallelism
\* rests on, and an ingestion worker writes through an alias of one index,
\* whoever created them and whatever was there before (topics.go:24, search.go:139).
Grounded ==
    \A p \in Procs : Alive(p) /\ Worker(p) =>
        /\ \A t \in TopicNames : topics[t].parts >= Partitions
        /\ proc[p].kind = "ingestion-worker" => Cardinality(index.alias) = 1

\* Processes that start together do not make each other fail: a start that is
\* refused for what it found was refused for a broker slower than the wait, a
\* topic somebody made too small, or an index only an operator could have left
\* (topics.go:92, search.go:250).
RefusedForCause ==
    \A p \in Procs :
        /\ proc[p].refusal = "topic unknown" => \E t \in TopicNames : topics[t].slow
        /\ proc[p].refusal = "too few partitions" => \E t \in TopicNames : topics[t].parts \in 1..(Partitions - 1)
        /\ proc[p].refusal = "alias fans out" => Cardinality(index.alias) > 1
        /\ proc[p].refusal = "name taken" => index.taken
        /\ proc[p].refusal = "index without alias" => index.v1 /\ index.alias = {}

\* Both: whoever comes first, all that can start do, and on what they need.
StartsTogether == Grounded /\ RefusedForCause

Working(p) == proc[p].loop = "handling" \/ proc[p].request
\* Nothing is closed under the handler of a message or a request while the
\* deadline lets Close wait for it (shutdown.go:37, cmd/api/main.go:164).
NothingClosedUnder ==
    \A p \in Procs : proc[p].life = "closing" /\ Working(p) =>
        \A c \in Uses(proc[p].kind) : proc[p].closer[c] = "open" \/ Expired(p)

Opened(p) == {proc[p].opened[i] : i \in DOMAIN proc[p].opened}
\* What Close does not report was closed; a close that failed while it was
\* waited for is reported; and a closer reached after the deadline is reported
\* as incomplete, however fast it was (shutdown.go:66, :121).
HonestReport ==
    \A p \in Procs : proc[p].life = "exited" /\ proc[p].refusal = None =>
        LET opened == proc[p].opened
        IN  /\ \A c \in Opened(p) \ (proc[p].incomplete \cup proc[p].failed) : proc[p].closer[c] = "closed"
            /\ \A i, j \in DOMAIN opened :
                 j <= i /\ opened[i] \in proc[p].incomplete => opened[j] \in proc[p].incomplete

\* Leaving the group waits for a handler still inside its message and for
\* nothing else of this process: whenever only time can help, the poll's block
\* is a handler's (consumer.go:146).
LeavesGroup ==
    \A p \in Procs :
        proc[p].closer["consumer"] = "closing" /\ proc[p].blocked /\ ~Due(p) => proc[p].loop = "handling"

\* A process told to stop is gone within its budgets, whatever its work and its
\* closers do: a server within that of Close (shutdown.go:63), a worker within
\* the wait and that of Close one after the other (agent-worker/main.go:250,
\* :252).  The comment at agent-worker/main.go:58 counts the wait as part of the
\* other, which the code does not: README section 7.
ExitWithin ==
    \A p \in Procs :
        proc[p].clock <= ShutdownTimeout + IF Worker(p) THEN GoroutineTimeout ELSE 0
=============================================================================
