--------------------------- MODULE ProcessesProofs ---------------------------
(***************************************************************************)
(* Proofs about Processes: what holds of every process from its start to   *)
(* its exit, for every deployment, every broker and index found, and every *)
(* timeout.                                                                *)
(***************************************************************************)
EXTENDS Processes, SequenceTheorems, FiniteSetTheorems, TLAPS

(* What a process of a kind has registered once it is started, in order,   *)
(* and how much of it before each step of its start.                       *)
Registered(kind) ==
  CASE kind = "ingestion-worker" -> <<"tracing", "mysql", "producer", "consumer", "metrics">>
    [] kind = "agent-worker" ->
         <<"tracing", "mysql", "redis", "tools", "producer", "consumer", "metrics">>
    [] kind = "api" -> <<"tracing", "mysql", "producer", "redis", "http">>
    [] kind = "ops-mcp" -> <<"tracing", "http">>

Before(kind) ==
  CASE kind = "ingestion-worker" -> <<0, 0, 1, 2, 2, 2, 2, 3, 4, 5>>
    [] kind = "agent-worker"     -> <<0, 0, 1, 2, 2, 3, 4, 5, 6, 7>>
    [] kind = "api"              -> <<0, 0, 1, 2, 2, 3, 4, 5>>
    [] kind = "ops-mcp"          -> <<0, 0, 1, 2>>

(* The closer that waits for handlers, and its place among the registered. *)
Holder(kind) == IF kind \in Workers THEN "consumer" ELSE "http"
Place(kind)  == CASE kind = "ingestion-worker" -> 4
                  [] kind = "agent-worker"     -> 6
                  [] kind = "api"              -> 5
                  [] kind = "ops-mcp"          -> 2

Fields == {"kind", "stoppable", "life", "step", "opened", "refusal", "create", "existing",
           "waited", "es", "signal", "loop", "records", "blocked", "sweep", "listener",
           "request", "left", "clock", "due", "closer", "at", "awaited", "incomplete",
           "failed"}
Parts == Closers \cup {"handler", "sweep", "request"}

StartTyped(r) ==
  /\ r.kind \in Kinds /\ r.stoppable \in BOOLEAN
  /\ r.life \in {"starting", "running", "waiting", "closing", "exited"}
  /\ r.step \in Nat \ {0} /\ r.opened \in Seq(Closers) /\ r.refusal \in Refusals \cup {None}
  /\ r.create \in Nat \ {0} /\ r.existing \in SUBSET TopicNames /\ r.waited \in Nat
  /\ r.es \in {"resolve", "check", "create", "again"}
RunTyped(r) ==
  /\ r.signal \in BOOLEAN /\ r.loop \in {"polling", "holding", "handling", "stopping", "done"}
  /\ r.records \in Nat /\ r.blocked \in BOOLEAN /\ r.sweep \in {"waiting", "sweeping", "done"}
  /\ r.listener \in {"serving", "failed", "closed"} /\ r.request \in BOOLEAN
CloseTyped(r) ==
  /\ r.left \in [Parts -> Nat] /\ r.clock \in Nat /\ r.due \in Nat /\ r.at \in Nat
  /\ r.closer \in [Closers -> {"open", "closing", "closed", "broken"}]
  /\ r.awaited \in Closers \cup {None}
  /\ r.incomplete \in SUBSET Closers /\ r.failed \in SUBSET Closers
Typed(r) == DOMAIN r = Fields /\ StartTyped(r) /\ RunTyped(r) /\ CloseTyped(r)

BrokerTyped(b) == b \in [TopicNames -> [parts : Nat, slow : BOOLEAN, hidden : Nat]]
IndexTyped(x)  == x \in [alias : SUBSET {"v1", "v2"}, v1 : BOOLEAN, taken : BOOLEAN]

TypeOK == BrokerTyped(topics) /\ IndexTyped(index) /\ \A p \in Procs : Typed(proc[p])

(* How far a start has come: what it has registered, and, once it is over, *)
(* everything.                                                             *)
StartKept(r) ==
  /\ r.life = "starting" => r.step <= Len(Path(r.kind))
  /\ r.life \in {"running", "waiting", "closing"} => r.step = Len(Path(r.kind)) + 1
  /\ r.life # "exited" => /\ Len(r.opened) = Before(r.kind)[r.step]
                          /\ \A i \in 1..Len(r.opened) : r.opened[i] = Registered(r.kind)[i]

(* Until its closing a process has every closer open and its clock, but    *)
(* for the wait for goroutines, at rest; only a worker has a consumer,     *)
(* only a server a request, and only a poll blocks the group.              *)
LifeKept(r) ==
  /\ r.life \in {"starting", "running", "waiting"} =>
       /\ \A c \in Closers : r.closer[c] = "open"
       /\ r.awaited = None /\ r.incomplete = {} /\ r.failed = {}
  /\ r.life \in {"starting", "exited"} => r.loop = "polling" /\ ~r.blocked /\ ~r.request
  /\ r.loop # "polling" => r.kind \in Workers
  /\ r.request => r.kind \notin Workers
  /\ r.blocked <=> r.loop \in {"holding", "handling", "stopping"}
  /\ r.loop = "handling" => r.records > 0

(* The clock of a process that stops: within the goroutines' budget while  *)
(* it waits for them, and within the deadline of Close after that.         *)
Allowed(r) == IF r.kind \in Workers THEN GoroutineTimeout ELSE 0
ClockKept(r) ==
  /\ r.life \in {"starting", "running", "exited"} => r.clock = 0
  /\ r.life = "waiting" => r.kind \in Workers /\ r.clock <= GoroutineTimeout
  /\ r.life = "closing" => r.clock <= r.due /\ r.due <= ShutdownTimeout + Allowed(r)

(* A closing process: what it has come to, last first, was closed, or had  *)
(* failed, or was left incomplete once the deadline had passed; what it    *)
(* has not come to is open.  A consumer that is closed has no handler, and *)
(* a server no request.                                                    *)
Spent(r) == r.clock >= r.due
Left(r, c) ==
  /\ c \notin r.incomplete => r.closer[c] \in {"closed", "broken"}
  /\ c \notin r.incomplete \cup r.failed => r.closer[c] = "closed"
Ordered(r) ==
  \A i, j \in 1..Len(r.opened) :
    r.at < j /\ j <= i /\ r.opened[i] \in r.incomplete => r.opened[j] \in r.incomplete
Undisturbed(r) ==
  /\ r.closer["consumer"] # "broken" /\ r.closer["http"] # "broken"
  /\ r.closer["consumer"] = "closed" => r.loop # "handling"
  /\ r.closer["http"] # "open" => r.listener # "serving"
  /\ r.closer["http"] = "closed" => ~r.request

ClosingKept(r) ==
  r.life = "closing" =>
    /\ r.at <= Len(r.opened)
    /\ \A i \in 1..r.at : i < r.at \/ r.awaited = None => r.closer[r.opened[i]] = "open"
    /\ \A i \in 1..Len(r.opened) : i > r.at => Left(r, r.opened[i])
    /\ r.awaited # None => r.at > 0 /\ r.awaited = r.opened[r.at] /\ r.incomplete = {}
                           /\ r.awaited \notin r.failed /\ r.closer[r.awaited] # "open"
    /\ r.incomplete # {} => Spent(r)
    /\ \A c \in r.failed : r.closer[c] = "broken"
    /\ Ordered(r) /\ Undisturbed(r)

(* And a process that has exited by itself has come to all of it.          *)
ExitKept(r) ==
  r.life = "exited" /\ r.refusal = None =>
    /\ r.at = 0 /\ Ordered(r)
    /\ \A i \in 1..Len(r.opened) : Left(r, r.opened[i])

(* What holds of a process by itself.                                      *)
Kept(r) == /\ Typed(r) /\ StartKept(r) /\ LifeKept(r) /\ ClockKept(r)
           /\ ClosingKept(r) /\ ExitKept(r)

(* What a process knows of the topics b and the index x while it starts,   *)
(* what there is of both once it is past them, and why it was refused.     *)
Had(b, t) == b[t].parts >= Partitions
TopicsKept(r, b) ==
  /\ r.create <= Len(Topics) + 1
  /\ r.create <= Len(Topics) => r.waited = 0
  /\ \A i \in 1..Len(Topics) : i < r.create => Topics[i] \in r.existing \/ Had(b, Topics[i])
  /\ \A t \in r.existing :
       /\ b[t].parts > 0
       /\ ~b[t].slow /\ b[t].hidden > 0 => b[t].hidden + r.waited <= MetadataTimeout
  /\ r.kind \in Workers /\ r.step > 4 => \A t \in TopicNames : Had(b, t)
IndexKept(r, x) ==
  /\ r.es = "again" => x.v1
  /\ r.kind = "ingestion-worker" /\ r.step > 6 => Cardinality(x.alias) = 1
Caused(why, b, x) ==
  /\ why = "topic unknown" => \E t \in TopicNames : b[t].slow
  /\ why = "too few partitions" => \E t \in TopicNames : b[t].parts \in 1..(Partitions - 1)
  /\ why = "alias fans out" => Cardinality(x.alias) > 1
  /\ why = "name taken" => x.taken
  /\ why = "index without alias" => x.v1 /\ x.alias = {}
Knows(r, b, x) == TopicsKept(r, b) /\ IndexKept(r, x) /\ Caused(r.refusal, b, x)

(* The broker and Elasticsearch: only a topic that exists is slow, one that *)
(* is not slow is known in time, and an alias has an index.                *)
World(b, x) ==
  /\ BrokerTyped(b) /\ IndexTyped(x)
  /\ \A t \in TopicNames : /\ b[t].parts = 0 => ~b[t].slow
                           /\ ~b[t].slow => b[t].hidden <= MetadataTimeout
  /\ x.alias # {} => x.v1
  /\ x.taken => ~x.v1

(* The inductive invariant.                                                *)
ProcessInv ==
  /\ World(topics, index)
  /\ \A p \in Procs : Kept(proc[p]) /\ Knows(proc[p], topics, index)

-----------------------------------------------------------------------------
(* The four kinds                                                          *)

(* Their paths.                                                            *)
LEMMA Paths ==
  /\ Path("ingestion-worker") =
       <<"config", "tracing", "mysql", "topics", "files", "index", "producer", "consumer", "metrics">>
  /\ Path("agent-worker") =
       <<"config", "tracing", "mysql", "topics", "redis", "tools", "producer", "consumer", "metrics">>
  /\ Path("api") = <<"config", "tracing", "mysql", "files", "producer", "redis", "http">>
  /\ Path("ops-mcp") = <<"config", "tracing", "http">>
BY DEF Path

(* What a step of a start registers, and which of them are protocols.      *)
PathStep(k, n) ==
  /\ Before(k)[n] \in Nat
  /\ IF Path(k)[n] \in Closers
     THEN /\ Before(k)[n + 1] = Before(k)[n] + 1
          /\ Registered(k)[Before(k)[n] + 1] = Path(k)[n]
     ELSE Before(k)[n + 1] = Before(k)[n]
  /\ Path(k)[n] = "topics" <=> k \in Workers /\ n = 4
  /\ Path(k)[n] = "index" <=> k = "ingestion-worker" /\ n = 6

(* That is so of every step of every path.                                 *)
LEMMA PathSteps ==
  ASSUME NEW k \in Kinds, NEW n \in 1..Len(Path(k))
  PROVE  PathStep(k, n)
<1>1. CASE k = "ingestion-worker"
  <2>1. Path(k) =
          <<"config", "tracing", "mysql", "topics", "files", "index", "producer", "consumer", "metrics">>
    BY <1>1, Paths
  <2>2. Registered(k) = <<"tracing", "mysql", "producer", "consumer", "metrics">>
    BY <1>1 DEF Registered
  <2>3. Before(k) = <<0, 0, 1, 2, 2, 2, 2, 3, 4, 5>>
    BY <1>1 DEF Before
  <2>4. n = 1 \/ n = 2 \/ n = 3 \/ n = 4 \/ n = 5 \/ n = 6 \/ n = 7 \/ n = 8 \/ n = 9
    BY <2>1
  <2> QED BY <1>1, <2>1, <2>2, <2>3, <2>4 DEF PathStep, Closers, Workers
<1>2. CASE k = "agent-worker"
  <2>1. Path(k) =
          <<"config", "tracing", "mysql", "topics", "redis", "tools", "producer", "consumer", "metrics">>
    BY <1>2, Paths
  <2>2. Registered(k) = <<"tracing", "mysql", "redis", "tools", "producer", "consumer", "metrics">>
    BY <1>2 DEF Registered
  <2>3. Before(k) = <<0, 0, 1, 2, 2, 3, 4, 5, 6, 7>>
    BY <1>2 DEF Before
  <2>4. n = 1 \/ n = 2 \/ n = 3 \/ n = 4 \/ n = 5 \/ n = 6 \/ n = 7 \/ n = 8 \/ n = 9
    BY <2>1
  <2> QED BY <1>2, <2>1, <2>2, <2>3, <2>4 DEF PathStep, Closers, Workers
<1>3. CASE k = "api"
  <2>1. Path(k) =
          <<"config", "tracing", "mysql", "files", "producer", "redis", "http">>
    BY <1>3, Paths
  <2>2. Registered(k) = <<"tracing", "mysql", "producer", "redis", "http">>
    BY <1>3 DEF Registered
  <2>3. Before(k) = <<0, 0, 1, 2, 2, 3, 4, 5>>
    BY <1>3 DEF Before
  <2>4. n = 1 \/ n = 2 \/ n = 3 \/ n = 4 \/ n = 5 \/ n = 6 \/ n = 7
    BY <2>1
  <2> QED BY <1>3, <2>1, <2>2, <2>3, <2>4 DEF PathStep, Closers, Workers
<1>4. CASE k = "ops-mcp"
  <2>1. Path(k) =
          <<"config", "tracing", "http">>
    BY <1>4, Paths
  <2>2. Registered(k) = <<"tracing", "http">>
    BY <1>4 DEF Registered
  <2>3. Before(k) = <<0, 0, 1, 2>>
    BY <1>4 DEF Before
  <2>4. n = 1 \/ n = 2 \/ n = 3
    BY <2>1
  <2> QED BY <1>4, <2>1, <2>2, <2>3, <2>4 DEF PathStep, Closers, Workers
<1> QED BY <1>1, <1>2, <1>3, <1>4 DEF Kinds

(* The length of a start, and how much is registered at its ends.          *)
LEMMA PathEnds ==
  ASSUME NEW k \in Kinds
  PROVE  /\ Len(Path(k)) \in Nat \ {0} /\ Before(k)[1] = 0
         /\ Before(k)[Len(Path(k)) + 1] = Len(Registered(k))
         /\ k \in Workers => Len(Path(k)) = 9
<1>1. CASE k = "ingestion-worker"
  <2>1. /\ Before(k) = <<0, 0, 1, 2, 2, 2, 2, 3, 4, 5>>
        /\ Registered(k) = <<"tracing", "mysql", "producer", "consumer", "metrics">>
    BY <1>1 DEF Before, Registered
  <2>2. Len(Path(k)) = 9 /\ 9 + 1 = 10 /\ 9 \in Nat \ {0}
    BY <1>1, Paths
  <2>3. Len(Registered(k)) = 5 /\ Before(k)[10] = 5 /\ Before(k)[1] = 0
    BY <2>1
  <2> QED BY <1>1, <2>2, <2>3, Zenon DEF Workers
<1>2. CASE k = "agent-worker"
  <2>1. /\ Before(k) = <<0, 0, 1, 2, 2, 3, 4, 5, 6, 7>>
        /\ Registered(k) = <<"tracing", "mysql", "redis", "tools", "producer", "consumer", "metrics">>
    BY <1>2 DEF Before, Registered
  <2>2. Len(Path(k)) = 9 /\ 9 + 1 = 10 /\ 9 \in Nat \ {0}
    BY <1>2, Paths
  <2>3. Len(Registered(k)) = 7 /\ Before(k)[10] = 7 /\ Before(k)[1] = 0
    BY <2>1
  <2> QED BY <1>2, <2>2, <2>3, Zenon DEF Workers
<1>3. CASE k = "api"
  <2>1. /\ Before(k) = <<0, 0, 1, 2, 2, 3, 4, 5>>
        /\ Registered(k) = <<"tracing", "mysql", "producer", "redis", "http">>
    BY <1>3 DEF Before, Registered
  <2>2. Len(Path(k)) = 7 /\ 7 + 1 = 8 /\ 7 \in Nat \ {0}
    BY <1>3, Paths
  <2>3. Len(Registered(k)) = 5 /\ Before(k)[8] = 5 /\ Before(k)[1] = 0
    BY <2>1
  <2> QED BY <1>3, <2>2, <2>3, Zenon DEF Workers
<1>4. CASE k = "ops-mcp"
  <2>1. /\ Before(k) = <<0, 0, 1, 2>>
        /\ Registered(k) = <<"tracing", "http">>
    BY <1>4 DEF Before, Registered
  <2>2. Len(Path(k)) = 3 /\ 3 + 1 = 4 /\ 3 \in Nat \ {0}
    BY <1>4, Paths
  <2>3. Len(Registered(k)) = 2 /\ Before(k)[4] = 2 /\ Before(k)[1] = 0
    BY <2>1
  <2> QED BY <1>4, <2>2, <2>3, Zenon DEF Workers
<1> QED BY <1>1, <1>2, <1>3, <1>4 DEF Kinds

(* What is registered, is registered once, and what a handler uses comes   *)
(* before what waits for the handler.                                      *)
LEMMA Order ==
  ASSUME NEW k \in Kinds
  PROVE  /\ Len(Registered(k)) \in Nat
         /\ \A i \in 1..Len(Registered(k)) : Registered(k)[i] \in Closers
         /\ \A i, j \in 1..Len(Registered(k)) : i < j => Registered(k)[i] # Registered(k)[j]
         /\ Place(k) \in 1..Len(Registered(k)) /\ Registered(k)[Place(k)] = Holder(k)
         /\ \A c \in Uses(k) : \E i \in 1..Len(Registered(k)) :
              i < Place(k) /\ Registered(k)[i] = c
<1>1. CASE k = "ingestion-worker"
  <2>1. Registered(k) = <<"tracing", "mysql", "producer", "consumer", "metrics">>
    BY <1>1 DEF Registered
  <2> QED BY <1>1, <2>1 DEF Closers, Place, Holder, Workers, Uses
<1>2. CASE k = "agent-worker"
  <2>1. Registered(k) =
          <<"tracing", "mysql", "redis", "tools", "producer", "consumer", "metrics">>
    BY <1>2 DEF Registered
  <2> QED BY <1>2, <2>1 DEF Closers, Place, Holder, Workers, Uses
<1>3. CASE k = "api"
  <2>1. Registered(k) = <<"tracing", "mysql", "producer", "redis", "http">>
    BY <1>3 DEF Registered
  <2> QED BY <1>3, <2>1 DEF Closers, Place, Holder, Workers, Uses
<1>4. CASE k = "ops-mcp"
  <2>1. Registered(k) = <<"tracing", "http">>
    BY <1>4 DEF Registered
  <2> QED BY <1>4, <2>1 DEF Closers, Place, Holder, Workers, Uses
<1> QED BY <1>1, <1>2, <1>3, <1>4 DEF Kinds

-----------------------------------------------------------------------------
(* What each action changes                                                *)

(* A process and what it becomes: all but the named fields is kept.        *)
Keeps(r, s, changed) == DOMAIN s = Fields /\ \A f \in Fields \ changed : s[f] = r[f]

(* The other processes.                                                    *)
Only(p) == DOMAIN proc' = DOMAIN proc /\ \A q \in Procs : q # p => proc'[q] = proc[q]

(* A step of a start that is done.                                         *)
Opens(r, s) ==
  /\ Keeps(r, s, {"opened", "life", "step", "create", "existing", "waited", "es"})
  /\ s.opened = IF Path(r.kind)[r.step] \in Closers THEN Append(r.opened, Path(r.kind)[r.step])
                ELSE r.opened
  /\ s.life = IF r.step = Len(Path(r.kind)) THEN "running" ELSE r.life
  /\ s.step = r.step + 1 /\ s.create = 1 /\ s.existing = {} /\ s.waited = 0
  /\ s.es = "resolve"

(* So moves Done.                                                          *)
LEMMA DoneMoves ==
  ASSUME NEW p \in Procs, DOMAIN proc[p] = Fields, Done(p)
  PROVE  Only(p) /\ Opens(proc[p], proc'[p])
BY DEF Done, Opens, Only, Keeps, Procs, Fields

(* What is left of a process that is gone.                                 *)
AtRest(r, s) ==
  /\ DOMAIN s = Fields /\ s.kind = r.kind /\ s.stoppable = r.stoppable /\ s.life = "exited"
  /\ s.step = 1 /\ s.create = 1 /\ s.existing = {} /\ s.waited = 0 /\ s.es = "resolve"
  /\ s.signal = r.signal /\ s.loop = "polling" /\ s.records = 0 /\ s.blocked = FALSE
  /\ s.sweep = "waiting" /\ s.listener = r.listener /\ s.request = FALSE
  /\ s.left = [a \in Parts |-> 0] /\ s.clock = 0 /\ s.due = 0 /\ s.at = 0 /\ s.awaited = None

Refuses(r, s, why) ==
  /\ AtRest(r, s) /\ s.refusal = why
  /\ s.opened = <<>> /\ s.closer = [c \in Closers |-> "open"] /\ s.incomplete = {} /\ s.failed = {}

Exits(r, s) ==
  /\ r.life = "closing" /\ r.awaited = None /\ r.at = 0
  /\ AtRest(r, s) /\ s.refusal = None
  /\ s.opened = r.opened /\ s.closer = r.closer /\ s.incomplete = r.incomplete
  /\ s.failed = r.failed

(* So moves Refuse.                                                        *)
LEMMA RefuseMoves ==
  ASSUME NEW p \in Procs, DOMAIN proc[p] = Fields, NEW why, Refuse(p, why)
  PROVE  Only(p) /\ Refuses(proc[p], proc'[p], why)
BY DEF Refuse, Refuses, Gone, Starting, Only, AtRest, Procs, Fields, Parts

(* And Exit keeps what the process reports.                                *)
LEMMA ExitMoves ==
  ASSUME NEW p \in Procs, DOMAIN proc[p] = Fields, Exit(p)
  PROVE  Only(p) /\ Exits(proc[p], proc'[p])
<1>1. /\ proc' = [proc EXCEPT ![p] =
           [Gone(@) EXCEPT !.opened = proc[p].opened, !.closer = proc[p].closer,
                           !.incomplete = proc[p].incomplete, !.failed = proc[p].failed]]
      /\ proc[p].life = "closing" /\ proc[p].awaited = None /\ proc[p].at = 0
  BY DEF Exit
<1>2. Only(p) /\ proc'[p] =
           [Gone(proc[p]) EXCEPT !.opened = proc[p].opened, !.closer = proc[p].closer,
                         !.incomplete = proc[p].incomplete, !.failed = proc[p].failed]
  BY <1>1 DEF Only, Procs
<1> DEFINE g == Gone(proc[p])
<1>3. AtRest(proc[p], g) /\ g.refusal = None
  BY DEF Gone, Starting, AtRest, Fields, Parts
<1> HIDE DEF g
<1> DEFINE s == [g EXCEPT !.opened = proc[p].opened, !.closer = proc[p].closer,
                          !.incomplete = proc[p].incomplete, !.failed = proc[p].failed]
<1>4. /\ AtRest(proc[p], s) /\ s.refusal = None
      /\ s.opened = proc[p].opened /\ s.closer = proc[p].closer
      /\ s.incomplete = proc[p].incomplete /\ s.failed = proc[p].failed
  BY <1>3 DEF AtRest, Fields
<1>5. proc'[p] = s
  BY <1>2 DEF g
<1> QED BY <1>1, <1>2, <1>4, <1>5 DEF Exits

(* The consumer's loop, the sweep and the requests.                        *)
Loops(r, s) ==
  /\ Keeps(r, s, {"loop", "records", "blocked"})
  /\ r.life \in {"running", "waiting", "closing"}
  /\ \/ /\ r.kind \in Workers /\ r.loop = "polling" /\ s.blocked = TRUE
        /\ \/ s.loop = "stopping" /\ s.records = r.records
           \/ s.loop = "holding" /\ s.records \in 1..MaxBatch
     \/ /\ r.loop = "holding" /\ s.loop = "handling" /\ s.blocked = r.blocked
        /\ s.records = r.records /\ r.life = "running" /\ r.records > 0
     \/ /\ r.loop = "handling" /\ s.loop = "holding" /\ s.blocked = r.blocked
        /\ s.records = r.records - 1
     \/ /\ r.loop = "holding" /\ s.loop = "polling" /\ s.blocked = FALSE /\ s.records = 0
     \/ /\ r.loop = "stopping" /\ s.loop = "done" /\ s.blocked = FALSE
        /\ s.records = r.records

(* So move the five actions of the loop.                                   *)
LEMMA LoopMoves ==
  ASSUME NEW p \in Procs, DOMAIN proc[p] = Fields,
         Poll(p) \/ Handle(p) \/ Handled(p) \/ AllowRebalance(p) \/ RunReturns(p)
  PROVE  Only(p) /\ Loops(proc[p], proc'[p])
<1>1. CASE Poll(p)
  <2>1. proc[p].life \in {"running", "waiting", "closing"} /\ proc[p].kind \in Workers
        /\ proc[p].loop = "polling"
    BY <1>1 DEF Poll, Alive, Worker
  <2>2. CASE proc' = [proc EXCEPT ![p].loop = "stopping", ![p].blocked = TRUE]
    BY <2>1, <2>2 DEF Loops, Only, Keeps, Procs, Fields
  <2>3. ASSUME NEW n \in 1..MaxBatch,
               proc' = [proc EXCEPT ![p].loop = "holding", ![p].records = n, ![p].blocked = TRUE]
        PROVE  /\ Only(p) /\ Keeps(proc[p], proc'[p], {"loop", "records", "blocked"})
               /\ proc'[p].loop = "holding" /\ proc'[p].records = n /\ proc'[p].blocked = TRUE
    BY <2>3 DEF Only, Keeps, Procs, Fields
  <2> QED BY <1>1, <2>1, <2>2, <2>3 DEF Poll, Loops
<1>2. CASE Handle(p)
  BY <1>2 DEF Loops, Handle, Alive, Cancelled, Only, Keeps, Procs, Fields
<1>3. CASE Handled(p)
  BY <1>3 DEF Loops, Handled, Alive, Only, Keeps, Procs, Fields
<1>4. CASE AllowRebalance(p)
  BY <1>4 DEF Loops, AllowRebalance, Alive, Only, Keeps, Procs, Fields
<1>5. CASE RunReturns(p)
  BY <1>5 DEF Loops, RunReturns, Alive, Only, Keeps, Procs, Fields
<1> QED BY <1>1, <1>2, <1>3, <1>4, <1>5

Sweeps(r, s) == Keeps(r, s, {"sweep"}) /\ s.sweep \in {"waiting", "sweeping", "done"}

(* So moves a sweep that begins, ends, or stops.                           *)
LEMMA SweepMoves ==
  ASSUME NEW p \in Procs, DOMAIN proc[p] = Fields, Sweep(p)
  PROVE  Only(p) /\ Sweeps(proc[p], proc'[p])
BY DEF Sweep, Sweeps, Only, Keeps, Procs, Fields

Requests(r, s) ==
  /\ Keeps(r, s, {"request", "left"})
  /\ r.life \in {"running", "waiting", "closing"} /\ r.kind \notin Workers
  /\ \/ /\ r.listener = "serving" /\ s.request = TRUE
        /\ \E d \in WorkTimes \cup {0} : s.left = [r.left EXCEPT !["request"] = d]
     \/ s.request = FALSE /\ s.left = r.left

(* So moves a request that comes or goes.                                  *)
LEMMA RequestMoves ==
  ASSUME NEW p \in Procs, DOMAIN proc[p] = Fields, Request(p)
  PROVE  Only(p) /\ Requests(proc[p], proc'[p])
<1>1. proc[p].life \in {"running", "waiting", "closing"} /\ proc[p].kind \notin Workers
  BY DEF Request, Alive, Worker
<1>2. CASE proc' = [proc EXCEPT ![p].request = FALSE]
  BY <1>1, <1>2 DEF Requests, Only, Keeps, Procs, Fields
<1>3. ASSUME NEW d \in InFlight(proc[p].life = "closing"), proc[p].listener = "serving",
             proc' = [proc EXCEPT ![p].request = TRUE, ![p].left["request"] = d]
      PROVE  /\ Only(p) /\ Keeps(proc[p], proc'[p], {"request", "left"})
             /\ proc'[p].request = TRUE /\ d \in WorkTimes \cup {0}
             /\ proc'[p].left = [proc[p].left EXCEPT !["request"] = d]
  BY <1>3 DEF InFlight, Only, Keeps, Procs, Fields
<1> QED BY <1>1, <1>2, <1>3 DEF Request, Requests

(* A signal, a listener that fails, and what is done about either.         *)
Signals(r, s) == Keeps(r, s, {"signal"}) /\ s.signal = TRUE
Fails(r, s)   == Keeps(r, s, {"listener"}) /\ s.listener = "failed" /\ r.life = "running"

(* So move both.                                                           *)
LEMMA SignalMoves ==
  ASSUME NEW p \in Procs, DOMAIN proc[p] = Fields
  PROVE  /\ Signal(p) => Only(p) /\ Signals(proc[p], proc'[p])
         /\ ServeFails(p) => Only(p) /\ Fails(proc[p], proc'[p])
BY DEF Signal, ServeFails, Signals, Fails, Only, Keeps, Procs, Fields

Stops(r, s) ==
  /\ Keeps(r, s, {"life", "left"})
  /\ r.life = "running" /\ r.kind \in Workers /\ s.life = "waiting"
  /\ \E h, w \in WorkTimes \cup {0} :
       s.left = [r.left EXCEPT !["handler"] = h, !["sweep"] = w]

Closes(r, s) ==
  /\ Keeps(r, s, {"life", "left", "due", "at"})
  /\ s.life = "closing" /\ s.at = Len(r.opened)
  /\ \/ /\ r.life = "running" /\ r.kind \notin Workers /\ s.due = ShutdownTimeout
        /\ \E d \in WorkTimes \cup {0} : s.left = [r.left EXCEPT !["request"] = d]
     \/ r.life = "waiting" /\ s.due = r.clock + ShutdownTimeout /\ s.left = r.left

(* The worker goes to wait for its goroutines.                             *)
LEMMA StopMoves ==
  ASSUME NEW p \in Procs, DOMAIN proc[p] = Fields, StopWorker(p)
  PROVE  Only(p) /\ Stops(proc[p], proc'[p])
<1>1. proc[p].life = "running" /\ proc[p].kind \in Workers
  BY DEF StopWorker, Told, Worker
<1>2. PICK h \in InFlight(proc[p].loop = "handling"), w \in InFlight(proc[p].sweep = "sweeping") :
        proc' = [proc EXCEPT ![p].life = "waiting", ![p].left["handler"] = h, ![p].left["sweep"] = w]
  BY DEF StopWorker
<1>3. h \in WorkTimes \cup {0} /\ w \in WorkTimes \cup {0}
  BY DEF InFlight
<1>4. /\ Only(p) /\ Keeps(proc[p], proc'[p], {"life", "left"}) /\ proc'[p].life = "waiting"
      /\ proc'[p].left = [proc[p].left EXCEPT !["handler"] = h, !["sweep"] = w]
  BY <1>2 DEF Only, Keeps, Procs, Fields
<1> QED BY <1>1, <1>3, <1>4 DEF Stops

(* A server goes to its closers at once, a worker after the wait.          *)
LEMMA CloseMoves ==
  ASSUME NEW p \in Procs, DOMAIN proc[p] = Fields, StopServer(p) \/ WaitFor(p)
  PROVE  Only(p) /\ Closes(proc[p], proc'[p])
<1>1. CASE WaitFor(p)
  BY <1>1 DEF WaitFor, Closes, Only, Keeps, Procs, Fields
<1>2. CASE StopServer(p)
  <2>1. proc[p].life = "running" /\ proc[p].kind \notin Workers
    BY <1>2 DEF StopServer, Told, Worker
  <2>2. PICK d \in InFlight(proc[p].request) :
          proc' = [proc EXCEPT ![p].life = "closing", ![p].left["request"] = d,
                               ![p].due = ShutdownTimeout, ![p].at = Len(proc[p].opened)]
    BY <1>2 DEF StopServer
  <2>3. d \in WorkTimes \cup {0}
    BY DEF InFlight
  <2>4. /\ Only(p) /\ Keeps(proc[p], proc'[p], {"life", "left", "due", "at"})
        /\ proc'[p].life = "closing" /\ proc'[p].at = Len(proc[p].opened)
        /\ proc'[p].due = ShutdownTimeout
        /\ proc'[p].left = [proc[p].left EXCEPT !["request"] = d]
    BY <2>2 DEF Only, Keeps, Procs, Fields
  <2> QED BY <2>1, <2>3, <2>4 DEF Closes
<1> QED BY <1>1, <1>2

(* One closer after another.                                               *)
Begins(r, s, c) ==
  /\ Keeps(r, s, {"closer", "left", "listener", "at", "awaited", "incomplete"})
  /\ r.life = "closing" /\ r.awaited = None /\ r.at > 0
  /\ s.closer = [r.closer EXCEPT ![c] = "closing"]
  /\ \E d \in CloserTimes \cup {0} : s.left = [r.left EXCEPT ![c] = d]
  /\ s.listener = IF c \in Listeners /\ r.listener = "serving" THEN "closed" ELSE r.listener
  /\ IF Spent(r) THEN /\ s.at = r.at - 1 /\ s.awaited = None
                      /\ s.incomplete = r.incomplete \cup {c}
                 ELSE s.at = r.at /\ s.awaited = c /\ s.incomplete = r.incomplete

(* So moves the next closer when it is begun.                              *)
LEMMA BeginMoves ==
  ASSUME NEW p \in Procs, DOMAIN proc[p] = Fields, BeginClose(p)
  PROVE  Only(p) /\ Begins(proc[p], proc'[p], proc[p].opened[proc[p].at])
<1>1. \A d \in CloseTimes(p, Current(p)) : d \in CloserTimes \cup {0}
  BY DEF CloseTimes
<1>2. proc[p].life = "closing" /\ proc[p].awaited = None /\ proc[p].at > 0
  BY DEF BeginClose
<1> DEFINE c == proc[p].opened[proc[p].at]
<1>3. PICK d \in CloseTimes(p, c) :
        proc' = [proc EXCEPT
          ![p].closer[c] = "closing", ![p].left[c] = d,
          ![p].listener = IF c \in Listeners /\ @ = "serving" THEN "closed" ELSE @,
          ![p].at = IF Spent(proc[p]) THEN @ - 1 ELSE @,
          ![p].awaited = IF Spent(proc[p]) THEN None ELSE c,
          ![p].incomplete = IF Spent(proc[p]) THEN @ \cup {c} ELSE @]
  BY DEF BeginClose, Current, Expired, Spent
<1>4. d \in CloserTimes \cup {0}
  BY <1>1 DEF Current
<1> HIDE DEF c
<1>5. /\ Only(p)
      /\ Keeps(proc[p], proc'[p], {"closer", "left", "listener", "at", "awaited", "incomplete"})
      /\ proc'[p].closer = [proc[p].closer EXCEPT ![c] = "closing"]
      /\ proc'[p].left = [proc[p].left EXCEPT ![c] = d]
      /\ proc'[p].listener = IF c \in Listeners /\ proc[p].listener = "serving" THEN "closed"
                             ELSE proc[p].listener
      /\ proc'[p].at = IF Spent(proc[p]) THEN proc[p].at - 1 ELSE proc[p].at
      /\ proc'[p].awaited = IF Spent(proc[p]) THEN None ELSE c
      /\ proc'[p].incomplete = IF Spent(proc[p]) THEN proc[p].incomplete \cup {c}
                               ELSE proc[p].incomplete
  BY <1>3 DEF Only, Keeps, Procs, Fields
<1> QED BY <1>2, <1>4, <1>5 DEF Begins, c

Ends(r, s, c) ==
  /\ Keeps(r, s, {"closer"})
  /\ r.life = "closing" /\ r.closer[c] = "closing"
  /\ c = "consumer" => ~r.blocked
  /\ c = "http" => ~r.request
  /\ \E e \in {"closed", "broken"} :
       /\ e = "broken" => c \in {"tracing", "mysql", "redis", "tools"}
       /\ s.closer = [r.closer EXCEPT ![c] = e]

(* So moves a close function that returns.                                 *)
LEMMA EndMoves ==
  ASSUME NEW p \in Procs, DOMAIN proc[p] = Fields, NEW c \in Closers, CloserEnds(p, c)
  PROVE  Only(p) /\ Ends(proc[p], proc'[p], c)
BY DEF CloserEnds, Ready, Ends, Only, Keeps, Procs, Fields

Awaits(r, s, c) ==
  /\ Keeps(r, s, {"at", "awaited", "failed", "incomplete"})
  /\ r.life = "closing" /\ c # None /\ s.awaited = None /\ s.at = r.at - 1
  /\ \/ /\ r.closer[c] # "closing" /\ s.incomplete = r.incomplete
        /\ s.failed = IF r.closer[c] = "broken" THEN r.failed \cup {c} ELSE r.failed
     \/ Spent(r) /\ s.failed = r.failed /\ s.incomplete = r.incomplete \cup {c}

(* So moves the select of runClose.                                        *)
LEMMA AwaitedMoves ==
  ASSUME NEW p \in Procs, DOMAIN proc[p] = Fields, Awaited(p)
  PROVE  Only(p) /\ Awaits(proc[p], proc'[p], proc[p].awaited)
<1> DEFINE c == proc[p].awaited
<1>1. proc[p].life = "closing" /\ c # None
  BY DEF Awaited
<1>2. CASE proc[p].closer[c] # "closing" /\
           proc' = [proc EXCEPT
              ![p].awaited = None, ![p].at = @ - 1,
              ![p].failed = IF proc[p].closer[c] = "broken" THEN @ \cup {c} ELSE @]
  <2> HIDE DEF c
  <2>1. /\ Only(p) /\ Keeps(proc[p], proc'[p], {"at", "awaited", "failed", "incomplete"})
        /\ proc'[p].awaited = None /\ proc'[p].at = proc[p].at - 1
        /\ proc'[p].incomplete = proc[p].incomplete
        /\ proc'[p].failed = IF proc[p].closer[c] = "broken" THEN proc[p].failed \cup {c}
                             ELSE proc[p].failed
    BY <1>2 DEF Only, Keeps, Procs, Fields
  <2> QED BY <1>1, <1>2, <2>1 DEF Awaits, c
<1>3. CASE Spent(proc[p]) /\
           proc' = [proc EXCEPT ![p].awaited = None, ![p].at = @ - 1,
                                ![p].incomplete = @ \cup {c}]
  <2> HIDE DEF c
  <2>1. /\ Only(p) /\ Keeps(proc[p], proc'[p], {"at", "awaited", "failed", "incomplete"})
        /\ proc'[p].awaited = None /\ proc'[p].at = proc[p].at - 1
        /\ proc'[p].incomplete = proc[p].incomplete \cup {c}
        /\ proc'[p].failed = proc[p].failed
    BY <1>3 DEF Only, Keeps, Procs, Fields
  <2> QED BY <1>1, <1>3, <2>1 DEF Awaits, c
<1> QED BY <1>2, <1>3 DEF Awaited, Expired, Spent

-----------------------------------------------------------------------------
(* What a process keeps by itself, change by change                        *)

(* A step of the start done.                                               *)
LEMMA OpensKeep ==
  ASSUME NEW r, NEW s, Kept(r), r.life = "starting", Opens(r, s)
  PROVE  Kept(s)
<1> USE DEF Kept
<1> DEFINE k == r.kind
           n == r.step
           c == Path(k)[n]
<1>1. /\ k \in Kinds /\ n \in 1..Len(Path(k)) /\ Len(Path(k)) \in Nat
      /\ r.opened \in Seq(Closers) /\ Len(r.opened) \in Nat
  <2>1. k \in Kinds /\ n \in Nat \ {0} /\ r.opened \in Seq(Closers)
    BY DEF Typed, StartTyped
  <2>2. Len(Path(k)) \in Nat
    BY <2>1, PathEnds
  <2>3. n <= Len(Path(k))
    BY DEF StartKept
  <2> QED BY <2>1, <2>2, <2>3
<1>2. PathStep(k, n)
  BY <1>1, PathSteps
<1>3. /\ s.kind = k /\ s.step = n + 1
      /\ s.opened = IF c \in Closers THEN Append(r.opened, c) ELSE r.opened
      /\ s.life = IF n = Len(Path(k)) THEN "running" ELSE "starting"
  BY DEF Opens, Keeps, Fields
<1>4. s.opened \in Seq(Closers) /\ Len(s.opened) = Before(k)[n + 1]
  BY <1>1, <1>2, <1>3 DEF StartKept, PathStep
<1>5. Typed(s)
  <2>1. s.step \in Nat \ {0} /\ s.opened \in Seq(Closers)
        /\ s.life \in {"starting", "running", "waiting", "closing", "exited"}
    BY <1>1, <1>3, <1>4
  <2>2. s.create \in Nat \ {0} /\ s.existing \in SUBSET TopicNames /\ s.waited \in Nat
        /\ s.es \in {"resolve", "check", "create", "again"}
    BY DEF Opens
  <2>3. Keeps(r, s, {"opened", "life", "step", "create", "existing", "waited", "es"})
    BY DEF Opens
  <2>7. StartTyped(s)
    BY <2>1, <2>2, <2>3 DEF Typed, StartTyped, Keeps, Fields
  <2>8. RunTyped(s)
    BY <2>1, <2>2, <2>3 DEF Typed, RunTyped, Keeps, Fields
  <2>9. CloseTyped(s)
    BY <2>1, <2>2, <2>3 DEF Typed, CloseTyped, Keeps, Fields
  <2> QED BY <2>1, <2>2, <2>3, <2>7, <2>8, <2>9 DEF Typed, Keeps
<1>6. StartKept(s)
  <2>1. \A i \in 1..Len(r.opened) : r.opened[i] = Registered(k)[i]
    BY DEF StartKept
  <2>2. \A i \in 1..Len(s.opened) : s.opened[i] = Registered(k)[i]
    <3>1. CASE c \in Closers
      <4>1. c = Registered(k)[Len(r.opened) + 1]
        BY <1>2, <3>1 DEF PathStep, StartKept
      <4> QED BY <1>1, <1>3, <2>1, <3>1, <4>1
    <3>2. CASE c \notin Closers
      BY <1>3, <2>1, <3>2
    <3> QED BY <3>1, <3>2
  <2>3. s.life = "starting" => s.step <= Len(Path(k))
    BY <1>1, <1>3
  <2>4. s.life \in {"running", "waiting", "closing"} => s.step = Len(Path(k)) + 1
    BY <1>1, <1>3
  <2> QED BY <1>3, <1>4, <2>2, <2>3, <2>4, Zenon DEF StartKept
<1>7. LifeKept(s)
  BY <1>3 DEF LifeKept, Opens, Keeps, Fields
<1>8. ClockKept(s)
  BY <1>3 DEF ClockKept, Opens, Keeps, Fields
<1>9. ClosingKept(s) /\ ExitKept(s)
  BY <1>3 DEF ClosingKept, ExitKept
<1> QED BY <1>5, <1>6, <1>7, <1>8, <1>9

(* A process at rest has its types.                                           *)
LEMMA RestTyped ==
  ASSUME NEW r, NEW s, Typed(r), AtRest(r, s), s.refusal \in Refusals \cup {None},
         s.opened \in Seq(Closers),
         s.closer \in [Closers -> {"open", "closing", "closed", "broken"}],
         s.incomplete \in SUBSET Closers, s.failed \in SUBSET Closers
  PROVE  Typed(s)
<1>1. /\ DOMAIN s = Fields /\ s.kind \in Kinds /\ s.stoppable \in BOOLEAN /\ s.signal \in BOOLEAN
      /\ s.listener \in {"serving", "failed", "closed"}
  BY DEF Typed, StartTyped, RunTyped, AtRest
<1>2. /\ s.life = "exited"
      /\ s.step = 1 /\ s.create = 1 /\ s.existing = {} /\ s.waited = 0 /\ s.es = "resolve"
      /\ s.loop = "polling" /\ s.records = 0 /\ s.blocked = FALSE
      /\ s.sweep = "waiting" /\ s.request = FALSE
      /\ s.clock = 0 /\ s.due = 0 /\ s.at = 0 /\ s.awaited = None
  BY DEF AtRest
<1>3. s.left \in [Parts -> Nat]
  BY DEF AtRest
<1>4. /\ s.step \in Nat \ {0} /\ s.create \in Nat \ {0}
      /\ s.waited \in Nat /\ s.records \in Nat /\ s.clock \in Nat /\ s.due \in Nat /\ s.at \in Nat
  BY <1>2
<1>6. s.existing \in SUBSET TopicNames
  BY <1>2
<1>7. s.blocked \in BOOLEAN /\ s.request \in BOOLEAN
  BY <1>2, Zenon
<1>5. /\ s.life \in {"starting", "running", "waiting", "closing", "exited"}
      /\ s.es \in {"resolve", "check", "create", "again"}
      /\ s.loop \in {"polling", "holding", "handling", "stopping", "done"}
      /\ s.sweep \in {"waiting", "sweeping", "done"} /\ s.awaited \in Closers \cup {None}
  BY <1>2
<1> QED BY <1>1, <1>3, <1>4, <1>5, <1>6, <1>7, Zenon DEF Typed, StartTyped, RunTyped, CloseTyped

(* A start that is refused keeps nothing to be wrong about.                *)
LEMMA RefusesKeep ==
  ASSUME NEW r, NEW s, Kept(r), NEW why \in Refusals, Refuses(r, s, why)
  PROVE  Kept(s)
<1>1. None \notin Refusals
  BY FleetsAssumption
<1>2. Typed(r)
  BY DEF Kept
<1>3. Typed(s)
  <2>1. AtRest(r, s) /\ s.refusal \in Refusals \cup {None} /\ s.opened \in Seq(Closers)
    BY DEF Refuses
  <2>2. /\ s.closer \in [Closers -> {"open", "closing", "closed", "broken"}]
        /\ s.incomplete \in SUBSET Closers /\ s.failed \in SUBSET Closers
    BY DEF Refuses
  <2> QED BY <1>2, <2>1, <2>2, RestTyped
<1>4. /\ s.life = "exited" /\ s.refusal # None /\ s.loop = "polling" /\ ~s.blocked /\ ~s.request
      /\ s.clock = 0
  BY <1>1 DEF Refuses, AtRest
<1> QED BY <1>3, <1>4 DEF Kept, StartKept, LifeKept, ClockKept, ClosingKept, ExitKept

(* An exit keeps what the closing came to.                                 *)
LEMMA ExitsKeep ==
  ASSUME NEW r, NEW s, Kept(r), Exits(r, s)
  PROVE  Kept(s)
<1>1. Typed(r) /\ ClosingKept(r)
  BY DEF Kept
<1>2. Typed(s)
  <2>1. AtRest(r, s) /\ s.refusal \in Refusals \cup {None} /\ s.opened \in Seq(Closers)
    BY <1>1 DEF Exits, Typed, StartTyped
  <2>2. /\ s.closer \in [Closers -> {"open", "closing", "closed", "broken"}]
        /\ s.incomplete \in SUBSET Closers /\ s.failed \in SUBSET Closers
    BY <1>1 DEF Exits, Typed, CloseTyped
  <2> QED BY <1>1, <2>1, <2>2, RestTyped
<1>3. /\ s.life = "exited" /\ s.loop = "polling" /\ ~s.blocked /\ ~s.request
      /\ s.clock = 0 /\ s.at = 0 /\ r.at = 0 /\ r.life = "closing"
      /\ s.opened = r.opened /\ s.closer = r.closer /\ s.incomplete = r.incomplete
      /\ s.failed = r.failed
  BY DEF Exits, AtRest
<1>4. Len(r.opened) \in Nat
  BY <1>1 DEF Typed
<1>5. \A i \in 1..Len(r.opened) : Left(r, r.opened[i])
  BY <1>1, <1>3, <1>4 DEF ClosingKept
<1>6. ExitKept(s)
  BY <1>1, <1>3, <1>5 DEF ExitKept, ClosingKept, Left, Ordered
<1> QED BY <1>2, <1>3, <1>6 DEF Kept, StartKept, LifeKept, ClockKept, ClosingKept

(* The loop of the consumer.                                               *)
LEMMA LoopsKeep ==
  ASSUME NEW r, NEW s, Kept(r), Loops(r, s)
  PROVE  Kept(s)
<1> USE DEF Kept
<1>1. Keeps(r, s, {"loop", "records", "blocked"})
  BY DEF Loops
<1>2. Typed(s)
  <2>1. s.loop \in {"polling", "holding", "handling", "stopping", "done"} /\ s.blocked \in BOOLEAN
    BY DEF Loops, Typed, RunTyped
  <2>2. s.records \in Nat
    <3>1. r.records \in Nat /\ (r.loop = "handling" => r.records > 0) /\ MaxBatch \in Nat
      BY FleetsAssumption DEF Typed, RunTyped, LifeKept
    <3> QED BY <3>1 DEF Loops
  <2>3. Typed(r)
    OBVIOUS
  <2> HIDE DEF Kept
  <2>7. StartTyped(s)
    BY <1>1, <2>1, <2>2, <2>3 DEF Typed, StartTyped, Keeps, Fields
  <2>8. RunTyped(s)
    BY <1>1, <2>1, <2>2, <2>3 DEF Typed, RunTyped, Keeps, Fields
  <2>9. CloseTyped(s)
    BY <1>1, <2>1, <2>2, <2>3 DEF Typed, CloseTyped, Keeps, Fields
  <2> QED BY <1>1, <2>1, <2>2, <2>3, <2>7, <2>8, <2>9 DEF Typed, Keeps
<1>3. StartKept(s) /\ ClockKept(s)
  BY <1>1 DEF StartKept, ClockKept, Keeps, Fields, Allowed
<1>4. LifeKept(s)
  BY <1>1, FleetsAssumption DEF LifeKept, Loops, Keeps, Fields
<1>5. ClosingKept(s)
  <2>1. r.life = "closing" => s.loop # "handling" \/ r.loop = "handling"
    BY DEF Loops
  <2> QED BY <1>1, <2>1 DEF ClosingKept, Keeps, Fields, Left, Ordered, Undisturbed, Spent
<1>6. ExitKept(s)
  BY <1>1 DEF Loops, ExitKept, Keeps, Fields
<1> QED BY <1>2, <1>3, <1>4, <1>5, <1>6

(* A sweep.                                                                *)
LEMMA SweepsKeep ==
  ASSUME NEW r, NEW s, Kept(r), Sweeps(r, s)
  PROVE  Kept(s)
<1> USE DEF Kept
<1>1. Keeps(r, s, {"sweep"})
  BY DEF Sweeps
<1>2. Typed(s)
  <2>1. StartTyped(s)
    BY <1>1 DEF Typed, StartTyped, Sweeps, Keeps, Fields
  <2>2. RunTyped(s)
    BY <1>1 DEF Typed, RunTyped, Sweeps, Keeps, Fields
  <2>3. CloseTyped(s)
    BY <1>1 DEF Typed, CloseTyped, Sweeps, Keeps, Fields
  <2> QED BY <1>1, <2>1, <2>2, <2>3 DEF Typed, Keeps
<1>3. StartKept(s) /\ ClockKept(s) /\ LifeKept(s)
  BY <1>1 DEF StartKept, ClockKept, LifeKept, Keeps, Fields, Allowed
<1>4. ClosingKept(s) /\ ExitKept(s)
  BY <1>1 DEF ClosingKept, ExitKept, Keeps, Fields, Left, Ordered, Undisturbed, Spent
<1> QED BY <1>2, <1>3, <1>4

(* A request: only a listener that still serves lets one in.               *)
LEMMA RequestsKeep ==
  ASSUME NEW r, NEW s, Kept(r), Requests(r, s)
  PROVE  Kept(s)
<1> USE DEF Kept
<1>1. Keeps(r, s, {"request", "left"})
  BY DEF Requests
<1>2. Typed(s)
  <2>1. r.left \in [Parts -> Nat] /\ WorkTimes \cup {0} \subseteq Nat
    BY TimesAssumption DEF Typed, CloseTyped
  <2>2. s.left \in [Parts -> Nat] /\ s.request \in BOOLEAN
    BY <2>1 DEF Requests
  <2>7. StartTyped(s)
    BY <1>1, <2>2 DEF Typed, StartTyped, Keeps, Fields
  <2>8. RunTyped(s)
    BY <1>1, <2>2 DEF Typed, RunTyped, Keeps, Fields
  <2>9. CloseTyped(s)
    BY <1>1, <2>2 DEF Typed, CloseTyped, Keeps, Fields
  <2> QED BY <1>1, <2>2, <2>7, <2>8, <2>9 DEF Typed, Keeps
<1>3. StartKept(s) /\ ClockKept(s)
  BY <1>1 DEF StartKept, ClockKept, Keeps, Fields, Allowed
<1>4. LifeKept(s)
  BY <1>1 DEF LifeKept, Requests, Keeps, Fields
<1>5. ClosingKept(s)
  <2>1. s.request => r.listener = "serving" 
    BY DEF Requests
  <2> QED BY <1>1, <2>1 DEF ClosingKept, Keeps, Fields, Left, Ordered, Undisturbed, Spent
<1>6. ExitKept(s)
  BY <1>1 DEF Requests, ExitKept, Keeps, Fields
<1> QED BY <1>2, <1>3, <1>4, <1>5, <1>6

(* A signal, and a listener that fails.                                    *)
LEMMA SignalsKeep ==
  ASSUME NEW r, NEW s, Kept(r), Signals(r, s) \/ Fails(r, s)
  PROVE  Kept(s)
<1> USE DEF Kept
<1>1. Keeps(r, s, {"signal", "listener"})
  BY DEF Signals, Fails, Keeps, Fields
<1>2. Typed(s)
  <2>1. s.signal \in BOOLEAN /\ s.listener \in {"serving", "failed", "closed"}
    <3>1. CASE Signals(r, s)
      <4>1. s.signal = TRUE /\ s.listener = r.listener
        BY <3>1 DEF Signals, Keeps, Fields
      <4> QED BY <4>1, Zenon DEF Typed, RunTyped
    <3>2. CASE Fails(r, s)
      BY <3>2 DEF Typed, RunTyped, Fails, Keeps, Fields
    <3> QED BY <3>1, <3>2
  <2>2. Typed(r)
    OBVIOUS
  <2> HIDE DEF Kept
  <2>7. StartTyped(s)
    BY <1>1, <2>1, <2>2 DEF Typed, StartTyped, Keeps, Fields
  <2>8. RunTyped(s)
    BY <1>1, <2>1, <2>2 DEF Typed, RunTyped, Keeps, Fields
  <2>9. CloseTyped(s)
    BY <1>1, <2>1, <2>2 DEF Typed, CloseTyped, Keeps, Fields
  <2> QED BY <1>1, <2>1, <2>2, <2>7, <2>8, <2>9 DEF Typed, Keeps
<1>3. StartKept(s) /\ ClockKept(s) /\ LifeKept(s)
  BY <1>1 DEF StartKept, ClockKept, LifeKept, Keeps, Fields, Allowed
<1>4. s.listener = "serving" => r.listener = "serving"
  BY DEF Signals, Fails, Keeps, Fields
<1>5. ClosingKept(s) /\ ExitKept(s)
  BY <1>1, <1>4 DEF ClosingKept, ExitKept, Keeps, Fields, Left, Ordered, Undisturbed, Spent
<1> QED BY <1>2, <1>3, <1>5

(* A worker that waits for its goroutines.                                 *)
LEMMA StopsKeep ==
  ASSUME NEW r, NEW s, Kept(r), Stops(r, s)
  PROVE  Kept(s)
<1> USE DEF Kept
<1>1. Keeps(r, s, {"life", "left"}) /\ r.life = "running" /\ s.life = "waiting" /\ r.kind \in Workers
  BY DEF Stops
<1>2. Typed(s)
  <2>1. r.left \in [Parts -> Nat] /\ WorkTimes \cup {0} \subseteq Nat
    BY TimesAssumption DEF Typed, CloseTyped
  <2>2. s.left \in [Parts -> Nat]
    BY <2>1 DEF Stops
  <2>7. StartTyped(s)
    BY <1>1, <2>2 DEF Typed, StartTyped, Keeps, Fields
  <2>8. RunTyped(s)
    BY <1>1, <2>2 DEF Typed, RunTyped, Keeps, Fields
  <2>9. CloseTyped(s)
    BY <1>1, <2>2 DEF Typed, CloseTyped, Keeps, Fields
  <2> QED BY <1>1, <2>2, <2>7, <2>8, <2>9 DEF Typed, Keeps
<1>3. StartKept(s) /\ LifeKept(s)
  BY <1>1 DEF StartKept, LifeKept, Keeps, Fields
<1>4. ClockKept(s)
  <2>1. s.clock = 0 /\ s.kind \in Workers /\ GoroutineTimeout \in Nat
    BY <1>1, TimesAssumption DEF ClockKept, Keeps, Fields
  <2> QED BY <1>1, <2>1 DEF ClockKept
<1>5. ClosingKept(s) /\ ExitKept(s)
  BY <1>1 DEF ClosingKept, ExitKept
<1> QED BY <1>2, <1>3, <1>4, <1>5

(* The first of the closing.                                               *)
LEMMA ClosesKeep ==
  ASSUME NEW r, NEW s, Kept(r), Closes(r, s)
  PROVE  Kept(s)
<1> USE DEF Kept
<1>1. /\ Keeps(r, s, {"life", "left", "due", "at"}) /\ s.life = "closing" /\ s.at = Len(r.opened)
      /\ r.life \in {"running", "waiting"} /\ Len(r.opened) \in Nat
  BY DEF Closes, Typed
<1>2. r.clock \in Nat /\ ShutdownTimeout \in Nat /\ GoroutineTimeout \in Nat /\ s.clock = r.clock
  BY <1>1, TimesAssumption DEF Typed, CloseTyped, Keeps, Fields
<1>3. s.due \in Nat /\ s.clock <= s.due /\ s.due <= ShutdownTimeout + Allowed(s)
  BY <1>1, <1>2 DEF Closes, ClockKept, Allowed, Keeps, Fields
<1>4. Typed(s)
  <2>1. r.left \in [Parts -> Nat] /\ WorkTimes \cup {0} \subseteq Nat
    BY TimesAssumption DEF Typed, CloseTyped
  <2>2. s.left \in [Parts -> Nat]
    BY <2>1 DEF Closes
  <2>3. s.at \in Nat /\ s.life \in {"starting", "running", "waiting", "closing", "exited"}
    BY <1>1
  <2>4. Typed(r)
    OBVIOUS
  <2> HIDE DEF Kept
  <2>7. StartTyped(s)
    BY <1>1, <1>3, <2>2, <2>3, <2>4 DEF Typed, StartTyped, Keeps, Fields
  <2>8. RunTyped(s)
    BY <1>1, <1>3, <2>2, <2>3, <2>4 DEF Typed, RunTyped, Keeps, Fields
  <2>9. CloseTyped(s)
    BY <1>1, <1>3, <2>2, <2>3, <2>4 DEF Typed, CloseTyped, Keeps, Fields
  <2> QED BY <1>1, <1>3, <2>2, <2>3, <2>4, <2>7, <2>8, <2>9 DEF Typed, Keeps
<1>5. StartKept(s) /\ LifeKept(s)
  BY <1>1 DEF StartKept, LifeKept, Keeps, Fields
<1>6. ClockKept(s)
  BY <1>1, <1>3 DEF ClockKept
<1>7. ClosingKept(s)
  <2>1. /\ s.opened = r.opened /\ s.closer = r.closer /\ s.awaited = None
        /\ s.incomplete = {} /\ s.failed = {} /\ \A c \in Closers : s.closer[c] = "open"
    BY <1>1 DEF LifeKept, Keeps, Fields
  <2>4. \A c \in s.failed : s.closer[c] = "broken"
    BY <2>1
  <2>2. \A i \in 1..Len(s.opened) : s.opened[i] \in Closers
    BY <1>1, <2>1 DEF Typed, StartTyped
  <2>3. Undisturbed(s)
    BY <2>1 DEF Undisturbed, Closers
  <2> QED BY <1>1, <2>1, <2>2, <2>3, <2>4 DEF ClosingKept, Ordered
<1>8. ExitKept(s)
  BY <1>1 DEF ExitKept
<1> QED BY <1>4, <1>5, <1>6, <1>7, <1>8

(* What is registered is told apart.                                       *)
LEMMA OpenedOnce ==
  ASSUME NEW r, Kept(r), r.life = "closing"
  PROVE  /\ Len(r.opened) \in Nat /\ Len(r.opened) = Len(Registered(r.kind))
         /\ \A i \in 1..Len(r.opened) : r.opened[i] \in Closers /\ r.opened[i] = Registered(r.kind)[i]
         /\ \A i, j \in 1..Len(r.opened) : r.opened[i] = r.opened[j] => i = j
<1>1. r.kind \in Kinds /\ Len(r.opened) \in Nat
  BY DEF Kept, Typed, StartTyped
<1>2. Len(r.opened) = Len(Registered(r.kind))
  <2>1. Len(r.opened) = Before(r.kind)[r.step] /\ r.step = Len(Path(r.kind)) + 1
    BY DEF Kept, StartKept
  <2>2. Before(r.kind)[Len(Path(r.kind)) + 1] = Len(Registered(r.kind))
    BY <1>1, PathEnds
  <2> QED BY <2>1, <2>2, Zenon
<1>3. \A i \in 1..Len(r.opened) : r.opened[i] = Registered(r.kind)[i]
  BY DEF Kept, StartKept
<1> DEFINE reg == Registered(r.kind)
<1>4. /\ \A i \in 1..Len(reg) : reg[i] \in Closers
      /\ \A i, j \in 1..Len(reg) : i < j => reg[i] # reg[j]
  BY <1>1, Order
<1> HIDE DEF reg
<1>5. \A i, j \in 1..Len(r.opened) : r.opened[i] = r.opened[j] => i = j
  BY <1>1, <1>2, <1>3, <1>4 DEF reg
<1> QED BY <1>1, <1>2, <1>3, <1>4, <1>5 DEF reg

(* A closer started: awaited, or left behind when the deadline has passed. *)
LEMMA BeginsKeep ==
  ASSUME NEW r, NEW s, Kept(r), Begins(r, s, r.opened[r.at])
  PROVE  Kept(s)
<1> DEFINE c == r.opened[r.at]
<1>1. /\ Keeps(r, s, {"closer", "left", "listener", "at", "awaited", "incomplete"})
      /\ r.life = "closing" /\ r.awaited = None /\ r.at > 0
      /\ s.closer = [r.closer EXCEPT ![c] = "closing"]
      /\ s.listener = IF c \in Listeners /\ r.listener = "serving" THEN "closed" ELSE r.listener
  BY DEF Begins
<1>2. Typed(r) /\ StartKept(r) /\ LifeKept(r) /\ ClockKept(r) /\ ClosingKept(r)
  BY DEF Kept
<1>3. /\ s.life = "closing" /\ s.opened = r.opened /\ s.failed = r.failed /\ s.clock = r.clock
      /\ s.due = r.due /\ s.loop = r.loop /\ s.request = r.request /\ s.kind = r.kind
      /\ s.step = r.step /\ s.blocked = r.blocked /\ s.records = r.records
  BY <1>1 DEF Keeps, Fields
<1>4. /\ Len(r.opened) \in Nat /\ r.at \in 1..Len(r.opened) /\ r.at \in Nat /\ r.at - 1 \in Nat
      /\ \A i \in 1..Len(r.opened) : r.opened[i] \in Closers
      /\ \A i, j \in 1..Len(r.opened) : r.opened[i] = r.opened[j] => i = j
  BY <1>1, <1>2, OpenedOnce DEF ClosingKept, Typed, CloseTyped
<1>5. c \in Closers /\ c # None
  BY <1>4, FleetsAssumption
<1>6. s.closer \in [Closers -> {"open", "closing", "closed", "broken"}]
  BY <1>1, <1>2, <1>5 DEF Typed, CloseTyped
<1>7. /\ s.closer[c] = "closing" /\ \A d \in Closers : d # c => s.closer[d] = r.closer[d]
  BY <1>1, <1>2, <1>5 DEF Typed, CloseTyped
<1>8. IF Spent(r) THEN /\ s.at = r.at - 1 /\ s.awaited = None
                       /\ s.incomplete = r.incomplete \cup {c}
                  ELSE s.at = r.at /\ s.awaited = c /\ s.incomplete = r.incomplete
  BY DEF Begins
<1>9. \E d \in CloserTimes \cup {0} : s.left = [r.left EXCEPT ![c] = d]
  BY DEF Begins
<1> HIDE DEF c
<1>10. Typed(s)
  <2>1. s.left \in [Parts -> Nat]
    <3>1. r.left \in [Parts -> Nat] /\ CloserTimes \cup {0} \subseteq Nat
      BY <1>2, TimesAssumption DEF Typed, CloseTyped
    <3> QED BY <1>9, <3>1
  <2>2. s.at \in Nat /\ s.awaited \in Closers \cup {None} /\ s.incomplete \in SUBSET Closers
    BY <1>2, <1>4, <1>5, <1>8 DEF Typed, CloseTyped
  <2>3. s.listener \in {"serving", "failed", "closed"}
    BY <1>1, <1>2 DEF Typed, RunTyped
  <2>7. StartTyped(s)
    BY <1>1, <1>2, <1>6, <2>1, <2>2, <2>3 DEF Typed, StartTyped, Keeps, Fields
  <2>8. RunTyped(s)
    BY <1>1, <1>2, <1>6, <2>1, <2>2, <2>3 DEF Typed, RunTyped, Keeps, Fields
  <2>9. CloseTyped(s)
    BY <1>1, <1>2, <1>6, <2>1, <2>2, <2>3 DEF Typed, CloseTyped, Keeps, Fields
  <2> QED BY <1>1, <1>2, <1>6, <2>1, <2>2, <2>3, <2>7, <2>8, <2>9 DEF Typed, Keeps
<1>11. StartKept(s) /\ LifeKept(s) /\ ClockKept(s)
  BY <1>1, <1>2, <1>3 DEF StartKept, LifeKept, ClockKept, Allowed
<1>12. ClosingKept(s)
  <2>1. s.at <= Len(s.opened) /\ s.at <= r.at /\ s.at \in Nat
    BY <1>3, <1>4, <1>8
  <2>2. \A i \in 1..s.at : i < s.at \/ s.awaited = None => s.closer[s.opened[i]] = "open"
    <3> SUFFICES ASSUME NEW i \in 1..s.at, i < s.at \/ s.awaited = None
                 PROVE  s.closer[s.opened[i]] = "open"
      OBVIOUS
    <3>1. i \in 1..r.at /\ i # r.at
      BY <1>4, <1>5, <1>8, <2>1
    <3>2. r.closer[r.opened[i]] = "open" /\ r.opened[i] # c /\ r.opened[i] \in Closers
      BY <1>1, <1>2, <1>4, <3>1 DEF ClosingKept, c
    <3> QED BY <1>3, <1>7, <3>2
  <2>3. \A i \in 1..Len(s.opened) : i > s.at => Left(s, s.opened[i])
    <3> SUFFICES ASSUME NEW i \in 1..Len(s.opened), i > s.at
                 PROVE  Left(s, s.opened[i])
      OBVIOUS
    <3>1. CASE i = r.at
      <4>1. Spent(r)
        BY <1>8, <3>1
      <4>2. c \in s.incomplete /\ s.opened[i] = c
        BY <1>3, <1>8, <3>1, <4>1 DEF c
      <4> QED BY <4>2 DEF Left
    <3>2. CASE i # r.at
      <4>1. i > r.at /\ i \in 1..Len(r.opened)
        BY <1>3, <1>4, <1>8, <3>2
      <4>2. Left(r, r.opened[i]) /\ r.opened[i] # c /\ r.opened[i] \in Closers
        BY <1>1, <1>2, <1>4, <4>1 DEF ClosingKept, c
      <4> QED BY <1>3, <1>7, <1>8, <4>2 DEF Left
    <3> QED BY <3>1, <3>2
  <2>4. s.awaited # None => s.at > 0 /\ s.awaited = s.opened[s.at] /\ s.incomplete = {}
                            /\ s.awaited \notin s.failed /\ s.closer[s.awaited] # "open"
    <3>1. r.closer[c] = "open" /\ c \notin r.failed
      BY <1>1, <1>2, <1>4 DEF ClosingKept, c
    <3>2. r.incomplete # {} => Spent(r)
      BY <1>1, <1>2 DEF ClosingKept
    <3>3. c = r.opened[r.at]
      BY DEF c
    <3> QED BY <1>3, <1>4, <1>7, <1>8, <3>1, <3>2, <3>3
  <2>5. s.incomplete # {} => Spent(s)
    BY <1>2, <1>1, <1>3, <1>8 DEF ClosingKept, Spent
  <2>6. Ordered(s)
    BY <1>1, <1>2, <1>3, <1>4, <1>8, <2>1 DEF ClosingKept, Ordered, c
  <2>7. Undisturbed(s)
    <3>1. Undisturbed(r) /\ "consumer" \in Closers /\ "http" \in Closers /\ "http" \in Listeners
      BY <1>1, <1>2 DEF ClosingKept, Closers, Listeners
    <3> QED BY <1>1, <1>3, <1>5, <1>7, <3>1 DEF Undisturbed
  <2>8. \A d \in s.failed : s.closer[d] = "broken"
    <3>1. r.closer[c] = "open"
      BY <1>1, <1>2, <1>4 DEF ClosingKept, c
    <3>2. \A d \in r.failed : r.closer[d] = "broken" /\ d \in Closers
      BY <1>1, <1>2 DEF ClosingKept, Typed, CloseTyped
    <3> QED BY <1>3, <1>7, <3>1, <3>2
  <2> QED BY <1>3, <2>1, <2>2, <2>3, <2>4, <2>5, <2>6, <2>7, <2>8 DEF ClosingKept
<1>13. ExitKept(s)
  BY <1>3 DEF ExitKept
<1> QED BY <1>10, <1>11, <1>12, <1>13 DEF Kept

(* A close function that ends.                                             *)
LEMMA EndsKeep ==
  ASSUME NEW r, NEW s, Kept(r), NEW c \in Closers, Ends(r, s, c)
  PROVE  Kept(s)
<1>1. /\ Keeps(r, s, {"closer"}) /\ r.life = "closing" /\ r.closer[c] = "closing"
      /\ c = "consumer" => ~r.blocked
      /\ c = "http" => ~r.request
  BY DEF Ends
<1>2. Typed(r) /\ StartKept(r) /\ LifeKept(r) /\ ClockKept(r) /\ ClosingKept(r)
  BY DEF Kept
<1>3. PICK e \in {"closed", "broken"} :
        /\ e = "broken" => c \in {"tracing", "mysql", "redis", "tools"}
        /\ s.closer = [r.closer EXCEPT ![c] = e]
  BY DEF Ends
<1>4. s.closer \in [Closers -> {"open", "closing", "closed", "broken"}]
  BY <1>2, <1>3 DEF Typed, CloseTyped
<1>5. s.closer[c] = e /\ \A d \in Closers : d # c => s.closer[d] = r.closer[d]
  BY <1>2, <1>3 DEF Typed, CloseTyped
<1>6. Typed(s)
  <2>1. StartTyped(s)
    BY <1>1, <1>2, <1>4 DEF Typed, StartTyped, Keeps, Fields
  <2>2. RunTyped(s)
    BY <1>1, <1>2, <1>4 DEF Typed, RunTyped, Keeps, Fields
  <2>3. CloseTyped(s)
    BY <1>1, <1>2, <1>4 DEF Typed, CloseTyped, Keeps, Fields
  <2> QED BY <1>1, <1>2, <1>4, <2>1, <2>2, <2>3 DEF Typed, Keeps
<1>7. StartKept(s) /\ LifeKept(s) /\ ClockKept(s)
  BY <1>1, <1>2 DEF StartKept, LifeKept, ClockKept, Allowed, Keeps, Fields
<1>8. /\ s.life = "closing" /\ s.opened = r.opened /\ s.failed = r.failed /\ s.clock = r.clock
      /\ s.due = r.due /\ s.loop = r.loop /\ s.request = r.request /\ s.blocked = r.blocked
      /\ s.at = r.at /\ s.awaited = r.awaited /\ s.incomplete = r.incomplete
      /\ s.listener = r.listener
  BY <1>1 DEF Keeps, Fields
<1>9. /\ Len(r.opened) \in Nat /\ r.at \in Nat
      /\ \A i \in 1..Len(r.opened) : r.opened[i] \in Closers
  BY <1>1, <1>2, OpenedOnce DEF Typed, CloseTyped
<1>10. ClosingKept(s)
  <2>1. \A i \in 1..s.at : i < s.at \/ s.awaited = None => s.closer[s.opened[i]] = "open"
    BY <1>1, <1>2, <1>5, <1>8, <1>9 DEF ClosingKept
  <2>2. \A i \in 1..Len(s.opened) : i > s.at => Left(s, s.opened[i])
    <3> SUFFICES ASSUME NEW i \in 1..Len(r.opened), i > r.at
                 PROVE  Left(s, r.opened[i])
      BY <1>8
    <3>1. Left(r, r.opened[i]) /\ r.opened[i] \in Closers
      BY <1>1, <1>2, <1>9 DEF ClosingKept
    <3>2. CASE r.opened[i] = c
      BY <1>1, <1>8, <3>1, <3>2 DEF Left
    <3>3. CASE r.opened[i] # c
      BY <1>5, <1>8, <3>1, <3>3 DEF Left
    <3> QED BY <3>2, <3>3
  <2>3. s.awaited # None => s.at > 0 /\ s.awaited = s.opened[s.at] /\ s.incomplete = {}
                            /\ s.awaited \notin s.failed /\ s.closer[s.awaited] # "open"
    <3>1. r.awaited # None => r.awaited \in Closers
      BY <1>2 DEF Typed, CloseTyped
    <3> QED BY <1>1, <1>2, <1>5, <1>8, <3>1 DEF ClosingKept
  <2>4. Ordered(s) /\ (s.incomplete # {} => Spent(s)) /\ s.at <= Len(s.opened)
    BY <1>1, <1>2, <1>8 DEF ClosingKept, Ordered, Spent
  <2>6. \A d \in s.failed : s.closer[d] = "broken"
    BY <1>1, <1>2, <1>5, <1>8 DEF ClosingKept, Typed, CloseTyped
  <2>5. Undisturbed(s)
    <3>1. Undisturbed(r) /\ "consumer" \in Closers /\ "http" \in Closers
      BY <1>1, <1>2 DEF ClosingKept, Closers
    <3>2. r.loop = "handling" => r.blocked
      BY <1>2 DEF LifeKept
    <3> QED BY <1>1, <1>3, <1>5, <1>8, <3>1, <3>2 DEF Undisturbed
  <2> QED BY <1>8, <2>1, <2>2, <2>3, <2>4, <2>5, <2>6 DEF ClosingKept
<1>11. ExitKept(s)
  BY <1>8 DEF ExitKept
<1> QED BY <1>6, <1>7, <1>10, <1>11 DEF Kept

(* The closer that was awaited, ended or left behind.                      *)
LEMMA AwaitsKeep ==
  ASSUME NEW r, NEW s, Kept(r), Awaits(r, s, r.awaited)
  PROVE  Kept(s)
<1> DEFINE c == r.awaited
<1>1. /\ Keeps(r, s, {"at", "awaited", "failed", "incomplete"})
      /\ r.life = "closing" /\ c # None /\ s.awaited = None /\ s.at = r.at - 1
      /\ \/ /\ r.closer[c] # "closing" /\ s.incomplete = r.incomplete
            /\ s.failed = IF r.closer[c] = "broken" THEN r.failed \cup {c} ELSE r.failed
         \/ Spent(r) /\ s.failed = r.failed /\ s.incomplete = r.incomplete \cup {c}
  BY DEF Awaits
<1>2. Typed(r) /\ StartKept(r) /\ LifeKept(r) /\ ClockKept(r) /\ ClosingKept(r)
  BY DEF Kept
<1>3. /\ s.life = "closing" /\ s.opened = r.opened /\ s.clock = r.clock
      /\ s.due = r.due /\ s.loop = r.loop /\ s.request = r.request /\ s.blocked = r.blocked
      /\ s.closer = r.closer /\ s.listener = r.listener
  BY <1>1 DEF Keeps, Fields
<1>4. /\ Len(r.opened) \in Nat /\ r.at \in 1..Len(r.opened) /\ s.at \in Nat
      /\ \A i \in 1..Len(r.opened) : r.opened[i] \in Closers
      /\ \A i, j \in 1..Len(r.opened) : r.opened[i] = r.opened[j] => i = j
  BY <1>1, <1>2, OpenedOnce DEF ClosingKept, Typed, CloseTyped
<1>5. c \in Closers /\ c = r.opened[r.at] /\ c \notin r.failed /\ r.incomplete = {}
      /\ r.closer[c] \in {"closing", "closed", "broken"}
  BY <1>1, <1>2 DEF ClosingKept, Typed, CloseTyped
<1> HIDE DEF c
<1>6. Typed(s)
  <2>1. s.awaited \in Closers \cup {None} /\ s.incomplete \in SUBSET Closers
        /\ s.failed \in SUBSET Closers
    BY <1>1, <1>2, <1>5 DEF Typed, CloseTyped
  <2>7. StartTyped(s)
    BY <1>1, <1>2, <1>4, <2>1 DEF Typed, StartTyped, Keeps, Fields
  <2>8. RunTyped(s)
    BY <1>1, <1>2, <1>4, <2>1 DEF Typed, RunTyped, Keeps, Fields
  <2>9. CloseTyped(s)
    BY <1>1, <1>2, <1>4, <2>1 DEF Typed, CloseTyped, Keeps, Fields
  <2> QED BY <1>1, <1>2, <1>4, <2>1, <2>7, <2>8, <2>9 DEF Typed, Keeps
<1>7. StartKept(s) /\ LifeKept(s) /\ ClockKept(s)
  BY <1>1, <1>2 DEF StartKept, LifeKept, ClockKept, Allowed, Keeps, Fields
<1>8. ClosingKept(s)
  <2>1. s.at <= Len(s.opened) /\ \A i \in 1..s.at : s.closer[s.opened[i]] = "open"
    BY <1>1, <1>2, <1>3, <1>4 DEF ClosingKept
  <2>2. \A i \in 1..Len(s.opened) : i > s.at => Left(s, s.opened[i])
    <3> SUFFICES ASSUME NEW i \in 1..Len(r.opened), i > s.at
                 PROVE  Left(s, r.opened[i])
      BY <1>3
    <3>1. CASE i = r.at
      BY <1>1, <1>3, <1>5, <3>1 DEF Left
    <3>2. CASE i # r.at
      <4>1. i > r.at
        BY <1>1, <1>4, <3>2
      <4>2. Left(r, r.opened[i]) /\ r.opened[i] # c
        BY <1>1, <1>2, <1>4, <1>5, <4>1 DEF ClosingKept
      <4> QED BY <1>1, <1>3, <4>2 DEF Left
    <3> QED BY <3>1, <3>2
  <2>3. s.incomplete # {} => Spent(s)
    BY <1>1, <1>3, <1>5 DEF Spent
  <2>4. Ordered(s)
    <3>1. \A i \in 1..Len(r.opened) : r.opened[i] \in s.incomplete => i = r.at
      BY <1>1, <1>4, <1>5
    <3> QED BY <1>1, <1>3, <1>4, <3>1 DEF Ordered
  <2>5. Undisturbed(s)
    BY <1>1, <1>2, <1>3 DEF ClosingKept, Undisturbed
  <2>6. \A d \in s.failed : s.closer[d] = "broken"
    BY <1>1, <1>2, <1>3, <1>5 DEF ClosingKept
  <2> QED BY <1>1, <1>3, <2>1, <2>2, <2>3, <2>4, <2>5, <2>6 DEF ClosingKept
<1>9. ExitKept(s)
  BY <1>3 DEF ExitKept
<1> QED BY <1>6, <1>7, <1>8, <1>9 DEF Kept

(* The topics asked for, the search for the index, and the time that       *)
(* passes.                                                                 *)
Creates(r, s) ==
  /\ Keeps(r, s, {"create", "existing"})
  /\ r.life = "starting" /\ s.create = r.create + 1
  /\ s.existing \in SUBSET TopicNames

Searches(r, s) == Keeps(r, s, {"es"}) /\ s.es \in {"resolve", "check", "create", "again"}

Ticks(r, s) ==
  \/ /\ r.life \in {"waiting", "closing"} /\ Keeps(r, s, {"clock", "left"})
     /\ s.clock \in {r.clock, r.clock + 1} /\ s.left = [a \in DOMAIN r.left |-> Down(r.left[a])]
     /\ r.life = "waiting" => ~(r.clock >= GoroutineTimeout)
     /\ r.life = "closing" => ~Spent(r)
  \/ /\ r.life \notin {"waiting", "closing"} /\ Keeps(r, s, {"waited"})
     /\ s.waited \in {r.waited, r.waited + 1}

(* A start that asks for a topic, or goes on with the index.               *)
LEMMA CreatesKeep ==
  ASSUME NEW r, NEW s, Kept(r), Creates(r, s) \/ Searches(r, s)
  PROVE  Kept(s)
<1>1. Keeps(r, s, {"create", "existing", "es"}) /\ Typed(r)
  BY DEF Creates, Searches, Keeps, Fields, Kept
<1>2. Typed(s)
  <2>1. s.create \in Nat \ {0} /\ s.existing \in SUBSET TopicNames
        /\ s.es \in {"resolve", "check", "create", "again"}
    BY <1>1 DEF Creates, Searches, Keeps, Fields, Typed, StartTyped
  <2>2. StartTyped(s)
    BY <1>1, <2>1 DEF Typed, StartTyped, Keeps, Fields
  <2>3. RunTyped(s)
    BY <1>1 DEF Typed, RunTyped, Keeps, Fields
  <2>4. CloseTyped(s)
    BY <1>1 DEF Typed, CloseTyped, Keeps, Fields
  <2> QED BY <1>1, <2>2, <2>3, <2>4 DEF Typed, Keeps
<1>3. StartKept(s) /\ ClockKept(s) /\ LifeKept(s)
  BY <1>1 DEF Kept, StartKept, ClockKept, LifeKept, Keeps, Fields, Allowed
<1>4. ClosingKept(s) /\ ExitKept(s)
  BY <1>1 DEF Kept, ClosingKept, ExitKept, Keeps, Fields, Left, Ordered, Undisturbed, Spent
<1> QED BY <1>2, <1>3, <1>4 DEF Kept

(* A unit of time.                                                         *)
LEMMA TicksKeep ==
  ASSUME NEW r, NEW s, Kept(r), Ticks(r, s)
  PROVE  Kept(s)
<1>1. Keeps(r, s, {"clock", "left", "waited"}) /\ Typed(r)
  BY DEF Ticks, Keeps, Fields, Kept
<1>2. /\ s.clock \in {r.clock, r.clock + 1} /\ s.waited \in {r.waited, r.waited + 1}
      /\ s.clock # r.clock => /\ r.life \in {"waiting", "closing"}
                              /\ r.life = "waiting" => ~(r.clock >= GoroutineTimeout)
                              /\ r.life = "closing" => ~Spent(r)
      /\ s.left = r.left \/ s.left = [a \in DOMAIN r.left |-> Down(r.left[a])]
  BY DEF Ticks, Keeps, Fields
<1>3. r.clock \in Nat /\ r.waited \in Nat /\ r.due \in Nat /\ r.left \in [Parts -> Nat]
  BY <1>1 DEF Typed, StartTyped, CloseTyped
<1>4. Typed(s)
  <2>1. s.left \in [Parts -> Nat]
    <3>1. \A n \in Nat : Down(n) \in Nat
      BY TimesAssumption DEF Down
    <3> QED BY <1>2, <1>3, <3>1
  <2>2. s.clock \in Nat /\ s.waited \in Nat
    BY <1>2, <1>3
  <2>3. StartTyped(s)
    BY <1>1, <2>2 DEF Typed, StartTyped, Keeps, Fields
  <2>4. RunTyped(s)
    BY <1>1 DEF Typed, RunTyped, Keeps, Fields
  <2>5. CloseTyped(s)
    BY <1>1, <2>1, <2>2 DEF Typed, CloseTyped, Keeps, Fields
  <2> QED BY <1>1, <2>3, <2>4, <2>5 DEF Typed, Keeps
<1>5. StartKept(s) /\ LifeKept(s)
  BY <1>1 DEF Kept, StartKept, LifeKept, Keeps, Fields
<1>6. ClockKept(s)
  <2>1. s.life = r.life /\ s.due = r.due /\ s.kind = r.kind
    BY <1>1 DEF Keeps, Fields
  <2>2. GoroutineTimeout \in Nat
    BY TimesAssumption
  <2> QED BY <1>2, <1>3, <2>1, <2>2 DEF Kept, ClockKept, Allowed, Spent
<1>7. ClosingKept(s)
  <2>1. Spent(r) => Spent(s)
    BY <1>1, <1>2, <1>3 DEF Spent, Keeps, Fields
  <2> QED BY <1>1, <2>1 DEF Kept, ClosingKept, Keeps, Fields, Left, Ordered, Undisturbed
<1>8. ExitKept(s)
  BY <1>1 DEF Kept, ExitKept, Keeps, Fields, Left, Ordered
<1> QED BY <1>4, <1>5, <1>6, <1>7, <1>8 DEF Kept

-----------------------------------------------------------------------------
(* What a process knows of the broker and the index, change by change      *)

(* All that it is said to know of them is in these fields.                 *)
SameStart(r, s) ==
  /\ s.kind = r.kind /\ s.step = r.step /\ s.create = r.create /\ s.existing = r.existing
  /\ s.waited = r.waited /\ s.es = r.es /\ s.refusal = r.refusal

(* The topics and the names.                                               *)
LEMMA TopicFacts ==
  /\ Len(Topics) \in Nat /\ DOMAIN Topics = 1..Len(Topics)
  /\ TopicNames = {Topics[i] : i \in 1..Len(Topics)}
BY FleetsAssumption DEF TopicNames

(* It knows the same when none of them changes.                            *)
LEMMA KnowsAside ==
  ASSUME NEW r, NEW s, NEW b, NEW x, Knows(r, b, x), SameStart(r, s)
  PROVE  Knows(s, b, x)
BY DEF Knows, SameStart, TopicsKept, IndexKept

(* A step of a start that is done.                                         *)
LEMMA KnowsOpened ==
  ASSUME NEW r, NEW s, NEW b, NEW x, Knows(r, b, x), Kept(r), r.life = "starting", Opens(r, s),
         Path(r.kind)[r.step] = "topics" => \A t \in TopicNames : Had(b, t),
         Path(r.kind)[r.step] = "index" => Cardinality(x.alias) = 1
  PROVE  Knows(s, b, x)
<1>1. r.kind \in Kinds /\ r.step \in Nat \ {0} /\ Len(Path(r.kind)) \in Nat /\ r.step <= Len(Path(r.kind))
  BY PathEnds DEF Kept, Typed, StartTyped, StartKept
<1>2. PathStep(r.kind, r.step)
  BY <1>1, PathSteps
<1>3. s.kind = r.kind /\ s.step = r.step + 1 /\ s.create = 1 /\ s.existing = {} /\ s.waited = 0
      /\ s.es = "resolve" /\ s.refusal = r.refusal
  BY DEF Opens, Keeps, Fields
<1>4. s.kind \in Workers /\ s.step > 4 => \A t \in TopicNames : Had(b, t)
  BY <1>1, <1>2, <1>3 DEF PathStep, Knows, TopicsKept
<1>5. s.kind = "ingestion-worker" /\ s.step > 6 => Cardinality(x.alias) = 1
  BY <1>1, <1>2, <1>3 DEF PathStep, Knows, IndexKept
<1> QED BY <1>3, <1>4, <1>5, TopicFacts DEF Knows, TopicsKept, IndexKept

(* A process that is gone knows what it was refused for.                   *)
LEMMA KnowsGone ==
  ASSUME NEW r, NEW s, NEW b, NEW x, AtRest(r, s), Caused(s.refusal, b, x)
  PROVE  Knows(s, b, x)
BY TopicFacts DEF AtRest, Knows, TopicsKept, IndexKept

(* A topic that was not there is created, by whoever it is.                *)
Added(b, d, t) ==
  /\ t \in TopicNames /\ b[t].parts = 0
  /\ \E lag \in Nat : d = [b EXCEPT ![t] = [parts |-> Partitions, slow |-> lag > MetadataTimeout,
                                            hidden |-> lag]]
(* Nobody that knew of the topics is wrong about them.                     *)
LEMMA KnowsAdded ==
  ASSUME NEW b, NEW d, NEW x, NEW t, World(b, x), Added(b, d, t)
  PROVE  /\ World(d, x) /\ Had(d, t)
         /\ \A r : Knows(r, b, x) /\ Typed(r) => Knows(r, d, x)
<1>1. PICK lag \in Nat : d = [b EXCEPT ![t] = [parts |-> Partitions, slow |-> lag > MetadataTimeout,
                                               hidden |-> lag]]
  BY DEF Added
<1>2. t \in TopicNames /\ b[t].parts = 0 /\ BrokerTyped(b) /\ ~b[t].slow
      /\ Partitions \in Nat \ {0} /\ MetadataTimeout \in Nat
  BY FleetsAssumption, TimesAssumption DEF Added, World
<1>3. /\ d[t] = [parts |-> Partitions, slow |-> lag > MetadataTimeout, hidden |-> lag]
      /\ \A u \in TopicNames : u # t => d[u] = b[u]
      /\ BrokerTyped(d)
  BY <1>1, <1>2 DEF BrokerTyped
<1>4. World(d, x)
  <2>1. ASSUME NEW u \in TopicNames
        PROVE  /\ d[u].parts = 0 => ~d[u].slow
               /\ ~d[u].slow => d[u].hidden <= MetadataTimeout
    <3>1. CASE u = t
      <4>1. d[u].parts = Partitions /\ d[u].slow = (lag > MetadataTimeout) /\ d[u].hidden = lag
        BY <1>3, <3>1
      <4>2. ~d[u].slow => ~(lag > MetadataTimeout)
        BY <4>1, Zenon
      <4>3. d[u].parts # 0 /\ (~(lag > MetadataTimeout) => d[u].hidden <= MetadataTimeout)
        BY <1>2, <4>1
      <4> QED BY <4>2, <4>3, Zenon
    <3>2. CASE u # t
      BY <1>3, <2>1, <3>2 DEF World
    <3> QED BY <3>1, <3>2
  <2> QED BY <1>3, <2>1 DEF World
<1>5. Had(d, t)
  BY <1>2, <1>3 DEF Had
<1>6. ASSUME NEW r, Knows(r, b, x), Typed(r)
      PROVE  Knows(r, d, x)
  <2>1. \A u \in TopicNames : Had(b, u) => Had(d, u)
    BY <1>2, <1>3, <1>5 DEF Had
  <2>2. r.existing \subseteq TopicNames
    BY <1>6 DEF Typed, StartTyped
  <2>3. \A i \in 1..Len(Topics) : Topics[i] \in TopicNames
    BY TopicFacts
  <2>4. TopicsKept(r, d)
    <3>1. \A u \in r.existing : u # t /\ u \in TopicNames
      BY <1>2, <1>6, <2>2 DEF Knows, TopicsKept
    <3> QED BY <1>3, <1>6, <2>1, <2>3, <3>1 DEF Knows, TopicsKept
  <2>5. Caused(r.refusal, d, x)
    <3>1. \A u \in TopicNames : b[u].slow => u # t /\ d[u].slow
      BY <1>2, <1>3
    <3>2. \A u \in TopicNames : b[u].parts \in 1..(Partitions - 1) => d[u].parts \in 1..(Partitions - 1)
      BY <1>2, <1>3
    <3> QED BY <1>6, <3>1, <3>2 DEF Knows, Caused
  <2> QED BY <1>6, <2>4, <2>5 DEF Knows
<1> QED BY <1>4, <1>5, <1>6

(* The process that asked for the topic, or for one that exists.           *)
LEMMA KnowsCreated ==
  ASSUME NEW r, NEW s, NEW b, NEW x, World(b, x), Knows(r, b, x), Typed(r),
         Keeps(r, s, {"create", "existing"}), r.create <= Len(Topics), s.create = r.create + 1,
         \/ s.existing = r.existing /\ Had(b, Topics[r.create])
         \/ s.existing = r.existing \cup {Topics[r.create]} /\ b[Topics[r.create]].parts > 0
  PROVE  Knows(s, b, x)
<1>1. /\ r.create \in 1..Len(Topics) /\ Len(Topics) \in Nat /\ r.waited = 0
      /\ r.existing \subseteq TopicNames
  BY TopicFacts DEF Typed, StartTyped, Knows, TopicsKept
<1>2. s.kind = r.kind /\ s.step = r.step /\ s.waited = r.waited /\ s.es = r.es
      /\ s.refusal = r.refusal
  BY DEF Keeps, Fields
<1>3. Topics[r.create] \in TopicNames
  BY <1>1, TopicFacts
<1>4. \A t \in s.existing :
        /\ b[t].parts > 0
        /\ ~b[t].slow /\ b[t].hidden > 0 => b[t].hidden + s.waited <= MetadataTimeout
  <2>1. \A t \in r.existing : b[t].parts > 0
    BY DEF Knows, TopicsKept
  <2>2. \A t \in TopicNames : ~b[t].slow => b[t].hidden + 0 <= MetadataTimeout
    BY DEF World, BrokerTyped
  <2> QED BY <1>1, <1>2, <1>3, <2>1, <2>2
<1>5. \A i \in 1..Len(Topics) : i < s.create => Topics[i] \in s.existing \/ Had(b, Topics[i])
  BY <1>1 DEF Knows, TopicsKept
<1> QED BY <1>1, <1>2, <1>4, <1>5 DEF Knows, TopicsKept, IndexKept

(* The index and its alias are created, or the alias is pointed elsewhere. *)
Repointed(x, y) ==
  \/ ~x.v1 /\ ~x.taken /\ y = [x EXCEPT !.v1 = TRUE, !.alias = @ \cup {"v1"}]
  \/ x.alias = {"v1"} /\ y = [x EXCEPT !.alias = {"v2"}]
(* Nobody that knew of the index is wrong about it.                        *)
LEMMA KnowsRepointed ==
  ASSUME NEW b, NEW x, NEW y, World(b, x), Repointed(x, y)
  PROVE  /\ World(b, y) /\ Cardinality(y.alias) = 1
         /\ \A r : Knows(r, b, x) => Knows(r, b, y)
<1>1. IndexTyped(x) /\ (x.alias # {} => x.v1) /\ (x.taken => ~x.v1)
  BY DEF World
<1>2. /\ IndexTyped(y) /\ y.v1 /\ y.taken = x.taken /\ ~x.taken
      /\ x.alias = {} \/ x.alias = {"v1"}
      /\ y.alias = {"v1"} \/ y.alias = {"v2"}
  <2>1. CASE ~x.v1 /\ ~x.taken /\ y = [x EXCEPT !.v1 = TRUE, !.alias = @ \cup {"v1"}]
    BY <1>1, <2>1 DEF IndexTyped
  <2>2. CASE x.alias = {"v1"} /\ y = [x EXCEPT !.alias = {"v2"}]
    BY <1>1, <2>2 DEF IndexTyped
  <2> QED BY <2>1, <2>2 DEF Repointed
<1>3. Cardinality(y.alias) = 1
  BY <1>2, FS_Singleton
<1>4. Cardinality(x.alias) = 0 \/ Cardinality(x.alias) = 1
  BY <1>2, FS_Singleton, FS_EmptySet
<1>5. World(b, y)
  BY <1>2 DEF World
<1>6. ~(x.v1 /\ x.alias = {})
  BY DEF Repointed
<1>7. ASSUME NEW r, Knows(r, b, x)
      PROVE  Knows(r, b, y)
  <2>1. IndexKept(r, y)
    BY <1>2, <1>3, <1>7 DEF Knows, IndexKept
  <2>2. ~(Cardinality(x.alias) > 1)
    BY <1>4
  <2>3. Caused(r.refusal, b, y)
    BY <1>2, <1>6, <1>7, <2>2 DEF Knows, Caused
  <2> QED BY <1>7, <2>1, <2>3 DEF Knows
<1> QED BY <1>3, <1>5, <1>7

(* A unit of time: a broker that is not slow shows a topic a step sooner   *)
(* whenever somebody waits a step longer for it.                           *)
Waits(r, s) ==
  /\ Keeps(r, s, {"clock", "left", "waited"})
  /\ \/ s.waited = r.waited
     \/ s.waited = r.waited + 1 /\ r.create > Len(Topics)
Aged(b, d) == d = [t \in TopicNames |-> [b[t] EXCEPT !.hidden = Down(@)]]
(* Nobody is made to wait in vain.                                         *)
LEMMA KnowsAged ==
  ASSUME NEW b, NEW d, NEW x, World(b, x), Aged(b, d)
  PROVE  /\ World(d, x)
         /\ \A r, s : Knows(r, b, x) /\ Typed(r) /\ Waits(r, s) => Knows(s, d, x)
<1>1. BrokerTyped(b) /\ MetadataTimeout \in Nat /\ Forever \in Nat /\ MetadataTimeout < Forever
      /\ Partitions \in Nat
  BY TimesAssumption, FleetsAssumption DEF World
<1>2. \A n \in Nat : Down(n) \in Nat /\ Down(n) <= n
                     /\ (Down(n) > 0 /\ n # Forever => Down(n) = n - 1)
  BY <1>1 DEF Down
<1>3. \A t \in TopicNames :
        /\ d[t].parts = b[t].parts /\ d[t].slow = b[t].slow /\ d[t].hidden = Down(b[t].hidden)
        /\ b[t].parts \in Nat /\ b[t].slow \in BOOLEAN /\ b[t].hidden \in Nat
  BY <1>1 DEF Aged, BrokerTyped
<1>4. BrokerTyped(d)
  <2>1. ASSUME NEW t \in TopicNames
        PROVE  [b[t] EXCEPT !.hidden = Down(@)] \in [parts : Nat, slow : BOOLEAN, hidden : Nat]
    BY <1>1, <1>2 DEF BrokerTyped
  <2> QED BY <2>1 DEF Aged, BrokerTyped
<1>5. \A t \in TopicNames : ~b[t].slow => b[t].hidden <= MetadataTimeout
  BY DEF World
<1>6. World(d, x)
  <2>1. \A t \in TopicNames : /\ d[t].parts = 0 => ~d[t].slow
                              /\ ~d[t].slow => d[t].hidden <= MetadataTimeout
    <3> SUFFICES ASSUME NEW t \in TopicNames
                 PROVE  /\ d[t].parts = 0 => ~d[t].slow
                        /\ ~d[t].slow => d[t].hidden <= MetadataTimeout
      OBVIOUS
    <3>1. Down(b[t].hidden) <= b[t].hidden /\ Down(b[t].hidden) \in Nat /\ b[t].hidden \in Nat
      BY <1>2, <1>3
    <3> QED BY <1>1, <1>3, <1>5, <3>1 DEF World
  <2> QED BY <1>4, <2>1 DEF World
<1>7. ASSUME NEW r, NEW s, Knows(r, b, x), Typed(r), Waits(r, s)
      PROVE  Knows(s, d, x)
  <2> USE DEF Waits
  <2>1. s.kind = r.kind /\ s.step = r.step /\ s.create = r.create /\ s.existing = r.existing
        /\ s.es = r.es /\ s.refusal = r.refusal
    BY <1>7 DEF Keeps, Fields
  <2>2. /\ r.existing \subseteq TopicNames /\ r.waited \in Nat /\ r.create \in Nat
        /\ Len(Topics) \in Nat
    BY <1>7, TopicFacts DEF Typed, StartTyped
  <2>3. ASSUME NEW t \in r.existing
        PROVE  /\ d[t].parts > 0
               /\ ~d[t].slow /\ d[t].hidden > 0 => d[t].hidden + s.waited <= MetadataTimeout
    <3>1. t \in TopicNames /\ b[t].parts > 0
          /\ (~b[t].slow /\ b[t].hidden > 0 => b[t].hidden + r.waited <= MetadataTimeout)
      BY <1>7, <2>2 DEF Knows, TopicsKept
    <3>2. b[t].hidden \in Nat /\ d[t].hidden = Down(b[t].hidden) /\ d[t].slow = b[t].slow
          /\ d[t].parts = b[t].parts /\ (~b[t].slow => b[t].hidden <= MetadataTimeout)
      BY <1>3, <1>5, <3>1
    <3>3. ASSUME ~d[t].slow, d[t].hidden > 0
          PROVE  d[t].hidden + s.waited <= MetadataTimeout
      <4>1. b[t].hidden # Forever
        BY <1>1, <3>2, <3>3
      <4>2. d[t].hidden = b[t].hidden - 1 /\ b[t].hidden > 0
        BY <1>2, <3>2, <3>3, <4>1
      <4> QED BY <1>1, <1>7, <2>2, <3>1, <3>2, <3>3, <4>2
    <3> QED BY <3>1, <3>2, <3>3
  <2>4. r.create <= Len(Topics) => s.waited = 0
    BY <1>7, <2>2 DEF Knows, TopicsKept
  <2>5. \A t \in TopicNames : Had(b, t) => Had(d, t)
    BY <1>3 DEF Had
  <2>6. \A i \in 1..Len(Topics) : Topics[i] \in TopicNames
    BY TopicFacts
  <2>7. TopicsKept(s, d)
    <3>1. \A i \in 1..Len(Topics) : i < s.create => Topics[i] \in s.existing \/ Had(d, Topics[i])
      BY <1>7, <2>1, <2>5, <2>6 DEF Knows, TopicsKept
    <3>2. s.kind \in Workers /\ s.step > 4 => \A t \in TopicNames : Had(d, t)
      BY <1>7, <2>1, <2>5 DEF Knows, TopicsKept
    <3>3. s.create <= Len(Topics) + 1
      BY <1>7, <2>1 DEF Knows, TopicsKept
    <3> QED BY <2>1, <2>3, <2>4, <3>1, <3>2, <3>3 DEF TopicsKept
  <2>8. IndexKept(s, x)
    BY <1>7, <2>1 DEF Knows, IndexKept
  <2>9. Caused(s.refusal, d, x)
    BY <1>3, <1>7, <2>1 DEF Knows, Caused
  <2> QED BY <2>7, <2>8, <2>9 DEF Knows
<1> QED BY <1>6, <1>7

-----------------------------------------------------------------------------
(* The invariant                                                           *)

(* A process that starts.                                                  *)
LEMMA StartingKept ==
  ASSUME NEW kind \in Kinds, NEW stoppable \in BOOLEAN, NEW b, NEW x
  PROVE  LET r == Starting(kind, stoppable) IN Kept(r) /\ Knows(r, b, x)
<1> DEFINE r == Starting(kind, stoppable)
<1>1. /\ DOMAIN r = Fields /\ r.kind = kind /\ r.stoppable = stoppable /\ r.life = "starting"
      /\ r.step = 1 /\ r.opened = <<>> /\ r.refusal = None /\ r.create = 1 /\ r.existing = {}
      /\ r.waited = 0 /\ r.es = "resolve"
  BY DEF Starting, Fields
<1>2. /\ r.signal = FALSE /\ r.loop = "polling" /\ r.records = 0 /\ r.blocked = FALSE
      /\ r.sweep = "waiting" /\ r.listener = "serving" /\ r.request = FALSE
  BY DEF Starting
<1>3. /\ r.left = [a \in Parts |-> 0] /\ r.clock = 0 /\ r.due = 0
      /\ r.closer = [c \in Closers |-> "open"] /\ r.at = 0 /\ r.awaited = None
      /\ r.incomplete = {} /\ r.failed = {}
  BY DEF Starting, Parts
<1> HIDE DEF r
<1>4. Typed(r)
  <2>1. StartTyped(r)
    BY <1>1 DEF StartTyped
  <2>2. RunTyped(r)
    <3>1. r.signal \in BOOLEAN /\ r.blocked \in BOOLEAN /\ r.request \in BOOLEAN
      BY <1>2, Zenon
    <3>2. r.records \in Nat
      BY <1>2
    <3> QED BY <1>2, <3>1, <3>2, Zenon DEF RunTyped
  <2>3. CloseTyped(r)
    BY <1>3 DEF CloseTyped
  <2> QED BY <1>1, <2>1, <2>2, <2>3 DEF Typed
<1>5. StartKept(r)
  <2>1. Len(Path(kind)) \in Nat \ {0} /\ Before(kind)[1] = 0
    BY PathEnds
  <2>2. Len(r.opened) = 0
    BY <1>1
  <2> QED BY <1>1, <2>1, <2>2 DEF StartKept
<1>6. LifeKept(r) /\ ClockKept(r) /\ ClosingKept(r) /\ ExitKept(r)
  BY <1>1, <1>2, <1>3 DEF LifeKept, ClockKept, ClosingKept, ExitKept
<1>7. Knows(r, b, x)
  <2>1. Caused(r.refusal, b, x)
    BY <1>1, FleetsAssumption DEF Caused, Refusals
  <2> QED BY <1>1, <2>1, TopicFacts DEF Knows, TopicsKept, IndexKept
<1> QED BY <1>4, <1>5, <1>6, <1>7 DEF Kept, r

(* It holds at the start.                                                  *)
LEMMA InitProcess == Init => ProcessInv
<1> SUFFICES ASSUME Init
             PROVE  ProcessInv
  OBVIOUS
<1>1. World(topics, index)
  <2>1. FoundPartitions \subseteq Nat /\ MetadataTimeout \in Nat
    BY FleetsAssumption, TimesAssumption
  <2>2. topics \in [TopicNames -> {[parts |-> n, slow |-> FALSE, hidden |-> 0] : n \in FoundPartitions}]
    BY DEF Init
  <2>3. \A t \in TopicNames : topics[t].parts \in Nat /\ topics[t].slow = FALSE /\ topics[t].hidden = 0
    BY <2>1, <2>2
  <2>4. BrokerTyped(topics)
    <3>1. {[parts |-> n, slow |-> FALSE, hidden |-> 0] : n \in FoundPartitions}
            \subseteq [parts : Nat, slow : BOOLEAN, hidden : Nat]
      <4>1. ASSUME NEW n \in FoundPartitions
            PROVE  [parts |-> n, slow |-> FALSE, hidden |-> 0]
                     \in [parts : Nat, slow : BOOLEAN, hidden : Nat]
        <5>1. n \in Nat /\ 0 \in Nat
          BY <2>1
        <5> QED BY <5>1, Zenon
      <4> QED BY <4>1, Zenon
    <3> QED BY <2>2, <3>1 DEF BrokerTyped
  <2>5. IndexTyped(index) /\ (index.alias # {} => index.v1) /\ (index.taken => ~index.v1)
    <3>1. PICK a \in {{}, {"v1"}, {"v1", "v2"}}, v \in BOOLEAN, k \in BOOLEAN :
            index = [alias |-> a, v1 |-> v, taken |-> k] /\ (a # {} => v) /\ (k => ~v)
      BY DEF Init
    <3> QED BY <3>1 DEF IndexTyped
  <2> QED BY <2>1, <2>3, <2>4, <2>5 DEF World
<1>2. PICK fleet \in Fleets :
        proc = [p \in DOMAIN fleet.kinds |-> Starting(fleet.kinds[p], p \in fleet.stoppable)]
  BY DEF Init
<1>3. ASSUME NEW p \in Procs
      PROVE  Kept(proc[p]) /\ Knows(proc[p], topics, index)
  <2>1. fleet.kinds[p] \in Kinds /\ (p \in fleet.stoppable) \in BOOLEAN
        /\ proc[p] = Starting(fleet.kinds[p], p \in fleet.stoppable)
    BY <1>2, FleetsAssumption DEF Procs
  <2> QED BY <2>1, StartingKept
<1> QED BY <1>1, <1>3 DEF ProcessInv

(* A step of one process by itself, which leaves the world alone.          *)
LEMMA OwnStep ==
  ASSUME ProcessInv, NEW p \in Procs, Only(p), Kept(proc'[p]),
         Knows(proc'[p], topics, index), UNCHANGED <<topics, index>>
  PROVE  ProcessInv'
BY DEF ProcessInv, Only, Procs

(* A step of one process while the world changes under all of them.        *)
LEMMA SharedStep ==
  ASSUME ProcessInv, NEW p \in Procs, Only(p), Kept(proc'[p]), World(topics', index'),
         Knows(proc'[p], topics', index'),
         \A r : Knows(r, topics, index) /\ Typed(r) => Knows(r, topics', index')
  PROVE  ProcessInv'
<1>1. \A q \in Procs : Typed(proc[q])
  BY DEF ProcessInv, Kept
<1> QED BY <1>1 DEF ProcessInv, Only, Procs

(* A start that goes on, refused for nothing but a failure.                *)
LEMMA OpenStep ==
  ASSUME ProcessInv, NEW p \in Procs, Open(p) \/ OpenFails(p)
  PROVE  ProcessInv'
<1>1. DOMAIN proc[p] = Fields /\ Kept(proc[p]) /\ Knows(proc[p], topics, index)
  BY DEF ProcessInv, Kept, Typed
<1>2. CASE Open(p)
  <2>1. proc[p].life = "starting" /\ Path(proc[p].kind)[proc[p].step] \notin {"topics", "index"}
    BY <1>2 DEF Open, At, Closers
  <2>2. Only(p) /\ Opens(proc[p], proc'[p]) /\ UNCHANGED <<topics, index>>
    BY <1>1, <1>2, DoneMoves DEF Open
  <2> QED BY <1>1, <2>1, <2>2, OpensKeep, KnowsOpened, OwnStep
<1>3. CASE OpenFails(p)
  <2>1. Only(p) /\ Refuses(proc[p], proc'[p], "failed") /\ UNCHANGED <<topics, index>>
    BY <1>1, <1>3, RefuseMoves DEF OpenFails
  <2>2. Caused("failed", topics, index) /\ "failed" \in Refusals
    BY DEF Caused, Refusals
  <2> QED BY <1>1, <2>1, <2>2, RefusesKeep, KnowsGone, OwnStep DEF Refuses
<1> QED BY <1>2, <1>3

(* A start that is refused for what it found.                              *)
LEMMA RefuseStep ==
  ASSUME ProcessInv, NEW p \in Procs, NEW why \in Refusals, Refuse(p, why),
         UNCHANGED <<topics, index>>, Caused(why, topics, index)
  PROVE  ProcessInv'
<1>1. DOMAIN proc[p] = Fields /\ Kept(proc[p])
  BY DEF ProcessInv, Kept, Typed
<1>2. Only(p) /\ Refuses(proc[p], proc'[p], why)
  BY <1>1, RefuseMoves
<1> QED BY <1>1, <1>2, RefusesKeep, KnowsGone, OwnStep DEF Refuses

(* A start that has what its step is for.                                  *)
LEMMA DoneStep ==
  ASSUME ProcessInv, NEW p \in Procs, proc[p].life = "starting", Done(p),
         UNCHANGED <<topics, index>>,
         Path(proc[p].kind)[proc[p].step] = "topics" => \A t \in TopicNames : Had(topics, t),
         Path(proc[p].kind)[proc[p].step] = "index" => Cardinality(index.alias) = 1
  PROVE  ProcessInv'
<1>1. DOMAIN proc[p] = Fields /\ Kept(proc[p]) /\ Knows(proc[p], topics, index)
  BY DEF ProcessInv, Kept, Typed
<1>2. Only(p) /\ Opens(proc[p], proc'[p])
  BY <1>1, DoneMoves
<1> QED BY <1>1, <1>2, OpensKeep, KnowsOpened, OwnStep

(* The topics: created, or found to exist.                                 *)
LEMMA CreateTopicStep ==
  ASSUME ProcessInv, NEW p \in Procs, CreateTopic(p)
  PROVE  ProcessInv'
<1> DEFINE r == proc[p]
           s == proc'[p]
           t == Topics[r.create]
<1>1. /\ DOMAIN r = Fields /\ Kept(r) /\ Typed(r) /\ Knows(r, topics, index)
      /\ World(topics, index)
  BY DEF ProcessInv, Kept, Typed
<1>2. r.life = "starting" /\ r.create <= Len(Topics) /\ UNCHANGED index
  BY DEF CreateTopic, At
<1>3. r.create \in 1..Len(Topics) /\ t \in TopicNames /\ r.existing \in SUBSET TopicNames
  BY <1>1, <1>2, TopicFacts DEF Typed, StartTyped
<1>4. CASE topics[t].parts = 0
  <2>1. PICK lag \in MetadataLags :
          topics' = [topics EXCEPT ![t] = [parts |-> Partitions, slow |-> lag > MetadataTimeout,
                                           hidden |-> lag]]
    BY <1>4 DEF CreateTopic
  <2>2. proc' = [proc EXCEPT ![p].create = @ + 1]
    BY <1>4 DEF CreateTopic
  <2>3. Added(topics, topics', t)
    BY <1>3, <1>4, <2>1, TimesAssumption DEF Added
  <2>4. Only(p) /\ Keeps(r, s, {"create", "existing"}) /\ s.create = r.create + 1
        /\ s.existing = r.existing
    BY <1>1, <2>2 DEF Only, Keeps, Procs, Fields
  <2> HIDE DEF r, s, t
  <2>5. Kept(s)
    BY <1>1, <1>2, <1>3, <2>4, CreatesKeep DEF Creates
  <2>6. World(topics', index) /\ Had(topics', t) /\ Knows(r, topics', index)
        /\ \A q : Knows(q, topics, index) /\ Typed(q) => Knows(q, topics', index)
    BY <1>1, <2>3, KnowsAdded
  <2>7. Knows(s, topics', index)
    BY <1>1, <1>2, <2>4, <2>6, KnowsCreated DEF t
  <2> QED BY <1>2, <2>4, <2>5, <2>6, <2>7, SharedStep DEF r, s
<1>5. CASE topics[t].parts # 0
  <2>1. /\ proc' = [proc EXCEPT ![p].create = @ + 1, ![p].existing = @ \cup {t}]
        /\ UNCHANGED topics /\ topics[t].parts > 0
    BY <1>5 DEF CreateTopic
  <2>2. Only(p) /\ Keeps(r, s, {"create", "existing"}) /\ s.create = r.create + 1
        /\ s.existing = r.existing \cup {t}
    BY <1>1, <2>1 DEF Only, Keeps, Procs, Fields
  <2> HIDE DEF r, s, t
  <2>3. s.existing \in SUBSET TopicNames
    BY <1>3, <2>2
  <2>4. Kept(s)
    BY <1>1, <1>2, <2>2, <2>3, CreatesKeep DEF Creates
  <2>5. Knows(s, topics, index)
    BY <1>1, <1>2, <2>1, <2>2, KnowsCreated DEF t
  <2> QED BY <1>2, <2>1, <2>2, <2>4, <2>5, OwnStep DEF r, s
<1> QED BY <1>4, <1>5

(* The topics: verified, or the start refused.                             *)
LEMMA VerifyStep ==
  ASSUME ProcessInv, NEW p \in Procs, VerifyTopics(p)
  PROVE  ProcessInv'
<1> DEFINE r == proc[p]
<1>1. /\ Typed(r) /\ Knows(r, topics, index) /\ World(topics, index) /\ r.existing \subseteq TopicNames
  BY DEF ProcessInv, Kept, Typed, StartTyped
<1>2. /\ r.life = "starting" /\ Path(r.kind)[r.step] = "topics" /\ r.create > Len(Topics)
      /\ UNCHANGED <<topics, index>>
      /\ Unknown(p) = {} \/ r.waited >= MetadataTimeout
  BY DEF VerifyTopics, At
<1>3. CASE Unknown(p) # {}
  <2>1. Refuse(p, "topic unknown") /\ r.waited >= MetadataTimeout
    BY <1>2, <1>3 DEF VerifyTopics
  <2>2. PICK t \in r.existing : topics[t].hidden > 0
    BY <1>3 DEF Unknown
  <2>3. topics[t].slow
    <3>1. r.waited \in Nat /\ topics[t].hidden \in Nat /\ MetadataTimeout \in Nat
      BY <1>1, <2>2, TimesAssumption DEF Typed, StartTyped, World, BrokerTyped
    <3>2. ~topics[t].slow => topics[t].hidden + r.waited <= MetadataTimeout
      BY <1>1, <2>2 DEF Knows, TopicsKept
    <3>3. \A h, w, m \in Nat : h > 0 /\ w >= m => ~(h + w <= m)
      OBVIOUS
    <3>4. ~(topics[t].hidden + r.waited <= MetadataTimeout)
      BY <2>1, <2>2, <3>1, <3>3, Zenon
    <3> QED BY <3>2, <3>4, Zenon
  <2>4. Caused("topic unknown", topics, index) /\ "topic unknown" \in Refusals
    BY <1>1, <2>2, <2>3 DEF Caused, Refusals
  <2> QED BY <1>2, <2>1, <2>4, RefuseStep
<1>4. CASE Unknown(p) = {} /\ \E t \in r.existing : topics[t].parts < Partitions
  <2>1. Refuse(p, "too few partitions")
    BY <1>4 DEF VerifyTopics
  <2>2. PICK t \in r.existing : topics[t].parts < Partitions
    BY <1>4
  <2>3. topics[t].parts \in 1..(Partitions - 1)
    <3>1. topics[t].parts \in Nat /\ Partitions \in Nat
      BY <1>1, <2>2, FleetsAssumption DEF World, BrokerTyped
    <3>2. topics[t].parts > 0
      BY <1>1, <2>2 DEF Knows, TopicsKept
    <3> QED BY <2>2, <3>1, <3>2
  <2>4. Caused("too few partitions", topics, index) /\ "too few partitions" \in Refusals
    BY <1>1, <2>2, <2>3 DEF Caused, Refusals
  <2> QED BY <1>2, <2>1, <2>4, RefuseStep
<1>5. CASE Unknown(p) = {} /\ ~ \E t \in r.existing : topics[t].parts < Partitions
  <2>1. Done(p)
    BY <1>5 DEF VerifyTopics
  <2>2. \A t \in TopicNames : Had(topics, t)
    <3>1. \A t \in r.existing : Had(topics, t)
      <4>1. \A t \in TopicNames : topics[t].parts \in Nat
        BY <1>1 DEF World, BrokerTyped
      <4> QED BY <1>1, <1>5, <4>1, FleetsAssumption DEF Had
    <3>2. \A i \in 1..Len(Topics) : i < r.create
      BY <1>1, <1>2, TopicFacts DEF Typed, StartTyped
    <3> QED BY <1>1, <3>1, <3>2, TopicFacts DEF Knows, TopicsKept
  <2> QED BY <1>2, <2>1, <2>2, DoneStep
<1> QED BY <1>3, <1>4, <1>5

(* The index: found, looked for, created, or the start refused.            *)
LEMMA IndexStep ==
  ASSUME ProcessInv, NEW p \in Procs,
         ResolveAlias(p) \/ CheckName(p) \/ CreateIndex(p) \/ ResolveAgain(p)
  PROVE  ProcessInv'
<1> DEFINE r == proc[p]
           s == proc'[p]
<1>1. /\ DOMAIN r = Fields /\ Kept(r) /\ Typed(r) /\ Knows(r, topics, index)
      /\ World(topics, index) /\ IndexTyped(index)
  BY DEF ProcessInv, Kept, Typed, World
<1>2. r.life = "starting" /\ Path(r.kind)[r.step] = "index" /\ UNCHANGED topics
  BY DEF ResolveAlias, CheckName, CreateIndex, ResolveAgain, At
<1>3. ASSUME UNCHANGED <<topics, index>>, NEW es \in {"resolve", "check", "create", "again"},
             proc' = [proc EXCEPT ![p].es = es], es = "again" => index.v1
      PROVE  ProcessInv'
  <2>1. Only(p) /\ Keeps(r, s, {"es"}) /\ s.es = es
    BY <1>1, <1>3 DEF Only, Keeps, Procs, Fields
  <2> HIDE DEF r, s
  <2>2. Kept(s)
    BY <1>1, <2>1, CreatesKeep DEF Searches
  <2>3. Knows(s, topics, index)
    BY <1>1, <1>3, <2>1 DEF Knows, TopicsKept, IndexKept, Keeps, Fields
  <2> QED BY <1>3, <2>1, <2>2, <2>3, OwnStep DEF r, s
<1>4. Cardinality(index.alias) # 1 /\ index.alias # {} => Caused("alias fans out", topics, index)
  <2>1. index.alias \subseteq {"v1", "v2"}
    BY <1>1 DEF IndexTyped
  <2>2. IsFiniteSet({"v1", "v2"})
    <3>1. IsFiniteSet({"v1"}) /\ {"v1", "v2"} = {"v1"} \cup {"v2"}
      BY FS_Singleton
    <3> QED BY <3>1, FS_AddElement
  <2>3. IsFiniteSet(index.alias)
    BY <2>1, <2>2, FS_Subset
  <2>4. Cardinality(index.alias) \in Nat /\ (Cardinality(index.alias) = 0 <=> index.alias = {})
    BY <2>3, FS_CardinalityType, FS_EmptySet
  <2> QED BY <2>4 DEF Caused
<1>5. "alias fans out" \in Refusals /\ "name taken" \in Refusals /\ "index without alias" \in Refusals
  BY DEF Refusals
<1>6. CASE ResolveAlias(p)
  <2>1. UNCHANGED <<topics, index>> /\ Resolve(p, proc' = [proc EXCEPT ![p].es = "check"])
    BY <1>6 DEF ResolveAlias
  <2>2. CASE Cardinality(index.alias) = 1
    BY <1>2, <2>1, <2>2, DoneStep DEF Resolve
  <2>3. CASE Cardinality(index.alias) # 1 /\ index.alias # {}
    BY <1>4, <1>5, <2>1, <2>3, RefuseStep DEF Resolve
  <2>4. CASE Cardinality(index.alias) # 1 /\ index.alias = {}
    BY <1>3, <2>1, <2>4 DEF Resolve
  <2> QED BY <2>2, <2>3, <2>4
<1>7. CASE CheckName(p)
  <2>1. UNCHANGED <<topics, index>>
    BY <1>7 DEF CheckName
  <2>2. CASE index.taken /\ Refuse(p, "name taken")
    <3>1. Caused("name taken", topics, index)
      BY <2>2 DEF Caused
    <3> QED BY <1>5, <2>1, <2>2, <3>1, RefuseStep
  <2>3. CASE proc' = [proc EXCEPT ![p].es = "create"]
    BY <1>3, <2>1, <2>3
  <2> QED BY <1>7, <2>2, <2>3 DEF CheckName
<1>8. CASE CreateIndex(p)
  <2>1. CASE /\ index.v1
             /\ proc' = [proc EXCEPT ![p].es = "again"]
             /\ UNCHANGED index
    BY <1>2, <1>3, <2>1
  <2>2. CASE /\ ~index.v1 /\ index.taken
             /\ Refuse(p, "name taken")
             /\ UNCHANGED index
    <3>1. Caused("name taken", topics, index)
      BY <2>2 DEF Caused
    <3> QED BY <1>2, <1>5, <2>2, <3>1, RefuseStep
  <2>3. CASE /\ ~index.v1 /\ ~index.taken
             /\ index' = [index EXCEPT !.v1 = TRUE, !.alias = @ \cup {"v1"}]
             /\ Done(p)
    <3>1. Repointed(index, index')
      BY <2>3 DEF Repointed
    <3>2. World(topics, index') /\ Cardinality(index'.alias) = 1
          /\ \A q : Knows(q, topics, index) => Knows(q, topics, index')
      BY <1>1, <3>1, KnowsRepointed
    <3>3. Only(p) /\ Opens(r, s)
      BY <1>1, <2>3, DoneMoves
    <3>4. Kept(s)
      BY <1>1, <1>2, <3>3, OpensKeep
    <3>5. Knows(s, topics, index')
      <4>1. Knows(r, topics, index')
        BY <1>1, <3>2
      <4> QED BY <1>1, <1>2, <3>2, <3>3, <4>1, KnowsOpened
    <3> QED BY <1>2, <3>2, <3>3, <3>4, <3>5, SharedStep
  <2> QED BY <1>8, <2>1, <2>2, <2>3 DEF CreateIndex
<1>9. CASE ResolveAgain(p)
  <2>1. UNCHANGED <<topics, index>> /\ Resolve(p, Refuse(p, "index without alias")) /\ r.es = "again"
    BY <1>9 DEF ResolveAgain
  <2>2. CASE Cardinality(index.alias) = 1
    BY <1>2, <2>1, <2>2, DoneStep DEF Resolve
  <2>3. CASE Cardinality(index.alias) # 1 /\ index.alias # {}
    BY <1>4, <1>5, <2>1, <2>3, RefuseStep DEF Resolve
  <2>4. CASE Cardinality(index.alias) # 1 /\ index.alias = {}
    <3>1. Caused("index without alias", topics, index)
      BY <1>1, <2>1, <2>4 DEF Caused, Knows, IndexKept
    <3> QED BY <1>5, <2>1, <2>4, <3>1, RefuseStep DEF Resolve
  <2> QED BY <2>2, <2>3, <2>4
<1> QED BY <1>6, <1>7, <1>8, <1>9

(* The alias pointed at another index.                                     *)
LEMMA SwitchStep ==
  ASSUME ProcessInv, SwitchAlias
  PROVE  ProcessInv'
<1>1. Repointed(index, index') /\ UNCHANGED <<proc, topics>> /\ World(topics, index)
  BY DEF SwitchAlias, Repointed, ProcessInv
<1>2. World(topics, index') /\ \A q : Knows(q, topics, index) => Knows(q, topics, index')
  BY <1>1, KnowsRepointed
<1> QED BY <1>1, <1>2 DEF ProcessInv, Procs

(* A process that runs, or closes, and knows what it knew.                 *)
LEMMA RunStep ==
  ASSUME ProcessInv, NEW p \in Procs, NEW c \in Closers,
         \/ Signal(p) \/ ServeFails(p) \/ StopWorker(p) \/ StopServer(p) \/ WaitFor(p)
         \/ Poll(p) \/ Handle(p) \/ Handled(p) \/ AllowRebalance(p) \/ RunReturns(p)
         \/ Sweep(p) \/ Request(p) \/ BeginClose(p) \/ CloserEnds(p, c) \/ Awaited(p)
  PROVE  ProcessInv'
<1> DEFINE r == proc[p]
           s == proc'[p]
<1>1. DOMAIN r = Fields /\ Kept(r) /\ Knows(r, topics, index)
  BY DEF ProcessInv, Kept, Typed
<1>2. UNCHANGED <<topics, index>>
  BY DEF Signal, ServeFails, StopWorker, StopServer, WaitFor, Poll, Handle, Handled, AllowRebalance,
         RunReturns, Sweep, Request, BeginClose, CloserEnds, Awaited
<1>3. /\ Only(p)
      /\ \/ Signals(r, s) \/ Fails(r, s) \/ Stops(r, s) \/ Closes(r, s) \/ Loops(r, s)
         \/ Sweeps(r, s) \/ Requests(r, s) \/ Begins(r, s, r.opened[r.at]) \/ Ends(r, s, c)
         \/ Awaits(r, s, r.awaited)
  BY <1>1, SignalMoves, StopMoves, CloseMoves, LoopMoves, SweepMoves, RequestMoves, BeginMoves,
     EndMoves, AwaitedMoves
<1> HIDE DEF r, s
<1>4. Kept(s)
  BY <1>1, <1>3, SignalsKeep, StopsKeep, ClosesKeep, LoopsKeep, SweepsKeep, RequestsKeep,
     BeginsKeep, EndsKeep, AwaitsKeep
<1>5. SameStart(r, s)
  BY <1>3 DEF SameStart, Keeps, Fields, Signals, Fails, Stops, Closes, Loops, Sweeps, Requests,
              Begins, Ends, Awaits
<1> QED BY <1>1, <1>2, <1>3, <1>4, <1>5, KnowsAside, OwnStep DEF r, s

(* A process that leaves.                                                  *)
LEMMA LeaveStep ==
  ASSUME ProcessInv, NEW p \in Procs, GiveUp(p) \/ Exit(p)
  PROVE  ProcessInv'
<1>1. DOMAIN proc[p] = Fields /\ Kept(proc[p]) /\ Knows(proc[p], topics, index)
  BY DEF ProcessInv, Kept, Typed
<1>2. CASE GiveUp(p)
  <2>1. Refuse(p, "failed") /\ UNCHANGED <<topics, index>>
    BY <1>2 DEF GiveUp
  <2>2. Caused("failed", topics, index) /\ "failed" \in Refusals
    BY DEF Caused, Refusals
  <2> QED BY <2>1, <2>2, RefuseStep
<1>3. CASE Exit(p)
  <2>1. Only(p) /\ Exits(proc[p], proc'[p]) /\ UNCHANGED <<topics, index>>
    BY <1>1, <1>3, ExitMoves DEF Exit
  <2>2. Caused(None, topics, index)
    BY FleetsAssumption DEF Caused, Refusals
  <2> QED BY <1>1, <2>1, <2>2, ExitsKeep, KnowsGone, OwnStep DEF Exits
<1> QED BY <1>2, <1>3

(* A unit of time.                                                         *)
LEMMA TickStep ==
  ASSUME ProcessInv, Tick
  PROVE  ProcessInv'
<1>1. World(topics, index) /\ \A p \in Procs : Kept(proc[p]) /\ Knows(proc[p], topics, index)
  BY DEF ProcessInv
<1>2. Aged(topics, topics') /\ UNCHANGED index /\ DOMAIN proc' = Procs
  BY DEF Tick, Aged
<1>3. World(topics', index)
      /\ \A r, s : Knows(r, topics, index) /\ Typed(r) /\ Waits(r, s) => Knows(s, topics', index)
  BY <1>1, <1>2, KnowsAged
<1>4. ASSUME NEW p \in Procs
      PROVE  Ticks(proc[p], proc'[p]) /\ Waits(proc[p], proc'[p])
  <2>1. DOMAIN proc[p] = Fields /\ ~Due(p)
    BY <1>1, <1>4 DEF Kept, Typed, Tick
  <2>2. CASE Stopping(p)
    <3>1. proc'[p] = [proc[p] EXCEPT !.clock = IF @ < Forever THEN @ + 1 ELSE @,
                                     !.left = [a \in DOMAIN @ |-> Down(@[a])]]
      BY <1>4, <2>2 DEF Tick
    <3>2. /\ proc[p].life = "waiting" => ~(proc[p].clock >= GoroutineTimeout)
          /\ proc[p].life = "closing" => ~Spent(proc[p])
      BY <2>1 DEF Due, Expired, Spent
    <3>3. /\ Keeps(proc[p], proc'[p], {"clock", "left"})
          /\ proc'[p].clock = IF proc[p].clock < Forever THEN proc[p].clock + 1 ELSE proc[p].clock
          /\ proc'[p].left = [a \in DOMAIN proc[p].left |-> Down(proc[p].left[a])]
      BY <2>1, <3>1 DEF Keeps, Fields
    <3>4. proc[p].life \in {"waiting", "closing"}
      BY <2>2 DEF Stopping
    <3>5. Ticks(proc[p], proc'[p])
      BY <3>2, <3>3, <3>4 DEF Ticks
    <3>6. Keeps(proc[p], proc'[p], {"clock", "left", "waited"}) /\ proc'[p].waited = proc[p].waited
      BY <3>3 DEF Keeps, Fields
    <3>7. Waits(proc[p], proc'[p])
      BY <3>6, Zenon DEF Waits
    <3> QED BY <3>5, <3>7
  <2>3. CASE ~Stopping(p)
    <3>1. proc'[p] = [proc[p] EXCEPT !.waited = IF Describing(p) THEN @ + 1 ELSE @]
      BY <1>4, <2>3 DEF Tick
    <3>2. Keeps(proc[p], proc'[p], {"waited"})
          /\ proc'[p].waited = IF Describing(p) THEN proc[p].waited + 1 ELSE proc[p].waited
      BY <2>1, <3>1 DEF Keeps, Fields
    <3>3. Describing(p) => proc[p].create > Len(Topics)
      BY DEF Describing
    <3>4. proc[p].life \notin {"waiting", "closing"}
      BY <2>3 DEF Stopping
    <3>5. Ticks(proc[p], proc'[p])
      BY <3>2, <3>4 DEF Ticks
    <3>6. Keeps(proc[p], proc'[p], {"clock", "left", "waited"})
      BY <3>2 DEF Keeps, Fields
    <3>7. Waits(proc[p], proc'[p])
      BY <3>2, <3>3, <3>6, Zenon DEF Waits
    <3> QED BY <3>5, <3>7
  <2> QED BY <2>2, <2>3
<1>5. \A p \in Procs : Kept(proc'[p]) /\ Knows(proc'[p], topics', index)
  BY <1>1, <1>3, <1>4, TicksKeep DEF Kept
<1> QED BY <1>2, <1>3, <1>5 DEF ProcessInv, Procs

(* No step breaks it.                                                      *)
LEMMA NextProcess == ProcessInv /\ [Next]_vars => ProcessInv'
<1> SUFFICES ASSUME ProcessInv, [Next]_vars
             PROVE  ProcessInv'
  OBVIOUS
<1>1. ASSUME NEW p \in Procs,
             \/ Open(p) \/ OpenFails(p)
             \/ CreateTopic(p) \/ VerifyTopics(p)
             \/ ResolveAlias(p) \/ CheckName(p) \/ CreateIndex(p) \/ ResolveAgain(p)
             \/ Signal(p) \/ ServeFails(p) \/ StopWorker(p) \/ StopServer(p) \/ GiveUp(p) \/ WaitFor(p)
             \/ Poll(p) \/ Handle(p) \/ Handled(p) \/ AllowRebalance(p) \/ RunReturns(p)
             \/ Sweep(p) \/ Request(p)
             \/ BeginClose(p) \/ (\E c \in Closers : CloserEnds(p, c)) \/ Awaited(p) \/ Exit(p)
      PROVE  ProcessInv'
  <2>1. "tracing" \in Closers
    BY DEF Closers
  <2> QED BY <1>1, <2>1, OpenStep, CreateTopicStep, VerifyStep, IndexStep, RunStep, LeaveStep
<1>2. CASE UNCHANGED vars
  BY <1>2 DEF ProcessInv, vars, Procs
<1> QED BY <1>1, <1>2, SwitchStep, TickStep DEF Next

(* The invariant holds of every process from its start to its exit, for    *)
(* every deployment, and whatever the broker and the index were found with. *)
THEOREM ProcessInvHolds == Spec => []ProcessInv
BY InitProcess, NextProcess, PTL DEF Spec

-----------------------------------------------------------------------------
(* What it says of the promises                                            *)

(* Whoever starts first, a worker that runs has its topics with the        *)
(* partitions it needs and an ingestion worker writes through an alias of  *)
(* one index, and a start that is refused for what it found was refused    *)
(* for something no other start causes (topics.go:24, search.go:139).      *)
THEOREM StartsTogetherHolds == Spec => []StartsTogether
<1>1. ASSUME ProcessInv
      PROVE  StartsTogether
  <2>1. ASSUME NEW p \in Procs
        PROVE  /\ Alive(p) /\ Worker(p) =>
                    /\ \A t \in TopicNames : topics[t].parts >= Partitions
                    /\ proc[p].kind = "ingestion-worker" => Cardinality(index.alias) = 1
               /\ Caused(proc[p].refusal, topics, index)
    <3>1. Kept(proc[p]) /\ Knows(proc[p], topics, index)
      BY <1>1 DEF ProcessInv
    <3>2. Alive(p) /\ Worker(p) => proc[p].step = 10
      <4>1. proc[p].kind \in Workers => Len(Path(proc[p].kind)) = 9
        BY <3>1, PathEnds DEF Kept, Typed, StartTyped
      <4>2. Alive(p) => proc[p].step = Len(Path(proc[p].kind)) + 1
        BY <3>1, Zenon DEF Kept, StartKept, Alive
      <4>3. Alive(p) /\ Worker(p) => proc[p].step = 9 + 1
        BY <4>1, <4>2, Zenon DEF Worker
      <4> QED BY <4>3
    <3> QED BY <3>1, <3>2 DEF Knows, TopicsKept, IndexKept, Had, Worker
  <2> QED BY <2>1 DEF StartsTogether, Grounded, RefusedForCause, Caused
<1> QED BY <1>1, ProcessInvHolds, PTL

(* Nothing a handler or a request works with is closed under it while the  *)
(* deadline lets Close wait: what waits for the work was registered last,  *)
(* and is closed first (shutdown.go:37, cmd/api/main.go:164).              *)
THEOREM NothingClosedUnderWork == Spec => []NothingClosedUnder
<1>1. ASSUME ProcessInv
      PROVE  NothingClosedUnder
  <2> SUFFICES ASSUME NEW p \in Procs, proc[p].life = "closing", Working(p),
                      NEW c \in Uses(proc[p].kind)
               PROVE  proc[p].closer[c] = "open" \/ Expired(p)
    BY DEF NothingClosedUnder
  <2> DEFINE r == proc[p]
             place == Place(r.kind)
             reg == Registered(r.kind)
  <2>1. Kept(r) /\ r.kind \in Kinds /\ ClosingKept(r) /\ LifeKept(r)
    BY <1>1 DEF ProcessInv, Kept, Typed, StartTyped
  <2>2. /\ Len(r.opened) \in Nat /\ Len(r.opened) = Len(reg)
        /\ \A i \in 1..Len(r.opened) : r.opened[i] = reg[i]
    BY <2>1, OpenedOnce
  <2>3. /\ place \in 1..Len(reg) /\ reg[place] = Holder(r.kind)
        /\ \E i \in 1..Len(reg) : i < place /\ reg[i] = c
    BY <2>1, Order
  <2> HIDE DEF place, reg
  <2>4. PICK i \in 1..Len(reg) : i < place /\ reg[i] = c
    BY <2>3
  <2>5. r.opened[i] = c /\ r.opened[place] = Holder(r.kind)
    BY <2>2, <2>3, <2>4
  <2>6. r.at \in Nat
    BY <2>1 DEF Kept, Typed, CloseTyped
  <2>7. CASE r.at >= place
    BY <2>1, <2>2, <2>3, <2>4, <2>5, <2>6, <2>7 DEF ClosingKept
  <2>8. CASE r.at < place
    <3>1. Left(r, Holder(r.kind)) /\ Undisturbed(r) /\ (r.incomplete # {} => Spent(r))
      BY <2>1, <2>2, <2>3, <2>5, <2>6, <2>8 DEF ClosingKept
    <3>2. r.kind \in Workers => r.loop = "handling"
      BY <2>1 DEF LifeKept, Working
    <3>3. r.kind \notin Workers => r.request
      BY <2>1 DEF LifeKept, Working
    <3>4. Holder(r.kind) \in r.incomplete
      BY <3>1, <3>2, <3>3 DEF Left, Undisturbed, Holder
    <3> QED BY <3>1, <3>4 DEF Spent, Expired
  <2> QED BY <2>3, <2>6, <2>7, <2>8
<1> QED BY <1>1, ProcessInvHolds, PTL

(* What the exit does not report was closed, and what it reports as        *)
(* incomplete is everything from there on (shutdown.go:66, :121).          *)
THEOREM ReportIsHonest == Spec => []HonestReport
<1>1. ASSUME ProcessInv
      PROVE  HonestReport
  <2> SUFFICES ASSUME NEW p \in Procs, proc[p].life = "exited", proc[p].refusal = None
               PROVE  LET opened == proc[p].opened
                      IN  /\ \A c \in Opened(p) \ (proc[p].incomplete \cup proc[p].failed) :
                               proc[p].closer[c] = "closed"
                          /\ \A i, j \in DOMAIN opened :
                               j <= i /\ opened[i] \in proc[p].incomplete =>
                                 opened[j] \in proc[p].incomplete
    BY DEF HonestReport
  <2>1. Kept(proc[p])
    BY <1>1 DEF ProcessInv
  <2>2. DOMAIN proc[p].opened = 1..Len(proc[p].opened)
    BY <2>1 DEF Kept, Typed, StartTyped
  <2>3. proc[p].at = 0 /\ Ordered(proc[p])
        /\ \A i \in 1..Len(proc[p].opened) : Left(proc[p], proc[p].opened[i])
    BY <2>1 DEF Kept, ExitKept
  <2>4. \A c \in Opened(p) \ (proc[p].incomplete \cup proc[p].failed) : proc[p].closer[c] = "closed"
    BY <2>2, <2>3 DEF Opened, Left
  <2> QED BY <2>2, <2>3, <2>4 DEF Ordered
<1> QED BY <1>1, ProcessInvHolds, PTL

(* Leaving the group waits for a handler inside its message and for        *)
(* nothing else of the process (consumer.go:146).                          *)
THEOREM GroupIsLeft == Spec => []LeavesGroup
<1>1. ASSUME ProcessInv
      PROVE  LeavesGroup
  <2> SUFFICES ASSUME NEW p \in Procs, proc[p].closer["consumer"] = "closing", proc[p].blocked, ~Due(p)
               PROVE  proc[p].loop = "handling"
    BY DEF LeavesGroup
  <2>1. Kept(proc[p]) /\ "consumer" \in Closers
    BY <1>1 DEF ProcessInv, Closers
  <2>2. proc[p].life = "closing"
    BY <2>1 DEF Kept, LifeKept, Typed, StartTyped
  <2>3. proc[p].loop \in {"holding", "handling", "stopping"} /\ Worker(p)
    BY <2>1 DEF Kept, LifeKept, Worker
  <2> QED BY <2>2, <2>3 DEF Due
<1> QED BY <1>1, ProcessInvHolds, PTL

(* A process told to stop is gone within the goroutines' budget and the    *)
(* deadline of Close (shutdown.go:63, agent-worker/main.go:58).            *)
THEOREM ExitsInTime == Spec => []ExitWithin
<1>1. ASSUME ProcessInv
      PROVE  ExitWithin
  <2> SUFFICES ASSUME NEW p \in Procs
               PROVE  proc[p].clock <= ShutdownTimeout + IF Worker(p) THEN GoroutineTimeout ELSE 0
    BY DEF ExitWithin
  <2>1. Kept(proc[p])
    BY <1>1 DEF ProcessInv
  <2>2. proc[p].clock \in Nat /\ proc[p].due \in Nat /\ ShutdownTimeout \in Nat
        /\ GoroutineTimeout \in Nat
    BY <2>1, TimesAssumption DEF Kept, Typed, CloseTyped
  <2>3. proc[p].life \in {"starting", "running", "waiting", "closing", "exited"}
    BY <2>1 DEF Kept, Typed, StartTyped
  <2> QED BY <2>1, <2>2, <2>3 DEF Kept, ClockKept, Allowed, Worker
<1> QED BY <1>1, ProcessInvHolds, PTL

=============================================================================
