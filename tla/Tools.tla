---------------------------------- MODULE Tools ----------------------------------
(***************************************************************************)
(* ops-mcp: one tool call inside the tool server.  A call names a tool;    *)
(* its handler checks the arguments, asks one dependency under a deadline  *)
(* of its own, and answers with a text and an envelope that says what kind *)
(* of answer it is.                                                        *)
(*                                                                         *)
(* "fault" is the truth of the call, which the envelope has to convey:     *)
(* nothing wrong, arguments the model can mend, a dependency that does not *)
(* answer, a deadline passed (before the answer, or in its body), or the   *)
(* body of a probe cut short.                                              *)
(*                                                                         *)
(* A log is a sequence of lines, and grows while it is read.  A text is    *)
(* the sequence of the widths of its runes; times are small numbers, 0 for *)
(* a time that is not given; durations are in halves of a second.          *)
(***************************************************************************)
EXTENDS Integers, Sequences, FiniteSets, SequencesExt

CONSTANTS None,
          NaN,          \* the value of a point that is not a number
          Lines,        \* what a line of a log may be
          MaxLines,     \* bound on the lines of a log
          Times,        \* the times a caller may give
          CheckEvery,   \* lines between two looks at the deadline
          DefaultLimit, \* defaultLogLimit
          MaxLogLines,  \* OPS_MCP_MAX_LOG_LINES
          Spans,        \* the spans of the range queries
          Steps,        \* the steps they ask for
          MinStep,      \* OPS_MCP_MIN_STEP
          MaxRange,     \* OPS_MCP_MAX_RANGE
          StepDivisor,  \* stepDivisor
          Values,       \* the numbers a point may have
          MaxPoints,    \* bound on the points of a series
          Rendered,     \* renderedPoints
          Texts,        \* the texts an answer may have
          LimitBytes,   \* summary.LimitBytes
          MarkerBytes   \* the length of truncationMarker

ASSUME ToolsAssumption ==
  /\ Lines \subseteq [sort : {"record", "bad", "long", "blank"}, at : Nat, level : Nat,
                      hit : BOOLEAN]
  /\ Times \subseteq Nat /\ Spans \subseteq Nat \ {0} /\ Steps \subseteq Nat \ {0}
  /\ {CheckEvery, DefaultLimit, MaxLogLines, MinStep, MaxRange, StepDivisor} \subseteq
       Nat \ {0}
  /\ {MaxLines, MaxPoints, LimitBytes} \subseteq Nat
  /\ MinStep <= MaxRange /\ Rendered \in Nat \ {0, 1}
  /\ MarkerBytes \in 0..LimitBytes /\ Texts \subseteq Seq(1..4)
  /\ Values \subseteq Int /\ NaN \notin Values

VARIABLES
  calling, \* the tool called, None between calls
  srv,     \* where its handler is
  ask,     \* the arguments it took
  log,     \* the lines of the service's log
  scan,    \* the reading of it
  expired, \* the handler's own deadline has passed
  fault,   \* history: what went wrong
  reply,   \* what the client will read
  view     \* history: the data of the answer, and what it was made of

toolVars == <<calling, srv, ask, log, scan, expired, fault, reply, view>>

ToolNames == {"prometheus_query", "http_probe", "read_service_logs"}
NoScan    == [pos |-> 0, kept |-> <<>>, matched |-> 0, unparseable |-> 0]

ToolInit ==
  /\ calling = None /\ srv = "idle" /\ ask = None /\ log = <<>> /\ scan = NoScan
  /\ expired = FALSE /\ fault = "none" /\ reply = None /\ view = None

LesserOf(a, b) == IF a < b THEN a ELSE b

-----------------------------------------------------------------------------
(* Answers                                                                 *)

Bytes(text) ==
  LET upTo[n \in 0..Len(text)] == IF n = 0 THEN 0 ELSE upTo[n - 1] + text[n]
  IN upTo[Len(text)]

(* The longest start of a text that is whole runes and fits the limit.     *)
CapAt(text, limit) ==
  LET fits == {n \in 0..Len(text) : Bytes(SubSeq(text, 1, n)) <= limit}
  IN SubSeq(text, 1, CHOOSE n \in fits : \A m \in fits : m <= n)

(* A mistaken cut, with no room left for the marker.                       *)
OkPastTheCap(text) ==
  LET cut == Bytes(text) > LimitBytes
      capped == Bytes(CapAt(text, LimitBytes))
  IN [kind |-> "ok", isError |-> FALSE, refused |-> FALSE, meta |-> TRUE,
      truncated |-> cut, original |-> Bytes(text),
      size |-> IF cut THEN capped + MarkerBytes ELSE capped]

(* An answer, cut with room for the marker only when it has to be cut.     *)
Ok(text) ==
  LET cut == Bytes(text) > LimitBytes
      capped == Bytes(CapAt(text, IF cut THEN LimitBytes - MarkerBytes ELSE LimitBytes))
  IN [kind |-> "ok", isError |-> FALSE, refused |-> FALSE, meta |-> TRUE,
      truncated |-> cut, original |-> Bytes(text),
      size |-> IF cut THEN capped + MarkerBytes ELSE capped]

(* A refusal is an answer like any other.                                  *)
Refused(text) == [Ok(text) EXCEPT !.refused = TRUE]

(* The note of a failure leaves whole, however long: it is neither cut nor *)
(* marked, though it may hold the query or the path that was asked for.    *)
Failed(kind, note) ==
  [kind |-> kind, isError |-> TRUE, refused |-> FALSE, meta |-> TRUE,
   truncated |-> FALSE, original |-> Bytes(note), size |-> Bytes(note)]

(* The SDK turns arguments down that do not fit the schema, in its own     *)
(* words: no handler runs, and there is no envelope.                       *)
Rejected(note) == [Failed("error", note) EXCEPT !.meta = FALSE]

Answer(r, why) ==
  /\ srv' = "answered" /\ reply' = r /\ fault' = why

Refuse          == \E text \in Texts : Answer(Refused(text), "model")
Fail(kind, why) == \E note \in Texts : Answer(Failed(kind, note), why)

-----------------------------------------------------------------------------
(* read_service_logs                                                       *)

(* The arguments, made a filter; None for a refusal.  An unknown service,  *)
(* level or time is "wrong".                                               *)
BuildFilter(in) ==
  IF \/ in.wrong
     \/ in.since # 0 /\ in.until # 0 /\ in.until <= in.since
     \/ in.limit # 0 /\ in.limit \notin 1..MaxLogLines
  THEN None
  ELSE [since |-> in.since, until |-> in.until, level |-> in.level, contains |-> in.contains,
        limit |-> IF in.limit = 0 THEN DefaultLimit ELSE in.limit]

LogArguments == [wrong : BOOLEAN, since : Times, until : Times, level : {1, 2},
                 contains : BOOLEAN, limit : 0..(MaxLogLines + 1)]

(* The handler is entered.  The log holds what it holds when it is opened. *)
ReadServiceLogs ==
  /\ calling = "read_service_logs" /\ srv = "idle"
  /\ \E in \in LogArguments, content \in BoundedSeq(Lines, MaxLines) :
       LET filter == BuildFilter(in) IN
       IF filter = None
       THEN /\ Refuse
            /\ UNCHANGED <<ask, log, scan>>
       ELSE \/ /\ Fail("error", "dependency") \* it cannot be opened
               /\ UNCHANGED <<ask, log, scan>>
            \/ /\ srv' = "scanning" /\ ask' = filter /\ log' = content /\ scan' = NoScan
               /\ UNCHANGED <<reply, fault>>
  /\ UNCHANGED <<calling, expired, view>>

(* The service goes on logging.                                            *)
LogLine(line) ==
  /\ srv = "scanning" /\ Len(log) < MaxLines
  /\ log' = log \o <<line>>
  /\ UNCHANGED <<calling, srv, ask, scan, expired, fault, reply, view>>

Matches(f, line) ==
  /\ line.level >= f.level
  /\ f.since # 0 => line.at >= f.since
  /\ f.until # 0 => line.at < f.until
  /\ f.contains => line.hit

(* A mistaken window that keeps the first records and not the last.        *)
TakeFirst(s, f, line) ==
  CASE line.sort \in {"long", "bad"} -> [s EXCEPT !.unparseable = @ + 1]
    [] line.sort = "record" /\ Matches(f, line) ->
         [s EXCEPT !.matched = @ + 1,
                   !.kept = IF Len(@) < f.limit THEN @ \o <<line>> ELSE @]
    [] OTHER -> s

(* What a line does to the counts and the records kept.                    *)
Take(s, f, line) ==
  CASE line.sort \in {"long", "bad"} -> [s EXCEPT !.unparseable = @ + 1]
    [] line.sort = "record" /\ Matches(f, line) ->
         [s EXCEPT !.matched = @ + 1,
                   !.kept = IF Len(@) < f.limit THEN @ \o <<line>> ELSE Tail(@) \o <<line>>]
    [] OTHER -> s

(* A line is read, or the end is reached; the deadline is looked at once   *)
(* in so many lines.                                                       *)
ScanLog ==
  /\ srv = "scanning"
  /\ IF scan.pos > 0 /\ scan.pos % CheckEvery = 0 /\ expired
     THEN Fail("timeout", "deadline") /\ UNCHANGED <<scan, view>>
     ELSE IF scan.pos < Len(log)
     THEN /\ scan' = [Take(scan, ask, log[scan.pos + 1]) EXCEPT !.pos = @ + 1]
          /\ UNCHANGED <<srv, reply, fault, view>>
     ELSE /\ \E text \in Texts : Answer(Ok(text), "none")
          /\ view' = [filter |-> ask, lines |-> log, scan |-> scan]
          /\ UNCHANGED scan
  /\ UNCHANGED <<calling, ask, log, expired>>

(* A read fails.                                                           *)
ScanFails ==
  /\ srv = "scanning"
  /\ IF expired THEN Fail("timeout", "deadline") ELSE Fail("error", "dependency")
  /\ UNCHANGED <<calling, ask, log, scan, expired, view>>

-----------------------------------------------------------------------------
(* prometheus_query                                                        *)

RoundToSecond(d) == ((d + 1) \div 2) * 2

(* The step of a range query, None when the one asked for is refused.      *)
ResolveStep(raw, span) ==
  IF raw = None
  THEN LET step == RoundToSecond(span \div StepDivisor)
       IN IF step < MinStep THEN MinStep ELSE step
  ELSE IF raw < MinStep \/ raw > span THEN None ELSE raw

(* The handler is entered: an instant query, or a range.  An empty query   *)
(* and a window half given or the wrong way round are "wrong".             *)
PrometheusQuery ==
  /\ calling = "prometheus_query" /\ srv = "idle"
  /\ \E wrong, ranged \in BOOLEAN, span \in Spans, raw \in Steps \cup {None} :
       LET step == ResolveStep(raw, span) IN
       IF wrong \/ (ranged /\ (span > MaxRange \/ step = None))
       THEN Refuse /\ UNCHANGED ask
       ELSE /\ srv' = "asking"
            /\ ask' = [step |-> IF ranged THEN step ELSE None]
            /\ UNCHANGED <<reply, fault>>
  /\ UNCHANGED <<calling, log, scan, expired, view>>

(* No answer from Prometheus, or its headers.                              *)
GetPrometheus ==
  /\ srv = "asking"
  /\ \/ IF expired THEN Fail("timeout", "deadline") ELSE Fail("error", "dependency")
     \/ srv' = "reading" /\ UNCHANGED <<reply, fault>>
  /\ UNCHANGED <<calling, ask, log, scan, expired, view>>

Less(a, b) == a # NaN /\ b # NaN /\ a < b

(* The summary with one more point.                                        *)
With(stats, p) ==
  [min  |-> IF Less(p, stats.min) THEN p ELSE stats.min,
   max  |-> IF Less(stats.max, p) THEN p ELSE stats.max,
   last |-> p]

Describe(points) ==
  LET first == [min |-> points[1], max |-> points[1], last |-> points[1]]
      upTo[n \in 0..Len(points)] ==
        IF n = 0 THEN first ELSE With(upTo[n - 1], points[n])
  IN upTo[Len(points)]

(* The points shown of so many: evenly spaced, by their numbers.           *)
Sample(len, n) ==
  IF len <= n THEN [i \in 1..len |-> i]
  ELSE [i \in 1..n |-> ((i - 1) * (len - 1)) \div (n - 1) + 1]

(* The body is read whatever the status; it may break off.                 *)
BodyLost ==
  Fail("error", IF expired THEN "late body" ELSE "dependency") /\ UNCHANGED view

(* A status that is not the query API's, a body that is not JSON, or one   *)
(* whose result is of no known type or does not decode.                    *)
Undecodable == Fail("error", "dependency") /\ UNCHANGED view

(* The query is rejected, or matches too many series: the answer names the *)
(* metrics there are.                                                      *)
OverCap == Refuse /\ UNCHANGED view

(* A scalar, a string, a vector, or a matrix of no points.                 *)
RenderValues == \E text \in Texts : Answer(Ok(text), "none") /\ UNCHANGED view

(* A matrix, one of its series.                                            *)
RenderSeries ==
  \E n \in 1..MaxPoints : \E points \in [1..n -> Values \cup {NaN}] :
    /\ Answer(Ok(<<>>), "none")
    /\ view' = [step |-> ask.step, points |-> points, stats |-> Describe(points),
                shown |-> Sample(n, Rendered)]

ReadBody ==
  /\ srv = "reading"
  /\ BodyLost \/ Undecodable \/ OverCap \/ RenderValues \/ RenderSeries
  /\ UNCHANGED <<calling, ask, log, scan, expired>>

-----------------------------------------------------------------------------
(* http_probe                                                              *)

(* The handler is entered; a service that is not known and a path that     *)
(* would leave it are refused.                                             *)
HttpProbe ==
  /\ calling = "http_probe" /\ srv = "idle"
  /\ \/ Refuse
     \/ srv' = "probing" /\ UNCHANGED <<reply, fault>>
  /\ UNCHANGED <<calling, ask, log, scan, expired, view>>

(* A response of any status is an answer, and so is one whose body breaks  *)
(* off; only no response is a failure.                                     *)
Probe ==
  /\ srv = "probing"
  /\ \/ IF expired THEN Fail("timeout", "deadline") ELSE Fail("error", "dependency")
     \/ \E text \in Texts, why \in {"none", "cut"} : Answer(Ok(text), why)
  /\ UNCHANGED <<calling, ask, log, scan, expired, view>>

-----------------------------------------------------------------------------
(* The deadline of the handler passes.                                     *)
Deadline ==
  /\ srv \in {"scanning", "asking", "reading", "probing"} /\ ~expired
  /\ expired' = TRUE
  /\ UNCHANGED <<calling, srv, ask, log, scan, fault, reply, view>>

(* Arguments the schema does not allow.                                    *)
SchemaRejects ==
  /\ calling # None /\ srv = "idle"
  /\ \E note \in Texts : Answer(Rejected(note), "model")
  /\ UNCHANGED <<calling, ask, log, scan, expired, view>>

ToolNext ==
  \/ ReadServiceLogs \/ ScanLog \/ ScanFails \/ PrometheusQuery \/ GetPrometheus \/ ReadBody
  \/ HttpProbe \/ Probe \/ Deadline \/ SchemaRejects
  \/ \E line \in Lines : LogLine(line)

-----------------------------------------------------------------------------
(* The log tool answers with the newest records of the window and nothing  *)
(* else, oldest first, as many as were asked for; every line up to where   *)
(* the reading ended is counted once, whatever was appended meanwhile; and *)
(* windows that meet share no record and miss none (scanLog, matches).     *)
LogAnswer ==
  view # None /\ calling = "read_service_logs" =>
    LET f == view.filter
        wanted == {i \in 1..Len(view.lines) :
                    LET l == view.lines[i] IN
                    /\ l.sort = "record" /\ l.level >= f.level /\ (f.contains => l.hit)
                    /\ f.since <= l.at
                    /\ f.until = 0 \/ l.at < f.until}
        all == Cardinality(wanted)
        n == LesserOf(f.limit, all)
    IN /\ \E place \in [1..all -> wanted] :
            /\ \A i, j \in 1..all : i < j => place[i] < place[j]
            /\ view.scan.kept = [i \in 1..n |-> view.lines[place[all - n + i]]]
       /\ view.scan.matched = all
       /\ view.scan.unparseable =
            Cardinality({i \in 1..Len(view.lines) : view.lines[i].sort \in {"bad", "long"}})
       /\ \A i \in 1..Len(view.lines), t \in Times \ {0} :
            LET l == view.lines[i]
                whole == [f EXCEPT !.since = 0, !.until = 0]
            IN l.sort = "record" /\ Matches(whole, l) =>
                 Matches([whole EXCEPT !.until = t], l) # Matches([whole EXCEPT !.since = t], l)

(* What is shown of a series begins with its first point and ends with its *)
(* last, skips forward evenly, and comes with its true least and greatest  *)
(* value and where it ended, in whatever order its values come, and at no  *)
(* finer a step than the server allows; the summary of a series that begins with *)
(* NaN is the exception (sample, describe, resolveStep).                   *)
RangeAnswer ==
  view # None /\ calling = "prometheus_query" =>
    LET p == view.points
        s == view.shown
        numbers == {p[i] : i \in 1..Len(p)} \ {NaN}
    IN /\ Len(s) = LesserOf(Len(p), Rendered)
       /\ s[1] = 1 /\ s[Len(s)] = Len(p)
       /\ \A i \in 1..(Len(s) - 1) :
            /\ s[i] < s[i + 1]
            /\ \A j \in 1..(Len(s) - 1) : (s[i + 1] - s[i]) - (s[j + 1] - s[j]) <= 1
       /\ view.step # None => view.step >= MinStep
       /\ view.stats.last = p[Len(p)]
       /\ p[1] # NaN => /\ view.stats.min \in numbers /\ view.stats.max \in numbers
                        /\ \A v \in numbers : view.stats.min <= v /\ v <= view.stats.max

(* The text of every answer that is no error, a refusal's too, fits the    *)
(* cap with the note that it was cut, says so exactly when it was, and     *)
(* gives up no more than a rune for it (ok).  An error's note is whole     *)
(* whatever its length: the cap of "what leaves this server" (result.go)   *)
(* does not hold of it, which README section 7 reports.                    *)
ResultFits ==
  reply # None /\ ~reply.isError =>
    /\ reply.size <= LimitBytes
    /\ reply.truncated <=> reply.original > LimitBytes
    /\ reply.truncated => reply.size > LimitBytes - 4

(* Each of the three, for whichever tool answers.                          *)
AnswerHolds == LogAnswer /\ RangeAnswer /\ ResultFits

=============================================================================
