--------------------------- MODULE RunStreamProofs ---------------------------
(***************************************************************************)
(* Proofs about RunStream: no event is sent twice or passed over, the      *)
(* screen is never spliced and never ahead of the database, and a page     *)
(* that has stopped shows what is true, for every number of steps,         *)
(* attempts and faults.                                                    *)
(***************************************************************************)
EXTENDS RunStream, SequenceTheorems, TLAPS

Names == {"run.started", "step.completed", "run.finished"}

Event == [id : Nat, name : Names, attempt : Nat, number : Nat]
Shown == [number : Nat, attempt : Nat]

RowType    == [status : {"NONE", "PENDING", "RUNNING"} \cup Ended, attempts : Nat]
WriterType == [pc : {"none", "trim", "loop", "failed"} \cup Publishing, number : Nat]

TypeOK ==
  /\ row \in RowType /\ steps \in SUBSET Nat /\ writer \in WriterType
  /\ stream \in Seq(Event) /\ lastId \in Nat
  /\ sse \in {"none", "replay", "follow", "ask", "done"}
  /\ after \in Nat /\ wire \in Seq(Event)
  /\ page \in {"closed", "open", "open steps", "connect", "live", "reload",
               "reload steps", "settled", "error"}
  /\ last \in Nat /\ over \in BOOLEAN /\ shown \in SUBSET Shown

(* Redis gives each entry the next id, so that a stream is an interval of  *)
(* ids that ends with the last one given.                                  *)
StreamKept ==
  /\ Len(stream) <= lastId
  /\ \A i \in 1..Len(stream) : stream[i].id + Len(stream) = lastId + i

(* The connection holds what lies between the last id the page has had and *)
(* the last one the handler has read.                                      *)
WireKept ==
  /\ page = "live" <=> sse # "none"
  /\ sse = "none" => wire = << >> /\ after = 0
  /\ page \in {"closed", "open", "open steps"} => last = 0
  /\ sse # "none" => after = IF wire = << >> THEN last ELSE wire[Len(wire)].id
  /\ last <= lastId /\ after <= lastId
  /\ \A i \in 1..Len(wire) : wire[i].id > last
  /\ \A i, j \in 1..Len(wire) : i < j => wire[i].id < wire[j].id
  /\ sse # "none" => \A i \in 1..Len(stream) :
       stream[i].id > last /\ stream[i].id <= after =>
         \E j \in 1..Len(wire) : wire[j] = stream[i]

(* What an event or a step on the screen says is in the database, or was   *)
(* until a restart.                                                        *)
Known(r, kept, e) == \/ e.attempt < r.attempts
                     \/ e.attempt = r.attempts /\ e.number \in kept

Told(r, kept, e) == /\ e.name = "step.completed" => Known(r, kept, e)
                    /\ e.name = "run.finished" => r.status \in Ended

FactsKept ==
  /\ row.status \in Ended => writer.pc \in {"finished", "none"}
  /\ writer.pc = "finished" => row.status \in Ended
  /\ writer.pc = "publish" => writer.number \in steps
  /\ \A i \in 1..Len(stream) : Told(row, steps, stream[i])
  /\ \A i \in 1..Len(wire) : Told(row, steps, wire[i])
  /\ \A s \in shown : Known(row, steps, s)

(* Why the page stopped, or is about to.                                   *)
PageKept ==
  /\ page \in {"open steps", "reload steps"} /\ over => row.status \in Ended
  /\ page = "reload" => refused \/ row.status \in Ended
  /\ page = "reload steps" /\ ~over => refused
  /\ SettledIsTruth

(* Consecutive events are of one attempt, unless the second begins its own.*)
Follows(e, f) == f.name # "run.started" => f.attempt = e.attempt

Chained(s) == \A i \in 1..Len(s) : i > 1 => Follows(s[i - 1], s[i])

(* Until Redis loses a run.started: a stream begins with one, its events   *)
(* and those on the wire follow each other, and what the page shows is of  *)
(* the attempt its next event is of.                                       *)
Begun    == stream # << >> => stream[1].name = "run.started"
Current  == writer.pc \in {"loop", "publish", "failed", "finished"} =>
              stream # << >> /\ stream[Len(stream)].attempt = row.attempts
Ahead    == wire # << >> => \A s \in shown : Follows(s, wire[1])
Resumed  == page \in {"connect", "live"} =>
              \A i \in 1..Len(stream) : stream[i].id = last =>
                \A s \in shown : s.attempt = stream[i].attempt
OfOne(p) == \A s, t \in p : s.attempt = t.attempt

Spliceless == /\ Begun /\ Current /\ Chained(stream) /\ Chained(wire)
              /\ Ahead /\ Resumed /\ OfOne(shown)

WatchInv == /\ TypeOK /\ StreamKept /\ WireKept /\ FactsKept /\ PageKept
            /\ ~torn => Spliceless

-----------------------------------------------------------------------------
(* Sequences of entries in the order of their ids                          *)

(* Ids, as a function of the position.                                     *)
LEMMA ReadUpTo ==
  ASSUME NEW k \in Nat, NEW f \in [1..k -> Nat], NEW top \in Nat, NEW id \in Nat,
         k <= top, \A i \in 1..k : f[i] + k = top + i
  PROVE  \E n \in 0..k : \A i \in 1..k : i > n <=> f[i] > id
<1>1. CASE id + k <= top
  <2>1. \A i \in 1..k : i > 0 <=> f[i] > id
    BY <1>1
  <2>2. 0 \in 0..k
    OBVIOUS
  <2> QED BY <2>1, <2>2
<1>2. CASE id >= top
  <2>1. \A i \in 1..k : i > k <=> f[i] > id
    BY <1>2
  <2> QED BY <2>1
<1>3. CASE ~(id + k <= top) /\ ~(id >= top)
  <2> DEFINE m == (id + k) - top
  <2>1. m \in 0..k
    BY <1>3
  <2>2. \A i \in 1..k : i > m <=> f[i] > id
    BY <1>3
  <2> HIDE DEF m
  <2> QED BY <2>1, <2>2
<1> QED BY <1>1, <1>2, <1>3

(* v is b added to a, e the end of s after its first n.                    *)
Joins(v, a, b) ==
  /\ Len(v) = Len(a) + Len(b)
  /\ \A i \in 1..Len(a) : i \in 1..Len(v) /\ v[i] = a[i]
  /\ \A i \in 1..Len(b) : Len(a) + i \in 1..Len(v) /\ v[Len(a) + i] = b[i]
  /\ \A i \in 1..Len(v) : i \in 1..Len(a) \/ \E k \in 1..Len(b) : i = Len(a) + k

EndAfter(e, s, n) ==
  /\ n + Len(e) = Len(s)
  /\ \A i \in 1..Len(e) : n + i \in 1..Len(s) /\ e[i] = s[n + i]
  /\ \A i \in 1..Len(s) : i > n => \E k \in 1..Len(e) : i = n + k

(* Nothing is at a place of the empty sequence.                            *)
LEMMA NoPlace == \A w : w = << >> => \A i \in 1..Len(w) : FALSE
<1>1. Len(<< >>) = 0 /\ \A i \in 1..0 : FALSE
  BY EmptySeq
<1> QED BY <1>1

(* What is added to a sequence, and where it is then.                      *)
LEMMA Joined ==
  ASSUME NEW S, NEW a \in Seq(S), NEW b \in Seq(S)
  PROVE  a \o b \in Seq(S) /\ Joins(a \o b, a, b)
<1>1. \A i \in 1..Len(a \o b) : i \in 1..Len(a) \/ \E k \in 1..Len(b) : i = Len(a) + k
  <2>1. TAKE i \in 1..Len(a \o b)
  <2>2. CASE i <= Len(a)
    BY <2>2, ConcatProperties
  <2>3. CASE i > Len(a)
    <3>1. i - Len(a) \in 1..Len(b) /\ i = Len(a) + (i - Len(a))
      BY <2>3, ConcatProperties
    <3> QED BY <3>1
  <2> QED BY <2>2, <2>3, ConcatProperties
<1> QED BY <1>1, ConcatProperties DEF Joins

(* The end of a sequence, after its first n.                               *)
LEMMA EndOf ==
  ASSUME NEW S, NEW s \in Seq(S), NEW n \in 0..Len(s), NEW e, e = SubSeq(s, n + 1, Len(s))
  PROVE  e \in Seq(S) /\ EndAfter(e, s, n)
<1>1. e \in Seq(S) /\ Len(e) = Len(s) - n /\ \A i \in 1..Len(e) : e[i] = s[n + i]
  <2>1. n + 1 \in 1..(Len(s) + 1) /\ Len(s) \in (n + 1) - 1..Len(s)
    BY LenProperties
  <2> QED BY <2>1, SubSeqProperties
<1>2. Len(s) \in Nat /\ Len(e) \in Nat /\ n \in Nat /\ Len(e) = Len(s) - n
  BY <1>1, LenProperties
<1>3. \A i \in 1..Len(s) : i > n => i - n \in 1..Len(e) /\ i = n + (i - n)
  BY <1>2
<1>4. n + Len(e) = Len(s) /\ \A i \in 1..Len(e) : n + i \in 1..Len(s)
  BY <1>2
<1> QED BY <1>1, <1>3, <1>4 DEF EndAfter

(* What the handler reads is the end of the stream after the id it is at.  *)
LEMMA Unread ==
  ASSUME TypeOK, StreamKept, NEW id \in Nat
  PROVE  /\ Entries(id) \in Seq(Event)
         /\ \E n \in 0..Len(stream) : /\ EndAfter(Entries(id), stream, n)
                                       /\ \A i \in 1..Len(stream) : i > n <=> stream[i].id > id
<1>1. stream \in Seq(Event) /\ Len(stream) \in Nat /\ DOMAIN stream = 1..Len(stream) /\ lastId \in Nat
  BY LenProperties DEF TypeOK
<1>2. \E n \in 0..Len(stream) : \A i \in DOMAIN stream : i > n <=> stream[i].id > id
  <2> DEFINE f == [i \in 1..Len(stream) |-> stream[i].id]
  <2>1. f \in [1..Len(stream) -> Nat]
    <3>1. \A i \in 1..Len(stream) : stream[i] \in Event
      BY <1>1, ElementOfSeq
    <3>2. \A e \in Event : e.id \in Nat
      BY DEF Event
    <3> QED BY <3>1, <3>2
  <2>2. Len(stream) <= lastId /\ \A i \in 1..Len(stream) : f[i] + Len(stream) = lastId + i
    BY DEF StreamKept
  <2> HIDE DEF f
  <2>3. \E n \in 0..Len(stream) : \A i \in 1..Len(stream) : i > n <=> f[i] > id
    BY <1>1, <2>1, <2>2, ReadUpTo
  <2> QED BY <1>1, <2>3 DEF f
<1> DEFINE n == CHOOSE k \in 0..Len(stream) : \A i \in DOMAIN stream : i > k <=> stream[i].id > id
<1>3. n \in 0..Len(stream) /\ \A i \in DOMAIN stream : i > n <=> stream[i].id > id
  BY <1>2
<1> DEFINE e == Entries(id)
<1>4. e = SubSeq(stream, n + 1, Len(stream))
  BY DEF Entries
<1> HIDE DEF n, e
<1>5. e \in Seq(Event) /\ EndAfter(e, stream, n)
  <2>1. stream \in Seq(Event) /\ n \in 0..Len(stream)
    BY <1>1, <1>3
  <2> QED BY <1>4, <2>1, EndOf
<1>6. \E m \in 0..Len(stream) : /\ EndAfter(e, stream, m)
                                /\ \A i \in 1..Len(stream) : i > m <=> stream[i].id > id
  BY <1>1, <1>3, <1>5
<1> QED BY <1>5, <1>6 DEF e

-----------------------------------------------------------------------------
(* What the steps do, one kind for each reason a variable changes          *)

(* The worker and Redis: the stream is as it was, emptied, or one longer.  *)
NewEvent == [id |-> lastId + 1, name |-> EventOf[writer.pc],
             attempt |-> row.attempts, number |-> writer.number]

WriterMoves ==
  /\ UNCHANGED <<connection, browser>>
  /\ \/ UNCHANGED <<stream, lastId>>
     \/ stream' = << >> /\ UNCHANGED lastId
     \/ /\ writer.pc \in Publishing
        /\ stream' = Append(stream, NewEvent) /\ lastId' = lastId + 1

(* The handler: it sends what it had not read, or waits.                   *)
Receives ==
  /\ sse \in {"replay", "follow"}
  /\ Send(Entries(after), "follow")
  /\ UNCHANGED <<database, writer, redis, browser>>

Waits ==
  /\ sse # "none" /\ sse' \in {"follow", "ask", "done"}
  /\ UNCHANGED <<database, writer, redis, after, wire, browser>>

(* The page: it reads the run, subscribes, or loses its connection.        *)
Views ==
  /\ page \notin {"connect", "live"} /\ page' \notin {"closed", "live"}
  /\ page' \in {"open", "open steps"} => page \in {"closed", "open"}
  /\ page' = "connect" => page = "open steps"
  /\ UNCHANGED <<database, writer, redis, connection, last>>

Connects ==
  /\ page = "connect" /\ page' = "live"
  /\ sse' = "replay" /\ after' = last /\ wire' = << >>
  /\ UNCHANGED <<database, writer, redis, last, over, shown, refused>>

Closes ==
  /\ page \in {"connect", "live"} /\ page' \in {"connect", "reload"}
  /\ CloseStream
  /\ UNCHANGED <<database, writer, redis, last, over, shown>>

(* Every step is of one of the seven kinds.                                *)
LEMMA Kinds ==
  ASSUME TypeOK, WireKept, [Next]_vars
  PROVE  WriterMoves \/ Receives \/ Waits \/ Views \/ Connects \/ Closes \/ Deliver
<1>1. CASE CreateRun \/ ClaimRun \/ Trim \/ CreateStep \/ StepFails \/ FinishRun
           \/ Crash \/ StreamLost \/ RedisFails
  BY <1>1 DEF CreateRun, ClaimRun, Trim, CreateStep, StepFails, FinishRun, Crash, StreamLost,
     RedisFails, WriterMoves, redis
<1>2. CASE Publish
  BY <1>2 DEF Publish, Add, NewEvent, WriterMoves
<1>3. CASE Replay \/ Follow
  BY <1>3 DEF Replay, Follow, Receives
<1>4. CASE FollowIdle \/ Finished \/ ReadFails
  BY <1>4 DEF FollowIdle, Finished, ReadFails, Waits
<1>5. CASE OpenRun
  BY <1>5 DEF OpenRun, Views, WireKept
<1>6. CASE GetRun \/ ListSteps \/ GetFails
  BY <1>6 DEF GetRun, ListSteps, GetFails, Views
<1>7. CASE Connect
  BY <1>7 DEF Connect, Connects, Closes
<1>8. CASE ConnectRefused \/ Disconnect \/ Reconnect
  BY <1>8 DEF ConnectRefused, Disconnect, Reconnect, Closes
<1>9. CASE Deliver
  BY <1>9
<1>10. CASE UNCHANGED vars
  BY <1>10 DEF vars, WriterMoves, connection, browser
<1> QED BY <1>1, <1>2, <1>3, <1>4, <1>5, <1>6, <1>7, <1>8, <1>9, <1>10
        DEF Next, Writer, Handler, Page

(* An event published is an event.                                         *)
LEMMA NewIsEvent ==
  ASSUME TypeOK, writer.pc \in Publishing
  PROVE  NewEvent \in Event
<1>1. lastId \in Nat /\ row.attempts \in Nat /\ writer.number \in Nat
  BY DEF TypeOK, RowType, WriterType
<1>3. lastId + 1 \in Nat
  BY <1>1
<1>2. EventOf[writer.pc] \in Names
  BY DEF EventOf, Publishing, Names
<1> QED BY <1>1, <1>2, <1>3 DEF NewEvent, Event

(* The frame at the head of the wire, and those behind it.                 *)
LEMMA HeadOfWire ==
  ASSUME NEW S, NEW w \in Seq(S), w # << >>
  PROVE  /\ Head(w) \in S /\ Head(w) = w[1] /\ Len(w) \in Nat /\ 1 \in 1..Len(w)
         /\ Tail(w) \in Seq(S) /\ Len(w) = Len(Tail(w)) + 1
         /\ \A i \in 1..Len(Tail(w)) : i + 1 \in 1..Len(w) /\ Tail(w)[i] = w[i + 1]
         /\ \A i \in 1..Len(w) : i = 1 \/ \E k \in 1..Len(Tail(w)) : i = k + 1
<1>1. Len(w) \in Nat /\ Len(w) # 0
  BY EmptySeq, LenProperties
<1>2. /\ Head(w) \in S /\ Tail(w) \in Seq(S) /\ Len(Tail(w)) = Len(w) - 1
      /\ \A i \in 1..Len(Tail(w)) : Tail(w)[i] = w[i + 1]
  BY HeadTailProperties
<1>3. \A i \in 1..Len(w) : i = 1 \/ (i - 1 \in 1..Len(Tail(w)) /\ i = (i - 1) + 1)
  BY <1>1, <1>2
<1> QED BY <1>1, <1>2, <1>3

(* What a Send puts on the wire.                                           *)
LEMMA SendTypes ==
  ASSUME TypeOK, StreamKept, Receives
  PROVE  wire' \in Seq(Event) /\ after' \in Nat /\ sse' \in {"follow", "done"}
<1> DEFINE e == Entries(after)
<1>1. e \in Seq(Event) /\ wire \in Seq(Event) /\ after \in Nat
  BY Unread DEF TypeOK
<1>2. wire' = wire \o e /\ after' = (IF e = << >> THEN after ELSE e[Len(e)].id)
      /\ sse' \in {"follow", "done"}
  BY DEF Receives, Send
<1> HIDE DEF e
<1>3. wire' \in Seq(Event)
  BY <1>1, <1>2, ConcatProperties
<1>4. CASE e # << >>
  <2>1. e[Len(e)] \in Event
    BY <1>1, <1>4, EmptySeq, LenProperties, ElementOfSeq
  <2> QED BY <1>2, <1>3, <1>4, <2>1 DEF Event
<1> QED BY <1>1, <1>2, <1>3, <1>4

(* A step keeps the types.                                                 *)
LEMMA TypeStep ==
  ASSUME TypeOK, StreamKept, [Next]_vars
  PROVE  TypeOK'
<1>0. /\ row \in RowType /\ row.attempts + 1 \in Nat /\ row.attempts \in Nat
      /\ writer \in WriterType /\ writer.number \in Nat /\ writer.number + 1 \in Nat
      /\ lastId \in Nat /\ lastId + 1 \in Nat /\ 0 \in Nat
  <2>1. row \in RowType /\ writer \in WriterType /\ lastId \in Nat
    BY DEF TypeOK
  <2>2. row.attempts \in Nat /\ writer.number \in Nat
    BY <2>1 DEF RowType, WriterType
  <2> QED BY <2>1, <2>2
<1>1. ASSUME NEW pc \in {"none", "trim", "loop", "failed"} \cup Publishing, Goto(pc)
      PROVE  writer' \in WriterType
  BY <1>0, <1>1 DEF Goto, WriterType
<1>2. << >> \in Seq(Event)
  BY EmptySeq
<1>3. CASE CreateRun
  <2>1. row' \in RowType
    BY <1>0, <1>3 DEF CreateRun, RowType
  <2> QED BY <1>3, <2>1 DEF CreateRun, TypeOK, redis, connection, browser
<1>4. CASE ClaimRun
  <2>1. row' \in RowType /\ writer' \in WriterType /\ steps' \in SUBSET Nat
    BY <1>0, <1>4 DEF ClaimRun, RowType, WriterType
  <2> QED BY <1>4, <2>1 DEF ClaimRun, TypeOK, redis, connection, browser
<1>5. CASE Trim
  <2>1. writer' \in WriterType
    BY <1>1, <1>5 DEF Trim, Publishing
  <2> QED BY <1>2, <1>5, <2>1 DEF Trim, TypeOK, database, connection, browser
<1>6. CASE Publish
  <2>1. writer' \in WriterType
    BY <1>1, <1>6 DEF Publish, Published
  <2>2. stream' \in Seq(Event) /\ lastId' \in Nat
    <3>1. stream' = Append(stream, NewEvent) /\ lastId' = lastId + 1 /\ NewEvent \in Event
      BY <1>6, NewIsEvent DEF Publish, Add, NewEvent
    <3>2. stream \in Seq(Event)
      BY DEF TypeOK
    <3> QED BY <1>0, <3>1, <3>2, AppendProperties
  <2> QED BY <1>6, <2>1, <2>2 DEF Publish, TypeOK, database, connection, browser
<1>7. CASE RedisFails
  <2>1. writer' \in WriterType
    BY <1>1, <1>7 DEF RedisFails, Published, Publishing
  <2> QED BY <1>7, <2>1 DEF RedisFails, TypeOK, database, connection, browser
<1>8. CASE CreateStep \/ StepFails
  <2>1. steps \in SUBSET Nat /\ steps \cup {writer.number + 1} \in SUBSET Nat
    BY <1>0 DEF TypeOK
  <2>2. steps' \in SUBSET Nat
    BY <1>8, <2>1 DEF CreateStep, StepFails
  <2>3. writer' \in WriterType
    <3>1. CASE CreateStep
      BY <1>0, <3>1 DEF CreateStep, WriterType, Publishing
    <3>2. CASE StepFails
      BY <1>1, <3>2 DEF StepFails
    <3> QED BY <1>8, <3>1, <3>2
  <2> QED BY <1>8, <2>2, <2>3 DEF CreateStep, StepFails, TypeOK, redis, connection, browser
<1>9. CASE FinishRun
  <2>1. row' \in RowType /\ writer' \in WriterType
    BY <1>0, <1>1, <1>9 DEF FinishRun, RowType, Ended, Publishing
  <2> QED BY <1>9, <2>1 DEF FinishRun, TypeOK, redis, connection, browser
<1>10. CASE Crash
  <2>1. writer' \in WriterType
    BY <1>1, <1>10 DEF Crash
  <2> QED BY <1>10, <2>1 DEF Crash, TypeOK, database, redis, connection, browser
<1>11. CASE StreamLost
  BY <1>2, <1>11 DEF StreamLost, TypeOK, database, connection, browser
<1>12. CASE Replay \/ Follow
  <2>1. Receives
    BY <1>12 DEF Replay, Follow, Receives
  <2>2. wire' \in Seq(Event) /\ after' \in Nat /\ sse' \in {"follow", "done"}
    BY <2>1, SendTypes
  <2> QED BY <2>1, <2>2 DEF Receives, TypeOK, database, redis, browser
<1>13. CASE FollowIdle \/ Finished \/ ReadFails
  BY <1>13 DEF FollowIdle, Finished, ReadFails, TypeOK, database, redis, browser
<1>14. CASE OpenRun
  BY <1>0, <1>14 DEF OpenRun, TypeOK, database, redis, connection
<1>15. CASE GetRun
  <2>1. over' \in BOOLEAN
    <3>1. over' = (row.status \in Ended)
      BY <1>15 DEF GetRun
    <3> QED BY <3>1
  <2> QED BY <1>15, <2>1 DEF GetRun, TypeOK, database, redis, connection
<1>16. CASE ListSteps
  <2>1. shown' \in SUBSET Shown
    <3>1. steps \in SUBSET Nat
      BY DEF TypeOK
    <3>2. shown' = {[number |-> n, attempt |-> row.attempts] : n \in steps}
      BY <1>16 DEF ListSteps
    <3>3. \A n \in steps : [number |-> n, attempt |-> row.attempts] \in Shown
      BY <1>0, <3>1 DEF Shown
    <3> QED BY <3>2, <3>3
  <2>2. page' \in {"connect", "settled"}
    BY <1>16 DEF ListSteps
  <2> QED BY <1>16, <2>1, <2>2 DEF ListSteps, TypeOK, database, redis, connection
<1>17. CASE GetFails
  BY <1>17 DEF GetFails, TypeOK, database, redis, connection
<1>18. CASE Connect \/ ConnectRefused \/ Disconnect \/ Reconnect
  BY <1>0, <1>2, <1>18 DEF Connect, ConnectRefused, Disconnect, Reconnect, CloseStream,
     TypeOK, database, redis
<1>19. CASE Deliver
  <2>1. /\ wire \in Seq(Event) /\ wire # << >> /\ shown \in SUBSET Shown
        /\ last' = Head(wire).id /\ shown' = ShownAfter(Head(wire))
    BY <1>19 DEF Deliver, TypeOK
  <2>2. Head(wire) \in Event /\ Tail(wire) \in Seq(Event)
    BY <2>1, HeadOfWire
  <2>3. last' \in Nat
    BY <2>1, <2>2 DEF Event
  <2>4. shown' \in SUBSET Shown
    BY <2>1, <2>2 DEF ShownAfter, Event, Shown
  <2>5. wire' \in Seq(Event) /\ after' \in Nat /\ page' \in {page, "reload"}
        /\ sse' \in {sse, "none"}
    BY <1>0, <1>2, <1>19, <2>2 DEF Deliver, CloseStream, TypeOK
  <2> QED BY <1>19, <2>3, <2>4, <2>5 DEF Deliver, TypeOK, database, redis
<1>20. CASE UNCHANGED vars
  BY <1>20 DEF vars, TypeOK
<1> QED BY <1>3, <1>4, <1>5, <1>6, <1>7, <1>8, <1>9, <1>10, <1>11, <1>12, <1>13, <1>14,
           <1>15, <1>16, <1>17, <1>18, <1>19, <1>20 DEF Next, Writer, Handler, Page

(* A step keeps a stream an interval of ids that ends with the last one    *)
(* given: Add (XADD) puts the next id at the end, and Trim and StreamLost  *)
(* leave nothing.                                                          *)
LEMMA StreamStep ==
  ASSUME TypeOK, StreamKept, WireKept, [Next]_vars
  PROVE  StreamKept'
<1>1. CASE UNCHANGED <<stream, lastId>>
  BY <1>1 DEF StreamKept
<1>2. stream \in Seq(Event) /\ lastId \in Nat /\ Len(stream) \in Nat
  BY LenProperties DEF TypeOK
<1>3. CASE stream' = << >> /\ lastId' = lastId
  BY <1>2, <1>3, EmptySeq DEF StreamKept
<1>4. CASE writer.pc \in Publishing /\ stream' = Append(stream, NewEvent) /\ lastId' = lastId + 1
  <2>1. NewEvent \in Event /\ NewEvent.id = lastId + 1
    BY <1>4, NewIsEvent DEF NewEvent
  <2>2. /\ Len(stream') = Len(stream) + 1 /\ stream'[Len(stream) + 1] = NewEvent
        /\ \A i \in 1..Len(stream) : stream'[i] = stream[i]
    BY <1>2, <1>4, <2>1, AppendProperties
  <2>3. \A i \in 1..(Len(stream) + 1) : i \in 1..Len(stream) \/ i = Len(stream) + 1
    BY <1>2
  <2>4. \A i \in 1..Len(stream) : stream[i].id \in Nat
    <3>1. \A i \in 1..Len(stream) : stream[i] \in Event
      BY <1>2, ElementOfSeq
    <3> QED BY <3>1 DEF Event
  <2>5. Len(stream) <= lastId /\ \A i \in 1..Len(stream) : stream[i].id + Len(stream) = lastId + i
    BY DEF StreamKept
  <2>6. Len(stream') <= lastId'
    BY <1>2, <1>4, <2>2, <2>5
  <2>7. ASSUME NEW i \in 1..Len(stream')
        PROVE  stream'[i].id + Len(stream') = lastId' + i
    <3>1. CASE i \in 1..Len(stream)
      <4>1. stream'[i].id = stream[i].id /\ stream[i].id \in Nat
            /\ stream[i].id + Len(stream) = lastId + i /\ i \in Nat
        BY <2>2, <2>4, <2>5, <3>1
      <4>2. stream[i].id + (Len(stream) + 1) = (lastId + 1) + i
        BY <1>2, <4>1
      <4> QED BY <1>4, <2>2, <4>1, <4>2
    <3>2. CASE i = Len(stream) + 1
      BY <1>2, <1>4, <2>1, <2>2, <3>2
    <3> QED BY <2>2, <2>3, <3>1, <3>2
  <2> QED BY <2>6, <2>7 DEF StreamKept
<1> QED BY <1>1, <1>3, <1>4, Kinds DEF WriterMoves, Receives, Waits, Views, Connects, Closes,
        Deliver, redis

-----------------------------------------------------------------------------
(* The wire                                                                *)

(* An event has an id.                                                     *)
LEMMA EventId == \A e \in Event : e.id \in Nat
BY DEF Event

(* The frames of a sequence have ids.                                      *)
LEMMA Ids ==
  ASSUME NEW w \in Seq(Event)
  PROVE  /\ Len(w) \in Nat /\ (w = << >> <=> Len(w) = 0)
         /\ \A i \in 1..Len(w) : w[i] \in Event /\ w[i].id \in Nat
BY EventId, ElementOfSeq, EmptySeq, LenProperties

(* In the order of their ids.                                              *)
Rising(s) == \A i, j \in 1..Len(s) : i < j => s[i].id < s[j].id

(* From the last id delivered to the last one read: the frames between are *)
(* in order, and those the stream still has are all there.                 *)
Bridge(s, w, l, a) ==
  /\ a = IF w = << >> THEN l ELSE w[Len(w)].id
  /\ \A i \in 1..Len(w) : w[i].id > l
  /\ \A i, j \in 1..Len(w) : i < j => w[i].id < w[j].id
  /\ \A i \in 1..Len(s) : s[i].id > l /\ s[i].id <= a => \E j \in 1..Len(w) : w[j] = s[i]

(* The handler is never behind the page, and has sent nothing it has not   *)
(* read.                                                                   *)
LEMMA BridgeEnds ==
  ASSUME NEW s, NEW w \in Seq(Event), NEW l \in Nat, NEW a \in Nat, Bridge(s, w, l, a)
  PROVE  a >= l /\ \A i \in 1..Len(w) : w[i].id <= a
<1>1. CASE w = << >>
  BY <1>1, Ids DEF Bridge
<1>2. CASE w # << >>
  <2>1. Len(w) \in 1..Len(w) /\ a = w[Len(w)].id
    BY <1>2, Ids DEF Bridge
  <2>2. \A i \in 1..Len(w) : i = Len(w) \/ i < Len(w)
    BY Ids
  <2>3. \A i \in 1..Len(w) : w[i].id \in Nat
    BY Ids
  <2>4. \A i \in 1..Len(w) : w[i].id > l /\ (i < Len(w) => w[i].id < w[Len(w)].id)
    BY <2>1 DEF Bridge
  <2> QED BY <2>1, <2>2, <2>3, <2>4
<1> QED BY <1>1, <1>2

(* What is past a bound is past what is within it.                         *)
LEMMA Over ==
  ASSUME NEW x \in Nat, NEW y \in Nat, NEW z \in Nat, x <= y, z > y
  PROVE  x < z
OBVIOUS

(* Send: the frames added are the entries of the stream past the last one  *)
(* read, so the wire stays in order and now reaches the end of the stream. *)
LEMMA BridgeSent ==
  ASSUME NEW s \in Seq(Event), NEW w \in Seq(Event), NEW e \in Seq(Event), e # << >>,
         NEW l \in Nat, NEW a \in Nat, NEW n \in 0..Len(s), Bridge(s, w, l, a),
         NEW v \in Seq(Event), Joins(v, w, e), Rising(s), EndAfter(e, s, n),
         \A i \in 1..Len(s) : i > n <=> s[i].id > a
  PROVE  Bridge(s, v, l, e[Len(e)].id)
<1>1. /\ Len(v) = Len(w) + Len(e)
      /\ \A i \in 1..Len(w) : i \in 1..Len(v) /\ v[i] = w[i]
      /\ \A i \in 1..Len(e) : Len(w) + i \in 1..Len(v) /\ v[Len(w) + i] = e[i]
      /\ \A i \in 1..Len(v) : i \in 1..Len(w) \/ \E k \in 1..Len(e) : i = Len(w) + k
  BY DEF Joins
<1>0. /\ n + Len(e) = Len(s)
      /\ \A i \in 1..Len(e) : n + i \in 1..Len(s) /\ e[i] = s[n + i]
      /\ \A i \in 1..Len(s) : i > n => \E k \in 1..Len(e) : i = n + k
  BY DEF EndAfter
<1>9. \A i, j \in 1..Len(s) : i < j => s[i].id < s[j].id
  BY DEF Rising
<1>2. /\ Len(w) \in Nat /\ Len(e) \in Nat /\ Len(e) \in 1..Len(e) /\ Len(s) \in Nat
      /\ \A i \in 1..Len(w) : w[i].id \in Nat
      /\ \A i \in 1..Len(e) : e[i].id \in Nat
      /\ \A i \in 1..Len(s) : s[i].id \in Nat
  BY Ids
<1>3. a >= l /\ \A i \in 1..Len(w) : w[i].id <= a /\ w[i].id > l
  BY BridgeEnds DEF Bridge
<1>4. \A i \in 1..Len(e) : e[i].id > a
  <2>1. \A i \in 1..Len(e) : n + i > n
    OBVIOUS
  <2> QED BY <1>0, <2>1
<1>5. v # << >> /\ v[Len(v)].id = e[Len(e)].id
  <2>1. Len(v) # 0
    BY <1>1, <1>2
  <2> QED BY <1>1, <1>2, <2>1, Ids
<1>6. \A i \in 1..Len(v) : v[i].id > l
  <2>1. TAKE i \in 1..Len(v)
  <2>2. CASE i \in 1..Len(w)
    BY <1>1, <1>3, <2>2
  <2>3. ASSUME NEW k \in 1..Len(e), i = Len(w) + k
        PROVE  v[i].id > l
    <3>1. v[i] = e[k] /\ e[k].id > a /\ e[k].id \in Nat
      BY <1>1, <1>2, <1>4, <2>3
    <3> QED BY <1>3, <3>1
  <2> QED BY <1>1, <2>2, <2>3
<1>7. ASSUME NEW i \in 1..Len(v), NEW j \in 1..Len(v), i < j
      PROVE  v[i].id < v[j].id
  <2>1. CASE i \in 1..Len(w) /\ j \in 1..Len(w)
    BY <1>1, <1>7, <2>1 DEF Bridge
  <2>2. ASSUME i \in 1..Len(w), NEW k \in 1..Len(e), j = Len(w) + k
        PROVE  v[i].id < v[j].id
    <3>1. v[j] = e[k] /\ e[k].id > a /\ e[k].id \in Nat
      BY <1>1, <1>2, <1>4, <2>2
    <3>2. v[i] = w[i] /\ w[i].id <= a /\ w[i].id \in Nat
      BY <1>1, <1>2, <1>3, <2>2
    <3>3. w[i].id < e[k].id
      BY <3>1, <3>2, Over
    <3> QED BY <3>1, <3>2, <3>3
  <2>3. ASSUME NEW k \in 1..Len(e), i = Len(w) + k
        PROVE  v[i].id < v[j].id
    <3>0. j \notin 1..Len(w)
      BY <1>2, <1>7, <2>3
    <3>1. PICK m \in 1..Len(e) : j = Len(w) + m
      BY <1>1, <3>0
    <3>2. n + k < n + m /\ n + k \in 1..Len(s) /\ n + m \in 1..Len(s)
      BY <1>0, <1>2, <1>7, <2>3, <3>1
    <3>3. v[i] = s[n + k] /\ v[j] = s[n + m]
      BY <1>0, <1>1, <2>3, <3>1
    <3> QED BY <1>9, <3>2, <3>3
  <2> QED BY <1>1, <2>1, <2>2, <2>3
<1>8. ASSUME NEW i \in 1..Len(s), s[i].id > l, s[i].id <= e[Len(e)].id
      PROVE  \E j \in 1..Len(v) : v[j] = s[i]
  <2>1. CASE i > n
    <3>1. PICK k \in 1..Len(e) : i = n + k
      BY <1>0, <2>1
    <3>2. Len(w) + k \in 1..Len(v) /\ v[Len(w) + k] = e[k]
      BY <1>1
    <3>3. e[k] = s[i]
      BY <1>0, <3>1
    <3> QED BY <3>2, <3>3
  <2>2. CASE ~(i > n)
    <3>1. s[i].id <= a
      BY <1>2, <2>2
    <3>2. PICK j \in 1..Len(w) : w[j] = s[i]
      BY <1>8, <3>1 DEF Bridge
    <3> QED BY <1>1, <3>2
  <2> QED BY <2>1, <2>2
<1> QED BY <1>5, <1>6, <1>7, <1>8 DEF Bridge

(* Deliver: the frame at the head has been had, and the rest follows it.   *)
LEMMA BridgeDelivered ==
  ASSUME NEW s \in Seq(Event), NEW w \in Seq(Event), w # << >>,
         NEW l \in Nat, NEW a \in Nat, Bridge(s, w, l, a)
  PROVE  Bridge(s, Tail(w), Head(w).id, a)
<1> DEFINE t == Tail(w)
<1>1. /\ t \in Seq(Event) /\ Head(w) = w[1] /\ 1 \in 1..Len(w) /\ Len(w) = Len(t) + 1
      /\ \A i \in 1..Len(t) : i + 1 \in 1..Len(w) /\ t[i] = w[i + 1]
      /\ \A i \in 1..Len(w) : i = 1 \/ \E k \in 1..Len(t) : i = k + 1
  BY HeadOfWire
<1>2. /\ Len(t) \in Nat /\ (t = << >> <=> Len(t) = 0) /\ Len(w) \in Nat
      /\ \A i \in 1..Len(w) : w[i].id \in Nat
      /\ \A i \in 1..Len(t) : t[i].id \in Nat
  BY <1>1, Ids
<1> HIDE DEF t
<1>3. a = IF t = << >> THEN Head(w).id ELSE t[Len(t)].id
  <2>1. a = w[Len(w)].id
    BY DEF Bridge
  <2>2. CASE t = << >>
    BY <1>1, <1>2, <2>1, <2>2
  <2>3. CASE t # << >>
    <3>1. Len(t) \in 1..Len(t)
      BY <1>2, <2>3
    <3> QED BY <1>1, <2>1, <2>3, <3>1
  <2> QED BY <2>2, <2>3
<1>4. \A i \in 1..Len(t) : t[i].id > Head(w).id
  <2>1. TAKE i \in 1..Len(t)
  <2>2. 1 < i + 1 /\ i + 1 \in 1..Len(w)
    BY <1>1
  <2>3. w[1].id < w[i + 1].id
    BY <1>1, <2>2 DEF Bridge
  <2> QED BY <1>1, <1>2, <2>2, <2>3
<1>5. ASSUME NEW i \in 1..Len(t), NEW j \in 1..Len(t), i < j
      PROVE  t[i].id < t[j].id
  <2>1. i + 1 < j + 1 /\ i + 1 \in 1..Len(w) /\ j + 1 \in 1..Len(w)
    BY <1>1, <1>5
  <2> QED BY <1>1, <2>1 DEF Bridge
<1>6. ASSUME NEW i \in 1..Len(s), s[i].id > Head(w).id, s[i].id <= a
      PROVE  \E j \in 1..Len(t) : t[j] = s[i]
  <2>1. s[i].id > l
    <3>1. w[1].id > l /\ w[1].id \in Nat /\ s[i].id \in Nat
      BY <1>1, <1>2, Ids DEF Bridge
    <3> QED BY <1>1, <1>6, <3>1
  <2>2. PICK j \in 1..Len(w) : w[j] = s[i]
    BY <1>6, <2>1 DEF Bridge
  <2>3. j # 1
    <3>1. w[1].id \in Nat /\ w[j].id > w[1].id
      BY <1>1, <1>2, <1>6, <2>2
    <3> QED BY <3>1
  <2> QED BY <1>1, <2>2, <2>3
<1> QED BY <1>3, <1>4, <1>5, <1>6 DEF Bridge, t

(* Publish: an entry past what the handler has read changes nothing on the *)
(* wire.                                                                   *)
LEMMA BridgeAdded ==
  ASSUME NEW s \in Seq(Event), NEW e \in Event, NEW w \in Seq(Event), NEW l \in Nat,
         NEW a \in Nat, Bridge(s, w, l, a), e.id > a
  PROVE  Bridge(Append(s, e), w, l, a)
<1>1. /\ Len(s) \in Nat /\ Len(Append(s, e)) = Len(s) + 1 /\ Append(s, e)[Len(s) + 1] = e
      /\ \A i \in 1..Len(s) : Append(s, e)[i] = s[i]
  BY AppendProperties, LenProperties
<1>2. \A i \in 1..(Len(s) + 1) : i \in 1..Len(s) \/ i = Len(s) + 1
  BY <1>1
<1>3. ~(e.id <= a)
  BY EventId
<1>4. ASSUME NEW i \in 1..Len(Append(s, e)), Append(s, e)[i].id > l, Append(s, e)[i].id <= a
      PROVE  \E j \in 1..Len(w) : w[j] = Append(s, e)[i]
  <2>1. i \in 1..Len(s)
    BY <1>1, <1>2, <1>3, <1>4
  <2> QED BY <1>1, <1>4, <2>1 DEF Bridge
<1> QED BY <1>4 DEF Bridge

(* The ids of a stream go up, and end with the last one given.             *)
LEMMA Ordered ==
  ASSUME TypeOK, StreamKept
  PROVE  /\ \A i \in 1..Len(stream) : stream[i].id \in Nat /\ stream[i].id <= lastId
         /\ Rising(stream)
<1>1. stream \in Seq(Event) /\ Len(stream) \in Nat /\ lastId \in Nat
  BY LenProperties DEF TypeOK
<1>2. \A i \in 1..Len(stream) : stream[i].id \in Nat
  BY <1>1, Ids
<1>3. \A i \in 1..Len(stream) : stream[i].id + Len(stream) = lastId + i
  BY DEF StreamKept
<1>4. \A i \in 1..Len(stream) : stream[i].id <= lastId
  BY <1>1, <1>2, <1>3
<1>5. ASSUME NEW i \in 1..Len(stream), NEW j \in 1..Len(stream), i < j
      PROVE  stream[i].id < stream[j].id
  <2>1. /\ stream[i].id \in Nat /\ stream[j].id \in Nat
        /\ stream[i].id + Len(stream) = lastId + i
        /\ stream[j].id + Len(stream) = lastId + j
    BY <1>2, <1>3
  <2> QED BY <1>1, <1>5, <2>1
<1> QED BY <1>2, <1>4, <1>5 DEF Rising

(* An open connection is a bridge...                                       *)
LEMMA WireIsBridge ==
  ASSUME WireKept, sse # "none"
  PROVE  Bridge(stream, wire, last, after)
BY DEF WireKept, Bridge

(* ...and a bridge, or nothing, is a connection as it should be.           *)
LEMMA BridgeIsWire ==
  ASSUME page' = "live" <=> sse' # "none",
         sse' = "none" => wire' = << >> /\ after' = 0,
         page' \in {"closed", "open", "open steps"} => last' = 0,
         last' <= lastId' /\ after' <= lastId',
         sse' # "none" => Bridge(stream', wire', last', after')
  PROVE  WireKept'
<1>1. CASE sse' = "none"
  <2>1. \A i \in 1..Len(wire') : FALSE
    <3>1. wire' = << >>
      BY <1>1
    <3> QED BY <3>1, NoPlace
  <2>2. /\ \A i \in 1..Len(wire') : wire'[i].id > last'
        /\ \A i, j \in 1..Len(wire') : i < j => wire'[i].id < wire'[j].id
    BY <2>1
  <2> QED BY <1>1, <2>2 DEF WireKept
<1>2. CASE sse' # "none"
  BY <1>2 DEF WireKept, Bridge
<1> QED BY <1>1, <1>2

(* A Send makes a bridge to the end of the stream.                         *)
LEMMA ReceivesBridge ==
  ASSUME TypeOK, StreamKept, WireKept, Receives
  PROVE  Bridge(stream, wire', last, after') /\ after' <= lastId
<1> DEFINE e == Entries(after)
           v == wire \o e
<1>1. /\ sse # "none" /\ wire' = v
      /\ after' = IF e = << >> THEN after ELSE e[Len(e)].id
  BY DEF Receives, Send
<1>2. /\ stream \in Seq(Event) /\ wire \in Seq(Event) /\ after \in Nat /\ last \in Nat
      /\ e \in Seq(Event) /\ after <= lastId /\ lastId \in Nat
  BY Unread DEF TypeOK, WireKept
<1>3. Bridge(stream, wire, last, after)
  BY <1>1, WireIsBridge
<1>4. PICK n \in 0..Len(stream) :
        EndAfter(e, stream, n) /\ \A i \in 1..Len(stream) : i > n <=> stream[i].id > after
  BY <1>2, Unread
<1>5. v \in Seq(Event) /\ Joins(v, wire, e)
  BY <1>2, Joined
<1>6. CASE e = << >>
  <2>1. v = wire
    BY <1>2, <1>6, ConcatEmptySeq
  <2> QED BY <1>1, <1>2, <1>3, <1>6, <2>1
<1>7. CASE e # << >>
  <2>1. Rising(stream)
    BY Ordered
  <2>2. Bridge(stream, v, last, e[Len(e)].id)
    <3> HIDE DEF e, v
    <3> QED BY <1>2, <1>3, <1>4, <1>5, <1>7, <2>1, BridgeSent
  <2>3. e[Len(e)].id <= lastId
    <3>1. Len(e) \in 1..Len(e)
      BY <1>2, <1>7, Ids
    <3>2. n + Len(e) \in 1..Len(stream) /\ e[Len(e)] = stream[n + Len(e)]
      BY <1>4, <3>1 DEF EndAfter
    <3> QED BY <3>2, Ordered
  <2> QED BY <1>1, <1>7, <2>2, <2>3
<1> QED BY <1>6, <1>7

(* A step keeps the connection between the page's last id and the          *)
(* handler's.                                                              *)
LEMMA WireStep ==
  ASSUME TypeOK, StreamKept, WireKept, [Next]_vars
  PROVE  WireKept'
<1>1. /\ stream \in Seq(Event) /\ wire \in Seq(Event) /\ after \in Nat /\ last \in Nat
      /\ lastId \in Nat /\ last <= lastId /\ after <= lastId
  BY DEF TypeOK, WireKept
<1>2. /\ page = "live" <=> sse # "none"
      /\ sse = "none" => wire = << >> /\ after = 0
      /\ page \in {"closed", "open", "open steps"} => last = 0
      /\ sse # "none" => Bridge(stream, wire, last, after)
  BY WireIsBridge DEF WireKept
<1>3. CASE WriterMoves
  <2>1. UNCHANGED <<page, sse, wire, after, last>>
    BY <1>3 DEF WriterMoves, connection, browser
  <2>2. lastId <= lastId + 1 /\ \A x \in Nat : x <= lastId => x <= lastId + 1 /\ lastId + 1 > x
    BY <1>1
  <2>3. last <= lastId' /\ after <= lastId'
    BY <1>1, <1>3, <2>2 DEF WriterMoves
  <2>4. ASSUME sse # "none"
        PROVE  Bridge(stream', wire, last, after)
    <3>1. Bridge(stream, wire, last, after)
      BY <1>2, <2>4
    <3>2. CASE stream' = << >>
      <4>1. Len(stream') = 0
        BY <3>2, EmptySeq
      <4>2. \A i \in 1..Len(stream') : FALSE
        BY <4>1
      <4> QED BY <3>1, <4>2 DEF Bridge
    <3>3. CASE writer.pc \in Publishing /\ stream' = Append(stream, NewEvent)
      <4>1. NewEvent \in Event /\ NewEvent.id = lastId + 1
        BY <3>3, NewIsEvent DEF NewEvent
      <4>2. NewEvent.id > after
        BY <1>1, <2>2, <4>1
      <4> QED BY <1>1, <3>1, <3>3, <4>1, <4>2, BridgeAdded
    <3> QED BY <1>3, <3>1, <3>2, <3>3 DEF WriterMoves
  <2> QED BY <1>2, <2>1, <2>3, <2>4, BridgeIsWire
<1>4. CASE Receives
  <2>1. Bridge(stream, wire', last, after') /\ after' <= lastId
    BY <1>4, ReceivesBridge
  <2>2. sse' # "none" /\ sse # "none" /\ UNCHANGED <<stream, lastId, page, last>>
    BY <1>4 DEF Receives, Send, redis, browser
  <2> QED BY <1>1, <1>2, <2>1, <2>2, BridgeIsWire
<1>5. CASE Waits
  <2>1. sse' # "none" /\ sse # "none" /\ UNCHANGED <<stream, lastId, after, wire, page, last>>
    BY <1>5 DEF Waits, redis, browser
  <2> QED BY <1>1, <1>2, <2>1, BridgeIsWire
<1>6. CASE Views
  <2>1. UNCHANGED <<stream, lastId, sse, after, wire, last>>
    BY <1>6 DEF Views, redis, connection
  <2>2. page' # "live" /\ page # "live" /\ (page' \in {"closed", "open", "open steps"} => last = 0)
    BY <1>2, <1>6 DEF Views
  <2> QED BY <1>1, <1>2, <2>1, <2>2, BridgeIsWire
<1>7. CASE Connects
  <2>1. page' = "live" /\ sse' # "none" /\ after' = last /\ wire' = << >>
        /\ UNCHANGED <<stream, lastId, last>>
    BY <1>7 DEF Connects, redis
  <2>2. Bridge(stream, << >>, last, last)
    <3>1. Len(<< >>) = 0 /\ \A i \in 1..0 : FALSE
      BY EmptySeq
    <3>2. ASSUME NEW i \in 1..Len(stream), stream[i].id > last, stream[i].id <= last
          PROVE  FALSE
      BY <1>1, <3>2, Ids
    <3> QED BY <3>1, <3>2 DEF Bridge
  <2> QED BY <1>1, <2>1, <2>2, BridgeIsWire
<1>8. CASE Closes
  <2>1. page' \in {"connect", "reload"} /\ sse' = "none" /\ after' = 0 /\ wire' = << >>
        /\ UNCHANGED <<stream, lastId, last>>
    BY <1>8 DEF Closes, CloseStream, redis
  <2>2. 0 <= lastId
    BY <1>1
  <2> QED BY <1>1, <2>1, <2>2, BridgeIsWire
<1>9. CASE Deliver
  <2>1. page = "live" /\ wire # << >> /\ last' = Head(wire).id /\ UNCHANGED <<stream, lastId>>
        /\ \/ page' = "reload" /\ sse' = "none" /\ after' = 0 /\ wire' = << >>
           \/ wire' = Tail(wire) /\ UNCHANGED <<page, sse, after>>
    BY <1>9 DEF Deliver, CloseStream, redis
  <2>2. Bridge(stream, wire, last, after) /\ sse # "none"
    BY <1>2, <2>1
  <2>3. Bridge(stream, Tail(wire), Head(wire).id, after)
    BY <1>1, <2>1, <2>2, BridgeDelivered
  <2>4. last' <= lastId /\ 0 <= lastId
    <3>1. Head(wire) = wire[1] /\ 1 \in 1..Len(wire)
      BY <1>1, <2>1, HeadOfWire
    <3>2. wire[1].id <= after /\ wire[1].id \in Nat
      BY <1>1, <2>2, <3>1, BridgeEnds, Ids
    <3>3. wire[1].id <= lastId
      BY <1>1, <3>2
    <3> QED BY <1>1, <2>1, <3>1, <3>3
  <2> QED BY <1>1, <1>2, <2>1, <2>2, <2>3, <2>4, BridgeIsWire
<1> QED BY <1>3, <1>4, <1>5, <1>6, <1>7, <1>8, <1>9, Kinds

-----------------------------------------------------------------------------
(* The database                                                            *)

(* A row with another status is as it was otherwise.                       *)
LEMMA RowAt ==
  ASSUME NEW r \in RowType, NEW x
  PROVE  [r EXCEPT !.status = x].status = x /\ [r EXCEPT !.status = x].attempts = r.attempts
BY DEF RowType

(* The same for the worker.                                                *)
LEMMA WriterAt ==
  ASSUME NEW w \in WriterType, NEW x
  PROVE  [w EXCEPT !.pc = x].pc = x /\ [w EXCEPT !.pc = x].number = w.number
BY DEF WriterType

(* A count, and one more.                                                  *)
LEMMA OneMore ==
  ASSUME NEW n \in Nat, NEW m \in Nat, m <= n
  PROVE  m < n + 1 /\ n + 1 # m
OBVIOUS

(* Nothing touches a run that is over: the claim refuses it, and its       *)
(* worker has left the loop.                                               *)
LEMMA EndedStays ==
  ASSUME FactsKept, row.status \in Ended, [Next]_vars
  PROVE  UNCHANGED <<row, steps>>
<1>1. writer.pc \in {"finished", "none"}
  BY DEF FactsKept
<1>2. CASE CreateRun \/ ClaimRun \/ CreateStep \/ StepFails \/ FinishRun
  BY <1>1, <1>2 DEF CreateRun, ClaimRun, CreateStep, StepFails, FinishRun, Ended
<1>3. CASE Trim \/ Publish \/ RedisFails \/ Crash \/ StreamLost
  BY <1>3 DEF Trim, Publish, RedisFails, Crash, StreamLost, database
<1>4. CASE Handler \/ OpenRun \/ Page \/ Disconnect
  BY <1>4 DEF Handler, Page, Disconnect, Replay, Follow, FollowIdle, Finished, ReadFails,
     OpenRun, GetRun, ListSteps, GetFails, Connect, ConnectRefused, Reconnect, Deliver, database
<1> QED BY <1>2, <1>3, <1>4 DEF Next, Writer, vars

(* The rows change only under the worker and the claim: a step is added,   *)
(* the status moves on, or a restart begins another attempt.               *)
LEMMA RowsMove ==
  ASSUME TypeOK, FactsKept, [Next]_vars
  PROVE  \/ UNCHANGED <<row, steps>>
         \/ row.status \notin Ended /\ row'.attempts = row.attempts /\ steps \subseteq steps'
         \/ row.status \notin Ended /\ row'.attempts = row.attempts + 1
<1>1. CASE row.status \in Ended
  BY <1>1, EndedStays
<1>2. CASE CreateRun \/ FinishRun
  <2>1. row'.attempts = row.attempts /\ steps' = steps
    <3>1. steps' = steps /\ \E x : row' = [row EXCEPT !.status = x]
      BY <1>2 DEF CreateRun, FinishRun
    <3>2. row \in RowType
      BY DEF TypeOK
    <3> QED BY <3>1, <3>2, RowAt
  <2> QED BY <1>1, <2>1
<1>3. CASE ClaimRun
  BY <1>1, <1>3 DEF ClaimRun
<1>4. CASE CreateStep \/ StepFails
  BY <1>1, <1>4 DEF CreateStep, StepFails
<1>5. CASE Trim \/ Publish \/ RedisFails \/ Crash \/ StreamLost
  BY <1>5 DEF Trim, Publish, RedisFails, Crash, StreamLost, database
<1>6. CASE Handler \/ OpenRun \/ Page \/ Disconnect
  BY <1>6 DEF Handler, Page, Disconnect, Replay, Follow, FollowIdle, Finished, ReadFails,
     OpenRun, GetRun, ListSteps, GetFails, Connect, ConnectRefused, Reconnect, Deliver, database
<1> QED BY <1>2, <1>3, <1>4, <1>5, <1>6 DEF Next, Writer, vars

(* So what an event or a step on the screen says is in the database, or    *)
(* was until a restart, stays true.                                        *)
LEMMA StaysTold ==
  ASSUME TypeOK, FactsKept, [Next]_vars
  PROVE  /\ \A e \in Event \cup Shown : Known(row, steps, e) => Known(row', steps', e)
         /\ \A e \in Event : Told(row, steps, e) => Told(row', steps', e)
<1>1. \A e \in Event \cup Shown : e.attempt \in Nat
  BY DEF Event, Shown
<1>2. row.attempts \in Nat
  BY DEF TypeOK, RowType
<1>3. ASSUME NEW e \in Event \cup Shown, Known(row, steps, e)
      PROVE  Known(row', steps', e)
  <2>1. CASE row'.attempts = row.attempts /\ steps \subseteq steps'
    BY <1>3, <2>1 DEF Known
  <2>2. CASE row'.attempts = row.attempts + 1
    <3>1. e.attempt \in Nat /\ e.attempt <= row.attempts
      BY <1>1, <1>2, <1>3 DEF Known
    <3>2. e.attempt < row.attempts + 1
      BY <1>2, <3>1, OneMore
    <3> QED BY <2>2, <3>2 DEF Known
  <2> QED BY <2>1, <2>2, RowsMove
<1>4. ASSUME NEW e \in Event, Told(row, steps, e)
      PROVE  Told(row', steps', e)
  <2>1. e.name = "step.completed" => Known(row', steps', e)
    BY <1>3, <1>4 DEF Told
  <2>2. e.name = "run.finished" => row'.status \in Ended
    BY <1>4, EndedStays DEF Told
  <2> QED BY <2>1, <2>2 DEF Told
<1> QED BY <1>3, <1>4

(* The worker publishes a step whose rows are written, and the end of a    *)
(* run that is over.                                                       *)
LEMMA WriterStep ==
  ASSUME TypeOK, FactsKept, [Next]_vars
  PROVE  /\ row'.status \in Ended => writer'.pc \in {"finished", "none"}
         /\ writer'.pc = "finished" => row'.status \in Ended
         /\ writer'.pc = "publish" => writer'.number \in steps'
<1>0. /\ row.status \in Ended => writer.pc \in {"finished", "none"}
      /\ writer.pc = "finished" => row.status \in Ended
      /\ writer.pc = "publish" => writer.number \in steps
  BY DEF FactsKept
<1>01. /\ \A x : Goto(x) => writer'.pc = x /\ writer'.number = writer.number
       /\ \A x : row' = [row EXCEPT !.status = x] => row'.status = x
  <2>1. row \in RowType /\ writer \in WriterType
    BY DEF TypeOK
  <2>2. ASSUME NEW x, Goto(x)
        PROVE  writer'.pc = x /\ writer'.number = writer.number
    <3>1. writer' = [writer EXCEPT !.pc = x]
      BY <2>2 DEF Goto
    <3> QED BY <2>1, <3>1, WriterAt
  <2>3. ASSUME NEW x, row' = [row EXCEPT !.status = x]
        PROVE  row'.status = x
    BY <2>1, <2>3, RowAt
  <2> QED BY <2>2, <2>3
<1>1. CASE CreateRun
  <2>1. row'.status = "PENDING"
    BY <1>1, <1>01 DEF CreateRun
  <2> QED BY <1>0, <1>1, <2>1 DEF CreateRun, Ended
<1>2. CASE ClaimRun
  BY <1>2 DEF ClaimRun, Ended
<1>3. CASE Trim \/ Crash
  BY <1>0, <1>01, <1>3 DEF Trim, Crash, database
<1>4. CASE Publish \/ RedisFails
  BY <1>0, <1>01, <1>4 DEF Publish, RedisFails, Published, Publishing, database
<1>5. CASE CreateStep
  <2>1. writer'.number \in steps'
    BY <1>5 DEF CreateStep
  <2> QED BY <1>0, <1>5, <2>1 DEF CreateStep
<1>6. CASE StepFails
  BY <1>0, <1>01, <1>6 DEF StepFails
<1>7. CASE FinishRun
  <2>1. writer'.pc = "finished"
    BY <1>01, <1>7 DEF FinishRun
  <2>2. row'.status \in Ended
    BY <1>01, <1>7 DEF FinishRun, Ended
  <2> QED BY <2>1, <2>2
<1>8. CASE StreamLost
  BY <1>0, <1>8 DEF StreamLost, database
<1>9. CASE Handler \/ OpenRun \/ Page \/ Disconnect
  BY <1>0, <1>9 DEF Handler, Page, Disconnect, Replay, Follow, FollowIdle, Finished, ReadFails,
     OpenRun, GetRun, ListSteps, GetFails, Connect, ConnectRefused, Reconnect, Deliver, database
<1> QED BY <1>0, <1>1, <1>2, <1>3, <1>4, <1>5, <1>6, <1>7, <1>8, <1>9 DEF Next, Writer, vars

(* A step adds to the stream, the wire and the screen only what is true.   *)
LEMMA FactsStep ==
  ASSUME TypeOK, StreamKept, WireKept, FactsKept, [Next]_vars
  PROVE  FactsKept'
<1>1. /\ stream \in Seq(Event) /\ wire \in Seq(Event) /\ after \in Nat
      /\ shown \in SUBSET Shown /\ stream' \in Seq(Event) /\ wire' \in Seq(Event)
      /\ shown' \in SUBSET Shown
  BY TypeStep DEF TypeOK
<1>2. /\ \A e \in Event \cup Shown : Known(row, steps, e) => Known(row', steps', e)
      /\ \A e \in Event : Told(row, steps, e) => Told(row', steps', e)
  BY StaysTold
<1>3. /\ \A i \in 1..Len(stream) : stream[i] \in Event /\ Told(row, steps, stream[i])
      /\ \A i \in 1..Len(wire) : wire[i] \in Event /\ Told(row, steps, wire[i])
      /\ \A s \in shown : Known(row, steps, s)
  BY <1>1, Ids DEF FactsKept
<1>4. /\ \A i \in 1..Len(stream) : Told(row', steps', stream[i])
      /\ \A i \in 1..Len(wire) : Told(row', steps', wire[i])
      /\ \A s \in shown : Known(row', steps', s)
  BY <1>1, <1>2, <1>3
<1>5. \A i \in 1..Len(stream') : Told(row', steps', stream'[i])
  <2>1. CASE stream' = stream
    BY <1>4, <2>1
  <2>2. CASE stream' = << >>
    BY <2>2, NoPlace
  <2>3. CASE writer.pc \in Publishing /\ stream' = Append(stream, NewEvent)
    <3>1. NewEvent \in Event
      BY <2>3, NewIsEvent
    <3>2. Told(row, steps, NewEvent)
      <4>1. NewEvent.name = "step.completed" => writer.pc = "publish"
        BY <2>3 DEF NewEvent, EventOf, Publishing
      <4>2. NewEvent.name = "run.finished" => writer.pc = "finished"
        BY <2>3 DEF NewEvent, EventOf, Publishing
      <4>3. NewEvent.attempt = row.attempts /\ NewEvent.number = writer.number
        BY DEF NewEvent
      <4> QED BY <4>1, <4>2, <4>3 DEF Told, Known, FactsKept
    <3>3. /\ Len(stream') = Len(stream) + 1 /\ stream'[Len(stream) + 1] = NewEvent
          /\ \A i \in 1..Len(stream) : stream'[i] = stream[i]
      BY <1>1, <2>3, <3>1, AppendProperties
    <3>4. \A i \in 1..(Len(stream) + 1) : i \in 1..Len(stream) \/ i = Len(stream) + 1
      BY <1>1, LenProperties
    <3> QED BY <1>2, <1>4, <3>1, <3>2, <3>3, <3>4
  <2> QED BY <2>1, <2>2, <2>3, Kinds DEF WriterMoves, Receives, Waits, Views, Connects, Closes,
          Deliver, redis
<1>6. \A i \in 1..Len(wire') : Told(row', steps', wire'[i])
  <2>1. CASE wire' = wire
    BY <1>4, <2>1
  <2>2. CASE wire' = << >>
    BY <2>2, NoPlace
  <2>3. CASE Receives
    <3> DEFINE e == Entries(after)
    <3>1. wire' = wire \o e
      BY <2>3 DEF Receives, Send
    <3>2. e \in Seq(Event) /\ \E n \in 0..Len(stream) : EndAfter(e, stream, n)
      BY <1>1, Unread
    <3> HIDE DEF e
    <3>3. Joins(wire', wire, e)
      BY <1>1, <3>1, <3>2, Joined
    <3>4. \A i \in 1..Len(e) : Told(row', steps', e[i])
      BY <1>4, <3>2 DEF EndAfter
    <3>5. TAKE i \in 1..Len(wire')
    <3>6. CASE i \in 1..Len(wire)
      BY <1>4, <3>3, <3>6 DEF Joins
    <3>7. ASSUME NEW k \in 1..Len(e), i = Len(wire) + k
          PROVE  Told(row', steps', wire'[i])
      <4>1. wire'[i] = e[k]
        BY <3>3, <3>7 DEF Joins
      <4> QED BY <3>4, <4>1
    <3> QED BY <3>3, <3>6, <3>7 DEF Joins
  <2>4. CASE wire # << >> /\ wire' = Tail(wire)
    BY <1>1, <1>4, <2>4, HeadOfWire
  <2> QED BY <2>1, <2>2, <2>3, <2>4, Kinds DEF WriterMoves, Waits, Views, Connects, Closes,
          Deliver, CloseStream, connection
<1>7. \A s \in shown' : Known(row', steps', s)
  <2>1. CASE shown' = shown
    BY <1>4, <2>1
  <2>2. CASE shown' = {}
    BY <2>2
  <2>3. CASE ListSteps
    <3>1. /\ shown' = {[number |-> n, attempt |-> row.attempts] : n \in steps}
          /\ row' = row /\ steps' = steps
      BY <2>3 DEF ListSteps, database
    <3> QED BY <3>1 DEF Known
  <2>4. CASE Deliver
    <3> DEFINE e == Head(wire)
    <3>1. e \in Event /\ Told(row', steps', e) /\ shown' = ShownAfter(e)
      BY <1>1, <1>4, <2>4, HeadOfWire DEF Deliver
    <3> HIDE DEF e
    <3>2. CASE e.name = "step.completed"
      <4>1. Known(row', steps', [number |-> e.number, attempt |-> e.attempt])
        BY <3>1, <3>2 DEF Told, Known
      <4>2. shown' \subseteq shown \cup {[number |-> e.number, attempt |-> e.attempt]}
        BY <3>1, <3>2 DEF ShownAfter
      <4> QED BY <1>4, <4>1, <4>2
    <3>3. CASE e.name # "step.completed"
      <4>1. shown' \subseteq shown
        BY <3>1, <3>3 DEF ShownAfter, Event, Names
      <4> QED BY <1>4, <4>1
    <3> QED BY <3>2, <3>3
  <2> QED BY <2>1, <2>2, <2>3, <2>4 DEF Next, vars, Writer, Handler, Page, CreateRun, ClaimRun,
          Trim, Publish, RedisFails, CreateStep, StepFails, FinishRun, Crash, StreamLost,
          Replay, Follow, FollowIdle, Finished, ReadFails, OpenRun, GetRun, GetFails, Connect,
          ConnectRefused, Reconnect, Disconnect, browser
<1> QED BY <1>5, <1>6, <1>7, WriterStep DEF FactsKept

(* A page stops because the run is over, or because it was refused.        *)
LEMMA PageStep ==
  ASSUME TypeOK, StreamKept, WireKept, FactsKept, PageKept, [Next]_vars
  PROVE  PageKept'
<1>1. row.status \in Ended => UNCHANGED <<row, steps>>
  BY EndedStays
<1>2. CASE UNCHANGED browser
  BY <1>1, <1>2 DEF PageKept, SettledIsTruth, browser
<1>3. CASE OpenRun
  BY <1>3 DEF OpenRun, PageKept, SettledIsTruth
<1>4. CASE GetRun
  <2>1. row' = row /\ refused' = refused
    BY <1>4 DEF GetRun, database
  <2>2. over' <=> row.status \in Ended
    BY <1>4 DEF GetRun
  <2>3. \/ page = "open" /\ page' = "open steps"
        \/ page = "reload" /\ page' = "reload steps"
    BY <1>4 DEF GetRun
  <2> QED BY <2>1, <2>2, <2>3 DEF PageKept, SettledIsTruth
<1>5. CASE ListSteps
  <2>1. /\ row' = row /\ steps' = steps /\ over' = over /\ refused' = refused
        /\ shown' = {[number |-> n, attempt |-> row.attempts] : n \in steps}
        /\ page \in {"open steps", "reload steps"}
        /\ \/ page' = "connect"
           \/ page' = "settled" /\ (page = "reload steps" \/ over)
    BY <1>5 DEF ListSteps, database
  <2> QED BY <2>1 DEF PageKept, SettledIsTruth
<1>6. CASE GetFails
  BY <1>6 DEF GetFails, PageKept, SettledIsTruth
<1>7. CASE Connect \/ ConnectRefused \/ Disconnect \/ Reconnect
  BY <1>7 DEF Connect, ConnectRefused, Disconnect, Reconnect, PageKept, SettledIsTruth, database
<1>8. CASE Deliver
  <2>1. row' = row /\ (page' = "reload" \/ page' = "live")
    BY <1>8 DEF Deliver, database
  <2>2. page' = "reload" => row.status \in Ended
    <3>1. wire \in Seq(Event) /\ wire # << >>
      BY <1>8 DEF Deliver, TypeOK
    <3>2. Told(row, steps, Head(wire))
      BY <3>1, HeadOfWire DEF FactsKept
    <3>3. page' = "reload" => Head(wire).name = "run.finished"
      BY <1>8 DEF Deliver
    <3> QED BY <3>2, <3>3 DEF Told
  <2> QED BY <2>1, <2>2 DEF PageKept, SettledIsTruth
<1> QED BY <1>2, <1>3, <1>4, <1>5, <1>6, <1>7, <1>8 DEF Next, vars, Writer, Handler, Page,
        CreateRun, ClaimRun, Trim, Publish, RedisFails, CreateStep, StepFails, FinishRun, Crash,
        StreamLost, Replay, Follow, FollowIdle, Finished, ReadFails, browser

-----------------------------------------------------------------------------
(* The screen                                                              *)

(* Two entries with an id between the page's and the handler's are one.    *)
LEMMA BridgeOne ==
  ASSUME NEW s \in Seq(Event), NEW w \in Seq(Event), NEW l \in Nat, NEW a \in Nat,
         Bridge(s, w, l, a), NEW i \in 1..Len(s), NEW j \in 1..Len(w), s[i].id = w[j].id
  PROVE  s[i] = w[j]
<1>1. /\ w[j].id > l /\ w[j].id \in Nat /\ w[j].id <= a
      /\ \A x, y \in 1..Len(w) : x < y => w[x].id < w[y].id
      /\ \A x \in 1..Len(w) : w[x].id \in Nat
  BY Ids, BridgeEnds DEF Bridge
<1>2. PICK k \in 1..Len(w) : w[k] = s[i]
  BY <1>1 DEF Bridge
<1>3. k = j
  <2>1. ~(k < j) /\ ~(j < k)
    BY <1>1, <1>2
  <2> QED BY <2>1
<1> QED BY <1>2, <1>3

(* An added entry follows the last.                                        *)
LEMMA ChainedAdded ==
  ASSUME NEW s \in Seq(Event), NEW e \in Event, Chained(s),
         s # << >> => Follows(s[Len(s)], e)
  PROVE  Chained(Append(s, e))
<1>1. /\ Len(s) \in Nat /\ Len(Append(s, e)) = Len(s) + 1 /\ Append(s, e)[Len(s) + 1] = e
      /\ \A i \in 1..Len(s) : Append(s, e)[i] = s[i]
      /\ s = << >> <=> Len(s) = 0
  BY AppendProperties, Ids
<1>2. ASSUME NEW i \in 1..(Len(s) + 1), i > 1
      PROVE  Follows(Append(s, e)[i - 1], Append(s, e)[i])
  <2>0. i - 1 \in 1..Len(s) /\ (i = Len(s) + 1 => i - 1 = Len(s))
    BY <1>1, <1>2
  <2>1. CASE i \in 1..Len(s)
    BY <1>1, <1>2, <2>0, <2>1 DEF Chained
  <2>2. CASE i = Len(s) + 1
    <3>1. Len(s) # 0
      BY <2>0
    <3> QED BY <1>1, <2>0, <2>2, <3>1
  <2>3. i \in 1..Len(s) \/ i = Len(s) + 1
    BY <1>1
  <2> QED BY <2>1, <2>2, <2>3
<1> QED BY <1>1, <1>2 DEF Chained

(* So does one sequence that follows another...                            *)
LEMMA ChainedJoined ==
  ASSUME NEW v \in Seq(Event), NEW a \in Seq(Event), NEW b \in Seq(Event), Joins(v, a, b),
         Chained(a), Chained(b), a # << >> /\ b # << >> => Follows(a[Len(a)], b[1])
  PROVE  Chained(v)
<1>1. /\ Len(v) = Len(a) + Len(b) /\ Len(a) \in Nat /\ Len(b) \in Nat
      /\ \A i \in 1..Len(a) : v[i] = a[i]
      /\ \A i \in 1..Len(b) : v[Len(a) + i] = b[i]
      /\ a = << >> <=> Len(a) = 0
      /\ b = << >> <=> Len(b) = 0
  BY Ids DEF Joins
<1>2. ASSUME NEW i \in 1..Len(v), i > 1
      PROVE  Follows(v[i - 1], v[i])
  <2>1. CASE i \in 1..Len(a)
    <3>1. i - 1 \in 1..Len(a)
      BY <1>2, <2>1
    <3> QED BY <1>1, <1>2, <2>1, <3>1 DEF Chained
  <2>2. ASSUME NEW k \in 1..Len(b), i = Len(a) + k
        PROVE  Follows(v[i - 1], v[i])
    <3>1. CASE k > 1
      <4>1. k - 1 \in 1..Len(b) /\ i - 1 = Len(a) + (k - 1)
        BY <1>1, <2>2, <3>1
      <4>2. v[i - 1] = b[k - 1] /\ v[i] = b[k]
        BY <1>1, <2>2, <4>1
      <4> QED BY <3>1, <4>2 DEF Chained
    <3>2. CASE k = 1
      <4>1. i - 1 = Len(a) /\ Len(a) \in 1..Len(a) /\ 1 \in 1..Len(b)
        BY <1>1, <1>2, <2>2, <3>2
      <4>2. v[i - 1] = a[Len(a)] /\ v[i] = b[1]
        BY <1>1, <2>2, <3>2, <4>1
      <4>3. Len(a) # 0 /\ Len(b) # 0
        BY <4>1
      <4> QED BY <1>1, <4>2, <4>3
    <3> QED BY <3>1, <3>2
  <2> QED BY <2>1, <2>2 DEF Joins
<1> QED BY <1>2 DEF Chained

(* ...and the end of one.                                                  *)
LEMMA ChainedEnd ==
  ASSUME NEW s \in Seq(Event), NEW e \in Seq(Event), NEW n \in 0..Len(s), EndAfter(e, s, n),
         Chained(s)
  PROVE  Chained(e)
<1>1. ASSUME NEW i \in 1..Len(e), i > 1
      PROVE  Follows(e[i - 1], e[i])
  <2>0. Len(e) \in Nat /\ Len(s) \in Nat
    BY Ids
  <2>1. i - 1 \in 1..Len(e)
    BY <1>1, <2>0
  <2>2. e[i - 1] = s[n + (i - 1)] /\ e[i] = s[n + i] /\ n + i \in 1..Len(s)
    BY <2>1 DEF EndAfter
  <2>3. n + i > 1 /\ (n + i) - 1 = n + (i - 1)
    BY <1>1, <2>0
  <2>4. Follows(s[(n + i) - 1], s[n + i])
    BY <2>2, <2>3 DEF Chained
  <2> QED BY <2>2, <2>3, <2>4
<1> QED BY <1>1 DEF Chained

(* A sequence that is not empty has a first and a last place.              *)
LEMMA TwoEnds ==
  \A w \in Seq(Event) : w # << >> => Len(w) \in 1..Len(w) /\ 1 \in 1..Len(w)
BY Ids

(* The entry before the first that has not been read has the id read.      *)
LEMMA ReadLast ==
  ASSUME TypeOK, StreamKept, NEW n \in 1..Len(stream), n + 1 \in 1..Len(stream), NEW id \in Nat,
         \A i \in 1..Len(stream) : i > n <=> stream[i].id > id
  PROVE  stream[n].id = id
<1>1. stream \in Seq(Event) /\ lastId \in Nat
  BY DEF TypeOK
<1> DEFINE x == stream[n].id
           y == stream[n + 1].id
           k == Len(stream)
<1>2. x \in Nat /\ y \in Nat /\ k \in Nat /\ n \in Nat
  BY <1>1, Ids
<1>3. x + k = lastId + n /\ y + k = lastId + (n + 1)
  BY DEF StreamKept
<1>4. ~(x > id) /\ y > id
  OBVIOUS
<1> HIDE DEF x, y, k
<1>5. x = id
  BY <1>1, <1>2, <1>3, <1>4
<1> QED BY <1>5 DEF x

(* The stream of an attempt goes on from its run.started.                  *)
LEMMA StreamFollows ==
  ASSUME TypeOK, StreamKept, WireKept, FactsKept, Begun, Current, Chained(stream),
         [Next]_vars, ~torn'
  PROVE  Begun' /\ Current' /\ Chained(stream')
<1>1. stream \in Seq(Event) /\ (stream # << >> => Len(stream) \in 1..Len(stream) /\ 1 \in 1..Len(stream))
  BY TwoEnds DEF TypeOK
<1>2. Chained(<< >>)
  BY NoPlace DEF Chained
<1>3. CASE ClaimRun
  BY <1>3 DEF ClaimRun, Begun, Current, redis
<1>4. CASE Trim
  <2>1. stream' = << >> /\ writer'.pc = "started"
    BY <1>4, WriterAt DEF Trim, Goto, TypeOK
  <2> QED BY <1>2, <2>1 DEF Begun, Current
<1>5. CASE Publish
  <2>1. writer.pc \in Publishing /\ stream' = Append(stream, NewEvent) /\ row' = row
    BY <1>5 DEF Publish, Add, NewEvent, database
  <2>2. /\ NewEvent \in Event /\ NewEvent.attempt = row.attempts
        /\ writer.pc = "started" <=> NewEvent.name = "run.started"
    BY <2>1, NewIsEvent DEF NewEvent, EventOf, Publishing
  <2>3. /\ stream' \in Seq(Event) /\ Len(stream') = Len(stream) + 1
        /\ stream'[Len(stream) + 1] = NewEvent
        /\ \A i \in 1..Len(stream) : stream'[i] = stream[i]
    BY <1>1, <2>1, <2>2, AppendProperties
  <2>4. stream' # << >>
    BY <1>1, <2>3, Ids
  <2>5. Begun'
    <3>1. CASE stream = << >>
      <4>1. stream'[1] = NewEvent
        BY <2>3, <3>1, EmptySeq
      <4>2. writer.pc = "started"
        BY <2>1, <3>1 DEF Current, Publishing
      <4> QED BY <2>2, <4>1, <4>2 DEF Begun
    <3>2. CASE stream # << >>
      BY <1>1, <2>3, <3>2 DEF Begun
    <3> QED BY <3>1, <3>2
  <2>6. Current'
    BY <2>1, <2>2, <2>3, <2>4 DEF Current
  <2>7. stream # << >> => Follows(stream[Len(stream)], NewEvent)
    <3>1. writer.pc # "started" => writer.pc \in {"publish", "finished"}
      BY <2>1 DEF Publishing
    <3> QED BY <2>2, <3>1 DEF Current, Follows
  <2> QED BY <1>1, <2>1, <2>2, <2>5, <2>6, <2>7, ChainedAdded
<1>6. CASE RedisFails
  <2>1. /\ writer.pc = "trim" /\ writer'.pc = "started"
        \/ writer.pc \in {"publish", "finished"}
    BY <1>6, WriterAt DEF RedisFails, Goto, Publishing, TypeOK
  <2> QED BY <1>6, <2>1 DEF RedisFails, Begun, Current, database
<1>7. CASE CreateStep
  BY <1>7 DEF CreateStep, Begun, Current, redis
<1>8. CASE StepFails
  BY <1>8 DEF StepFails, Begun, Current, redis
<1>9. CASE FinishRun
  <2>1. row'.attempts = row.attempts /\ stream' = stream /\ writer.pc \in {"loop", "failed"}
    <3>1. \E x : row' = [row EXCEPT !.status = x]
      BY <1>9 DEF FinishRun
    <3>2. row \in RowType
      BY DEF TypeOK
    <3>3. row'.attempts = row.attempts
      BY <3>1, <3>2, RowAt
    <3> QED BY <1>9, <3>3 DEF FinishRun, redis
  <2> QED BY <2>1 DEF Begun, Current
<1>10. CASE Crash
  <2>1. stream' = stream /\ writer'.pc = "none"
    BY <1>10, WriterAt DEF Crash, Goto, TypeOK, redis
  <2> QED BY <2>1 DEF Begun, Current
<1>11. CASE CreateRun
  <2>1. row'.attempts = row.attempts /\ UNCHANGED <<stream, writer>>
    BY <1>11, RowAt DEF CreateRun, TypeOK, redis
  <2> QED BY <2>1 DEF Begun, Current
<1>12. CASE StreamLost
  BY <1>12 DEF StreamLost
<1>13. CASE UNCHANGED <<row, writer, stream>>
  BY <1>13 DEF Begun, Current
<1> QED BY <1>3, <1>4, <1>5, <1>6, <1>7, <1>8, <1>9, <1>10, <1>11, <1>12, <1>13 DEF Next, vars,
        Writer, Handler, Page, Replay, Follow, FollowIdle, Finished, ReadFails, OpenRun, GetRun,
        ListSteps, GetFails, Connect, ConnectRefused, Disconnect, Reconnect, Deliver, database, redis

(* The entries that a Send adds follow the last frame, or what is shown.   *)
LEMMA SentFollows ==
  ASSUME TypeOK, StreamKept, WireKept, Spliceless, Receives
  PROVE  Chained(wire') /\ Ahead'
<1> DEFINE e == Entries(after)
<1>1. /\ wire' = wire \o e /\ shown' = shown /\ page = "live" /\ sse # "none"
  BY DEF Receives, Send, WireKept, browser
<1>2. /\ stream \in Seq(Event) /\ wire \in Seq(Event) /\ after \in Nat /\ last \in Nat
      /\ lastId \in Nat /\ e \in Seq(Event) /\ Bridge(stream, wire, last, after)
  BY <1>1, Unread, WireIsBridge DEF TypeOK
<1>3. PICK n \in 0..Len(stream) :
        EndAfter(e, stream, n) /\ \A i \in 1..Len(stream) : i > n <=> stream[i].id > after
  BY <1>2, Unread
<1> HIDE DEF e
<1>4. wire' \in Seq(Event) /\ Joins(wire', wire, e)
  BY <1>1, <1>2, Joined
<1>5. Chained(e)
  BY <1>2, <1>3, ChainedEnd DEF Spliceless
<1>6. ASSUME e # << >>, e[1].name # "run.started"
      PROVE  /\ n \in 1..Len(stream) /\ stream[n].id = after
             /\ e[1].attempt = stream[n].attempt
  <2>1. 1 \in 1..Len(e) /\ n + 1 \in 1..Len(stream) /\ e[1] = stream[n + 1]
    BY <1>2, <1>3, <1>6, Ids DEF EndAfter
  <2>2. n # 0
    <3>1. n = 0 => e[1] = stream[1]
      BY <2>1
    <3>2. stream # << >>
      BY <2>1, NoPlace
    <3> QED BY <1>6, <3>1, <3>2 DEF Spliceless, Begun
  <2>3. n \in 1..Len(stream)
    BY <2>2
  <2>4. stream[n].id = after
    BY <1>2, <1>3, <2>1, <2>3, ReadLast
  <2>5. Follows(stream[n], stream[n + 1])
    <3>1. n + 1 > 1 /\ (n + 1) - 1 = n
      BY <2>3
    <3> QED BY <2>1, <3>1 DEF Spliceless, Chained
  <2> QED BY <1>6, <2>1, <2>3, <2>4, <2>5 DEF Follows
<1>7. ASSUME wire # << >>, e # << >>
      PROVE  Follows(wire[Len(wire)], e[1])
  <2>1. CASE e[1].name = "run.started"
    BY <2>1 DEF Follows
  <2>2. CASE e[1].name # "run.started"
    <3>1. n \in 1..Len(stream) /\ stream[n].id = after /\ e[1].attempt = stream[n].attempt
      BY <1>6, <1>7, <2>2
    <3>2. Len(wire) \in 1..Len(wire)
      BY <1>2, <1>7, Ids
    <3>3. wire[Len(wire)].id = after
      BY <1>2, <1>7 DEF Bridge
    <3>4. stream[n] = wire[Len(wire)]
      BY <1>2, <3>1, <3>2, <3>3, BridgeOne
    <3> QED BY <3>1, <3>4 DEF Follows
  <2> QED BY <2>1, <2>2
<1>8. Chained(wire')
  BY <1>2, <1>4, <1>5, <1>7, ChainedJoined DEF Spliceless
<1>9. Ahead'
  <2>1. CASE wire # << >>
    <3>1. 1 \in 1..Len(wire)
      BY <1>2, <2>1, Ids
    <3>2. wire'[1] = wire[1]
      BY <1>4, <3>1 DEF Joins
    <3> QED BY <1>1, <2>1, <3>2 DEF Spliceless, Ahead
  <2>2. CASE wire = << >> /\ e # << >>
    <3>1. Len(wire) = 0 /\ 1 \in 1..Len(e) /\ Len(wire) + 1 = 1
      BY <1>2, <2>2, Ids
    <3>2. wire'[1] = e[1]
      BY <1>4, <3>1 DEF Joins
    <3>3. after = last
      BY <1>2, <2>2 DEF Bridge
    <3>4. \A s \in shown : Follows(s, e[1])
      <4>1. CASE e[1].name = "run.started"
        BY <4>1 DEF Follows
      <4>2. CASE e[1].name # "run.started"
        BY <1>1, <1>6, <2>2, <3>3, <4>2 DEF Follows, Spliceless, Resumed
      <4> QED BY <4>1, <4>2
    <3> QED BY <1>1, <3>2, <3>4 DEF Ahead
  <2>3. CASE wire = << >> /\ e = << >>
    <3>1. wire' = << >>
      BY <1>1, <2>3, ConcatEmptySeq, EmptySeq
    <3> QED BY <3>1 DEF Ahead
  <2> QED BY <2>1, <2>2, <2>3
<1> QED BY <1>8, <1>9

(* What the page shows after an event is of that event's attempt.          *)
LEMMA DeliverFollows ==
  ASSUME TypeOK, WireKept, Spliceless, Deliver
  PROVE  Chained(wire') /\ Ahead' /\ Resumed' /\ OfOne(shown')
<1> DEFINE e == Head(wire)
<1>1. /\ wire \in Seq(Event) /\ wire # << >> /\ page = "live" /\ stream \in Seq(Event)
      /\ last \in Nat /\ after \in Nat /\ stream' = stream
      /\ last' = e.id /\ shown' = ShownAfter(e)
      /\ \/ page' = "reload" /\ wire' = << >>
         \/ page' = "live" /\ wire' = Tail(wire)
  BY DEF Deliver, CloseStream, TypeOK, redis
<1>2. /\ e \in Event /\ e = wire[1] /\ 1 \in 1..Len(wire)
      /\ Tail(wire) \in Seq(Event) /\ Len(wire) = Len(Tail(wire)) + 1
      /\ \A i \in 1..Len(Tail(wire)) : i + 1 \in 1..Len(wire) /\ Tail(wire)[i] = wire[i + 1]
  BY <1>1, HeadOfWire
<1> HIDE DEF e
<1>3. \A i \in 1..Len(Tail(wire)) : Follows(wire[i], Tail(wire)[i])
  <2>1. TAKE i \in 1..Len(Tail(wire))
  <2>2. i + 1 > 1 /\ (i + 1) - 1 = i
    OBVIOUS
  <2> QED BY <1>2, <2>2 DEF Spliceless, Chained
<1>4. \A s \in shown' : s.attempt = e.attempt
  <2>1. CASE e.name = "run.started"
    BY <1>1, <2>1 DEF ShownAfter
  <2>2. CASE e.name # "run.started"
    <3>1. \A s \in shown : s.attempt = e.attempt
      BY <1>1, <1>2, <2>2 DEF Spliceless, Ahead, Follows
    <3>2. shown' \subseteq shown \cup {[number |-> e.number, attempt |-> e.attempt]}
      BY <1>1, <2>2 DEF ShownAfter
    <3>3. [number |-> e.number, attempt |-> e.attempt].attempt = e.attempt
      OBVIOUS
    <3> QED BY <3>1, <3>2, <3>3
  <2> QED BY <2>1, <2>2
<1>5. Chained(wire')
  <2>1. CASE wire' = << >>
    BY <2>1, NoPlace DEF Chained
  <2>2. CASE wire' = Tail(wire)
    <3>1. ASSUME NEW i \in 1..Len(Tail(wire)), i > 1
          PROVE  Follows(Tail(wire)[i - 1], Tail(wire)[i])
      <4>1. i - 1 \in 1..Len(Tail(wire)) /\ (i - 1) + 1 = i
        BY <1>2, <3>1, Ids
      <4>2. Tail(wire)[i - 1] = wire[i]
        BY <1>2, <4>1
      <4> QED BY <1>3, <4>2
    <3> QED BY <2>2, <3>1 DEF Chained
  <2> QED BY <1>1, <2>1, <2>2
<1>6. Ahead'
  <2>1. ASSUME wire' # << >>
        PROVE  \A s \in shown' : Follows(s, wire'[1])
    <3>1. wire' = Tail(wire) /\ 1 \in 1..Len(Tail(wire))
      BY <1>1, <1>2, <2>1, TwoEnds
    <3> QED BY <1>2, <1>3, <1>4, <3>1 DEF Follows
  <2> QED BY <2>1 DEF Ahead
<1>7. Resumed'
  <2>1. ASSUME NEW i \in 1..Len(stream), stream[i].id = e.id
        PROVE  \A s \in shown' : s.attempt = stream[i].attempt
    <3>1. sse # "none"
      BY <1>1 DEF WireKept
    <3>2. Bridge(stream, wire, last, after)
      BY <3>1, WireIsBridge
    <3>3. stream[i] = e
      BY <1>1, <1>2, <2>1, <3>2, BridgeOne
    <3> QED BY <1>4, <3>3
  <2> QED BY <1>1, <2>1 DEF Resumed
<1> QED BY <1>4, <1>5, <1>6, <1>7 DEF OfOne

(* A step splices nothing, unless Redis loses a run.started.               *)
LEMMA SplicelessStep ==
  ASSUME TypeOK, StreamKept, WireKept, FactsKept, Spliceless, [Next]_vars, ~torn'
  PROVE  Spliceless'
<1>1. Begun' /\ Current' /\ Chained(stream')
  BY StreamFollows DEF Spliceless
<1>2. /\ Chained(wire) /\ Ahead /\ Resumed /\ OfOne(shown)
  BY DEF Spliceless
<1>3. CASE WriterMoves
  <2>1. UNCHANGED <<wire, shown, page, last>>
    BY <1>3 DEF WriterMoves, connection, browser
  <2>2. Resumed'
    <3>1. CASE stream' = stream
      BY <1>2, <2>1, <3>1 DEF Resumed
    <3>2. CASE stream' = << >>
      BY <3>2, NoPlace DEF Resumed
    <3>3. CASE writer.pc \in Publishing /\ stream' = Append(stream, NewEvent)
      <4>1. NewEvent \in Event /\ NewEvent.id = lastId + 1
        BY <3>3, NewIsEvent DEF NewEvent
      <4>2. /\ stream \in Seq(Event) /\ Len(stream') = Len(stream) + 1
            /\ stream'[Len(stream) + 1] = NewEvent
            /\ \A i \in 1..Len(stream) : stream'[i] = stream[i]
        <5>1. stream \in Seq(Event)
          BY DEF TypeOK
        <5> QED BY <3>3, <4>1, <5>1, AppendProperties
      <4>3. NewEvent.id # last
        <5>1. lastId \in Nat /\ last \in Nat /\ last <= lastId
          BY DEF TypeOK, WireKept
        <5> QED BY <4>1, <5>1, OneMore
      <4>4. \A i \in 1..(Len(stream) + 1) : i \in 1..Len(stream) \/ i = Len(stream) + 1
        BY <4>2, Ids
      <4> QED BY <1>2, <2>1, <4>2, <4>3, <4>4 DEF Resumed
    <3> QED BY <1>3, <3>1, <3>2, <3>3 DEF WriterMoves
  <2> QED BY <1>1, <1>2, <2>1, <2>2 DEF Spliceless, Ahead
<1>4. CASE Receives
  <2>1. Chained(wire') /\ Ahead'
    BY <1>4, SentFollows
  <2>2. Resumed' /\ OfOne(shown')
    BY <1>2, <1>4 DEF Receives, Resumed, redis, browser
  <2> QED BY <1>1, <2>1, <2>2 DEF Spliceless
<1>5. CASE Waits
  <2>1. UNCHANGED <<wire, shown, page, last, stream>>
    BY <1>5 DEF Waits, redis, browser
  <2> QED BY <1>1, <1>2, <2>1 DEF Spliceless, Ahead, Resumed
<1>6. CASE Views
  <2>1. UNCHANGED <<wire, last, stream>> /\ wire = << >> /\ page' # "live"
    BY <1>6 DEF Views, WireKept, connection, redis
  <2>2. page' = "connect" => last = 0
    BY <1>6 DEF Views, WireKept
  <2>3. \A i \in 1..Len(stream) : stream[i].id # 0
    <3>1. stream \in Seq(Event) /\ lastId \in Nat
      BY DEF TypeOK
    <3>2. TAKE i \in 1..Len(stream)
    <3>3. stream[i].id \in Nat /\ Len(stream) \in Nat /\ Len(stream) <= lastId
          /\ stream[i].id + Len(stream) = lastId + i
      BY <3>1, Ids DEF StreamKept
    <3> QED BY <3>1, <3>3
  <2>4. Resumed'
    BY <2>1, <2>2, <2>3 DEF Resumed
  <2>5. OfOne(shown')
    <3>1. CASE shown' = shown
      BY <1>2, <3>1
    <3>2. CASE OpenRun
      BY <3>2 DEF OpenRun, OfOne
    <3>3. CASE ListSteps
      <4>1. shown' = {[number |-> n, attempt |-> row.attempts] : n \in steps}
        BY <3>3 DEF ListSteps
      <4> QED BY <4>1 DEF OfOne
    <3>4. CASE Deliver
      BY <3>4, DeliverFollows
    <3> QED BY <3>1, <3>2, <3>3, <3>4 DEF Next, vars, Writer, Handler, Page, CreateRun, ClaimRun,
            Trim, Publish, RedisFails, CreateStep, StepFails, FinishRun, Crash, StreamLost,
            Replay, Follow, FollowIdle, Finished, ReadFails, GetRun, GetFails, Connect,
            ConnectRefused, Reconnect, Disconnect, browser
  <2> QED BY <1>1, <1>2, <2>1, <2>4, <2>5 DEF Spliceless, Ahead
<1>7. CASE Connects \/ Closes
  <2>1. /\ UNCHANGED <<shown, last, stream>> /\ wire' = << >>
        /\ page \in {"connect", "live"}
    BY <1>7 DEF Connects, Closes, CloseStream, redis
  <2>2. Chained(wire') /\ Ahead'
    BY <2>1, NoPlace DEF Chained, Ahead
  <2> QED BY <1>1, <1>2, <2>1, <2>2 DEF Spliceless, Resumed
<1>8. CASE Deliver
  BY <1>1, <1>8, DeliverFollows DEF Spliceless
<1> QED BY <1>3, <1>4, <1>5, <1>6, <1>7, <1>8, Kinds

-----------------------------------------------------------------------------
(* The invariant                                                           *)

(* Nothing is written, published, sent or shown at first.                  *)
LEMMA WatchInvInit == Init => WatchInv
<1> SUFFICES ASSUME Init
             PROVE  WatchInv
  OBVIOUS
<1>1. << >> \in Seq(Event) /\ Len(<< >>) = 0 /\ \A i \in 1..0 : FALSE
  BY EmptySeq
<1>2. TypeOK
  BY <1>1 DEF Init, TypeOK, RowType, WriterType
<1>3. StreamKept
  BY <1>1 DEF Init, StreamKept
<1>4. WireKept
  BY <1>1 DEF Init, WireKept
<1>5. FactsKept
  BY <1>1 DEF Init, FactsKept, Ended
<1>6. PageKept
  BY DEF Init, PageKept, SettledIsTruth
<1>7. Spliceless
  BY <1>1 DEF Init, Spliceless, Begun, Current, Chained, Ahead, Resumed, OfOne
<1> QED BY <1>2, <1>3, <1>4, <1>5, <1>6, <1>7 DEF WatchInv

(* A started run that was lost stays lost.                                 *)
LEMMA TornStays ==
  ASSUME [Next]_vars, ~torn'
  PROVE  ~torn
BY DEF Next, vars, Writer, Handler, Page, CreateRun, ClaimRun, Trim, Publish, RedisFails,
   CreateStep, StepFails, FinishRun, Crash, StreamLost, Replay, Follow, FollowIdle, Finished,
   ReadFails, OpenRun, GetRun, ListSteps, GetFails, Connect, ConnectRefused, Reconnect,
   Disconnect, Deliver, redis

(* The invariant is kept by every step.                                    *)
LEMMA WatchInvStep == WatchInv /\ [Next]_vars => WatchInv'
<1> SUFFICES ASSUME WatchInv, [Next]_vars
             PROVE  WatchInv'
  OBVIOUS
<1>1. TypeOK /\ StreamKept /\ WireKept /\ FactsKept /\ PageKept /\ (~torn => Spliceless)
  BY DEF WatchInv
<1>2. TypeOK' /\ StreamKept' /\ WireKept' /\ FactsKept' /\ PageKept'
  BY <1>1, TypeStep, StreamStep, WireStep, FactsStep, PageStep
<1>3. ~torn' => Spliceless'
  BY <1>1, SplicelessStep, TornStays
<1> QED BY <1>2, <1>3 DEF WatchInv

(* What connects the worker's rows and events, the stream, the handler,    *)
(* the wire and the page, in every state of every behaviour.               *)
THEOREM WatchInvHolds == Spec => []WatchInv
<1>1. Init => WatchInv
  BY WatchInvInit
<1>2. WatchInv /\ [Next]_vars => WatchInv'
  BY WatchInvStep
<1> QED BY <1>1, <1>2, PTL DEF Spec

(* A reconnecting page is sent no event twice or out of order, and what    *)
(* the handler has read of the stream is on its way or delivered, wherever *)
(* the connection breaks (Last-Event-ID).                                  *)
THEOREM EventsSentOnce == Spec => []SentOnce
<1>1. WatchInv => SentOnce
  <2> SUFFICES ASSUME WatchInv
               PROVE  SentOnce
    OBVIOUS
  <2>1. wire \in Seq(Event) /\ stream \in Seq(Event) /\ last \in Nat /\ after \in Nat
    BY DEF WatchInv, TypeOK
  <2>2. DOMAIN wire = 1..Len(wire) /\ DOMAIN stream = 1..Len(stream)
    BY <2>1, LenProperties
  <2>3. /\ \A i \in 1..Len(wire) : wire[i].id > last
        /\ \A i, j \in 1..Len(wire) : i < j => wire[i].id < wire[j].id
    BY DEF WatchInv, WireKept
  <2>4. ASSUME sse # "none", NEW i \in 1..Len(stream), stream[i].id \in (last + 1)..after
        PROVE  \E j \in 1..Len(wire) : wire[j] = stream[i]
    <3>1. \A x \in (last + 1)..after : x > last /\ x <= after
      BY <2>1
    <3> QED BY <2>4, <3>1 DEF WatchInv, WireKept
  <2> QED BY <2>2, <2>3, <2>4 DEF SentOnce
<1> QED BY <1>1, WatchInvHolds, PTL

(* Unless Redis loses a run.started, no restart, failed trim or broken     *)
(* connection makes the page show steps of two attempts together, and what *)
(* it shows is in the database, or was until a restart.                    *)
THEOREM ScreenIsOneAttempt == Spec => []ShownIsOneAttempt
<1>1. WatchInv => ShownIsOneAttempt
  BY DEF WatchInv, Spliceless, OfOne, FactsKept, Known, ShownIsOneAttempt
<1> QED BY <1>1, WatchInvHolds, PTL

(* A page that has stopped looking shows a run that is over and all of its *)
(* steps, whatever events were lost, unless its subscription was refused.  *)
THEOREM StoppedPageIsRight == Spec => []SettledIsTruth
<1>1. WatchInv => SettledIsTruth
  BY DEF WatchInv, PageKept
<1> QED BY <1>1, WatchInvHolds, PTL

-----------------------------------------------------------------------------
(* The watched run is a run of RunLifecycle                                *)

(* What the worker knows of the rows it writes.                            *)
RowsKept ==
  /\ writer.pc \in {"trim", "started", "loop", "publish", "failed"} => row.status = "RUNNING"
  /\ writer.pc \in {"trim", "started", "loop", "publish"} => steps = 1..writer.number

(* What a step of the worker may do to the rows: nothing, or one step of   *)
(* the lifecycle.                                                          *)
Creates  == row.status = "NONE" /\ row'.status = "PENDING"
            /\ row'.attempts = row.attempts /\ steps' = steps
Starts   == row.status \in {"PENDING", "RUNNING"} /\ row'.status = "RUNNING"
            /\ row'.attempts = row.attempts + 1 /\ steps' = {}
Records  == row.status = "RUNNING" /\ row' = row
            /\ \E n \in Nat : steps = 1..n /\ steps' = 1..(n + 1)
Ends     == row.status = "RUNNING" /\ row'.status \in Ended
            /\ row'.attempts = row.attempts /\ steps' = steps

(* The steps of an attempt, with one more.                                 *)
LEMMA NextNumber ==
  ASSUME NEW n \in Nat
  PROVE  (1..n) \cup {n + 1} = 1..(n + 1)
OBVIOUS

(* Each step of the module does one of these to the rows, and leaves the   *)
(* worker knowing them.                                                    *)
LEMMA RowsStep ==
  ASSUME TypeOK, RowsKept, [Next]_vars
  PROVE  RowsKept' /\ (UNCHANGED <<row, steps>> \/ Creates \/ Starts \/ Records \/ Ends)
<1>1. row \in RowType /\ writer \in WriterType /\ writer.number \in Nat
  BY DEF TypeOK, WriterType
<1>2. ASSUME NEW x, Goto(x)
      PROVE  writer'.pc = x /\ writer'.number = writer.number
  <2>1. writer' = [writer EXCEPT !.pc = x]
    BY <1>2 DEF Goto
  <2> QED BY <1>1, <2>1, WriterAt
<1>3. ASSUME NEW x, row' = [row EXCEPT !.status = x]
      PROVE  row'.status = x /\ row'.attempts = row.attempts
  BY <1>1, <1>3, RowAt
<1>4. CASE CreateRun
  <2>1. Creates /\ writer' = writer
    BY <1>3, <1>4 DEF CreateRun, Creates
  <2>2. writer.pc \notin {"trim", "started", "loop", "publish", "failed"}
    BY <1>4 DEF CreateRun, RowsKept
  <2> QED BY <2>1, <2>2 DEF RowsKept
<1>5. CASE ClaimRun
  <2>1. Starts /\ writer' = [pc |-> "trim", number |-> 0]
    BY <1>5 DEF ClaimRun, Starts
  <2>2. 1..0 = {}
    OBVIOUS
  <2> QED BY <2>1, <2>2 DEF RowsKept, Starts
<1>6. CASE Trim \/ Crash
  BY <1>2, <1>6 DEF Trim, Crash, RowsKept, database
<1>7. CASE Publish \/ RedisFails
  <2>1. UNCHANGED <<row, steps>>
    BY <1>7 DEF Publish, RedisFails, database
  <2>2. /\ writer'.number = writer.number
        /\ \/ writer.pc = "trim" /\ writer'.pc = "started"
           \/ writer.pc \in {"started", "publish"} /\ writer'.pc = "loop"
           \/ writer'.pc = "none"
    BY <1>2, <1>7 DEF Publish, RedisFails, Published, Publishing
  <2> QED BY <2>1, <2>2 DEF RowsKept
<1>8. CASE CreateStep
  <2>1. steps = 1..writer.number /\ row.status = "RUNNING"
    BY <1>8 DEF CreateStep, RowsKept
  <2>2. /\ steps' = steps \cup {writer.number + 1} /\ row' = row
        /\ writer' = [pc |-> "publish", number |-> writer.number + 1]
    BY <1>8 DEF CreateStep
  <2>3. steps' = 1..(writer.number + 1)
    BY <1>1, <2>1, <2>2, NextNumber
  <2> QED BY <1>1, <2>1, <2>2, <2>3 DEF RowsKept, Records
<1>9. CASE StepFails
  <2>1. steps = 1..writer.number /\ row.status = "RUNNING"
    BY <1>9 DEF StepFails, RowsKept
  <2>2. /\ steps' = steps \/ steps' = steps \cup {writer.number + 1}
        /\ row' = row /\ writer'.pc = "failed"
    BY <1>2, <1>9 DEF StepFails
  <2>3. (1..writer.number) \cup {writer.number + 1} = 1..(writer.number + 1)
    BY <1>1, NextNumber
  <2> QED BY <1>1, <2>1, <2>2, <2>3 DEF RowsKept, Records
<1>10. CASE FinishRun
  <2>1. row.status = "RUNNING" /\ steps' = steps /\ writer'.pc = "finished"
    BY <1>2, <1>10 DEF FinishRun, RowsKept
  <2>2. row'.status \in Ended /\ row'.attempts = row.attempts
    BY <1>3, <1>10 DEF FinishRun, Ended
  <2> QED BY <2>1, <2>2 DEF RowsKept, Ends
<1>11. CASE StreamLost \/ Handler \/ OpenRun \/ Page \/ Disconnect \/ UNCHANGED vars
  <2>1. UNCHANGED <<row, steps, writer>>
    BY <1>11 DEF StreamLost, Handler, Page, Disconnect, Replay, Follow, FollowIdle, Finished,
       ReadFails, OpenRun, GetRun, ListSteps, GetFails, Connect, ConnectRefused, Reconnect,
       Deliver, database, vars
  <2> QED BY <2>1 DEF RowsKept
<1> QED BY <1>4, <1>5, <1>6, <1>7, <1>8, <1>9, <1>10, <1>11 DEF Next, Writer

(* The watched run, as RunLifecycle has it.                                *)
LEMMA LifecycleStep ==
  ASSUME TypeOK, UNCHANGED <<row, steps>> \/ Creates \/ Starts \/ Records \/ Ends
  PROVE  [Lifecycle!Next]_(Lifecycle!vars)
<1>0. row.attempts \in Nat /\ "run" \in Watched /\ \A r \in Watched : r = "run"
  BY DEF TypeOK, RowType, Watched
<1>1. ASSUME UNCHANGED <<row, steps>>
      PROVE  UNCHANGED Lifecycle!vars
  BY <1>1 DEF Lifecycle!vars
<1>2. ASSUME Creates
      PROVE  Lifecycle!Create("run")
  BY <1>0, <1>2 DEF Creates, Lifecycle!Create, Lifecycle!Active
<1>3. ASSUME Starts
      PROVE  Lifecycle!Start("run")
  BY <1>0, <1>3 DEF Starts, Lifecycle!Start, Lifecycle!Active
<1>4. ASSUME Records
      PROVE  Lifecycle!Record("run")
  <2>1. PICK n \in Nat : steps = 1..n /\ steps' = 1..(n + 1)
    BY <1>4 DEF Records
  <2>2. n \in steps \cup {0}
    BY <2>1
  <2> QED BY <1>0, <1>4, <2>1, <2>2 DEF Records, Lifecycle!Record
<1>5. ASSUME Ends
      PROVE  Lifecycle!End("run")
  BY <1>0, <1>5 DEF Ends, Ended, Lifecycle!End, Lifecycle!Terminal
<1> QED BY <1>0, <1>1, <1>2, <1>3, <1>4, <1>5 DEF Lifecycle!Next

(* Whoever watches a run watches one of RunLifecycle: the worker of this   *)
(* module does to the rows only what the system with its queue, leases and *)
(* sweep is proved to do (AgentRunsProofs).                                *)
THEOREM ImplementsLifecycle == Spec => RefinesLifecycle
<1>1. Init => RowsKept /\ Lifecycle!Init
  BY DEF Init, RowsKept, Lifecycle!Init
<1>2. WatchInv /\ RowsKept /\ [Next]_vars => RowsKept' /\ [Lifecycle!Next]_(Lifecycle!vars)
  BY RowsStep, LifecycleStep DEF WatchInv
<1> QED BY <1>1, <1>2, WatchInvHolds, PTL DEF Spec, RefinesLifecycle, Lifecycle!Spec
=============================================================================
