--------------------------- MODULE IngestionProofs ---------------------------
(***************************************************************************)
(* Proofs about Ingestion, for every set of documents and workers, every   *)
(* number of batches and every value of the bounds.                        *)
(***************************************************************************)
EXTENDS Ingestion, TLAPS

-----------------------------------------------------------------------------
(* Type correctness                                                        *)

(* Positions, and the worker that has come to nothing.                     *)
LEMMA Shapes ==
  /\ Idle \in WorkerType /\ Idle.pc = "idle" /\ Idle.next = 1
  /\ All \subseteq 1..(Batches + 1) /\ 1 \in All /\ Delete \notin All
  /\ {"idle", "claim", "refuse", "commit"} \cap Ingesting = {}
BY IngestionAssumption DEF Idle, WorkerType, All, Delete, Ingesting

(* A worker as the record it is.                                           *)
LEMMA WorkerShape ==
  ASSUME WorkersOK, NEW w \in Workers
  PROVE  /\ worker[w] \in WorkerType
         /\ worker[w].pc # "idle" => worker[w].doc \in Docs
         /\ worker[w].pc \in {"claim", "refuse", "prepare", "delete"} => worker[w].next = 1
         /\ worker[w].pc = "index" => worker[w].next <= Batches
         /\ worker[w].pc \in Ingesting =>
              worker[w].claim \in 1..doc[worker[w].doc].attempts
BY DEF WorkersOK

(* Where a step may take a worker: to a typed record...                    *)
Moves(w, x) ==
  /\ x \in WorkerType
  /\ worker' = [worker EXCEPT ![w] = x]
  /\ x.pc # "idle" => x.doc \in Docs
  /\ x.pc \in {"claim", "refuse", "prepare", "delete"} => x.next = 1
  /\ x.pc = "index" => x.next <= Batches
  /\ x.pc \in Ingesting => x.claim \in 1..doc'[x.doc].attempts

(* ...and, in a handler, at the document it already has in hand.           *)
SameDoc(w, x) == x.pc # "idle" => x.doc = worker[w].doc /\ worker[w].pc # "idle"

(* A step of a handler moves it along, with the document it has in hand.  *)
LEMMA HandlerMoves ==
  ASSUME StoresOK, WorkersOK, NEW w \in Workers, Handler(w)
  PROVE  \E x : Moves(w, x) /\ SameDoc(w, x)
<1>1. /\ worker[w] \in WorkerType
      /\ worker[w].pc # "idle" => worker[w].doc \in Docs
      /\ worker[w].pc \in {"claim", "refuse", "prepare", "delete"} => worker[w].next = 1
      /\ worker[w].pc = "index" => worker[w].next <= Batches
      /\ worker[w].pc \in Ingesting =>
           worker[w].claim \in 1..doc[worker[w].doc].attempts
  BY WorkerShape
<1>2. Batches \in Nat \ {0}
  BY IngestionAssumption
<1>3. worker[w].next \in Nat /\ worker[w].claim \in Nat
  BY <1>1, <1>2 DEF WorkerType
<1>4. ASSUME NEW pc \in Ingesting \cup {"commit"}, Goto(w, pc),
             worker[w].pc # "idle",
             pc \in Ingesting => worker[w].pc \in Ingesting,
             pc \in {"prepare", "delete"} => worker[w].next = 1,
             pc = "index" => worker[w].next <= Batches,
             \A d \in Docs : doc'[d].attempts = doc[d].attempts
      PROVE  \E x : Moves(w, x) /\ SameDoc(w, x)
  <2> DEFINE x == [worker[w] EXCEPT !.pc = pc]
  <2>1. x \in WorkerType /\ x.pc = pc /\ x.doc = worker[w].doc
        /\ x.claim = worker[w].claim /\ x.next = worker[w].next
    BY <1>1, <1>4 DEF WorkerType
  <2>2. worker' = [worker EXCEPT ![w] = x]
    BY <1>4 DEF Goto
  <2> HIDE DEF x
  <2> QED BY <1>1, <1>4, <2>1, <2>2 DEF Moves, SameDoc, Ingesting
<1>5. CASE worker' = [worker EXCEPT ![w] = Idle]
  BY <1>5, Shapes DEF Moves, SameDoc
<1>6. CASE ClaimDocument(w)
  <2> DEFINE d == worker[w].doc
             pc == IF worker[w].pc = "claim" THEN "prepare" ELSE "failed"
             x == [worker[w] EXCEPT !.pc = pc, !.claim = doc[d].attempts + 1]
  <2>1. /\ d \in Docs /\ doc[d].attempts \in Nat
        /\ doc'[d].attempts = doc[d].attempts + 1
        /\ worker[w].pc # "idle"
    BY <1>1, <1>6 DEF ClaimDocument, StoresOK
  <2>2. pc \in {"prepare", "failed"} /\ doc[d].attempts + 1 \in Nat
    BY <2>1
  <2>3. worker' = [worker EXCEPT ![w] = x]
    BY <1>6 DEF ClaimDocument
  <2> HIDE DEF pc
  <2>4. x \in WorkerType /\ x.pc = pc /\ x.doc = d /\ x.claim = doc[d].attempts + 1
        /\ x.next = worker[w].next
    BY <1>1, <2>1, <2>2 DEF WorkerType, Ingesting
  <2>5. x.claim \in 1..doc'[x.doc].attempts
    BY <2>1, <2>4
  <2> HIDE DEF x
  <2> QED BY <1>1, <1>6, <2>1, <2>2, <2>3, <2>4, <2>5 DEF Moves, SameDoc, ClaimDocument
<1>7. CASE IndexBatch(w)
  <2> DEFINE pc == IF worker[w].next = Batches THEN "ready" ELSE "index"
             x == [worker[w] EXCEPT !.pc = pc, !.next = worker[w].next + 1]
  <2>1. /\ worker[w].pc = "index" /\ worker[w].next <= Batches
        /\ worker' = [worker EXCEPT ![w] = x]
        /\ doc' = doc
    BY <1>1, <1>7 DEF IndexBatch, row
  <2>2. /\ pc \in {"ready", "index"}
        /\ pc = "index" => worker[w].next + 1 <= Batches
        /\ worker[w].next + 1 \in 1..(Batches + 1)
    BY <1>2, <1>3, <2>1
  <2> HIDE DEF pc
  <2>3. x \in WorkerType /\ x.pc = pc /\ x.doc = worker[w].doc
        /\ x.claim = worker[w].claim /\ x.next = worker[w].next + 1
    BY <1>1, <2>1, <2>2 DEF WorkerType, Ingesting
  <2> HIDE DEF x
  <2> QED BY <1>1, <2>1, <2>2, <2>3 DEF Moves, SameDoc, Ingesting
<1>8. CASE DeleteByDocument(w)
  <2>1. worker[w].pc \in {"delete", "cleanup"} /\ doc' = doc
    BY <1>8 DEF DeleteByDocument, row
  <2>2. CASE worker[w].pc = "delete"
    BY <1>1, <1>2, <1>4, <1>8, <2>1, <2>2 DEF DeleteByDocument, Ingesting
  <2>3. CASE worker[w].pc # "delete"
    BY <1>4, <1>8, <2>1, <2>3 DEF DeleteByDocument, Ingesting
  <2> QED BY <2>2, <2>3
<1>9. CASE MarkDocumentReady(w) \/ MarkDocumentFailed(w)
  <2>1. \A d \in Docs : doc'[d].attempts = doc[d].attempts
    BY <1>9 DEF MarkDocumentReady, MarkDocumentFailed, Terminal, StoresOK, row
  <2> QED BY <1>4, <1>9, <2>1 DEF MarkDocumentReady, MarkDocumentFailed, Terminal, Ingesting
<1>10. CASE \/ RefusedClaim(w) \/ Prepare(w) \/ PrepareFails(w) \/ DeleteFails(w)
            \/ IndexFails(w) \/ StatementFails(w)
  BY <1>1, <1>4, <1>10 DEF RefusedClaim, Prepare, PrepareFails, DeleteFails, IndexFails,
    StatementFails, row, Ingesting
<1> QED
  BY <1>5, <1>6, <1>7, <1>8, <1>9, <1>10 DEF Handler, Commit, CommitFails

(* The workers stay typed when one of them moves and no attempt is undone. *)
LEMMA WorkersMove ==
  ASSUME StoresOK, WorkersOK, NEW w \in Workers, NEW x, Moves(w, x),
         StoresOK', \A d \in Docs : doc'[d].attempts >= doc[d].attempts
  PROVE  WorkersOK'
<1>1. worker' \in [Workers -> WorkerType] /\ worker'[w] = x
  BY DEF WorkersOK, Moves
<1>2. ASSUME NEW v \in Workers, v # w
      PROVE  /\ worker'[v] = worker[v]
             /\ worker[v].pc \in Ingesting =>
                  worker[v].claim \in 1..doc'[worker[v].doc].attempts
  <2>1. worker'[v] = worker[v]
    BY <1>2 DEF WorkersOK, Moves
  <2>2. ASSUME worker[v].pc \in Ingesting
        PROVE  worker[v].claim \in 1..doc'[worker[v].doc].attempts
    <3>1. /\ worker[v].doc \in Docs
          /\ worker[v].claim \in 1..doc[worker[v].doc].attempts
      BY <2>2, Shapes DEF WorkersOK
    <3>2. /\ doc[worker[v].doc].attempts \in Nat /\ doc'[worker[v].doc].attempts \in Nat
          /\ doc'[worker[v].doc].attempts >= doc[worker[v].doc].attempts
      BY <3>1 DEF StoresOK
    <3> QED BY <3>1, <3>2
  <2> QED BY <2>1, <2>2
<1> QED BY <1>1, <1>2 DEF WorkersOK, Moves

(* What happens to the rows and the index: created, claimed, ended, aged;  *)
(* emptied, filled.                                                        *)
LEMMA StoresMove ==
  ASSUME StoresOK, WorkersOK, [Next]_vars
  PROVE  StoresOK' /\ \A d \in Docs : doc'[d].attempts >= doc[d].attempts
<1> DEFINE G == StoresOK' /\ \A d \in Docs : doc'[d].attempts >= doc[d].attempts
<1> USE DEF StoresOK
<1>0. /\ \A d \in Docs : doc[d].attempts \in Nat
      /\ \A n \in Nat : n + 1 \in Nat /\ n + 1 >= n /\ n >= n
  OBVIOUS
<1>1. ASSUME UNCHANGED <<row, search>> PROVE G
  BY <1>0, <1>1 DEF row, search
<1>2. ASSUME NEW d \in Docs, CreateDocument(d) PROVE G
  BY <1>0, <1>2 DEF CreateDocument, Statuses, search
<1>3. ASSUME NEW d \in Docs, Age(d) PROVE G
  BY <1>0, <1>3 DEF Age, search
<1>4. ASSUME NEW d \in Docs, LandDelete(d) \/ \E k \in All : Land(d, k) PROVE G
  BY <1>0, <1>4 DEF Land, LandDelete, row
<1>5. ASSUME NEW w \in Workers, ClaimDocument(w) PROVE G
  <2>1. worker[w].doc \in Docs
    BY <1>5, WorkerShape DEF ClaimDocument
  <2> DEFINE x == [status |-> "PROCESSING", attempts |-> doc[worker[w].doc].attempts + 1]
  <2>2. x \in [status: Statuses, attempts: Nat] /\ x.attempts >= doc[worker[w].doc].attempts
    BY <1>0, <2>1 DEF Statuses
  <2>3. doc' = [doc EXCEPT ![worker[w].doc] = x]
    BY <1>5 DEF ClaimDocument
  <2> HIDE DEF x
  <2>4. /\ doc' \in [Docs -> [status: Statuses, attempts: Nat]]
        /\ \A d \in Docs : doc'[d].attempts >= doc[d].attempts
    BY <1>0, <2>1, <2>2, <2>3
  <2> QED BY <1>5, <2>4 DEF ClaimDocument, search
<1>6. ASSUME NEW w \in Workers, NEW status \in {"READY", "FAILED"}, Terminal(w, status)
      PROVE G
  <2> DEFINE d == worker[w].doc
             x == [doc[d] EXCEPT !.status = status]
  <2>1. CASE UNCHANGED row
    BY <1>0, <1>6, <2>1 DEF Terminal, row, search
  <2>2. CASE /\ doc' = [doc EXCEPT ![d] = x]
             /\ aged' = [aged EXCEPT ![d] = "fresh"]
    <3>1. d \in Docs => /\ x \in [status: Statuses, attempts: Nat]
                        /\ x.attempts = doc[d].attempts
      BY DEF Statuses
    <3> HIDE DEF x
    <3>2. /\ doc' \in [Docs -> [status: Statuses, attempts: Nat]]
          /\ \A e \in Docs : doc'[e].attempts >= doc[e].attempts
      BY <1>0, <2>2, <3>1
    <3> QED BY <1>6, <2>2, <3>2 DEF Terminal, search
  <2> QED BY <1>6, <2>1, <2>2 DEF Terminal
<1>7. ASSUME NEW w \in Workers, DeleteByDocument(w) PROVE G
  BY <1>0, <1>7 DEF DeleteByDocument, row
<1>8. ASSUME NEW w \in Workers, DeleteFails(w) PROVE G
  <2>1. worker[w].doc \in Docs
    BY <1>8, WorkerShape DEF DeleteFails
  <2> QED BY <1>0, <1>8, <2>1 DEF DeleteFails, row
<1>9. ASSUME NEW w \in Workers, IndexBatch(w) \/ IndexFails(w) PROVE G
  <2>1. worker[w].next \in All
    BY <1>9, WorkerShape, IngestionAssumption DEF IndexBatch, IndexFails, WorkerType, All
  <2> QED BY <1>0, <1>9, <2>1 DEF IndexBatch, IndexFails, row, search
<1>10. ASSUME NEW d \in Docs,
              \/ Enqueue(d) \/ EnqueueLost(d) \/ Evict(d)
              \/ SweepProduce(d) \/ SweepProduceFails(d)
       PROVE G
  BY <1>1, <1>10 DEF Enqueue, EnqueueLost, Evict, SweepProduce, SweepProduceFails
<1>11. ASSUME NEW w \in Workers, NEW d \in Docs,
              Assign(d, w) \/ Poll(w, d) \/ PollUnreadable(w, d)
       PROVE G
  BY <1>1, <1>11 DEF Assign, Poll, PollUnreadable
<1>12. ASSUME NEW w \in Workers,
              \/ RefusedClaim(w) \/ Prepare(w) \/ PrepareFails(w) \/ StatementFails(w)
              \/ Commit(w) \/ CommitFails(w)
       PROVE G
  BY <1>1, <1>12 DEF RefusedClaim, Prepare, PrepareFails, StatementFails,
    Commit, CommitFails
<1>16. ASSUME NEW w \in Workers, Crash(w) PROVE G
  <2>1. InFlight(w) \subseteq All \cup {Delete}
    <3>1. worker[w].pc = "index" => worker[w].next \in All
      BY WorkerShape, IngestionAssumption DEF WorkerType, All
    <3> QED BY <3>1 DEF InFlight
  <2>2. late' \in [Docs -> SUBSET (All \cup {Delete})]
    BY <1>16, <2>1 DEF Crash
  <2> QED BY <1>0, <1>16, <2>2 DEF Crash, row
<1>13. CASE SweepList \/ UNCHANGED vars
  BY <1>1, <1>13 DEF SweepList, vars, row, search
<1> HIDE DEF StoresOK
<1>14. ASSUME NEW w \in Workers, Handler(w) PROVE G
  <2>1. CASE MarkDocumentReady(w) \/ MarkDocumentFailed(w)
    BY <1>6, <2>1 DEF MarkDocumentReady, MarkDocumentFailed
  <2> QED BY <1>5, <1>7, <1>8, <1>9, <1>12, <1>14, <2>1 DEF Handler
<1>15. ASSUME NEW d \in Docs,
              \/ CreateDocument(d) \/ Enqueue(d) \/ EnqueueLost(d)
              \/ Evict(d) \/ Age(d) \/ LandDelete(d)
              \/ SweepProduce(d) \/ SweepProduceFails(d)
       PROVE G
  BY <1>2, <1>3, <1>4, <1>10, <1>15
<1> QED
  BY <1>4, <1>11, <1>13, <1>14, <1>15, <1>16 DEF Next

(* The record in a worker's hands is in the backlog while it owns the      *)
(* partition: only its own commit takes it away.                           *)
LEMMA BrokerMoves ==
  ASSUME StoresOK, WorkersOK, BrokerOK, [Next]_vars
  PROVE  BrokerOK'
<1> USE DEF BrokerOK
<1>1. ASSUME UNCHANGED <<unsent, broker, worker, swept>> PROVE BrokerOK'
  BY <1>1 DEF broker
<1>2. ASSUME NEW d \in Docs, CreateDocument(d) \/ EnqueueLost(d) \/ SweepProduceFails(d)
      PROVE  BrokerOK'
  BY <1>2 DEF CreateDocument, EnqueueLost, SweepProduceFails, broker
<1>3. ASSUME NEW d \in Docs, Produce(d), UNCHANGED <<owner, worker>>,
             unsent' \subseteq Docs, swept' \subseteq Docs
      PROVE  BrokerOK'
  <2>1. /\ backlog' \in [Docs -> Nat]
        /\ \A e \in Docs : backlog[e] > 0 => backlog'[e] > 0
    BY <1>3 DEF Produce
  <2> QED BY <1>3, <2>1 DEF WorkersOK
<1>4. ASSUME NEW d \in Docs, Enqueue(d) \/ SweepProduce(d) PROVE BrokerOK'
  BY <1>3, <1>4 DEF Enqueue, SweepProduce
<1>5. ASSUME NEW d \in Docs, NEW w \in Workers, Assign(d, w) PROVE BrokerOK'
  <2>1. owner' \in [Docs -> Workers \cup {NoWorker}]
    BY <1>5 DEF Assign
  <2>2. ASSUME NEW v \in Workers, worker[v].pc # "idle", owner'[worker[v].doc] = v
        PROVE  owner[worker[v].doc] = v
    BY <1>5, <2>2 DEF Assign, WorkersOK
  <2> QED BY <1>5, <2>1, <2>2 DEF Assign
<1>6. ASSUME NEW d \in Docs, Evict(d) PROVE BrokerOK'
  <2>1. owner' \in [Docs -> Workers \cup {NoWorker}]
    BY <1>6 DEF Evict
  <2>2. ASSUME NEW v \in Workers, worker[v].pc # "idle", owner'[worker[v].doc] = v
        PROVE  owner[worker[v].doc] = v
    BY <1>6, <2>2, IngestionAssumption DEF Evict, WorkersOK
  <2> QED BY <1>6, <2>1, <2>2 DEF Evict
<1>7. ASSUME NEW w \in Workers, NEW x, worker' = [worker EXCEPT ![w] = x],
             x.pc # "idle" /\ owner[x.doc] = w => backlog[x.doc] > 0,
             UNCHANGED <<unsent, broker, swept>>
      PROVE  BrokerOK'
  BY <1>7 DEF WorkersOK, broker
<1>8. ASSUME NEW w \in Workers, NEW d \in Docs, Poll(w, d) \/ PollUnreadable(w, d)
      PROVE  BrokerOK'
  <2>1. PICK pc \in {"claim", "refuse", "commit"} :
          worker' = [worker EXCEPT ![w] = [Idle EXCEPT !.pc = pc, !.doc = d]]
    BY <1>8 DEF Poll, PollUnreadable
  <2> DEFINE x == [Idle EXCEPT !.pc = pc, !.doc = d]
  <2>2. x.doc = d
    BY DEF Idle
  <2>3. worker' = [worker EXCEPT ![w] = x]
    BY <2>1
  <2> HIDE DEF x
  <2> QED BY <1>7, <1>8, <2>2, <2>3 DEF Poll, PollUnreadable
<1>9. ASSUME NEW w \in Workers, Handler(w), UNCHANGED <<unsent, broker, swept>>
      PROVE  BrokerOK'
  <2>1. PICK x : Moves(w, x) /\ SameDoc(w, x)
    BY <1>9, HandlerMoves
  <2> QED BY <1>7, <1>9, <2>1 DEF Moves, SameDoc
<1>10. ASSUME NEW w \in Workers, Commit(w) PROVE BrokerOK'
  <2> DEFINE d == worker[w].doc
  <2>1. d \in Docs /\ (owner[d] = w => backlog[d] > 0)
    BY <1>10, WorkerShape DEF Commit
  <2>2. CASE owner[d] = w
    <3>1. /\ backlog' = [backlog EXCEPT ![d] = backlog[d] - 1]
          /\ worker' = [worker EXCEPT ![w] = Idle]
          /\ UNCHANGED <<unsent, owner, swept>>
      BY <1>10, <2>2 DEF Commit
    <3>2. backlog' \in [Docs -> Nat]
      BY <2>1, <2>2, <3>1
    <3>3. ASSUME NEW v \in Workers, worker'[v].pc # "idle", owner'[worker'[v].doc] = v
          PROVE  backlog'[worker'[v].doc] > 0
      <4>1. v # w /\ worker'[v] = worker[v] /\ worker[v].doc \in Docs
        BY <3>1, <3>3, Shapes DEF WorkersOK
      <4>2. worker[v].doc # d
        BY <2>2, <3>1, <3>3, <4>1
      <4> QED BY <3>1, <3>3, <4>1, <4>2
    <3> QED BY <3>1, <3>2, <3>3
  <2>3. CASE owner[d] # w
    BY <1>7, <1>10, <2>3, Shapes DEF Commit, broker
  <2> QED BY <2>2, <2>3
<1>11. ASSUME NEW w \in Workers, Crash(w) PROVE BrokerOK'
  <2>1. /\ worker' = [worker EXCEPT ![w] = Idle]
        /\ owner' \in [Docs -> Workers \cup {NoWorker}]
        /\ UNCHANGED <<unsent, backlog, swept>>
    BY <1>11 DEF Crash
  <2>2. ASSUME NEW v \in Workers, worker'[v].pc # "idle", owner'[worker'[v].doc] = v
        PROVE  backlog'[worker'[v].doc] > 0
    <3>1. v # w /\ worker'[v] = worker[v] /\ worker[v].doc \in Docs
      BY <2>1, <2>2, Shapes DEF WorkersOK
    <3>2. owner[worker[v].doc] = v
      BY <1>11, <2>2, <3>1, IngestionAssumption DEF Crash
    <3> QED BY <2>1, <2>2, <3>1, <3>2
  <2> QED BY <2>1, <2>2
<1>12. CASE SweepList
  BY <1>12 DEF SweepList, Due, Retryable, Oldest, With, broker
<1>13. ASSUME NEW w \in Workers, Handler(w) PROVE BrokerOK'
  <2>1. Commit(w) \/ UNCHANGED <<unsent, broker, swept>>
    BY <1>13 DEF Handler, ClaimDocument, RefusedClaim, Prepare, PrepareFails,
      DeleteByDocument, DeleteFails, IndexBatch, IndexFails, MarkDocumentReady,
      MarkDocumentFailed, Terminal, StatementFails, CommitFails
  <2> QED BY <1>9, <1>10, <1>13, <2>1
<1>14. CASE \/ \E d \in Docs : Age(d) \/ LandDelete(d)
            \/ \E d \in Docs, k \in All : Land(d, k)
            \/ UNCHANGED vars
  BY <1>1, <1>14 DEF Age, Land, LandDelete, vars, broker
<1> QED
  BY <1>2, <1>4, <1>5, <1>6, <1>8, <1>11, <1>12, <1>13, <1>14 DEF Next

(* A step of anyone keeps the types.                                       *)
LEMMA TypeStep ==
  ASSUME TypeOK, [Next]_vars
  PROVE  TypeOK'
<1> USE DEF TypeOK
<1>1. StoresOK' /\ BrokerOK' /\ \A d \in Docs : doc'[d].attempts >= doc[d].attempts
  BY StoresMove, BrokerMoves
<1>2. faults' \in Nat
  <2>1. ASSUME Fault PROVE faults' \in Nat
    BY <2>1 DEF Fault
  <2>2. ASSUME NEW w \in Workers, Handler(w) \/ Crash(w) PROVE faults' \in Nat
    BY <2>1, <2>2 DEF Handler, ClaimDocument, RefusedClaim, Prepare, PrepareFails,
      DeleteByDocument, DeleteFails, IndexBatch, IndexFails, MarkDocumentReady,
      MarkDocumentFailed, Terminal, StatementFails, Commit, CommitFails, Crash
  <2> QED
    BY <2>1, <2>2 DEF Next, vars, CreateDocument, Enqueue, EnqueueLost, Evict, Age,
      SweepProduce, SweepProduceFails, Land, LandDelete, Assign, Poll, PollUnreadable, SweepList
<1>3. CASE UNCHANGED worker
  <2>1. ASSUME NEW w \in Workers, worker[w].pc \in Ingesting
        PROVE  worker[w].claim \in 1..doc'[worker[w].doc].attempts
    <3>1. worker[w].doc \in Docs /\ worker[w].claim \in 1..doc[worker[w].doc].attempts
      BY <2>1, Shapes DEF WorkersOK
    <3> QED BY <1>1, <3>1 DEF StoresOK
  <2> QED BY <1>1, <1>2, <1>3, <2>1 DEF WorkersOK
<1>4. ASSUME NEW w \in Workers, Handler(w) PROVE WorkersOK'
  <2>1. PICK x : Moves(w, x)
    BY <1>4, HandlerMoves
  <2> QED BY <1>1, <2>1, WorkersMove
<1>5. ASSUME NEW w \in Workers, Crash(w) PROVE WorkersOK'
  <2>1. Moves(w, Idle)
    BY <1>5, Shapes DEF Crash, Moves
  <2> QED BY <1>1, <2>1, WorkersMove
<1>6. ASSUME NEW w \in Workers, NEW d \in Docs, Poll(w, d) \/ PollUnreadable(w, d)
      PROVE  WorkersOK'
  <2>1. PICK pc \in {"claim", "refuse", "commit"} :
          worker' = [worker EXCEPT ![w] = [Idle EXCEPT !.pc = pc, !.doc = d]]
    BY <1>6 DEF Poll, PollUnreadable
  <2> DEFINE x == [Idle EXCEPT !.pc = pc, !.doc = d]
  <2>2. x \in WorkerType /\ x.pc = pc /\ x.doc = d /\ x.next = 1
    BY Shapes DEF WorkerType
  <2>3. worker' = [worker EXCEPT ![w] = x]
    BY <2>1
  <2> HIDE DEF x
  <2>4. Moves(w, x)
    BY <2>2, <2>3, Shapes DEF Moves
  <2> QED BY <1>1, <2>4, WorkersMove
<1>7. WorkersOK' \/ UNCHANGED worker
  BY <1>4, <1>5, <1>6 DEF Next, vars, CreateDocument, Enqueue, EnqueueLost, Evict, Age,
    SweepProduce, SweepProduceFails, Land, LandDelete, Assign, SweepList
<1> QED BY <1>1, <1>2, <1>3, <1>7

(* Every reachable state is typed: a worker past its claim holds a claim   *)
(* the row has given, its next batch exists, and the record in the hands   *)
(* of a worker that owns the partition is still unread in the backlog.     *)
THEOREM TypeCorrect == Spec => []TypeOK
<1>1. Init => TypeOK
  BY Shapes, IngestionAssumption
  DEF Init, TypeOK, StoresOK, WorkersOK, BrokerOK, Statuses
<1>2. TypeOK /\ [Next]_vars => TypeOK'
  BY TypeStep
<1> QED BY <1>1, <1>2, PTL DEF Spec

-----------------------------------------------------------------------------
(* One ingestion at a time, and what it leaves in the index                *)

(* A step that leaves rows and workers, and takes nothing from the index   *)
(* that is not struck.                                                     *)
LEMMA Apart ==
  ASSUME TypeOK, IngestionInv, UNCHANGED <<row, worker>>, StoresOK',
         struck \subseteq struck',
         \A d \in Docs : d \notin struck' => index[d] \subseteq index'[d]
  PROVE  IngestionInv'
<1> USE DEF IngestionInv
<1>1. doc' = doc /\ aged' = aged /\ worker' = worker
  BY DEF row
<1>2. LeaseKept' /\ OneIngestion'
  BY <1>1 DEF LeaseKept, OneIngestion
<1>3. ASSUME NEW d \in Docs, d \notin struck', index[d] = All
      PROVE  index'[d] = All /\ d \notin struck
  BY <1>3 DEF StoresOK
<1>4. ASSUME NEW w \in Workers, worker[w].pc \in {"index", "ready"}
      PROVE  worker[w].doc \in Docs
  BY <1>4 DEF TypeOK, WorkersOK
<1>5. BatchesKept'
  BY <1>1, <1>3, <1>4 DEF BatchesKept
<1>6. ReadyIsComplete'
  BY <1>1, <1>3 DEF ReadyIsComplete
<1> QED BY <1>2, <1>5, <1>6

(* A step of a worker that neither is nor goes inside an ingestion's       *)
(* writes: it leaves the rows and the index.                               *)
LEMMA Outside ==
  ASSUME TypeOK, IngestionInv, NEW w \in Workers, NEW x, Moves(w, x),
         x.pc \notin Ingesting, UNCHANGED <<row, index, struck>>
  PROVE  IngestionInv'
<1>1. \A v \in Workers : v # w => worker'[v] = worker[v]
  BY DEF Moves, TypeOK, WorkersOK
<1>2. worker'[w] = x /\ x.pc \notin {"index", "ready"}
  BY DEF Moves, TypeOK, WorkersOK, Ingesting
<1>3. doc' = doc /\ aged' = aged /\ index' = index /\ struck' = struck
  BY DEF row
<1> USE <1>1, <1>2, <1>3 DEF IngestionInv
<1>4. LeaseKept'
  BY DEF LeaseKept
<1>5. OneIngestion'
  BY DEF OneIngestion
<1>6. BatchesKept'
  BY DEF BatchesKept
<1>7. ReadyIsComplete'
  BY DEF ReadyIsComplete
<1> QED BY <1>4, <1>5, <1>6, <1>7

(* A step inside an ingestion, at its own document's chunks only.          *)
LEMMA Inside ==
  ASSUME TypeOK, IngestionInv, NEW w \in Workers, worker[w].pc \in Ingesting,
         NEW x, Moves(w, x), x.doc = worker[w].doc, x.claim = worker[w].claim,
         UNCHANGED row, StoresOK',
         \A d \in Docs : d # worker[w].doc =>
           index'[d] = index[d] /\ (d \in struck => d \in struck'),
         x.pc = "index" /\ x.doc \notin struck' => 1..(x.next - 1) \subseteq index'[x.doc],
         x.pc = "ready" /\ x.doc \notin struck' => index'[x.doc] = All
  PROVE  IngestionInv'
<1>1. \A v \in Workers : v # w => worker'[v] = worker[v]
  BY DEF Moves, TypeOK, WorkersOK
<1>2. worker'[w] = x
  BY DEF Moves, TypeOK, WorkersOK
<1>3. doc' = doc /\ aged' = aged
  BY DEF row
<1>4. \A v \in Workers : v # w /\ worker[v].pc \in Ingesting =>
        worker[v].doc # worker[w].doc
  BY DEF IngestionInv, OneIngestion
<1>5. LeaseKept'
  BY <1>1, <1>2, <1>3 DEF IngestionInv, LeaseKept
<1>6. OneIngestion'
  BY <1>1, <1>2 DEF IngestionInv, OneIngestion
<1>7. BatchesKept'
  <2>1. \A v \in Workers : worker[v].pc \in Ingesting => worker[v].doc \in Docs
    BY Shapes DEF TypeOK, WorkersOK
  <2>2. ASSUME NEW v \in Workers, v # w, worker[v].pc \in Ingesting
        PROVE  /\ worker'[v] = worker[v] /\ index'[worker[v].doc] = index[worker[v].doc]
               /\ worker[v].doc \notin struck' => worker[v].doc \notin struck
    BY <1>1, <1>4, <2>1, <2>2
  <2> QED BY <1>1, <1>2, <2>2 DEF IngestionInv, BatchesKept, Ingesting
<1>8. ReadyIsComplete'
  BY <1>3 DEF IngestionInv, LeaseKept, ReadyIsComplete
<1> QED BY <1>5, <1>6, <1>7, <1>8 DEF IngestionInv

(* A claim finds nobody inside the document's ingestion: a row it may take *)
(* is not PROCESSING, or its lease has run out.                            *)
LEMMA ClaimStep ==
  ASSUME TypeOK, IngestionInv, NEW w \in Workers, ClaimDocument(w), NEW x, Moves(w, x),
         SameDoc(w, x)
  PROVE  IngestionInv'
<1> DEFINE d == worker[w].doc
<1>1. /\ d \in Docs /\ doc[d].attempts \in Nat
      /\ worker[w] \in WorkerType /\ worker[w].next = 1
      /\ worker[w].pc \in {"claim", "refuse"}
      /\ Claimable(d)
  BY WorkerShape DEF TypeOK, StoresOK, ClaimDocument
<1>2. /\ \A v \in Workers : v # w => worker'[v] = worker[v]
      /\ worker'[w] = x
  BY DEF Moves, TypeOK, WorkersOK
<1>3. /\ x.pc \in {"prepare", "failed"}
      /\ x.doc = d /\ x.claim = doc[d].attempts + 1
  BY <1>1, <1>2 DEF ClaimDocument, WorkerType, SameDoc, TypeOK, WorkersOK
<1>4. /\ \A e \in Docs : e # d => doc'[e] = doc[e] /\ aged'[e] = aged[e]
      /\ doc'[d] = [status |-> "PROCESSING", attempts |-> doc[d].attempts + 1]
      /\ aged'[d] = "fresh"
      /\ index' = index /\ struck' = struck
  BY <1>1 DEF ClaimDocument, TypeOK, StoresOK, search
<1>5. ASSUME NEW v \in Workers, v # w, worker[v].pc \in Ingesting
      PROVE  worker[v].doc \in Docs /\ worker[v].doc # d
  <2>1. worker[v].doc \in Docs
    BY <1>5, Shapes DEF TypeOK, WorkersOK
  <2>2. /\ doc[worker[v].doc].status = "PROCESSING"
        /\ aged[worker[v].doc] # "due"
    BY <1>5 DEF IngestionInv, LeaseKept
  <2> QED BY <1>1, <2>1, <2>2 DEF Claimable
<1>6. LeaseKept'
  BY <1>2, <1>3, <1>4, <1>5 DEF IngestionInv, LeaseKept
<1>7. OneIngestion'
  BY <1>2, <1>3, <1>5 DEF IngestionInv, OneIngestion
<1>8. BatchesKept'
  BY <1>2, <1>3, <1>4, <1>5 DEF IngestionInv, BatchesKept, Ingesting
<1>9. ReadyIsComplete'
  BY <1>4 DEF IngestionInv, ReadyIsComplete
<1> QED BY <1>6, <1>7, <1>8, <1>9 DEF IngestionInv

(* A terminal write ends its own attempt, READY with every batch indexed.  *)
LEMMA TerminalStep ==
  ASSUME TypeOK, IngestionInv, NEW w \in Workers, NEW status \in {"READY", "FAILED"},
         Terminal(w, status), worker[w].pc = IF status = "READY" THEN "ready" ELSE "failed"
  PROVE  IngestionInv'
<1> DEFINE d == worker[w].doc
<1>1. /\ d \in Docs /\ worker[w].pc \in Ingesting
  BY WorkerShape DEF TypeOK, Ingesting
<1>2. /\ \A v \in Workers : v # w => worker'[v] = worker[v]
      /\ worker'[w].pc = "commit"
  BY DEF Terminal, Goto, TypeOK, WorkersOK, WorkerType
<1>3. doc[d].status = "PROCESSING"
  BY <1>1 DEF IngestionInv, LeaseKept
<1>4. /\ \A e \in Docs : e # d => doc'[e] = doc[e] /\ aged'[e] = aged[e]
      /\ doc'[d].status = status
      /\ index' = index /\ struck' = struck
  BY <1>1, <1>3 DEF Terminal, TypeOK, StoresOK, search
<1>5. ASSUME NEW v \in Workers, v # w, worker[v].pc \in Ingesting
      PROVE  worker[v].doc \in Docs /\ worker[v].doc # d
  <2>1. worker[v].doc \in Docs
    BY <1>5, Shapes DEF TypeOK, WorkersOK
  <2> QED BY <1>1, <1>5, <2>1 DEF IngestionInv, OneIngestion
<1>6. LeaseKept'
  BY <1>2, <1>4, <1>5, Shapes DEF IngestionInv, LeaseKept
<1>7. OneIngestion'
  BY <1>2, Shapes DEF IngestionInv, OneIngestion
<1>8. BatchesKept'
  BY <1>2, <1>4, <1>5 DEF IngestionInv, BatchesKept, Ingesting
<1>9. status = "READY" /\ d \notin struck => index[d] = All
  BY DEF IngestionInv, BatchesKept
<1>10. ReadyIsComplete'
  BY <1>4, <1>9 DEF IngestionInv, ReadyIsComplete
<1> QED BY <1>6, <1>7, <1>8, <1>10 DEF IngestionInv

(* Every step inside an ingestion keeps the batches counted.               *)
LEMMA WorkStep ==
  ASSUME TypeOK, IngestionInv, [Next]_vars, NEW w \in Workers,
         \/ Prepare(w) \/ PrepareFails(w) \/ DeleteByDocument(w) \/ DeleteFails(w)
         \/ IndexBatch(w) \/ IndexFails(w)
  PROVE  IngestionInv'
<1> DEFINE d == worker[w].doc
<1>1. PICK x : Moves(w, x) /\ SameDoc(w, x)
  BY HandlerMoves DEF TypeOK, Handler
<1>2. /\ worker[w].pc \in Ingesting /\ worker[w] \in WorkerType
      /\ d \in Docs /\ worker'[w] = x /\ StoresOK'
  BY <1>1, WorkerShape, StoresMove
  DEF TypeOK, Prepare, PrepareFails, DeleteByDocument, DeleteFails, IndexBatch, IndexFails,
    Ingesting, Moves, WorkersOK
<1>3. /\ UNCHANGED row
      /\ \A e \in Docs : e # d => index'[e] = index[e] /\ (e \in struck => e \in struck')
  BY <1>2 DEF TypeOK, StoresOK, Prepare, PrepareFails, DeleteByDocument, DeleteFails,
    IndexBatch, IndexFails, search
<1>4. CASE Prepare(w) \/ PrepareFails(w) \/ DeleteFails(w) \/ IndexFails(w)
  <2>1. PICK pc \in {"delete", "failed", "cleanup"} : Goto(w, pc)
    BY <1>4 DEF Prepare, PrepareFails, DeleteFails, IndexFails
  <2>2. x.pc = pc /\ x.doc = d /\ x.claim = worker[w].claim
    BY <1>2, <2>1 DEF Goto, TypeOK, WorkersOK, WorkerType
  <2> QED BY <1>1, <1>2, <1>3, <2>2, Inside
<1>5. CASE DeleteByDocument(w)
  <2>1. PICK pc \in {"index", "failed"} :
          Goto(w, pc) /\ (pc = "index" => worker[w].pc = "delete")
    BY <1>5 DEF DeleteByDocument
  <2>2. /\ x.pc = pc /\ x.doc = d /\ x.claim = worker[w].claim
        /\ x.next = worker[w].next
    BY <1>2, <2>1 DEF Goto, TypeOK, WorkersOK, WorkerType
  <2>3. x.pc = "index" => 1..(x.next - 1) \subseteq index'[x.doc]
    BY <2>1, <2>2, WorkerShape DEF TypeOK
  <2> QED BY <1>1, <1>2, <1>3, <2>1, <2>2, <2>3, Inside
<1>6. CASE IndexBatch(w)
  <2> DEFINE n == worker[w].next
  <2>1. PICK pc \in {"index", "ready"} :
          /\ worker' = [worker EXCEPT ![w] = [worker[w] EXCEPT !.pc = pc, !.next = n + 1]]
          /\ pc = "ready" => n = Batches
    BY <1>6 DEF IndexBatch
  <2>2. /\ x.pc = pc /\ x.doc = d /\ x.claim = worker[w].claim /\ x.next = n + 1
    BY <1>2, <2>1 DEF TypeOK, WorkersOK, WorkerType
  <2>3. /\ n \in All /\ index[d] \subseteq All /\ struck' = struck
        /\ d \notin struck => 1..(n - 1) \subseteq index[d]
    BY <1>2, <1>6, WorkerShape, IngestionAssumption
    DEF IndexBatch, TypeOK, StoresOK, IngestionInv, BatchesKept, WorkerType, All
  <2>4. index'[d] = index[d] \cup {n}
    BY <1>2, <1>6 DEF IndexBatch, TypeOK, StoresOK
  <2>5. (d \notin struck => 1..n \subseteq index'[d]) /\ index'[d] \subseteq All
    BY <2>3, <2>4, IngestionAssumption DEF All
  <2>6. /\ x.pc = "index" /\ x.doc \notin struck' => 1..(x.next - 1) \subseteq index'[x.doc]
        /\ x.pc = "ready" /\ x.doc \notin struck' => index'[x.doc] = All
    <3>1. x.next - 1 = n /\ x.doc = d
      BY <2>2, <2>3, IngestionAssumption DEF All
    <3>2. pc = "ready" => 1..n = All
      BY <2>1 DEF All
    <3> QED BY <2>2, <2>3, <2>5, <3>1, <3>2
  <2> QED BY <1>1, <1>2, <1>3, <2>2, <2>6, Inside
<1> QED BY <1>4, <1>5, <1>6

(* A step that claims nothing and is inside no ingestion.                  *)
LEMMA OutsideStep ==
  ASSUME TypeOK, IngestionInv, NEW w \in Workers,
         \/ \E d \in Docs : Poll(w, d) \/ PollUnreadable(w, d)
         \/ RefusedClaim(w) \/ StatementFails(w) \/ Commit(w) \/ CommitFails(w) \/ Crash(w)
  PROVE  IngestionInv'
<1>1. UNCHANGED <<row, index, struck>>
  BY DEF Poll, PollUnreadable, RefusedClaim, StatementFails, Commit, CommitFails, Crash,
    search
<1>2. CASE \E d \in Docs : Poll(w, d) \/ PollUnreadable(w, d)
  <2>1. PICK d \in Docs, pc \in {"claim", "refuse", "commit"} :
          worker' = [worker EXCEPT ![w] = [Idle EXCEPT !.pc = pc, !.doc = d]]
    BY <1>2 DEF Poll, PollUnreadable
  <2> DEFINE x == [Idle EXCEPT !.pc = pc, !.doc = d]
  <2>2. x \in WorkerType /\ x.pc = pc /\ x.doc = d /\ x.next = 1
    BY Shapes DEF WorkerType
  <2>3. worker' = [worker EXCEPT ![w] = x]
    BY <2>1
  <2> HIDE DEF x
  <2>4. Moves(w, x) /\ x.pc \notin Ingesting
    BY <2>2, <2>3, Shapes DEF Moves
  <2> QED BY <1>1, <2>4, Outside
<1>3. CASE Commit(w) \/ CommitFails(w) \/ Crash(w)
  <2>1. Moves(w, Idle) /\ Idle.pc \notin Ingesting
    BY <1>3, Shapes DEF Commit, CommitFails, Crash, Moves
  <2> QED BY <1>1, <2>1, Outside
<1>4. CASE RefusedClaim(w) \/ StatementFails(w)
  <2>1. PICK x : Moves(w, x)
    BY <1>4, HandlerMoves DEF TypeOK, Handler
  <2>2. x.pc = "commit"
    BY <1>4, <2>1, WorkerShape
    DEF RefusedClaim, StatementFails, Goto, Moves, TypeOK, WorkersOK, WorkerType
  <2> QED BY <1>1, <2>1, <2>2, Shapes, Outside
<1> QED BY <1>2, <1>3, <1>4

(* The invariant is inductive: when no lease is overrun, a row under a     *)
(* live attempt does not come due.                                         *)
LEMMA InvStep ==
  ASSUME Overrun = FALSE, TypeOK, IngestionInv, [Next]_vars
  PROVE  IngestionInv'
<1>1. StoresOK'
  BY StoresMove DEF TypeOK
<1>2. ASSUME NEW d \in Docs, CreateDocument(d) PROVE IngestionInv'
  <2>1. /\ \A e \in Docs : e # d => doc'[e] = doc[e] /\ aged'[e] = aged[e]
        /\ doc[d].status = "NONE" /\ doc'[d].status = "PENDING"
        /\ UNCHANGED <<index, struck, worker>>
    BY <1>2 DEF CreateDocument, TypeOK, StoresOK, search
  <2>2. \A w \in Workers : worker[w].pc \in Ingesting =>
          worker[w].doc \in Docs /\ worker[w].doc # d
    BY <2>1, Shapes DEF IngestionInv, LeaseKept, TypeOK, WorkersOK
  <2>3. LeaseKept'
    BY <2>1, <2>2 DEF IngestionInv, LeaseKept
  <2>4. OneIngestion' /\ BatchesKept' /\ ReadyIsComplete'
    BY <2>1 DEF IngestionInv, OneIngestion, BatchesKept, ReadyIsComplete
  <2> QED BY <2>3, <2>4 DEF IngestionInv
<1>3. ASSUME NEW d \in Docs, Age(d) PROVE IngestionInv'
  <2>1. /\ \A e \in Docs : e # d => aged'[e] = aged[e]
        /\ UNCHANGED <<doc, index, struck, worker>>
    BY <1>3 DEF Age, TypeOK, StoresOK, search
  <2>2. \A w \in Workers : worker[w].pc \in Ingesting =>
          worker[w].doc \in Docs /\ worker[w].doc # d
    BY <1>3, Shapes DEF Age, Holds, IngestionInv, LeaseKept, TypeOK, WorkersOK
  <2>3. LeaseKept'
    BY <2>1, <2>2 DEF IngestionInv, LeaseKept
  <2>4. OneIngestion' /\ BatchesKept' /\ ReadyIsComplete'
    BY <2>1 DEF IngestionInv, OneIngestion, BatchesKept, ReadyIsComplete
  <2> QED BY <2>3, <2>4 DEF IngestionInv
<1>4. ASSUME NEW d \in Docs, LandDelete(d) \/ \E k \in All : Land(d, k)
      PROVE  IngestionInv'
  <2>1. /\ UNCHANGED <<row, worker>> /\ struck \subseteq struck'
        /\ \A e \in Docs : e \notin struck' => index[e] \subseteq index'[e]
    BY <1>4 DEF Land, LandDelete, TypeOK, StoresOK
  <2> QED BY <1>1, <2>1, Apart
<1>5. CASE UNCHANGED <<row, worker, index, struck>>
  BY <1>1, <1>5, Apart
<1>6. ASSUME NEW d \in Docs,
             \/ Enqueue(d) \/ EnqueueLost(d) \/ Evict(d)
             \/ SweepProduce(d) \/ SweepProduceFails(d)
             \/ \E w \in Workers : Assign(d, w)
      PROVE IngestionInv'
  BY <1>5, <1>6 DEF Enqueue, EnqueueLost, Evict, SweepProduce, SweepProduceFails, Assign,
    search
<1>7. CASE SweepList \/ UNCHANGED vars
  BY <1>5, <1>7 DEF SweepList, vars, row, search
<1>8. ASSUME NEW w \in Workers, ClaimDocument(w) PROVE IngestionInv'
  <2>1. PICK x : Moves(w, x) /\ SameDoc(w, x)
    BY <1>8, HandlerMoves DEF TypeOK, Handler
  <2> QED BY <1>8, <2>1, ClaimStep
<1>9. ASSUME NEW w \in Workers, MarkDocumentReady(w) \/ MarkDocumentFailed(w)
      PROVE  IngestionInv'
  BY <1>9, TerminalStep DEF MarkDocumentReady, MarkDocumentFailed
<1>10. ASSUME NEW w \in Workers, Handler(w) \/ Crash(w) PROVE IngestionInv'
  BY <1>8, <1>9, <1>10, WorkStep, OutsideStep DEF Handler
<1>11. ASSUME NEW w \in Workers, NEW d \in Docs,
              Assign(d, w) \/ Poll(w, d) \/ PollUnreadable(w, d)
       PROVE  IngestionInv'
  BY <1>6, <1>11, OutsideStep
<1> QED
  BY <1>2, <1>3, <1>4, <1>6, <1>7, <1>10, <1>11 DEF Next

(* The inductive invariant of the specification.                           *)
LEMMA Invariance ==
  ASSUME Overrun = FALSE
  PROVE  Spec => [](TypeOK /\ IngestionInv)
<1>1. Init => TypeOK
  BY Shapes, IngestionAssumption
  DEF Init, TypeOK, StoresOK, WorkersOK, BrokerOK, Statuses
<1>2. Init => IngestionInv
  BY Shapes DEF Init, IngestionInv, LeaseKept, OneIngestion, BatchesKept, ReadyIsComplete
<1>3. TypeOK /\ IngestionInv /\ [Next]_vars => (TypeOK /\ IngestionInv)'
  BY TypeStep, InvStep
<1> QED BY <1>1, <1>2, <1>3, PTL DEF Spec

(* When no lease is overrun, two workers are never inside the ingestion of *)
(* the same document (ClaimDocument looks at the status and the lease).    *)
THEOREM IngestedByOne ==
  ASSUME Overrun = FALSE
  PROVE  Spec => []OneIngestion
<1>1. TypeOK /\ IngestionInv => OneIngestion
  BY DEF IngestionInv
<1> QED BY <1>1, Invariance, PTL

(* When no lease is overrun, a document that is READY is found by every    *)
(* one of its chunks, for good, whatever bulk requests land late, whatever *)
(* failed and was retried, in whatever order; but for a late delete that   *)
(* takes chunks after the attempt that wrote them began to.                *)
THEOREM ReadyStaysComplete ==
  ASSUME Overrun = FALSE
  PROVE  Spec => []ReadyIsComplete
<1>1. TypeOK /\ IngestionInv => ReadyIsComplete
  BY DEF IngestionInv
<1> QED BY <1>1, Invariance, PTL

(* The step of EndedByItsAttempt: only a terminal write ends a document,   *)
(* and the invariant makes its writer the attempt the row counts.          *)
LEMMA EndStep ==
  ASSUME TypeOK, IngestionInv, Next, NEW d \in Docs,
         doc[d].status = "PROCESSING", doc'[d].status \in {"READY", "FAILED"}
  PROVE  \E w \in Workers : worker[w].pc \in {"ready", "failed"} /\ Holds(w, d)
<1>1. PICK w \in Workers : MarkDocumentReady(w) \/ MarkDocumentFailed(w)
  <2>1. \A e \in Docs : ~CreateDocument(e)
    BY DEF CreateDocument, TypeOK, StoresOK
  <2>2. ASSUME NEW w \in Workers PROVE ~ClaimDocument(w)
    BY WorkerShape DEF ClaimDocument, TypeOK, StoresOK
  <2>3. doc' # doc
    OBVIOUS
  <2> QED
    BY <2>1, <2>2, <2>3 DEF Next, Handler, Enqueue, EnqueueLost, Evict, Age, SweepProduce,
      SweepProduceFails, Land, LandDelete, Assign, Poll, PollUnreadable, SweepList, RefusedClaim,
      Prepare, PrepareFails, DeleteByDocument, DeleteFails, IndexBatch, IndexFails,
      StatementFails, Commit, CommitFails, Crash, row
<1>2. worker[w].pc \in {"ready", "failed"} /\ worker[w].doc = d
  BY <1>1 DEF MarkDocumentReady, MarkDocumentFailed, Terminal, TypeOK, StoresOK, row
<1> QED BY <1>2 DEF IngestionInv, LeaseKept, Holds, Ingesting

(* When no lease is overrun, the terminal writes, which look only at the   *)
(* status, end a document only for the attempt its row counts.             *)
THEOREM EndedByOwnAttempt ==
  ASSUME Overrun = FALSE
  PROVE  Spec => EndedByItsAttempt
<1> DEFINE A == \A d \in Docs :
                  doc[d].status = "PROCESSING" /\ doc'[d].status \in {"READY", "FAILED"} =>
                    \E w \in Workers : worker[w].pc \in {"ready", "failed"} /\ Holds(w, d)
<1>1. TypeOK /\ IngestionInv /\ [Next]_vars => [A]_vars
  BY EndStep
<1> HIDE DEF A
<1>2. Spec => [][A]_vars
  BY <1>1, Invariance, PTL DEF Spec
<1> QED BY <1>2 DEF EndedByItsAttempt, A
=============================================================================
