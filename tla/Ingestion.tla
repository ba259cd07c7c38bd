------------------------------ MODULE Ingestion ------------------------------
(***************************************************************************)
(* How an uploaded document becomes searchable: the API that creates and   *)
(* enqueues it, the workers that claim it, embed it, replace its chunks in *)
(* the index and record how that ended, and the sweep beside them.         *)
(*                                                                         *)
(* MySQL and Elasticsearch share no transaction: the row and the chunks    *)
(* move in separate steps, any of which may fail, applied or not, and a    *)
(* request to the index that was given up on, by its deadline or a crash,  *)
(* may be carried out later, a delete like a bulk.  A bulk batch is the    *)
(* unit of the index.  Deliveries are reduced to a backlog from which a    *)
(* record goes when it is committed; AgentRuns models the positions.       *)
(*                                                                         *)
(* "faults" counts crashes, evictions, failed requests and lost produces;  *)
(* MaxFaults and MaxBacklog bound the model.                               *)
(***************************************************************************)
EXTENDS Naturals, FiniteSets

CONSTANTS Docs,         \* document ids, ordered by creation
          Broken,       \* those no parser or embedder accepts
          Batches,      \* bulk requests a document's chunks take
          Workers,      \* ingestion-worker processes
          NoWorker,     \* a partition no group member owns
          MaxAttempts,  \* INGEST_MAX_ATTEMPTS
          Batch,        \* RECONCILE_BATCH
          Overrun,      \* may a lease expire under a live attempt?
          MaxFaults,    \* bound on faults
          MaxBacklog    \* bound on a document's unread records

ASSUME IngestionAssumption ==
  /\ Docs \subseteq Nat \ {0}
  /\ Broken \subseteq Docs
  /\ NoWorker \notin Workers
  /\ {Batches, MaxAttempts, Batch, MaxBacklog} \subseteq Nat \ {0}
  /\ Overrun \in BOOLEAN
  /\ MaxFaults \in Nat

VARIABLES
  doc,      \* documents: status and attempts
  aged,     \* how far the row's timestamp is past the sweep's cutoffs
  index,    \* the batches of each document the index holds
  late,     \* requests given up on that may still be carried out
  struck,   \* history: documents a late delete took chunks of
  unsent,   \* documents whose upload has not produced yet
  backlog,  \* the document's uncommitted records
  owner,    \* the group member that owns its partition
  worker,   \* each worker's position in Handler.Handle
  swept,    \* candidates a sweep has still to produce for
  faults

vars == <<doc, aged, index, late, struck, unsent, backlog, owner, worker, swept, faults>>

row    == <<doc, aged>>
search == <<index, late, struck>>
broker == <<backlog, owner>>

All    == 1..Batches
Delete == 0 \* in late, beside the bulk requests

Idle == [pc |-> "idle", doc |-> 0, claim |-> 0, next |-> 1]

Init ==
  /\ doc     = [d \in Docs |-> [status |-> "NONE", attempts |-> 0]]
  /\ aged    = [d \in Docs |-> "fresh"]
  /\ index   = [d \in Docs |-> {}]
  /\ late    = [d \in Docs |-> {}]
  /\ struck  = {}
  /\ unsent  = {}
  /\ backlog = [d \in Docs |-> 0]
  /\ owner   = [d \in Docs |-> NoWorker]
  /\ worker  = [w \in Workers |-> Idle]
  /\ swept   = {}
  /\ faults  = 0

Fault == /\ faults < MaxFaults
         /\ faults' = faults + 1

-----------------------------------------------------------------------------
(* Upload and delivery                                                     *)

CreateDocument(d) ==
  /\ doc[d].status = "NONE"
  /\ \A e \in Docs : e < d => doc[e].status # "NONE"
  /\ doc'    = [doc EXCEPT ![d].status = "PENDING"]
  /\ aged'   = [aged EXCEPT ![d] = "fresh"]
  /\ unsent' = unsent \cup {d}
  /\ UNCHANGED <<search, broker, worker, swept, faults>>

Room(d) == backlog[d] < MaxBacklog

Produce(d) ==
  /\ Room(d)
  /\ backlog' = [backlog EXCEPT ![d] = @ + 1]

Enqueue(d) ==
  /\ d \in unsent
  /\ unsent' = unsent \ {d}
  /\ Produce(d)
  /\ UNCHANGED <<row, search, owner, worker, swept, faults>>

EnqueueLost(d) ==
  /\ d \in unsent
  /\ unsent' = unsent \ {d}
  /\ UNCHANGED <<row, search, broker, worker, swept, faults>>

Assign(d, w) ==
  /\ owner[d] = NoWorker
  /\ worker[w].pc = "idle"
  /\ owner' = [owner EXCEPT ![d] = w]
  /\ UNCHANGED <<row, search, unsent, backlog, worker, swept, faults>>

Evict(d) ==
  /\ owner[d] # NoWorker
  /\ Fault
  /\ owner' = [owner EXCEPT ![d] = NoWorker]
  /\ UNCHANGED <<row, search, unsent, backlog, worker, swept>>

Poll(w, d) ==
  /\ worker[w].pc = "idle"
  /\ owner[d] = w
  /\ backlog[d] > 0
  /\ worker' = [worker EXCEPT ![w] = [Idle EXCEPT !.pc = "claim", !.doc = d]]
  /\ UNCHANGED <<row, search, unsent, broker, swept, faults>>

(* A record of a schema version this build does not know fails its         *)
(* document; one that does not decode is skipped.                          *)
PollUnreadable(w, d) ==
  /\ worker[w].pc = "idle"
  /\ owner[d] = w
  /\ backlog[d] > 0
  /\ Fault
  /\ \E pc \in {"refuse", "commit"} :
       worker' = [worker EXCEPT ![w] = [Idle EXCEPT !.pc = pc, !.doc = d]]
  /\ UNCHANGED <<row, search, unsent, broker, swept>>

Goto(w, pc) == worker' = [worker EXCEPT ![w] = [@ EXCEPT !.pc = pc]]

Commit(w) ==
  /\ worker[w].pc = "commit"
  /\ LET d == worker[w].doc IN
       IF owner[d] = w THEN backlog' = [backlog EXCEPT ![d] = @ - 1]
                       ELSE UNCHANGED backlog
  /\ worker' = [worker EXCEPT ![w] = Idle]
  /\ UNCHANGED <<row, search, unsent, owner, swept, faults>>

CommitFails(w) ==
  /\ worker[w].pc = "commit"
  /\ Fault
  /\ worker' = [worker EXCEPT ![w] = Idle]
  /\ UNCHANGED <<row, search, unsent, broker, swept>>

-----------------------------------------------------------------------------
(* Handler.Handle                                                          *)

(* A mistaken claim that does not look at the lease. *)
ClaimableUnexpired(d) == doc[d].status \in {"PENDING", "FAILED", "PROCESSING"}

Claimable(d) ==
  \/ doc[d].status \in {"PENDING", "FAILED"}
  \/ doc[d].status = "PROCESSING" /\ aged[d] = "due"

(* The claim, for the work or, under an unknown schema version, only to    *)
(* have a row the terminal write accepts.                                  *)
ClaimDocument(w) ==
  LET d == worker[w].doc IN
  /\ worker[w].pc \in {"claim", "refuse"}
  /\ Claimable(d)
  /\ doc'    = [doc EXCEPT ![d] = [status |-> "PROCESSING", attempts |-> @.attempts + 1]]
  /\ aged'   = [aged EXCEPT ![d] = "fresh"]
  /\ worker' = [worker EXCEPT ![w] =
                  [@ EXCEPT !.pc = IF worker[w].pc = "claim" THEN "prepare" ELSE "failed",
                            !.claim = doc[d].attempts + 1]]
  /\ UNCHANGED <<search, unsent, broker, swept, faults>>

RefusedClaim(w) ==
  /\ worker[w].pc \in {"claim", "refuse"}
  /\ ~Claimable(worker[w].doc)
  /\ Goto(w, "commit")
  /\ UNCHANGED <<row, search, unsent, broker, swept, faults>>

(* Read, chunk and embed: everything that can fail before the index is     *)
(* touched.                                                                *)
Prepare(w) ==
  /\ worker[w].pc = "prepare"
  /\ worker[w].doc \notin Broken
  /\ Goto(w, "delete")
  /\ UNCHANGED <<row, search, unsent, broker, swept, faults>>

PrepareFails(w) ==
  /\ worker[w].pc = "prepare"
  /\ IF worker[w].doc \in Broken THEN UNCHANGED faults ELSE Fault
  /\ Goto(w, "failed")
  /\ UNCHANGED <<row, search, unsent, broker, swept>>

(* The leading delete, and the one that follows a failed index.            *)
DeleteByDocument(w) ==
  /\ worker[w].pc \in {"delete", "cleanup"}
  /\ index'  = [index EXCEPT ![worker[w].doc] = {}]
  /\ struck' = struck \ {worker[w].doc}
  /\ Goto(w, IF worker[w].pc = "delete" THEN "index" ELSE "failed")
  /\ UNCHANGED <<row, late, unsent, broker, swept, faults>>

(* A delete that fails may have removed some of the chunks; one given up   *)
(* on may remove them later.                                               *)
DeleteFails(w) ==
  LET d == worker[w].doc IN
  /\ worker[w].pc \in {"delete", "cleanup"}
  /\ Fault
  /\ \/ \E rest \in SUBSET index[d] : index' = [index EXCEPT ![d] = rest] /\ UNCHANGED late
     \/ late' = [late EXCEPT ![d] = @ \cup {Delete}] /\ UNCHANGED index
  /\ Goto(w, "failed")
  /\ UNCHANGED <<row, struck, unsent, broker, swept>>

(* A mistaken loop over the batches that leaves the last one out. *)
IndexBatchShort(w) ==
  /\ worker[w].pc = "index"
  /\ index'  = [index EXCEPT ![worker[w].doc] = @ \cup {worker[w].next}]
  /\ worker' = [worker EXCEPT ![w] =
                  [@ EXCEPT !.pc = IF worker[w].next + 1 >= Batches THEN "ready" ELSE "index",
                            !.next = worker[w].next + 1]]
  /\ UNCHANGED <<row, late, struck, unsent, broker, swept, faults>>

IndexBatch(w) ==
  /\ worker[w].pc = "index"
  /\ index'  = [index EXCEPT ![worker[w].doc] = @ \cup {worker[w].next}]
  /\ worker' = [worker EXCEPT ![w] =
                  [@ EXCEPT !.pc = IF worker[w].next = Batches THEN "ready" ELSE "index",
                            !.next = worker[w].next + 1]]
  /\ UNCHANGED <<row, late, struck, unsent, broker, swept, faults>>

(* Rejected, or given up on at the deadline: applied, not, or not yet.     *)
IndexFails(w) ==
  LET d == worker[w].doc
      k == worker[w].next
  IN
  /\ worker[w].pc = "index"
  /\ Fault
  /\ \/ UNCHANGED search
     \/ index' = [index EXCEPT ![d] = @ \cup {k}] /\ UNCHANGED late
     \/ late' = [late EXCEPT ![d] = @ \cup {k}] /\ UNCHANGED index
  /\ Goto(w, "cleanup")
  /\ UNCHANGED <<row, struck, unsent, broker, swept>>

(* The terminal writes look at the status, not at whose attempt it is.     *)
Terminal(w, status) ==
  LET d == worker[w].doc IN
  /\ IF doc[d].status = "PROCESSING"
     THEN /\ doc'  = [doc EXCEPT ![d].status = status]
          /\ aged' = [aged EXCEPT ![d] = "fresh"]
     ELSE UNCHANGED row
  /\ Goto(w, "commit")
  /\ UNCHANGED <<search, unsent, broker, swept, faults>>

MarkDocumentReady(w)  == worker[w].pc = "ready"  /\ Terminal(w, "READY")
MarkDocumentFailed(w) == worker[w].pc = "failed" /\ Terminal(w, "FAILED")

StatementFails(w) ==
  /\ worker[w].pc \in {"claim", "refuse", "ready", "failed"}
  /\ Fault
  /\ Goto(w, "commit")
  /\ UNCHANGED <<row, search, unsent, broker, swept>>

(* The request a worker may have sent and not had answered.                *)
InFlight(w) ==
  CASE worker[w].pc \in {"delete", "cleanup"} -> {Delete}
    [] worker[w].pc = "index" -> {worker[w].next}
    [] OTHER -> {}

(* Elasticsearch may still carry out what a crashed worker asked for.      *)
Crash(w) ==
  LET d == worker[w].doc IN
  /\ worker[w] # Idle
  /\ Fault
  /\ worker' = [worker EXCEPT ![w] = Idle]
  /\ owner'  = [e \in Docs |-> IF owner[e] = w THEN NoWorker ELSE owner[e]]
  /\ UNCHANGED late \/ late' = [late EXCEPT ![d] = @ \cup InFlight(w)]
  /\ UNCHANGED <<row, index, struck, unsent, backlog, swept>>

-----------------------------------------------------------------------------
(* Elasticsearch, time and the sweep                                       *)

(* A bulk request given up on is applied after all.                        *)
Land(d, k) ==
  /\ k \in late[d]
  /\ late'  = [late EXCEPT ![d] = @ \ {k}]
  /\ index' = [index EXCEPT ![d] = @ \cup {k}]
  /\ UNCHANGED <<row, struck, unsent, broker, worker, swept, faults>>

(* So is a delete: it takes what its query found, and leaves what has      *)
(* changed since.                                                          *)
LandDelete(d) ==
  /\ Delete \in late[d]
  /\ late' = [late EXCEPT ![d] = @ \ {Delete}]
  /\ \E rest \in SUBSET index[d] :
       /\ index'  = [index EXCEPT ![d] = rest]
       /\ struck' = IF rest = index[d] THEN struck ELSE struck \cup {d}
  /\ UNCHANGED <<row, unsent, broker, worker, swept, faults>>

Ingesting == {"prepare", "delete", "index", "cleanup", "ready", "failed"}

Holds(w, d) ==
  /\ worker[w].pc \in Ingesting
  /\ worker[w].doc = d
  /\ worker[w].claim = doc[d].attempts

(* PENDING ages past PendingAfter; PROCESSING past the lease, which        *)
(* outlasts DocumentTimeout unless it is overrun; FAILED past the backoff  *)
(* of its attempts, and past the shortest one before that.                 *)
Age(d) ==
  /\ doc[d].status \in {"PENDING", "PROCESSING", "FAILED"}
  /\ aged[d] # "due"
  /\ doc[d].status = "PROCESSING" => Overrun \/ ~\E w \in Workers : Holds(w, d)
  /\ aged' = [aged EXCEPT ![d] =
                IF doc[d].status = "FAILED" /\ doc[d].attempts > 1 /\ @ = "fresh"
                THEN "listed" ELSE "due"]
  /\ UNCHANGED <<doc, search, unsent, broker, worker, swept, faults>>

With(status, ages) == {d \in Docs : doc[d].status = status /\ aged[d] \in ages}

(* ORDER BY id LIMIT batch *)
Oldest(S) == {d \in S : Cardinality({e \in S : e < d}) < Batch}

(* A mistaken query that limits before it looks at the attempts. *)
RetryableLimitedFirst ==
  {d \in Oldest(With("FAILED", {"listed", "due"})) : doc[d].attempts < MaxAttempts}

(* Only a failed document runs out of attempts.                            *)
Retryable ==
  Oldest({d \in With("FAILED", {"listed", "due"}) : doc[d].attempts < MaxAttempts})

(* A mistaken sweep that leaves failed documents to their uploader. *)
DueForgettingFailed ==
  Oldest(With("PENDING", {"due"})) \cup Oldest(With("PROCESSING", {"due"}))

(* Three categories, each with a limit of its own; the query for the last  *)
(* knows the shortest backoff only, so DueDocument looks again.            *)
Due ==
  Oldest(With("PENDING", {"due"})) \cup Oldest(With("PROCESSING", {"due"}))
    \cup {d \in Retryable : aged[d] = "due"}

SweepList ==
  /\ swept = {}
  /\ Due # {}
  /\ swept' = Due
  /\ UNCHANGED <<row, search, unsent, broker, worker, faults>>

SweepProduce(d) ==
  /\ d \in swept
  /\ swept' = swept \ {d}
  /\ IF Room(d) THEN Produce(d) ELSE UNCHANGED backlog
  /\ UNCHANGED <<row, search, unsent, owner, worker, faults>>

SweepProduceFails(d) ==
  /\ d \in swept
  /\ Fault
  /\ swept' = swept \ {d}
  /\ UNCHANGED <<row, search, unsent, broker, worker>>

-----------------------------------------------------------------------------
Handler(w) ==
  \/ ClaimDocument(w) \/ RefusedClaim(w) \/ Prepare(w) \/ PrepareFails(w)
  \/ DeleteByDocument(w) \/ DeleteFails(w) \/ IndexBatch(w) \/ IndexFails(w)
  \/ MarkDocumentReady(w) \/ MarkDocumentFailed(w) \/ StatementFails(w)
  \/ Commit(w) \/ CommitFails(w)

Next ==
  \/ \E d \in Docs : \/ CreateDocument(d) \/ Enqueue(d) \/ EnqueueLost(d)
                     \/ Evict(d) \/ Age(d) \/ LandDelete(d)
                     \/ SweepProduce(d) \/ SweepProduceFails(d)
  \/ \E d \in Docs, k \in All : Land(d, k)
  \/ \E w \in Workers, d \in Docs : Assign(d, w) \/ Poll(w, d) \/ PollUnreadable(w, d)
  \/ \E w \in Workers : Handler(w) \/ Crash(w)
  \/ SweepList

Spec == Init /\ [][Next]_vars

(* As for runs: a process runs its handler and its sweep, the group        *)
(* assigns an unowned partition, time passes.  Faults owe nothing, and a   *)
(* request given up on need never be applied.                              *)
Fairness ==
  /\ WF_vars(SweepList)
  /\ \A d \in Docs : /\ WF_vars(Age(d))
                     /\ WF_vars(SweepProduce(d))
                     /\ WF_vars(\E w \in Workers : Assign(d, w))
  /\ \A w \in Workers : /\ WF_vars(Handler(w))
                        /\ \A d \in Docs : WF_vars(Poll(w, d))

FairSpec == Spec /\ Fairness

-----------------------------------------------------------------------------
Statuses == {"NONE", "PENDING", "PROCESSING", "READY", "FAILED"}

WorkerType == [pc: Ingesting \cup {"idle", "claim", "refuse", "commit"},
               doc: Docs \cup {0}, claim: Nat, next: 1..(Batches + 1)]

StoresOK ==
  /\ doc \in [Docs -> [status: Statuses, attempts: Nat]]
  /\ aged \in [Docs -> {"fresh", "listed", "due"}]
  /\ index \in [Docs -> SUBSET All]
  /\ late \in [Docs -> SUBSET (All \cup {Delete})]
  /\ struck \subseteq Docs

WorkersOK ==
  /\ worker \in [Workers -> WorkerType]
  /\ \A w \in Workers :
       /\ worker[w].pc # "idle" => worker[w].doc \in Docs
       /\ worker[w].pc \in {"claim", "refuse", "prepare", "delete"} => worker[w].next = 1
       /\ worker[w].pc = "index" => worker[w].next <= Batches
       /\ worker[w].pc \in Ingesting =>
            worker[w].claim \in 1..doc[worker[w].doc].attempts

BrokerOK ==
  /\ unsent \subseteq Docs
  /\ swept \subseteq Docs
  /\ backlog \in [Docs -> Nat]
  /\ owner \in [Docs -> Workers \cup {NoWorker}]
  /\ \A w \in Workers :
       worker[w].pc # "idle" /\ owner[worker[w].doc] = w => backlog[worker[w].doc] > 0

(* Types; a worker past its claim holds a claim that was given, and while  *)
(* it owns the partition, the record in its hands is in the backlog.       *)
TypeOK == StoresOK /\ WorkersOK /\ BrokerOK /\ faults \in Nat

(* A READY document is found by every one of its chunks, and stays so:     *)
(* no cleanup, no delete of another attempt takes one away, but for a      *)
(* delete that was given up on, or left by a crash, and is carried out     *)
(* after a later attempt's delete has succeeded (DeleteByDocument).        *)
ReadyIsComplete ==
  \A d \in Docs : doc[d].status = "READY" /\ d \notin struck => index[d] = All

(* Two workers are never inside the ingestion of the same document.        *)
OneIngestion ==
  \A v, w \in Workers :
    /\ worker[v].pc \in Ingesting
    /\ worker[w].pc \in Ingesting
    /\ worker[v].doc = worker[w].doc
    => v = w

(* Why those hold when no lease is overrun: a worker inside an ingestion   *)
(* is the document's current attempt, the row is PROCESSING under a live   *)
(* lease...                                                                *)
LeaseKept ==
  \A w \in Workers : worker[w].pc \in Ingesting =>
    LET d == worker[w].doc IN
    /\ doc[d].status = "PROCESSING"
    /\ aged[d] # "due"
    /\ worker[w].claim = doc[d].attempts

(* ...and it has put into the index every batch before the next one, of    *)
(* which only a late delete takes any.                                     *)
BatchesKept ==
  \A w \in Workers :
    LET d == worker[w].doc
        k == worker[w].next
    IN d \notin struck =>
         /\ worker[w].pc = "index" => 1..(k - 1) \subseteq index[d]
         /\ worker[w].pc = "ready" => index[d] = All

(* Together they are what every handler, sweep and late write keeps.       *)
IngestionInv == LeaseKept /\ OneIngestion /\ BatchesKept /\ ReadyIsComplete

(* Although the terminal writes look only at the status, a document is     *)
(* only ever ended by the attempt its row counts.                          *)
EndedByItsAttempt ==
  [][\A d \in Docs :
       doc[d].status = "PROCESSING" /\ doc'[d].status \in {"READY", "FAILED"} =>
         \E w \in Workers : worker[w].pc \in {"ready", "failed"} /\ Holds(w, d)]_vars

(* Every document becomes READY, or is left FAILED with its attempts       *)
(* spent: no lost message, crash or failed write strands it.               *)
Settled(d) ==
  \/ doc[d].status = "READY"
  \/ doc[d].status = "FAILED" /\ doc[d].attempts >= MaxAttempts

EveryDocumentSettles == \A d \in Docs : doc[d].status = "PENDING" ~> Settled(d)

=============================================================================
