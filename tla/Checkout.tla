------------------------------- MODULE Checkout -------------------------------
(***************************************************************************)
(* The Incident Lab under load: the scenario's generator dispatches        *)
(* orders, checkout-service calls payment-service for each under its       *)
(* client timeout, and payment-service holds one of its pool's connections *)
(* for the processor call, which nothing can cancel.  Each of the three    *)
(* may give up on the next while the next goes on.                         *)
(*                                                                         *)
(* Time is left out: a timeout may fire at any point of what it bounds, so *)
(* an injected latency or a saturated CPU adds no behaviour of its own,    *)
(* and an error fault may be on, and fail or spare a request, at any time. *)
(* Baskets and charges are valid, as the generator's are.                  *)
(***************************************************************************)
EXTENDS Naturals, Sequences, FiniteSets

CONSTANTS Orders,       \* the requests of one phase of a scenario
          PoolSize,     \* PAYMENT_POOL_SIZE
          MaxOrders,    \* the bound of the order book
          MaxInFlight   \* the generator's own bound

ASSUME CheckoutAssumption ==
  /\ IsFiniteSet(Orders)
  /\ PoolSize \in Nat \ {0}
  /\ MaxOrders \in Nat \ {0}
  /\ MaxInFlight \in Nat \ {0}

VARIABLES
  gen,       \* the generator's loop
  sent,      \* the orders its phase has sent
  posts,     \* the samples of them it has aggregated
  inFlight,  \* its orders in flight
  client,    \* where the generator is with each order
  gone,      \* orders whose request it abandoned
  missing,   \* orders it created and did not find again
  checkout,  \* checkout-service's handler of each order, and its answer
  timeouts,  \* checkout_payment_client_timeouts_total
  book,      \* the order book: the map and the eviction order
  created,   \* history: every order put in the book, oldest first
  payment,   \* payment-service's handler of each order, and its answer
  left,      \* orders whose charge checkout-service stopped waiting for
  tokens,    \* the connections taken, by the order each is held for
  inUse,     \* payment_pool_in_use
  charged    \* orders the card processor has authorized

generator == <<gen, sent, posts, inFlight, client, gone, missing>>
service   == <<checkout, timeouts, book, created>>
processor == <<payment, left, tokens, inUse, charged>>
vars      == <<generator, service, processor>>

Answered == {"created", "timeout", "gone", "bad gateway", "injected"}
Replied  == {"authorized", "refused", "injected"}

Init ==
  /\ gen = "running" /\ sent = 0 /\ posts = 0 /\ inFlight = 0
  /\ client = [o \in Orders |-> "unsent"] /\ gone = {} /\ missing = {}
  /\ checkout = [o \in Orders |-> "none"] /\ timeouts = 0
  /\ book = [byID |-> {}, order |-> << >>] /\ created = << >>
  /\ payment = [o \in Orders |-> "none"] /\ left = {}
  /\ tokens = {} /\ inUse = 0 /\ charged = {}

-----------------------------------------------------------------------------
(* The generator                                                           *)

To(o, place) == client' = [client EXCEPT ![o] = place]

Dispatch(o) ==
  /\ gen = "running"
  /\ client[o] = "unsent"
  /\ inFlight < MaxInFlight
  /\ inFlight' = inFlight + 1
  /\ sent' = sent + 1
  /\ To(o, "posting")
  /\ UNCHANGED <<gen, posts, gone, missing, service, processor>>

Receive(o) ==
  /\ client[o] = "posting"
  /\ checkout[o] \in Answered
  /\ To(o, IF checkout[o] = "created" THEN "fetching" ELSE "back")
  /\ UNCHANGED <<gen, sent, posts, inFlight, gone, missing, service, processor>>

(* The control request: it asks for the order just created.                *)
Fetch(o) ==
  /\ client[o] = "fetching"
  /\ \/ missing' = missing \cup ({o} \ book.byID)
     \/ UNCHANGED missing
  /\ To(o, "back")
  /\ UNCHANGED <<gen, sent, posts, inFlight, gone, service, processor>>

(* The request timeout, a broken connection, or the end of the scenario.   *)
GiveUp(o) ==
  /\ client[o] \in {"posting", "fetching"}
  /\ gone' = gone \cup {o}
  /\ To(o, "back")
  /\ UNCHANGED <<gen, sent, posts, inFlight, missing, service, processor>>

Record(o) ==
  /\ client[o] = "back"
  /\ posts' = posts + 1
  /\ inFlight' = inFlight - 1
  /\ To(o, "recorded")
  /\ UNCHANGED <<gen, sent, gone, missing, service, processor>>

StopSending ==
  /\ gen = "running"
  /\ gen' = "stopped"
  /\ UNCHANGED <<sent, posts, inFlight, client, gone, missing, service, processor>>

Return ==
  /\ gen = "stopped"
  /\ \A o \in Orders : client[o] \in {"unsent", "recorded"}
  /\ gen' = "over"
  /\ UNCHANGED <<sent, posts, inFlight, client, gone, missing, service, processor>>

-----------------------------------------------------------------------------
(* checkout-service                                                        *)

Answer(o, status) == checkout' = [checkout EXCEPT ![o] = status]

(* A request that was abandoned may have been read off its connection.     *)
Arrive(o) ==
  /\ client[o] # "unsent"
  /\ checkout[o] = "none"
  /\ Answer(o, "handling")
  /\ UNCHANGED <<timeouts, book, created, generator, processor>>

Inject(o) ==
  /\ checkout[o] = "handling"
  /\ Answer(o, "injected")
  /\ UNCHANGED <<timeouts, book, created, generator, processor>>

Charge(o) ==
  /\ checkout[o] = "handling"
  /\ Answer(o, "calling")
  /\ payment' = [payment EXCEPT ![o] = "sent"]
  /\ UNCHANGED <<timeouts, book, created, left, tokens, inUse, charged,
                 generator>>

(* A mistaken reading of the response that does not look at its status.    *)
ReadReplyUnchecked(o) ==
  /\ checkout[o] = "calling"
  /\ payment[o] \in Replied
  /\ Answer(o, "charged")
  /\ UNCHANGED <<timeouts, book, created, generator, processor>>

ReadReply(o) ==
  /\ checkout[o] = "calling"
  /\ payment[o] \in Replied
  /\ Answer(o, IF payment[o] = "authorized" THEN "charged" ELSE "bad gateway")
  /\ UNCHANGED <<timeouts, book, created, generator, processor>>

(* Every way out of the call cancels its context, and with it the request. *)
Abandon(o) ==
  /\ left' = left \cup {o}
  /\ UNCHANGED <<book, created, payment, tokens, inUse, charged, generator>>

CallTimesOut(o) ==
  /\ checkout[o] = "calling"
  /\ Answer(o, "timeout")
  /\ timeouts' = timeouts + 1
  /\ Abandon(o)

(* The connection fails, or the deadline passes with the body half read.   *)
CallFails(o) ==
  /\ checkout[o] = "calling"
  /\ Answer(o, "bad gateway")
  /\ Abandon(o) /\ UNCHANGED timeouts

ClientGone(o) ==
  /\ checkout[o] \in {"handling", "calling"}
  /\ o \in gone
  /\ Answer(o, "gone")
  /\ Abandon(o) /\ UNCHANGED timeouts

(* A mistaken eviction that leaves the evicted order in the map.           *)
PutLeaking(b, o) ==
  LET all == Append(b.order, o)
      drop == IF Len(all) > MaxOrders THEN Len(all) - MaxOrders ELSE 0
  IN  [byID |-> b.byID \cup {o}, order |-> SubSeq(all, drop + 1, Len(all))]

Put(b, o) ==
  LET all == Append(b.order, o)
      drop == IF Len(all) > MaxOrders THEN Len(all) - MaxOrders ELSE 0
  IN  [byID |-> (b.byID \cup {o}) \ {all[i] : i \in 1..drop},
       order |-> SubSeq(all, drop + 1, Len(all))]

CreateOrder(o) ==
  /\ checkout[o] = "charged"
  /\ book' = Put(book, o)
  /\ created' = Append(created, o)
  /\ Answer(o, "created")
  /\ UNCHANGED <<timeouts, generator, processor>>

-----------------------------------------------------------------------------
(* payment-service                                                         *)

Step(o, place) == payment' = [payment EXCEPT ![o] = place]

PaymentArrive(o) ==
  /\ payment[o] = "sent"
  /\ Step(o, "arrived")
  /\ UNCHANGED <<left, tokens, inUse, charged, generator, service>>

(* The connection was closed before the request was read.                  *)
Drop(o) ==
  /\ payment[o] = "sent"
  /\ o \in left
  /\ Step(o, "dropped")
  /\ UNCHANGED <<left, tokens, inUse, charged, generator, service>>

PaymentInject(o) ==
  /\ payment[o] = "arrived"
  /\ Step(o, "injected")
  /\ UNCHANGED <<left, tokens, inUse, charged, generator, service>>

Free == Cardinality(tokens) < PoolSize

Take(o) ==
  /\ tokens' = tokens \cup {o}
  /\ Step(o, "acquired")
  /\ UNCHANGED <<left, inUse, charged, generator, service>>

(* A mistaken pool whose connections nobody counts.                        *)
AcquireUnbounded(o) ==
  /\ payment[o] \in {"arrived", "waiting"}
  /\ Take(o)

(* A free connection is taken for a caller that has gone, too.             *)
Acquire(o) ==
  /\ payment[o] \in {"arrived", "waiting"}
  /\ Free
  /\ Take(o)

Wait(o) ==
  /\ payment[o] = "arrived"
  /\ ~Free
  /\ Step(o, "waiting")
  /\ UNCHANGED <<left, tokens, inUse, charged, generator, service>>

(* The wait is cancellable: 503 to a caller that has stopped listening.    *)
Refuse(o) ==
  /\ payment[o] = "waiting"
  /\ o \in left
  /\ Step(o, "refused")
  /\ UNCHANGED <<left, tokens, inUse, charged, generator, service>>

CountIn(o) ==
  /\ payment[o] = "acquired"
  /\ inUse' = inUse + 1
  /\ Step(o, "processing")
  /\ UNCHANGED <<left, tokens, charged, generator, service>>

(* A mistaken processor call that stops when its caller leaves.            *)
ProcessCancellable(o) ==
  /\ payment[o] = "processing"
  /\ charged' = charged \cup ({o} \ left)
  /\ Step(o, "processed")
  /\ UNCHANGED <<left, tokens, inUse, generator, service>>

Process(o) ==
  /\ payment[o] = "processing"
  /\ charged' = charged \cup {o}
  /\ Step(o, "processed")
  /\ UNCHANGED <<left, tokens, inUse, generator, service>>

(* release, deferred in callProcessor: the gauge, then the connection.     *)
CountOut(o) ==
  /\ payment[o] = "processed"
  /\ inUse' = inUse - 1
  /\ Step(o, "counted out")
  /\ UNCHANGED <<left, tokens, charged, generator, service>>

Release(o) ==
  /\ payment[o] = "counted out"
  /\ tokens' = tokens \ {o}
  /\ Step(o, "authorized")
  /\ UNCHANGED <<left, inUse, charged, generator, service>>

-----------------------------------------------------------------------------
Next ==
  \/ StopSending
  \/ Return
  \/ \E o \in Orders :
       \/ Dispatch(o) \/ Receive(o) \/ Fetch(o) \/ GiveUp(o) \/ Record(o)
       \/ Arrive(o) \/ Inject(o) \/ Charge(o) \/ ReadReply(o)
       \/ CallTimesOut(o) \/ CallFails(o) \/ ClientGone(o) \/ CreateOrder(o)
       \/ PaymentArrive(o) \/ Drop(o) \/ PaymentInject(o)
       \/ Acquire(o) \/ Wait(o) \/ Refuse(o) \/ CountIn(o)
       \/ Process(o) \/ CountOut(o) \/ Release(o)

Spec == Init /\ [][Next]_vars

(* A goroutine that holds a connection runs on: the processor call is a    *)
(* sleep that ends, and release is deferred.  The generator's loop ends at *)
(* its deadline, and every request it makes at its timeout.                *)
Fairness ==
  /\ WF_vars(StopSending)
  /\ WF_vars(Return)
  /\ \A o \in Orders : /\ WF_vars(GiveUp(o))
                       /\ WF_vars(Record(o))
                       /\ WF_vars(CountIn(o))
                       /\ WF_vars(Process(o))
                       /\ WF_vars(CountOut(o))
                       /\ WF_vars(Release(o))

FairSpec == Spec /\ Fairness

-----------------------------------------------------------------------------
Holding  == {"acquired", "processing", "processed", "counted out"}
InFlight == {"posting", "fetching", "back"}

ClientPlaces   == InFlight \cup {"unsent", "recorded"}
CheckoutPlaces == Answered \cup {"none", "handling", "calling", "charged"}
PaymentPlaces  == Holding \cup Replied \cup
                  {"none", "sent", "arrived", "waiting", "dropped"}

GeneratorOK ==
  /\ gen \in {"running", "stopped", "over"}
  /\ sent \in Nat /\ posts \in Nat /\ inFlight \in Nat
  /\ client \in [Orders -> ClientPlaces]
  /\ gone \subseteq Orders /\ missing \subseteq Orders

ServiceOK ==
  /\ checkout \in [Orders -> CheckoutPlaces]
  /\ timeouts \in Nat
  /\ book \in [byID : SUBSET Orders, order : Seq(Orders)]
  /\ created \in Seq(Orders)

ProcessorOK ==
  /\ payment \in [Orders -> PaymentPlaces]
  /\ left \subseteq Orders /\ tokens \subseteq Orders /\ charged \subseteq Orders
  /\ inUse \in Nat

(* Every variable has its type.                                            *)
TypeOK == GeneratorOK /\ ServiceOK /\ ProcessorOK

(* Whatever callers come, wait, leave and return late, no more connections *)
(* are taken than the pool has, each is held by a charge in progress, and  *)
(* the gauge the runbooks read never shows one that is not.                *)
PoolKept ==
  /\ Cardinality(tokens) <= PoolSize
  /\ tokens = {o \in Orders : payment[o] \in Holding}
  /\ inUse <= Cardinality(tokens)

(* An order exists only if its card was charged, and a charge that         *)
(* payment-service answered with an error was not made: of the answers to  *)
(* an order, only those given without payment-service's own leave it open. *)
ChargeFate ==
  \A o \in Orders :
    /\ (o \in book.byID \/ checkout[o] = "created") => o \in charged
    /\ payment[o] \in {"refused", "injected", "dropped"} => o \notin charged
    /\ (checkout[o] = "bad gateway" /\ o \notin left) => o \notin charged

(* The book is the newest orders and the map has those and no others, so   *)
(* the control request misses an order only when MaxOrders came after it.  *)
BookHoldsNewest ==
  LET kept == IF Len(created) < MaxOrders THEN Len(created) ELSE MaxOrders
      newer(o) == {i \in 1..Len(created) : \E j \in 1..i-1 : created[j] = o}
  IN  /\ book.order = SubSeq(created, Len(created) - kept + 1, Len(created))
      /\ book.byID = {book.order[i] : i \in 1..kept}
      /\ \A o \in missing : Cardinality(newer(o)) >= MaxOrders

(* What the generator counts as in flight is what is, and never more than  *)
(* its bound; a phase that has returned has a sample of every request it   *)
(* sent, the abandoned ones too.                                           *)
PhaseCounts ==
  /\ inFlight = Cardinality({o \in Orders : client[o] \in InFlight})
  /\ inFlight <= MaxInFlight
  /\ gen = "over" => posts = sent

(* A connection once taken is a charge dispatched: it is authorized and    *)
(* the connection comes back, whoever has stopped waiting for it, and the  *)
(* generator's phase returns.                                              *)
HeldEnds ==
  /\ \A o \in Orders : o \in tokens ~> (o \in charged /\ o \notin tokens)
  /\ <>(gen = "over")
=============================================================================
