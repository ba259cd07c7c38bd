------------------------------ MODULE LabProofs ------------------------------
(***************************************************************************)
(* Proofs about the incident lab.  Of Checkout: the pool, the generator's  *)
(* count, the fate of charges and the order book, for any set of orders,   *)
(* any pool, any order book and any bound of the generator.  Of LabFaults: *)
(* no set of goroutines is left spinning that no cancel function reaches,  *)
(* a phase measures its own incident, and a clean-up that reports no       *)
(* failure has left the lab healthy, for every number of goroutines,       *)
(* scenarios and failures.                                                 *)
(***************************************************************************)
EXTENDS Checkout, LabFaults, FiniteSetTheorems, TLAPS

-----------------------------------------------------------------------------
(* Checkout: the pool, the charges and the book                            *)

(* An order is counted in the gauge from CountIn to CountOut, and in       *)
(* flight from Dispatch to Record.                                         *)
CountedIn == {o \in Orders : payment[o] \in {"processing", "processed"}}
HeldFor   == {o \in Orders : payment[o] \in Holding}
Sending   == {o \in Orders : client[o] \in InFlight}

(* An order nobody charged yet is unknown to payment-service.              *)
Uncharged ==
  \A o \in Orders : checkout[o] \in {"none", "handling"} => payment[o] = "none"

PoolInv ==
  /\ TypeOK
  /\ Uncharged
  /\ inUse = Cardinality(CountedIn)
  /\ inFlight = Cardinality(Sending) /\ inFlight <= MaxInFlight
  /\ tokens = HeldFor /\ Cardinality(tokens) <= PoolSize

(* A charge is made exactly where the processor call has ended, and a      *)
(* handler that read a refusal off a live call leaves it at that.          *)
ChargeInv ==
  \A o \in Orders :
    /\ o \in charged <=> payment[o] \in {"processed", "counted out", "authorized"}
    /\ checkout[o] \in {"charged", "created"} => o \in charged
    /\ o \in book.byID => o \in charged
    /\ checkout[o] = "bad gateway" /\ o \notin left =>
         payment[o] \in {"refused", "injected"}

-----------------------------------------------------------------------------
(* A subset of the orders is finite, and its cardinality a number.         *)
LEMMA Countable ==
  ASSUME NEW S \in SUBSET Orders
  PROVE  IsFiniteSet(S) /\ Cardinality(S) \in Nat
<1>1. IsFiniteSet(Orders)
  BY CheckoutAssumption DEF CheckoutAssumption
<1>2. IsFiniteSet(S)
  BY <1>1, FS_Subset
<1> QED  BY <1>2, FS_CardinalityType

(* The book stays a book of orders, whichever order is put in it.          *)
LEMMA PutType ==
  ASSUME NEW b \in [byID : SUBSET Orders, order : Seq(Orders)], NEW o \in Orders
  PROVE  /\ Put(b, o) \in [byID : SUBSET Orders, order : Seq(Orders)]
         /\ Put(b, o).byID \subseteq b.byID \cup {o}
<1> DEFINE all  == Append(b.order, o)
           drop == IF Len(all) > MaxOrders THEN Len(all) - MaxOrders ELSE 0
<1>1. all \in Seq(Orders) /\ Len(all) \in Nat
  OBVIOUS
<1> HIDE DEF all
<1>2. drop \in Nat /\ drop <= Len(all)
  BY <1>1, CheckoutAssumption DEF CheckoutAssumption
<1> HIDE DEF drop
<1>3. SubSeq(all, drop + 1, Len(all)) \in Seq(Orders)
  BY <1>1, <1>2
<1>4. Put(b, o) = [byID |-> (b.byID \cup {o}) \ {all[i] : i \in 1..drop},
                   order |-> SubSeq(all, drop + 1, Len(all))]
  BY DEF Put, all, drop
<1> QED  BY <1>3, <1>4

(* The places an order is sent to are places.                              *)
LEMMA PlacesListed ==
  /\ {"unsent", "posting", "fetching", "back", "recorded"} \subseteq ClientPlaces
  /\ {"none", "handling", "calling", "charged", "created", "timeout", "gone",
      "bad gateway", "injected"} \subseteq CheckoutPlaces
  /\ {"none", "sent", "arrived", "waiting", "dropped", "acquired", "processing",
      "processed", "counted out", "authorized", "refused", "injected"}
       \subseteq PaymentPlaces
BY DEF ClientPlaces, CheckoutPlaces, PaymentPlaces, InFlight, Answered, Holding, Replied

(* What a part does not touch keeps its type.                              *)
LEMMA Frame ==
  /\ GeneratorOK /\ UNCHANGED generator => GeneratorOK'
  /\ ServiceOK /\ UNCHANGED service => ServiceOK'
  /\ ProcessorOK /\ UNCHANGED processor => ProcessorOK'
BY DEF GeneratorOK, ServiceOK, ProcessorOK, generator, service, processor

(* Counting one more.                                                      *)
LEMMA Counting ==
  /\ \A n \in Nat : n + 1 \in Nat
  /\ \A h \in Seq(Orders), o \in Orders : Append(h, o) \in Seq(Orders)
<1>1. \A n \in Nat : n + 1 \in Nat
  OBVIOUS
<1>2. \A h \in Seq(Orders), o \in Orders : Append(h, o) \in Seq(Orders)
  OBVIOUS
<1> QED  BY <1>1, <1>2

(* The generator's own steps, but for the one that counts an order back.   *)
LEMMA GeneratorTyped ==
  ASSUME GeneratorOK, NEW o \in Orders,
         Dispatch(o) \/ Receive(o) \/ Fetch(o) \/ GiveUp(o)
  PROVE  GeneratorOK' /\ UNCHANGED <<service, processor>>
<1> USE PlacesListed DEF GeneratorOK, To
<1>1. CASE Dispatch(o)
  <2>1. inFlight' \in Nat /\ sent' \in Nat
    BY <1>1, Counting DEF Dispatch
  <2> QED  BY <1>1, <2>1 DEF Dispatch
<1>2. CASE Receive(o)   BY <1>2 DEF Receive
<1>3. CASE Fetch(o)     BY <1>3 DEF Fetch
<1>4. CASE GiveUp(o)    BY <1>4 DEF GiveUp
<1> QED  BY <1>1, <1>2, <1>3, <1>4

(* The steps of checkout-service's handlers.                               *)
LEMMA ServiceTyped ==
  ASSUME ServiceOK, ProcessorOK, NEW o \in Orders,
         Arrive(o) \/ Inject(o) \/ Charge(o) \/ ReadReply(o) \/ CallTimesOut(o)
         \/ CallFails(o) \/ ClientGone(o) \/ CreateOrder(o)
  PROVE  ServiceOK' /\ ProcessorOK' /\ UNCHANGED generator
<1> USE PlacesListed DEF Answer
<1>1. CASE Arrive(o) \/ Inject(o) \/ ReadReply(o)
  <2>1. checkout' \in [Orders -> CheckoutPlaces] /\ UNCHANGED <<timeouts, book, created>>
    BY <1>1 DEF Arrive, Inject, ReadReply, ServiceOK
  <2>2. UNCHANGED <<generator, processor>>
    BY <1>1 DEF Arrive, Inject, ReadReply
  <2> QED  BY <2>1, <2>2, Frame DEF ServiceOK
<1>2. CASE Charge(o)
  <2>1. checkout' \in [Orders -> CheckoutPlaces] /\ UNCHANGED <<timeouts, book, created>>
    BY <1>2 DEF Charge, ServiceOK
  <2>2. payment' \in [Orders -> PaymentPlaces]
    BY <1>2 DEF Charge, ProcessorOK
  <2> QED  BY <1>2, <2>1, <2>2 DEF Charge, ServiceOK, ProcessorOK
<1>3. CASE CallTimesOut(o) \/ CallFails(o) \/ ClientGone(o)
  <2>1. checkout' \in [Orders -> CheckoutPlaces] /\ UNCHANGED <<book, created, generator>>
    BY <1>3 DEF CallTimesOut, CallFails, ClientGone, Abandon, ServiceOK
  <2>2. timeouts' = timeouts + 1 \/ timeouts' = timeouts
    BY <1>3 DEF CallTimesOut, CallFails, ClientGone
  <2>3. timeouts \in Nat
    BY DEF ServiceOK
  <2>4. timeouts' \in Nat
    BY <2>2, <2>3, Counting
  <2>5. ProcessorOK'
    BY <1>3 DEF CallTimesOut, CallFails, ClientGone, Abandon, ProcessorOK
  <2> QED  BY <2>1, <2>4, <2>5 DEF ServiceOK
<1>4. CASE CreateOrder(o)
  <2>1. checkout' \in [Orders -> CheckoutPlaces] /\ UNCHANGED <<timeouts, generator, processor>>
    BY <1>4 DEF CreateOrder, ServiceOK
  <2>2. book' \in [byID : SUBSET Orders, order : Seq(Orders)]
    BY <1>4, PutType DEF CreateOrder, ServiceOK
  <2>3. created \in Seq(Orders) /\ created' = Append(created, o)
    BY <1>4 DEF CreateOrder, ServiceOK
  <2>4. created' \in Seq(Orders)
    BY <2>3, Counting
  <2> QED  BY <2>1, <2>2, <2>4, Frame DEF ServiceOK
<1> QED  BY <1>1, <1>2, <1>3, <1>4

(* The steps of payment-service's, but for the one that counts out.        *)
LEMMA ProcessorTyped ==
  ASSUME ProcessorOK, NEW o \in Orders,
         PaymentArrive(o) \/ Drop(o) \/ PaymentInject(o) \/ Acquire(o) \/ Wait(o)
         \/ Refuse(o) \/ CountIn(o) \/ Process(o) \/ Release(o)
  PROVE  ProcessorOK' /\ UNCHANGED <<generator, service>>
<1> USE PlacesListed DEF Step, Take, ProcessorOK
<1>1. CASE PaymentArrive(o)  BY <1>1 DEF PaymentArrive
<1>2. CASE Drop(o)           BY <1>2 DEF Drop
<1>3. CASE PaymentInject(o)  BY <1>3 DEF PaymentInject
<1>4. CASE Acquire(o)        BY <1>4 DEF Acquire
<1>5. CASE Wait(o)           BY <1>5 DEF Wait
<1>6. CASE Refuse(o)         BY <1>6 DEF Refuse
<1>7. CASE CountIn(o)
  <2>1. inUse' \in Nat
    BY <1>7, Counting DEF CountIn
  <2> QED  BY <1>7, <2>1 DEF CountIn
<1>8. CASE Process(o)        BY <1>8 DEF Process
<1>9. CASE Release(o)        BY <1>9 DEF Release
<1> QED
  BY <1>1, <1>2, <1>3, <1>4, <1>5, <1>6, <1>7, <1>8, <1>9

(* Every variable keeps its type: a count only goes down by an order that  *)
(* is counted in it.                                                       *)
LEMMA TypeStep ==
  ASSUME PoolInv, [Next]_vars
  PROVE  TypeOK'
<1>0. GeneratorOK /\ ServiceOK /\ ProcessorOK
  BY DEF PoolInv, TypeOK
<1>1. CASE UNCHANGED vars
  BY <1>0, <1>1, Frame DEF vars, TypeOK
<1>2. CASE StopSending \/ Return
  <2>1. GeneratorOK' /\ UNCHANGED <<service, processor>>
    BY <1>0, <1>2 DEF StopSending, Return, GeneratorOK
  <2> QED  BY <1>0, <2>1, Frame DEF TypeOK
<1>3. ASSUME NEW o \in Orders, Record(o)
      PROVE  TypeOK'
  <2>1. o \in Sending
    BY <1>3 DEF Record, Sending, InFlight
  <2>2. Cardinality(Sending \ {o}) = Cardinality(Sending) - 1
    BY <2>1, Countable, FS_RemoveElement DEF Sending
  <2>3. Cardinality(Sending) \in Nat /\ Cardinality(Sending \ {o}) \in Nat
    BY Countable DEF Sending
  <2>4. inFlight - 1 \in Nat
    BY <2>2, <2>3 DEF PoolInv
  <2>5. inFlight' \in Nat
    BY <1>3, <2>4 DEF Record
  <2>6. posts' \in Nat
    BY <1>0, <1>3, Counting DEF Record, GeneratorOK
  <2>7. GeneratorOK' /\ UNCHANGED <<service, processor>>
    BY <1>0, <1>3, <2>5, <2>6, PlacesListed DEF Record, To, GeneratorOK
  <2> QED  BY <1>0, <2>7, Frame DEF TypeOK
<1>4. ASSUME NEW o \in Orders, CountOut(o)
      PROVE  TypeOK'
  <2>1. o \in CountedIn
    BY <1>4 DEF CountOut, CountedIn
  <2>2. Cardinality(CountedIn \ {o}) = Cardinality(CountedIn) - 1
    BY <2>1, Countable, FS_RemoveElement DEF CountedIn
  <2>3. Cardinality(CountedIn) \in Nat /\ Cardinality(CountedIn \ {o}) \in Nat
    BY Countable DEF CountedIn
  <2>4. inUse - 1 \in Nat
    BY <2>2, <2>3 DEF PoolInv
  <2>5. ProcessorOK' /\ UNCHANGED <<generator, service>>
    BY <1>0, <1>4, <2>4, PlacesListed DEF CountOut, Step, ProcessorOK
  <2> QED  BY <1>0, <2>5, Frame DEF TypeOK
<1> QED
  BY <1>0, <1>1, <1>2, <1>3, <1>4, GeneratorTyped, ServiceTyped, ProcessorTyped, Frame
  DEF Next, TypeOK

-----------------------------------------------------------------------------
(* One order more, one order less.                                         *)
LEMMA OneOrder ==
  ASSUME NEW S \in SUBSET Orders, NEW o \in Orders
  PROVE  /\ o \notin S => Cardinality(S \cup {o}) = Cardinality(S) + 1
         /\ o \in S => Cardinality(S \ {o}) = Cardinality(S) - 1
<1>1. IsFiniteSet(S)
  BY Countable
<1>2. o \notin S => Cardinality(S \cup {o}) = Cardinality(S) + 1
  BY <1>1, FS_AddElement
<1>3. o \in S => Cardinality(S \ {o}) = Cardinality(S) - 1
  BY <1>1, FS_RemoveElement
<1> QED  BY <1>2, <1>3

(* The generator's count follows its orders.                               *)
LEMMA InFlightStep ==
  ASSUME PoolInv, [Next]_vars
  PROVE  inFlight' = Cardinality(Sending') /\ inFlight' <= MaxInFlight
<1>0. /\ GeneratorOK /\ ServiceOK /\ ProcessorOK
      /\ inFlight = Cardinality(Sending) /\ inFlight <= MaxInFlight
      /\ Sending \in SUBSET Orders
  BY DEF PoolInv, TypeOK, Sending
<1>1. CASE UNCHANGED <<client, inFlight>>
  <2>1. Sending' = Sending
    BY <1>1 DEF Sending
  <2> QED  BY <1>0, <1>1, <2>1
<1>2. CASE StopSending \/ Return
  BY <1>1, <1>2 DEF StopSending, Return
<1>3. ASSUME NEW o \in Orders, Dispatch(o)
      PROVE  inFlight' = Cardinality(Sending') /\ inFlight' <= MaxInFlight
  <2>1. o \notin Sending /\ Sending' = Sending \cup {o}
    BY <1>0, <1>3 DEF Dispatch, To, Sending, InFlight, GeneratorOK
  <2>2. Cardinality(Sending') = Cardinality(Sending) + 1
    BY <1>0, <2>1, OneOrder
  <2>3. inFlight' = inFlight + 1 /\ inFlight < MaxInFlight /\ inFlight \in Nat
    BY <1>0, <1>3 DEF Dispatch, GeneratorOK
  <2>4. inFlight + 1 <= MaxInFlight
    BY <2>3, CheckoutAssumption DEF CheckoutAssumption
  <2> QED  BY <1>0, <2>2, <2>3, <2>4
<1>4. ASSUME NEW o \in Orders, Receive(o) \/ Fetch(o) \/ GiveUp(o)
      PROVE  inFlight' = Cardinality(Sending') /\ inFlight' <= MaxInFlight
  <2>1. Sending' = Sending /\ inFlight' = inFlight
    BY <1>0, <1>4 DEF Receive, Fetch, GiveUp, To, Sending, InFlight, GeneratorOK
  <2> QED  BY <1>0, <2>1
<1>5. ASSUME NEW o \in Orders, Record(o)
      PROVE  inFlight' = Cardinality(Sending') /\ inFlight' <= MaxInFlight
  <2>1. o \in Sending /\ Sending' = Sending \ {o}
    BY <1>0, <1>5 DEF Record, To, Sending, InFlight, GeneratorOK
  <2>2. Cardinality(Sending') = Cardinality(Sending) - 1
    BY <1>0, <2>1, OneOrder
  <2>3. inFlight' = inFlight - 1 /\ inFlight \in Nat
    BY <1>0, <1>5 DEF Record, GeneratorOK
  <2>4. inFlight - 1 <= MaxInFlight
    BY <1>0, <2>3, CheckoutAssumption DEF CheckoutAssumption
  <2> QED  BY <1>0, <2>2, <2>3, <2>4
<1>6. ASSUME NEW o \in Orders, CountOut(o)
      PROVE  inFlight' = Cardinality(Sending') /\ inFlight' <= MaxInFlight
  BY <1>1, <1>6 DEF CountOut, generator
<1>7. CASE UNCHANGED generator
  BY <1>1, <1>7 DEF generator
<1>8. CASE UNCHANGED vars
  BY <1>7, <1>8 DEF vars
<1> QED
  BY <1>0, <1>2, <1>3, <1>4, <1>5, <1>6, <1>7, <1>8, ServiceTyped, ProcessorTyped
  DEF Next

(* The gauge follows the handlers between its two lines.                   *)
LEMMA GaugeStep ==
  ASSUME PoolInv, [Next]_vars
  PROVE  inUse' = Cardinality(CountedIn')
<1>0. /\ GeneratorOK /\ ServiceOK /\ ProcessorOK /\ Uncharged
      /\ inUse = Cardinality(CountedIn)
      /\ CountedIn \in SUBSET Orders
  BY DEF PoolInv, TypeOK, CountedIn
<1>1. CASE UNCHANGED <<payment, inUse>>
  <2>1. CountedIn' = CountedIn
    BY <1>1 DEF CountedIn
  <2> QED  BY <1>0, <1>1, <2>1
<1>2. CASE StopSending \/ Return
  BY <1>1, <1>2 DEF StopSending, Return, processor
<1>3. ASSUME NEW o \in Orders,
             Dispatch(o) \/ Receive(o) \/ Fetch(o) \/ GiveUp(o) \/ Record(o)
      PROVE  inUse' = Cardinality(CountedIn')
  BY <1>1, <1>3 DEF Dispatch, Receive, Fetch, GiveUp, Record, processor
<1>4. ASSUME NEW o \in Orders,
             Arrive(o) \/ Inject(o) \/ Charge(o) \/ ReadReply(o) \/ CallTimesOut(o)
             \/ CallFails(o) \/ ClientGone(o) \/ CreateOrder(o)
      PROVE  inUse' = Cardinality(CountedIn')
  <2>1. CountedIn' = CountedIn /\ inUse' = inUse
    BY <1>0, <1>4
    DEF Arrive, Inject, ReadReply, CallTimesOut, CallFails, ClientGone, CreateOrder,
        Charge, Abandon, processor, Uncharged, CountedIn, ProcessorOK
  <2> QED  BY <1>0, <2>1
<1>5. ASSUME NEW o \in Orders,
             PaymentArrive(o) \/ Drop(o) \/ PaymentInject(o) \/ Acquire(o) \/ Wait(o)
             \/ Refuse(o) \/ Process(o) \/ Release(o)
      PROVE  inUse' = Cardinality(CountedIn')
  <2>1. CountedIn' = CountedIn /\ inUse' = inUse
    BY <1>0, <1>5
    DEF PaymentArrive, Drop, PaymentInject, Acquire, Wait, Refuse, Process, Release,
        Step, Take, CountedIn, ProcessorOK
  <2> QED  BY <1>0, <2>1
<1>6. ASSUME NEW o \in Orders, CountIn(o)
      PROVE  inUse' = Cardinality(CountedIn')
  <2>1. o \notin CountedIn /\ CountedIn' = CountedIn \cup {o} /\ inUse' = inUse + 1
    BY <1>0, <1>6 DEF CountIn, Step, CountedIn, ProcessorOK
  <2> QED  BY <1>0, <2>1, OneOrder
<1>7. ASSUME NEW o \in Orders, CountOut(o)
      PROVE  inUse' = Cardinality(CountedIn')
  <2>1. o \in CountedIn /\ CountedIn' = CountedIn \ {o} /\ inUse' = inUse - 1
    BY <1>0, <1>7 DEF CountOut, Step, CountedIn, ProcessorOK
  <2> QED  BY <1>0, <2>1, OneOrder
<1>8. CASE UNCHANGED vars
  BY <1>1, <1>8 DEF vars, processor
<1> QED
  BY <1>2, <1>3, <1>4, <1>5, <1>6, <1>7, <1>8 DEF Next

(* Uncharged survives every step: only Charge sends an order on.           *)
LEMMA UnchargedStep ==
  ASSUME PoolInv, [Next]_vars
  PROVE  Uncharged'
<1>0. ServiceOK /\ ProcessorOK /\ Uncharged
  BY DEF PoolInv, TypeOK
<1>1. CASE UNCHANGED <<checkout, payment>>
  BY <1>0, <1>1 DEF Uncharged
<1>2. CASE StopSending \/ Return
  BY <1>1, <1>2 DEF StopSending, Return, service, processor
<1>3. ASSUME NEW o \in Orders,
             Dispatch(o) \/ Receive(o) \/ Fetch(o) \/ GiveUp(o) \/ Record(o)
      PROVE  Uncharged'
  BY <1>1, <1>3 DEF Dispatch, Receive, Fetch, GiveUp, Record, service, processor
<1>4. ASSUME NEW o \in Orders,
             Arrive(o) \/ Inject(o) \/ Charge(o) \/ ReadReply(o) \/ CallTimesOut(o)
             \/ CallFails(o) \/ ClientGone(o) \/ CreateOrder(o)
      PROVE  Uncharged'
  BY <1>0, <1>4
  DEF Arrive, Inject, ReadReply, CallTimesOut, CallFails, ClientGone, CreateOrder,
      Charge, Abandon, Answer, processor, Uncharged, ServiceOK, ProcessorOK
<1>5. ASSUME NEW o \in Orders,
             PaymentArrive(o) \/ Drop(o) \/ PaymentInject(o) \/ Acquire(o) \/ Wait(o)
             \/ Refuse(o) \/ CountIn(o) \/ Process(o) \/ CountOut(o) \/ Release(o)
      PROVE  Uncharged'
  BY <1>0, <1>5
  DEF PaymentArrive, Drop, PaymentInject, Acquire, Wait, Refuse, CountIn, Process,
      CountOut, Release, Step, Take, service, Uncharged, ServiceOK, ProcessorOK
<1>6. CASE UNCHANGED vars
  BY <1>1, <1>6 DEF vars, service, processor
<1> QED
  BY <1>2, <1>3, <1>4, <1>5, <1>6 DEF Next

(* A connection is taken by Take and given back by Release, and Take finds *)
(* one free.                                                               *)
LEMMA TokensStep ==
  ASSUME PoolInv, [Next]_vars
  PROVE  tokens' = HeldFor' /\ Cardinality(tokens') <= PoolSize
<1>0. /\ ServiceOK /\ ProcessorOK /\ Uncharged
      /\ tokens = HeldFor /\ Cardinality(tokens) <= PoolSize
      /\ tokens \in SUBSET Orders
  BY DEF PoolInv, TypeOK, HeldFor
<1>1. CASE tokens' = tokens /\ HeldFor' = HeldFor
  BY <1>0, <1>1
<1>2. CASE UNCHANGED processor
  BY <1>1, <1>2 DEF processor, HeldFor
<1>3. CASE StopSending \/ Return
  BY <1>2, <1>3 DEF StopSending, Return
<1>4. ASSUME NEW o \in Orders,
             Dispatch(o) \/ Receive(o) \/ Fetch(o) \/ GiveUp(o) \/ Record(o)
      PROVE  tokens' = HeldFor' /\ Cardinality(tokens') <= PoolSize
  BY <1>2, <1>4 DEF Dispatch, Receive, Fetch, GiveUp, Record
<1>5. ASSUME NEW o \in Orders,
             Arrive(o) \/ Inject(o) \/ Charge(o) \/ ReadReply(o) \/ CallTimesOut(o)
             \/ CallFails(o) \/ ClientGone(o) \/ CreateOrder(o)
      PROVE  tokens' = HeldFor' /\ Cardinality(tokens') <= PoolSize
  <2>1. tokens' = tokens /\ HeldFor' = HeldFor
    BY <1>0, <1>5
    DEF Arrive, Inject, ReadReply, CallTimesOut, CallFails, ClientGone, CreateOrder,
        Charge, Abandon, processor, Uncharged, HeldFor, Holding, ProcessorOK
  <2> QED  BY <1>1, <2>1
<1>6. ASSUME NEW o \in Orders,
             PaymentArrive(o) \/ Drop(o) \/ PaymentInject(o) \/ Wait(o) \/ Refuse(o)
             \/ CountIn(o) \/ Process(o) \/ CountOut(o)
      PROVE  tokens' = HeldFor' /\ Cardinality(tokens') <= PoolSize
  <2>1. tokens' = tokens /\ HeldFor' = HeldFor
    BY <1>0, <1>6
    DEF PaymentArrive, Drop, PaymentInject, Wait, Refuse, CountIn, Process, CountOut,
        Step, HeldFor, Holding, ProcessorOK
  <2> QED  BY <1>1, <2>1
<1>7. ASSUME NEW o \in Orders, Acquire(o)
      PROVE  tokens' = HeldFor' /\ Cardinality(tokens') <= PoolSize
  <2>1. o \notin tokens /\ tokens' = tokens \cup {o} /\ tokens' = HeldFor'
    BY <1>0, <1>7 DEF Acquire, Take, Step, HeldFor, Holding, ProcessorOK
  <2>2. Cardinality(tokens') = Cardinality(tokens) + 1
    BY <1>0, <2>1, OneOrder
  <2>3. Cardinality(tokens) < PoolSize /\ Cardinality(tokens) \in Nat /\ PoolSize \in Nat
    BY <1>0, <1>7, Countable, CheckoutAssumption DEF Acquire, Free, CheckoutAssumption
  <2>4. Cardinality(tokens) + 1 <= PoolSize
    BY <2>3
  <2> QED  BY <2>1, <2>2, <2>4
<1>8. ASSUME NEW o \in Orders, Release(o)
      PROVE  tokens' = HeldFor' /\ Cardinality(tokens') <= PoolSize
  <2>1. o \in tokens /\ tokens' = tokens \ {o} /\ tokens' = HeldFor'
    BY <1>0, <1>8 DEF Release, Step, HeldFor, Holding, ProcessorOK
  <2>2. Cardinality(tokens') = Cardinality(tokens) - 1
    BY <1>0, <2>1, OneOrder
  <2>3. Cardinality(tokens) <= PoolSize /\ Cardinality(tokens) \in Nat /\ PoolSize \in Nat
    BY <1>0, Countable, CheckoutAssumption DEF CheckoutAssumption
  <2>4. Cardinality(tokens) - 1 <= PoolSize
    BY <2>3
  <2> QED  BY <2>1, <2>2, <2>4
<1>9. CASE UNCHANGED vars
  BY <1>2, <1>9 DEF vars
<1> QED
  BY <1>3, <1>4, <1>5, <1>6, <1>7, <1>8, <1>9 DEF Next

-----------------------------------------------------------------------------
(* Nothing is sent, held or counted at the start.                          *)
LEMMA PoolStarts ==
  ASSUME Init
  PROVE  PoolInv /\ ChargeInv
<1>1. TypeOK
  <2>1. GeneratorOK
    BY PlacesListed DEF Init, GeneratorOK
  <2>2. ServiceOK
    <3>1. checkout \in [Orders -> CheckoutPlaces] /\ timeouts \in Nat
      BY PlacesListed DEF Init
    <3>2. << >> \in Seq(Orders)
      OBVIOUS
    <3>3. book \in [byID : SUBSET Orders, order : Seq(Orders)] /\ created \in Seq(Orders)
      BY <3>2 DEF Init
    <3> QED  BY <3>1, <3>3 DEF ServiceOK
  <2>3. ProcessorOK
    BY PlacesListed DEF Init, ProcessorOK
  <2> QED  BY <2>1, <2>2, <2>3 DEF TypeOK
<1>2. CountedIn = {} /\ HeldFor = {} /\ Sending = {}
  BY DEF Init, CountedIn, HeldFor, Holding, Sending, InFlight
<1>3. Cardinality({}) = 0
  BY FS_EmptySet
<1>4. 0 <= MaxInFlight /\ 0 <= PoolSize
  BY CheckoutAssumption DEF CheckoutAssumption
<1>5. PoolInv
  BY <1>1, <1>2, <1>3, <1>4 DEF PoolInv, Uncharged, Init
<1>6. ChargeInv
  BY DEF ChargeInv, Init
<1> QED  BY <1>5, <1>6

(* PoolInv is inductive.                                                   *)
LEMMA PoolStep ==
  ASSUME PoolInv, [Next]_vars
  PROVE  PoolInv'
<1>1. TypeOK' /\ Uncharged'
  BY TypeStep, UnchargedStep
<1>2. inUse' = Cardinality(CountedIn')
  BY GaugeStep
<1>3. inFlight' = Cardinality(Sending') /\ inFlight' <= MaxInFlight
  BY InFlightStep
<1>4. tokens' = HeldFor' /\ Cardinality(tokens') <= PoolSize
  BY TokensStep
<1> QED  BY <1>1, <1>2, <1>3, <1>4 DEF PoolInv

(* TypeOK, whatever the orders and the bounds: the two gauges the services *)
(* and the generator keep never go below zero.                             *)
THEOREM CheckoutTypes == Spec => []TypeOK
<1>1. Init => PoolInv
  BY PoolStarts
<1>2. PoolInv /\ [Next]_vars => PoolInv'
  BY PoolStep
<1>3. PoolInv => TypeOK
  BY DEF PoolInv
<1> QED  BY <1>1, <1>2, <1>3, PTL DEF Spec

(* PoolKept: payment-service takes no more connections than its pool has,  *)
(* each for a charge in progress, and the gauge never shows one more.      *)
THEOREM PoolIsKept == Spec => []PoolKept
<1>1. Init => PoolInv
  BY PoolStarts
<1>2. PoolInv /\ [Next]_vars => PoolInv'
  BY PoolStep
<1>3. PoolInv => PoolKept
  <2> SUFFICES ASSUME PoolInv PROVE PoolKept
    OBVIOUS
  <2>1. CountedIn \subseteq HeldFor /\ HeldFor \in SUBSET Orders
    BY DEF CountedIn, HeldFor, Holding
  <2>2. Cardinality(CountedIn) <= Cardinality(HeldFor)
    BY <2>1, Countable, FS_Subset
  <2>3. inUse <= Cardinality(tokens)
    BY <2>2 DEF PoolInv
  <2> QED  BY <2>3 DEF PoolInv, PoolKept, HeldFor
<1> QED  BY <1>1, <1>2, <1>3, PTL DEF Spec

(* ChargeInv is inductive relative to the pool's.                          *)
LEMMA ChargeStep ==
  ASSUME PoolInv, ChargeInv, [Next]_vars
  PROVE  ChargeInv'
<1>0. ServiceOK /\ ProcessorOK /\ Uncharged
  BY DEF PoolInv, TypeOK
<1>1. CASE UNCHANGED <<service, processor>>
  BY <1>1 DEF ChargeInv, service, processor
<1>2. CASE StopSending \/ Return
  BY <1>1, <1>2 DEF StopSending, Return
<1>3. ASSUME NEW o \in Orders,
             Dispatch(o) \/ Receive(o) \/ Fetch(o) \/ GiveUp(o) \/ Record(o)
      PROVE  ChargeInv'
  BY <1>1, <1>3 DEF Dispatch, Receive, Fetch, GiveUp, Record
<1>4. ASSUME NEW o \in Orders,
             Arrive(o) \/ Inject(o) \/ Charge(o) \/ ReadReply(o) \/ CallTimesOut(o)
             \/ CallFails(o) \/ ClientGone(o)
      PROVE  ChargeInv'
  BY <1>0, <1>4
  DEF Arrive, Inject, Charge, ReadReply, CallTimesOut, CallFails, ClientGone, Abandon,
      Answer, Replied, processor, Uncharged, ChargeInv, ServiceOK, ProcessorOK
<1>5. ASSUME NEW o \in Orders, CreateOrder(o)
      PROVE  ChargeInv'
  <2>1. book'.byID \subseteq book.byID \cup {o}
    BY <1>0, <1>5, PutType DEF CreateOrder, ServiceOK
  <2>2. UNCHANGED processor /\ checkout' = [checkout EXCEPT ![o] = "created"]
        /\ checkout[o] = "charged"
    BY <1>5 DEF CreateOrder, Answer
  <2> QED
    BY <1>0, <2>1, <2>2 DEF processor, ChargeInv, ServiceOK
<1>6. ASSUME NEW o \in Orders,
             PaymentArrive(o) \/ Drop(o) \/ PaymentInject(o) \/ Acquire(o) \/ Wait(o)
             \/ Refuse(o) \/ CountIn(o) \/ Process(o) \/ CountOut(o) \/ Release(o)
      PROVE  ChargeInv'
  BY <1>0, <1>6
  DEF PaymentArrive, Drop, PaymentInject, Acquire, Wait, Refuse, CountIn, Process,
      CountOut, Release, Step, Take, service, ChargeInv, ServiceOK, ProcessorOK
<1>7. CASE UNCHANGED vars
  BY <1>1, <1>7 DEF vars
<1> QED
  BY <1>2, <1>3, <1>4, <1>5, <1>6, <1>7 DEF Next

(* ChargeFate: an order exists only where its card was charged, and what   *)
(* payment-service answered with an error was not charged.                 *)
THEOREM ChargesAreKnown == Spec => []ChargeFate
<1>1. Init => PoolInv /\ ChargeInv
  BY PoolStarts
<1>2. PoolInv /\ ChargeInv /\ [Next]_vars => PoolInv' /\ ChargeInv'
  BY PoolStep, ChargeStep
<1>3. ChargeInv => ChargeFate
  BY DEF ChargeInv, ChargeFate
<1> QED  BY <1>1, <1>2, <1>3, PTL DEF Spec

(* Every order sent is in flight or sampled, and none is in flight when    *)
(* the phase is over.                                                      *)
CountsInv ==
  /\ sent = posts + inFlight
  /\ gen = "over" => Sending = {}

(* CountsInv is inductive relative to the types.                           *)
LEMMA CountsStep ==
  ASSUME PoolInv, CountsInv, [Next]_vars
  PROVE  CountsInv'
<1>0. GeneratorOK /\ ServiceOK /\ ProcessorOK
  BY DEF PoolInv, TypeOK
<1>1. sent \in Nat /\ posts \in Nat /\ inFlight \in Nat /\ sent = posts + inFlight
  BY <1>0 DEF CountsInv, GeneratorOK
<1>2. CASE UNCHANGED generator
  BY <1>2 DEF CountsInv, Sending, generator
<1>3. CASE StopSending
  BY <1>3 DEF StopSending, CountsInv
<1>4. CASE Return
  <2>1. Sending' = {} /\ UNCHANGED <<sent, posts, inFlight>>
    BY <1>4 DEF Return, Sending, InFlight
  <2> QED  BY <1>1, <2>1 DEF CountsInv
<1>5. ASSUME NEW o \in Orders, Dispatch(o)
      PROVE  CountsInv'
  <2>1. gen' # "over" /\ sent' = sent + 1 /\ inFlight' = inFlight + 1 /\ posts' = posts
    BY <1>5 DEF Dispatch
  <2>2. sent' = posts' + inFlight'
    BY <1>1, <2>1
  <2> QED  BY <2>1, <2>2 DEF CountsInv
<1>6. ASSUME NEW o \in Orders, Receive(o) \/ Fetch(o) \/ GiveUp(o)
      PROVE  CountsInv'
  <2>1. Sending' = Sending /\ UNCHANGED <<gen, sent, posts, inFlight>>
    BY <1>0, <1>6 DEF Receive, Fetch, GiveUp, To, Sending, InFlight, GeneratorOK
  <2> QED  BY <2>1 DEF CountsInv
<1>7. ASSUME NEW o \in Orders, Record(o)
      PROVE  CountsInv'
  <2>1. /\ sent' = sent /\ gen' = gen
        /\ inFlight' = inFlight - 1 /\ posts' = posts + 1
    BY <1>7 DEF Record
  <2>2. sent' = posts' + inFlight'
    BY <1>1, <2>1
  <2>3. Sending' \subseteq Sending
    BY <1>0, <1>7 DEF Record, To, Sending, InFlight, GeneratorOK
  <2> QED  BY <2>1, <2>2, <2>3 DEF CountsInv
<1>8. ASSUME NEW o \in Orders, CountOut(o)
      PROVE  CountsInv'
  BY <1>2, <1>8 DEF CountOut
<1>9. CASE UNCHANGED vars
  BY <1>2, <1>9 DEF vars
<1> QED
  BY <1>0, <1>2, <1>3, <1>4, <1>5, <1>6, <1>7, <1>8, <1>9, ServiceTyped, ProcessorTyped
  DEF Next

(* PhaseCounts: the generator never exceeds its bound, and the phase it    *)
(* returns has a sample of every request it sent.                          *)
THEOREM PhaseIsCounted == Spec => []PhaseCounts
<1>1. Init => PoolInv /\ CountsInv
  <2> SUFFICES ASSUME Init PROVE PoolInv /\ CountsInv
    OBVIOUS
  <2> QED  BY PoolStarts DEF CountsInv, Init
<1>2. PoolInv /\ CountsInv /\ [Next]_vars => PoolInv' /\ CountsInv'
  BY PoolStep, CountsStep
<1>3. PoolInv /\ CountsInv => PhaseCounts
  <2> SUFFICES ASSUME PoolInv, CountsInv PROVE PhaseCounts
    OBVIOUS
  <2>1. gen = "over" => posts = sent
    <3> SUFFICES ASSUME gen = "over" PROVE posts = sent
      OBVIOUS
    <3>1. inFlight = 0
      BY FS_EmptySet DEF PoolInv, CountsInv
    <3>2. posts \in Nat /\ sent = posts + inFlight
      BY DEF PoolInv, TypeOK, GeneratorOK, CountsInv
    <3> QED  BY <3>1, <3>2
  <2> QED  BY <2>1 DEF PoolInv, PhaseCounts, Sending
<1> QED  BY <1>1, <1>2, <1>3, PTL DEF Spec

-----------------------------------------------------------------------------
(* The order book                                                          *)

Kept(c) == IF Len(c) < MaxOrders THEN Len(c) ELSE MaxOrders

Newest(b, c) ==
  /\ b.order = SubSeq(c, Len(c) - Kept(c) + 1, Len(c))
  /\ b.byID = {b.order[i] : i \in 1..Kept(c)}

Distinct(c) == \A i, j \in 1..Len(c) : c[i] = c[j] => i = j

Absent(c, o) == \A i \in 1..Len(c) : c[i] # o

Passed(c, o) == \E j \in 1..Len(c) : c[j] = o /\ Len(c) - j >= MaxOrders

(* The inductive invariant of the book: an order is put in it once, it is  *)
(* the newest of them, and what a fetch missed has MaxOrders after it.     *)
BookInv ==
  /\ Distinct(created) /\ Newest(book, created)
  /\ \A o \in Orders : checkout[o] = "created" <=> ~Absent(created, o)
  /\ \A o \in Orders : client[o] = "fetching" => checkout[o] = "created"
  /\ \A o \in missing : Passed(created, o)

(* How many are kept, and where the i-th of them is among those created.   *)
LEMMA KeptAt ==
  ASSUME NEW c \in Seq(Orders), NEW b, Newest(b, c)
  PROVE  /\ Len(c) \in Nat /\ MaxOrders \in Nat \ {0}
         /\ Kept(c) \in 0..Len(c) /\ Kept(c) <= MaxOrders
         /\ b.order \in Seq(Orders) /\ Len(b.order) = Kept(c)
         /\ \A i \in 1..Kept(c) : /\ Len(c) - Kept(c) + i \in 1..Len(c)
                                  /\ b.order[i] = c[Len(c) - Kept(c) + i]
<1>1. Len(c) \in Nat /\ MaxOrders \in Nat \ {0}
  BY CheckoutAssumption
<1>2. Kept(c) \in 0..Len(c) /\ Kept(c) <= MaxOrders
  BY <1>1 DEF Kept
<1> DEFINE m == Len(c) - Kept(c) + 1
<1>3. m \in 1..Len(c) + 1 /\ m \in Nat /\ Len(c) - m + 1 = Kept(c)
  BY <1>1, <1>2
<1>4. b.order = SubSeq(c, m, Len(c))
  BY DEF Newest
<1> HIDE DEF m
<1>5. b.order \in Seq(Orders) /\ Len(b.order) = Len(c) - m + 1
  BY <1>1, <1>3, <1>4
<1>6. \A i \in 1..Len(c) - m + 1 : b.order[i] = c[m + i - 1]
  BY <1>1, <1>3, <1>4
<1>7. ASSUME NEW i \in 1..Kept(c)
      PROVE  Len(c) - Kept(c) + i \in 1..Len(c) /\ m + i - 1 = Len(c) - Kept(c) + i
  BY <1>1, <1>2 DEF m
<1> QED BY <1>1, <1>2, <1>3, <1>5, <1>6, <1>7

(* An order that is new stays the only one of its name.                    *)
LEMMA DistinctLonger ==
  ASSUME NEW c \in Seq(Orders), NEW o \in Orders, Distinct(c), Absent(c, o)
  PROVE  Distinct(Append(c, o))
<1> DEFINE d == Append(c, o)
<1>1. /\ Len(d) = Len(c) + 1 /\ Len(c) \in Nat /\ d[Len(c) + 1] = o
      /\ \A i \in 1..Len(c) : d[i] = c[i]
  OBVIOUS
<1> HIDE DEF d
<1>2. \A i \in 1..Len(d) : i \in 1..Len(c) \/ i = Len(c) + 1
  BY <1>1
<1>3. Distinct(d)
  BY <1>1, <1>2 DEF Distinct, Absent
<1> QED BY <1>3 DEF d

(* The book with one order more is the newest of the orders with it.       *)
LEMMA PutKeepsNewest ==
  ASSUME NEW c \in Seq(Orders), NEW o \in Orders, NEW b, Distinct(c), Absent(c, o),
         Newest(b, c)
  PROVE  Newest(Put(b, o), Append(c, o))
<1> DEFINE d == Append(c, o)
           k == Kept(c)
           L == Len(c)
           all == Append(b.order, o)
           drop == IF Len(all) > MaxOrders THEN Len(all) - MaxOrders ELSE 0
<1>1. /\ L \in Nat /\ MaxOrders \in Nat \ {0} /\ k \in 0..L /\ k \in Nat /\ k <= MaxOrders
      /\ b.order \in Seq(Orders) /\ Len(b.order) = k
      /\ \A i \in 1..k : L - k + i \in 1..L /\ b.order[i] = c[L - k + i]
  BY KeptAt
<1>2. /\ d \in Seq(Orders) /\ Len(d) = L + 1 /\ d[L + 1] = o
      /\ \A i \in 1..L : d[i] = c[i]
  OBVIOUS
<1>3. /\ all \in Seq(Orders) /\ Len(all) = k + 1 /\ all[k + 1] = o
      /\ \A i \in 1..k : all[i] = b.order[i]
  BY <1>1
<1>4. \/ L < MaxOrders /\ k = L /\ drop = 0 /\ Kept(d) = L + 1
      \/ ~(L < MaxOrders) /\ k = MaxOrders /\ drop = 1 /\ Kept(d) = MaxOrders
  BY <1>1, <1>2, <1>3 DEF Kept
<1>5. /\ drop \in 0..1 /\ Kept(d) = k + 1 - drop /\ drop <= k
  BY <1>1, <1>4
<1> HIDE DEF d, k, L, all, drop
<1>6. \A i \in 1..k + 1 : all[i] = d[L - k + i] /\ L - k + i \in 1..L + 1
  <2> SUFFICES ASSUME NEW i \in 1..k + 1
               PROVE  all[i] = d[L - k + i] /\ L - k + i \in 1..L + 1
    OBVIOUS
  <2>1. CASE i = k + 1
    <3>1. L - k + i = L + 1  BY <2>1, <1>1
    <3> QED BY <2>1, <3>1, <1>1, <1>2, <1>3
  <2>2. CASE i \in 1..k
    BY <2>2, <1>1, <1>2, <1>3
  <2> QED BY <2>1, <2>2, <1>1
<1> DEFINE s == SubSeq(all, drop + 1, Len(all))
<1>7. Put(b, o) = [byID |-> (b.byID \cup {o}) \ {all[i] : i \in 1..drop}, order |-> s]
  BY DEF Put, all, drop
<1>8. s = SubSeq(d, Len(d) - Kept(d) + 1, Len(d))
  BY <1>1, <1>2, <1>3, <1>5, <1>6
<1>9. (b.byID \cup {o}) \ {all[i] : i \in 1..drop} = {s[i] : i \in 1..Kept(d)}
  <2>1. b.byID \cup {o} = {all[i] : i \in 1..k + 1}
    <3>1. b.byID = {b.order[i] : i \in 1..k}  BY DEF Newest, k
    <3>2. \A i : i \in 1..k + 1 <=> i \in 1..k \/ i = k + 1  BY <1>1
    <3> QED BY <3>1, <3>2, <1>3
  <2>2. ASSUME NEW i \in 1..k + 1, NEW j \in 1..k + 1, all[i] = all[j] PROVE i = j
    <3>1. L - k + i = L - k + j
      <4>1. Distinct(d) /\ Len(d) = L + 1  BY <1>2, DistinctLonger DEF d
      <4>2. d[L - k + i] = d[L - k + j]  BY <1>6, <2>2
      <4> QED BY <1>6, <4>1, <4>2 DEF Distinct
    <3> QED BY <1>1, <3>1
  <2>3. \A i \in 1..Kept(d) : s[i] = all[drop + i] /\ drop + i \in 1..k + 1
    BY <1>1, <1>3, <1>5
  <2>4. \A i \in 1..k + 1 : i \in 1..drop \/ (i - drop \in 1..Kept(d) /\ s[i - drop] = all[i])
    BY <1>1, <1>3, <1>5
  <2>5. \A i \in 1..drop : i \in 1..k + 1
    BY <1>1, <1>5
  <2> HIDE DEF s
  <2>6. \A i \in 1..Kept(d) : drop + i \notin 1..drop
    BY <1>1, <1>5
  <2> QED BY <2>1, <2>2, <2>3, <2>4, <2>5, <2>6
<1> HIDE DEF s
<1>10. /\ Put(b, o).order = s
       /\ Put(b, o).byID = (b.byID \cup {o}) \ {all[i] : i \in 1..drop}
  BY <1>7
<1>11. Newest(Put(b, o), d)
  BY <1>8, <1>9, <1>10 DEF Newest
<1> QED BY <1>11 DEF d

(* An order put in the book keeps the invariant of the book.               *)
LEMMA BookGrows ==
  ASSUME TypeOK, BookInv, NEW o \in Orders, CreateOrder(o)
  PROVE  BookInv'
<1> DEFINE c == created
           d == Append(created, o)
<1>1. /\ checkout[o] = "charged" /\ checkout' = [checkout EXCEPT ![o] = "created"]
      /\ book' = Put(book, o) /\ created' = d /\ UNCHANGED <<client, missing>>
  BY DEF CreateOrder, Answer, generator
<1>2. c \in Seq(Orders) /\ Absent(c, o) /\ Distinct(c) /\ Newest(book, c)
  BY <1>1 DEF BookInv, TypeOK, ServiceOK
<1>3. Distinct(created') /\ Newest(book', created')
  BY <1>1, <1>2, DistinctLonger, PutKeepsNewest
<1>4. /\ Len(d) = Len(c) + 1 /\ Len(c) \in Nat /\ d[Len(c) + 1] = o
      /\ \A i \in 1..Len(c) : d[i] = c[i]
  BY <1>2
<1> HIDE DEF c, d
<1>5. ASSUME NEW p \in Orders
      PROVE  checkout'[p] = "created" <=> ~Absent(d, p)
  <2>1. ~Absent(d, p) <=> ~Absent(c, p) \/ p = o
    <3>1. \A i \in 1..Len(d) : i \in 1..Len(c) \/ i = Len(c) + 1  BY <1>4
    <3>2. Len(c) + 1 \in 1..Len(d) /\ \A i \in 1..Len(c) : i \in 1..Len(d)  BY <1>4
    <3> QED BY <3>1, <3>2, <1>4 DEF Absent
  <2>2. checkout'[p] = "created" <=> checkout[p] = "created" \/ p = o
    BY <1>1 DEF TypeOK, ServiceOK
  <2> QED BY <2>1, <2>2 DEF BookInv, c
<1>6. ASSUME NEW p \in missing PROVE Passed(d, p)
  <2>1. PICK j \in 1..Len(c) : c[j] = p /\ Len(c) - j >= MaxOrders
    BY <1>6 DEF BookInv, Passed, c
  <2>2. j \in 1..Len(d) /\ d[j] = p /\ Len(d) - j >= MaxOrders
    BY <1>4, <2>1, CheckoutAssumption
  <2> QED BY <2>2 DEF Passed
<1>7. ASSUME NEW p \in Orders, client'[p] = "fetching" PROVE checkout'[p] = "created"
  BY <1>1, <1>7 DEF BookInv, TypeOK, ServiceOK
<1> QED BY <1>1, <1>3, <1>5, <1>6, <1>7 DEF BookInv

(* What a fetch does not find has MaxOrders put in the book after it.      *)
LEMMA FetchMisses ==
  ASSUME TypeOK, BookInv, NEW o \in Orders, Fetch(o)
  PROVE  BookInv'
<1> DEFINE c == created
           n == Len(c) - Kept(c)
<1>1. /\ client[o] = "fetching" /\ client' = [client EXCEPT ![o] = "back"]
      /\ UNCHANGED <<checkout, book, created>>
      /\ missing' \subseteq missing \cup ({o} \ book.byID)
  BY DEF Fetch, To, service
<1>2. ASSUME o \notin book.byID PROVE Passed(c, o)
  <2>1. c \in Seq(Orders) /\ Newest(book, c)
    BY DEF BookInv, TypeOK, ServiceOK
  <2>2. PICK j \in 1..Len(c) : c[j] = o
    BY <1>1 DEF BookInv, Absent
  <2>3. /\ Len(c) \in Nat /\ MaxOrders \in Nat \ {0}
        /\ Kept(c) \in 0..Len(c) /\ Kept(c) <= MaxOrders
        /\ \A i \in 1..Kept(c) : book.order[i] = c[n + i]
    BY <2>1, KeptAt
  <2>4. \A i \in 1..Kept(c) : book.order[i] \in book.byID
    BY <2>1 DEF Newest
  <2> HIDE DEF c
  <2>5. ~(j > n)
    <3> SUFFICES ASSUME j > n PROVE FALSE  OBVIOUS
    <3>1. j - n \in 1..Kept(c) /\ n + (j - n) = j  BY <2>2, <2>3
    <3>2. book.order[j - n] = c[j]  BY <2>3, <3>1
    <3> QED BY <1>2, <2>2, <2>4, <3>1, <3>2
  <2>6. Len(c) - j >= MaxOrders
    BY <2>2, <2>3, <2>5 DEF Kept
  <2> QED BY <2>2, <2>6 DEF Passed
<1>3. \A p \in missing' : Passed(created, p)
  BY <1>1, <1>2 DEF BookInv
<1>4. \A p \in Orders : client'[p] = "fetching" => client[p] = "fetching"
  BY <1>1 DEF TypeOK, GeneratorOK
<1> QED BY <1>1, <1>3, <1>4 DEF BookInv

(* No other step touches the book or what was created, and an order is     *)
(* fetched only by who was answered that it exists.                        *)
LEMMA BookLeft ==
  ASSUME TypeOK, BookInv, NEW o \in Orders,
         UNCHANGED <<book, created, missing>>,
         \A p \in Orders \ {o} : client'[p] = client[p] /\ checkout'[p] = checkout[p],
         checkout'[o] = "created" <=> checkout[o] = "created",
         client'[o] = "fetching" => client[o] = "fetching" \/ checkout[o] = "created"
  PROVE  BookInv'
<1>1. \A p \in Orders : checkout'[p] = "created" <=> checkout[p] = "created"
  OBVIOUS
<1>2. \A p \in Orders :
        client'[p] = "fetching" => client[p] = "fetching" \/ checkout[p] = "created"
  OBVIOUS
<1> QED BY <1>1, <1>2 DEF BookInv

(* Every step keeps the invariant of the book.                             *)
LEMMA BookStep == TypeOK /\ BookInv /\ [Next]_vars => BookInv'
<1> SUFFICES ASSUME TypeOK, BookInv, [Next]_vars PROVE BookInv'
  OBVIOUS
<1>1. ASSUME NEW o \in Orders, Dispatch(o) \/ Receive(o) \/ GiveUp(o) \/ Record(o)
      PROVE  BookInv'
  <2>1. /\ UNCHANGED <<checkout, book, created, missing>>
        /\ \A p \in Orders \ {o} : client'[p] = client[p]
    BY <1>1 DEF Dispatch, Receive, GiveUp, Record, To, service, TypeOK, GeneratorOK
  <2>2. client'[o] = "fetching" => checkout[o] = "created"
    BY <1>1 DEF Dispatch, Receive, GiveUp, Record, To, TypeOK, GeneratorOK
  <2> QED BY <2>1, <2>2, BookLeft
<1>2. ASSUME NEW o \in Orders,
             \/ Arrive(o) \/ Inject(o) \/ Charge(o) \/ ReadReply(o)
             \/ CallTimesOut(o) \/ CallFails(o) \/ ClientGone(o)
      PROVE  BookInv'
  <2>1. UNCHANGED <<client, missing, book, created>>
    BY <1>2 DEF Arrive, Inject, Charge, ReadReply, CallTimesOut, CallFails, ClientGone, Abandon,
                generator
  <2>2. /\ checkout[o] \in {"none", "handling", "calling"} /\ checkout'[o] # "created"
        /\ \A p \in Orders \ {o} : checkout'[p] = checkout[p]
    BY <1>2 DEF Arrive, Inject, Charge, ReadReply, CallTimesOut, CallFails, ClientGone, Answer,
                TypeOK, ServiceOK
  <2> QED BY <2>1, <2>2, BookLeft
<1>3. ASSUME NEW o \in Orders,
             \/ PaymentArrive(o) \/ Drop(o) \/ PaymentInject(o)
             \/ Acquire(o) \/ Wait(o) \/ Refuse(o) \/ CountIn(o)
             \/ Process(o) \/ CountOut(o) \/ Release(o)
      PROVE  UNCHANGED <<client, checkout, missing, book, created>>
  BY <1>3 DEF PaymentArrive, Drop, PaymentInject, Acquire, Take, Wait, Refuse, CountIn, Process,
              CountOut, Release, generator, service
<1>4. StopSending \/ Return \/ UNCHANGED vars
        => UNCHANGED <<client, checkout, missing, book, created>>
  BY DEF StopSending, Return, vars, generator, service
<1>5. CASE UNCHANGED <<client, checkout, missing, book, created>>
  BY <1>5 DEF BookInv
<1> QED BY <1>1, <1>2, <1>3, <1>4, <1>5, BookGrows, FetchMisses DEF Next

(* BookHoldsNewest: the book is the newest orders and nothing else, and an *)
(* order the control request misses had MaxOrders put in after it.         *)
THEOREM BookIsNewest == Spec => []BookHoldsNewest
<1>1. Init => PoolInv /\ BookInv
  <2> SUFFICES ASSUME Init PROVE PoolInv /\ BookInv
    OBVIOUS
  <2>1. /\ created = <<>> /\ book = [byID |-> {}, order |-> <<>>] /\ missing = {}
        /\ client = [o \in Orders |-> "unsent"] /\ checkout = [o \in Orders |-> "none"]
    BY DEF Init
  <2>2. Kept(created) = 0 /\ Len(created) = 0
    BY <2>1, CheckoutAssumption DEF Kept
  <2>3. Distinct(created) /\ \A o \in Orders : Absent(created, o)
    BY <2>1 DEF Distinct, Absent
  <2>4. Newest(book, created)
    BY <2>1, <2>2 DEF Newest
  <2> QED BY <2>1, <2>3, <2>4, PoolStarts DEF BookInv
<1>2. PoolInv /\ BookInv /\ [Next]_vars => PoolInv' /\ BookInv'
  BY PoolStep, BookStep DEF PoolInv
<1>3. PoolInv /\ BookInv => BookHoldsNewest
  <2> SUFFICES ASSUME PoolInv, BookInv PROVE BookHoldsNewest
    OBVIOUS
  <2> DEFINE newer(o) == {i \in 1..Len(created) : \E j \in 1..i-1 : created[j] = o}
  <2>1. Len(created) \in Nat /\ MaxOrders \in Nat
    BY CheckoutAssumption DEF PoolInv, TypeOK, ServiceOK
  <2>2. ASSUME NEW o \in missing PROVE Cardinality(newer(o)) >= MaxOrders
    <3>1. PICK j \in 1..Len(created) : created[j] = o /\ Len(created) - j >= MaxOrders
      BY <2>2 DEF BookInv, Passed
    <3>2. (j + 1)..Len(created) \subseteq newer(o)
      BY <2>1, <3>1
    <3>3. newer(o) \in SUBSET (1..Len(created)) /\ IsFiniteSet(1..Len(created))
      BY <2>1, FS_Interval
    <3> HIDE DEF newer
    <3>4. IsFiniteSet(newer(o)) /\ Cardinality(newer(o)) \in Nat
      BY <3>3, FS_Subset, FS_CardinalityType
    <3>5. Cardinality((j + 1)..Len(created)) = Len(created) - j
      <4>1. j + 1 \in Int /\ Len(created) \in Int /\ j + 1 <= Len(created)
        BY <2>1, <3>1, CheckoutAssumption
      <4>2. Cardinality((j + 1)..Len(created)) = Len(created) - (j + 1) + 1
        BY <4>1, FS_Interval
      <4> QED BY <4>1, <4>2, <3>1
    <3>6. Cardinality((j + 1)..Len(created)) <= Cardinality(newer(o))
      BY <3>2, <3>4, FS_Subset
    <3> QED BY <2>1, <3>1, <3>4, <3>5, <3>6
  <2> QED BY <2>2 DEF BookInv, Newest, Kept, BookHoldsNewest
<1> QED BY <1>1, <1>2, <1>3, PTL DEF Spec

-----------------------------------------------------------------------------
(* LabFaults: the controllers and the scenario                             *)

Phases  == {"idle", "health", "inject"} \cup Clearing \cup Measuring
Calling == Clearing \cup {"inject"}
Ops     == {"latency", "error", "cpu", "invalid", "clear"}
Call    == [id : Nat, service : Services, op : Ops]
Faults  == [latency : BOOLEAN, error : BOOLEAN, cpu : {0, Workers}]

FaultsTyped ==
  /\ fault \in [Services -> Faults]
  /\ spinning \in [Services -> Nat] /\ ending \in [Services -> Nat]
  /\ lock \in [Services -> Nat]
  /\ calls \in SUBSET Call /\ overtaken \in BOOLEAN
  /\ at \in Phases \X {1, 2} /\ plan \in Plans
  /\ reply \in {"none", "pending", "ok", "refused", "error"}
  /\ issued \in Nat

(* Calls are numbered, a scenario waits only for the one it has sent, and  *)
(* has cleared nothing until it is over.                                   *)
CallsKept ==
  /\ cleared => at[1] = "idle"
  /\ \A c \in calls : c.id # 0 /\ c.id <= issued
  /\ \A c, d \in calls : c.id = d.id => c = d
  /\ at[1] \notin Calling => reply = "none"
  /\ at[1] = "inject" => plan # NoFault
  /\ reply = "pending" => \A c \in calls : c.id = issued => c.service = Due.service /\ c.op = Due.op

(* A locked section is a call's that the service still has; what spins     *)
(* elsewhere is what the fault tells.                                      *)
LockKept(s) ==
  /\ lock[s] = 0 => spinning[s] = fault[s].cpu /\ ending[s] = 0
  /\ lock[s] # 0 => /\ spinning[s] = 0 /\ ending[s] <= Workers
                    /\ \E c \in calls : /\ c.id = lock[s] /\ c.service = s
                                        /\ c.op \in {"cpu", "clear"}

LocksKept == \A s \in Services : LockKept(s)

(* A service with no fault on and no call on its way.                      *)
Quiet(s) == \A c \in calls : c.service # s
Clear(s) == fault[s] = Healthy /\ Quiet(s)

Injected == /\ fault[plan.service] \in {Healthy, FaultAfter(Healthy, plan.op)}
            /\ Quiet(plan.service)

(* Until an abandoned call is overtaken, a scenario knows what it has      *)
(* cleared by where it is.                                                 *)
PlaceKept ==
  /\ at[1] \in Clearing => /\ at[2] = 2 => Clear(Targets[1])
                           /\ reply = "ok" => Clear(Targets[at[2]])
  /\ at[1] \in {"baseline", "recovery"} => \A s \in Services : Clear(s)
  /\ at[1] = "idle" /\ cleared => \A s \in Services : Clear(s)
  /\ at[1] \in {"inject", "hold"} => \A s \in Services : s # plan.service => Clear(s)
  /\ at[1] = "inject" =>
       /\ reply = "none" => Clear(plan.service)
       /\ reply = "pending" => /\ fault[plan.service] = Healthy
                               /\ \A c \in calls : c.service = plan.service => c.id = issued
       /\ reply = "ok" => Injected
  /\ at[1] = "hold" /\ plan # NoFault => Injected

LabInv == /\ FaultsTyped /\ CallsKept /\ LocksKept
          /\ ~overtaken => PlaceKept

-----------------------------------------------------------------------------
(* What the operators do                                                   *)

(* A function with one value set.                                          *)
LEMMA SetAt ==
  ASSUME NEW D, NEW R, NEW f \in [D -> R], NEW x \in D, NEW v \in R,
         NEW g, g = [f EXCEPT ![x] = v]
  PROVE  g \in [D -> R] /\ g[x] = v /\ \A y \in D : y # x => g[y] = f[y]
OBVIOUS

(* The two services, in the order in which they are cleared.               *)
LEMMA TwoServices ==
  /\ Targets[1] # Targets[2] /\ Targets[1] \in Services /\ Targets[2] \in Services
  /\ \A s \in Services : s = Targets[1] \/ s = Targets[2]
  /\ Len(Targets) = 2 /\ "none" \notin Services
BY DEF Targets, Services

(* What a fault is after a call, and how many goroutines it tells of.      *)
LEMMA FaultTypes ==
  /\ Healthy \in Faults /\ Healthy.cpu = 0
  /\ \A f \in Faults, op \in Ops :
       /\ FaultAfter(f, op) \in Faults
       /\ op = "cpu" => FaultAfter(f, op).cpu = Workers
       /\ op = "clear" => FaultAfter(f, op) = Healthy
       /\ op \notin {"cpu", "clear"} => FaultAfter(f, op).cpu = f.cpu
<1>1. Healthy \in Faults /\ Healthy.cpu = 0
  BY DEF Healthy, Faults
<1>2. ASSUME NEW f \in Faults, NEW op \in Ops
      PROVE  /\ FaultAfter(f, op) \in Faults
             /\ op = "cpu" => FaultAfter(f, op).cpu = Workers
             /\ op = "clear" => FaultAfter(f, op) = Healthy
             /\ op \notin {"cpu", "clear"} => FaultAfter(f, op).cpu = f.cpu
  <2>1. CASE op = "latency"
    BY <2>1 DEF FaultAfter, Faults
  <2>2. CASE op = "error"
    BY <2>2 DEF FaultAfter, Faults
  <2>3. CASE op = "cpu"
    BY <2>3 DEF FaultAfter, Faults
  <2>4. CASE op = "clear"
    BY <1>1, <2>4 DEF FaultAfter
  <2>5. CASE op = "invalid"
    BY <2>5 DEF FaultAfter
  <2> QED BY <2>1, <2>2, <2>3, <2>4, <2>5 DEF Ops
<1> QED BY <1>1, <1>2

(* Nothing is on in a healthy service, and one fault after one call.       *)
LEMMA EnabledBy ==
  ASSUME NEW s
  PROVE  /\ fault[s] = Healthy => Enabled(s) = {}
         /\ \A op : fault[s] = FaultAfter(Healthy, op) => Enabled(s) \subseteq {op}
<1>1. ~(0 > 0)
  OBVIOUS
<1>2. fault[s] = Healthy => Enabled(s) = {}
  BY <1>1 DEF Enabled, Healthy
<1>3. ASSUME NEW op, fault[s] = FaultAfter(Healthy, op)
      PROVE  Enabled(s) \subseteq {op}
  <2>1. CASE op = "latency"
    BY <1>1, <1>3, <2>1 DEF FaultAfter, Healthy, Enabled
  <2>2. CASE op = "error"
    BY <1>1, <1>3, <2>2 DEF FaultAfter, Healthy, Enabled
  <2>3. CASE op = "cpu"
    BY <1>3, <2>3 DEF FaultAfter, Healthy, Enabled
  <2>4. CASE op \notin {"latency", "error", "cpu"}
    BY <1>2, <1>3, <2>4 DEF FaultAfter, Healthy
  <2> QED BY <2>1, <2>2, <2>3, <2>4
<1> QED BY <1>2, <1>3

(* Where a scenario is, and goes to.                                       *)
LEMMA Places ==
  ASSUME FaultsTyped
  PROVE  /\ at = <<at[1], at[2]>> /\ at[1] \in Phases /\ at[2] \in {1, 2}
         /\ \A p : Goto(p) => at' = <<p, 1>> /\ at'[1] = p /\ at'[2] = 1
BY DEF FaultsTyped, Goto

(* What a scenario does with the answer to its call.                       *)
LEMMA Returns ==
  ASSUME FaultsTyped, CallsKept, CallReturns
  PROVE  /\ reply' = "none" /\ at[1] \in Calling
         /\ \/ reply # "ok" /\ Goto(OnError) /\ ~cleared'
            \/ reply = "ok" /\ at[1] = "inject" /\ Goto("hold") /\ ~cleared'
            \/ /\ reply = "ok" /\ at[1] \in Clearing /\ at[2] = 1
               /\ at' = <<at[1], 2>> /\ ~cleared'
            \/ /\ reply = "ok" /\ at[1] \in Clearing /\ at[2] = 2
               /\ Goto(AfterClearing) /\ (cleared' <=> at[1] = "cleanup")
<1>1. reply' = "none" /\ at[1] \in Calling
  BY DEF CallReturns, CallsKept
<1>2. cleared' <=> at = <<"cleanup", 2>> /\ reply = "ok"
  BY TwoServices DEF CallReturns
<1>3. CASE reply # "ok"
  BY <1>1, <1>2, <1>3 DEF CallReturns
<1>4. CASE reply = "ok" /\ at[1] = "inject"
  <2>1. ~cleared'
    BY <1>2, <1>4, Places
  <2> QED BY <1>1, <1>4, <2>1 DEF CallReturns
<1>5. CASE reply = "ok" /\ at[1] \in Clearing /\ at[2] = 1
  <2>1. 1 < 2 /\ 1 + 1 = 2 /\ 1 # 2
    OBVIOUS
  <2>2. at[1] # "inject"
    BY <1>5 DEF Clearing
  <2>3. at[2] < Len(Targets) /\ at[2] + 1 = 2
    BY <1>5, <2>1, TwoServices
  <2>4. ~cleared'
    BY <1>2, <1>5, <2>1, Places
  <2> QED BY <1>1, <1>5, <2>2, <2>3, <2>4 DEF CallReturns
<1>6. CASE reply = "ok" /\ at[1] \in Clearing /\ at[2] = 2
  <2>1. ~(2 < 2)
    OBVIOUS
  <2>2. at[1] # "inject"
    BY <1>6 DEF Clearing
  <2>3. ~(at[2] < Len(Targets))
    BY <1>6, <2>1, TwoServices
  <2>4. cleared' <=> at[1] = "cleanup"
    BY <1>2, <1>6, Places
  <2> QED BY <1>1, <1>6, <2>2, <2>3, <2>4 DEF CallReturns
<1> QED BY <1>1, <1>3, <1>4, <1>5, <1>6, Places DEF Calling

-----------------------------------------------------------------------------
(* Types and calls                                                         *)

(* A scenario that goes on, or stops, without touching a service.          *)
Goes == \/ LabHealthy \/ LabUnhealthy \/ CallReturns \/ PhaseEnds \/ PhaseFails
        \/ Interrupt \/ Kill \/ Begin

(* It sends nothing, and what it waits for it does not begin to wait for.  *)
LEMMA GoesOn ==
  ASSUME FaultsTyped, CallsKept, Goes
  PROVE  /\ UNCHANGED <<fault, spinning, ending, lock, calls, overtaken, issued>>
         /\ at' \in Phases \X {1, 2} /\ plan' \in Plans
         /\ reply' \in {"none", "pending", "ok", "refused", "error"}
         /\ reply' # "none" => reply' = reply /\ at' = at /\ plan' = plan
         /\ cleared' => at'[1] = "idle"
<1>1. UNCHANGED <<fault, spinning, ending, lock, calls, overtaken, issued>>
  BY DEF Goes, LabHealthy, LabUnhealthy, CallReturns, PhaseEnds, PhaseFails, Interrupt, Kill,
     Begin, Still, controllers, network
<1>2. /\ at = <<at[1], at[2]>> /\ at[1] \in Phases /\ at[2] \in {1, 2}
      /\ \A p : Goto(p) => at' = <<p, 1>> /\ at'[1] = p /\ at'[2] = 1
  BY Places
<1>3. /\ plan \in Plans /\ reply \in {"none", "pending", "ok", "refused", "error"}
      /\ at[1] \notin Calling => reply = "none"
      /\ cleared => at[1] = "idle"
  BY DEF FaultsTyped, CallsKept
<1>4. ASSUME NEW p \in Phases, Goto(p)
      PROVE  at' \in Phases \X {1, 2}
  BY <1>2, <1>4
<1>5. CASE LabHealthy \/ LabUnhealthy
  <2>1. /\ at[1] = "health" /\ (Goto("clear") \/ Goto(OnError))
        /\ plan' = plan /\ reply' = reply /\ cleared' = cleared
    BY <1>5 DEF LabHealthy, LabUnhealthy, Still
  <2>2. reply' = "none" /\ ~cleared'
    <3>1. at[1] # "idle" /\ at[1] \notin Calling
      BY <2>1 DEF Calling, Clearing
    <3> QED BY <1>3, <2>1, <3>1, Zenon
  <2>3. at' \in Phases \X {1, 2}
    BY <1>4, <2>1 DEF OnError, Phases, Clearing
  <2> QED BY <1>1, <1>3, <2>1, <2>2, <2>3
<1>6. CASE CallReturns
  <2>1. reply' = "none" /\ plan' = plan
    BY <1>6 DEF CallReturns
  <2>2. \/ Goto(OnError) /\ ~cleared'
        \/ Goto("hold") /\ ~cleared'
        \/ at[1] \in Clearing /\ at' = <<at[1], 2>> /\ ~cleared'
        \/ at[1] \in Clearing /\ Goto(AfterClearing) /\ (cleared' <=> at[1] = "cleanup")
    BY <1>6, Returns
  <2>3. at[1] \in Clearing => AfterClearing \in Phases
    BY DEF AfterClearing, Clearing, Phases, Measuring
  <2>4. at[1] = "cleanup" => AfterClearing = "idle"
    BY DEF AfterClearing
  <2>5. at' \in Phases \X {1, 2}
    <3>1. OnError \in Phases /\ "hold" \in Phases
      BY DEF OnError, Phases, Clearing, Measuring
    <3> QED BY <1>2, <1>4, <2>2, <2>3, <3>1
  <2>6. cleared' => at'[1] = "idle"
    BY <1>2, <2>2, <2>4
  <2> QED BY <1>1, <1>3, <2>1, <2>5, <2>6
<1>7. CASE PhaseEnds \/ PhaseFails
  <2>1. /\ at[1] \in Measuring /\ (Goto(NextPhase) \/ Goto("cleanup"))
        /\ plan' = plan /\ reply' = reply /\ cleared' = cleared
    BY <1>7 DEF PhaseEnds, PhaseFails, Still
  <2>2. reply' = "none" /\ ~cleared'
    <3>1. at[1] # "idle" /\ at[1] \notin Calling
      BY <2>1 DEF Calling, Clearing, Measuring
    <3> QED BY <1>3, <2>1, <3>1, Zenon
  <2>3. at' \in Phases \X {1, 2}
    BY <1>4, <2>1 DEF NextPhase, Phases, Clearing, Measuring
  <2> QED BY <1>1, <1>3, <2>1, <2>2, <2>3
<1>8. CASE Interrupt
  BY <1>1, <1>3, <1>8 DEF Interrupt, FaultsTyped
<1>9. CASE Kill
  <2>1. reply' = "none" /\ plan' = plan /\ ~cleared'
    BY <1>9 DEF Kill
  <2>2. at' \in Phases \X {1, 2}
    BY <1>4, <1>9 DEF Kill, Phases
  <2> QED BY <1>1, <1>3, <2>1, <2>2
<1>10. CASE Begin
  <2>1. reply' = "none" /\ plan' \in Plans /\ ~cleared'
    BY <1>10 DEF Begin
  <2>2. at' \in Phases \X {1, 2}
    BY <1>4, <1>10 DEF Begin, Phases
  <2> QED BY <1>1, <2>1, <2>2
<1> QED BY <1>5, <1>6, <1>7, <1>8, <1>9, <1>10 DEF Goes

(* Every step is one of these.                                             *)
LEMMA Steps ==
  ASSUME [FaultsNext]_faultsVars
  PROVE  \/ Goes \/ Send \/ RequestFails
         \/ \E s \in Services : Restart(s) \/ BurnReturns(s)
         \/ \E c \in calls : Lock(c) \/ CarryOut(c)
         \/ UNCHANGED faultsVars
BY DEF FaultsNext, Serves, Proceeds, Goes

(* The call that is due is a call.                                         *)
LEMMA DueIsCall ==
  ASSUME FaultsTyped, CallsKept, at[1] \in Calling
  PROVE  Due.service \in Services /\ Due.op \in Ops
<1>1. CASE at[1] = "inject"
  BY <1>1 DEF FaultsTyped, CallsKept, Due, Plans, NoFault, Ops
<1>2. CASE at[1] # "inject"
  <2>1. Targets[at[2]] \in Services
    BY Places, TwoServices
  <2> QED BY <1>2, <2>1 DEF Due, Ops
<1> QED BY <1>1, <1>2

(* A number past all those given.                                          *)
LEMMA OneMore ==
  ASSUME NEW n \in Nat
  PROVE  /\ n + 1 \in Nat /\ n + 1 # 0 /\ \A m \in Nat : m <= n => m <= n + 1 /\ m # n + 1
         /\ n + 1 <= n + 1 /\ ~(n + 1 <= n)
OBVIOUS

(* The types are kept.                                                     *)
LEMMA FaultsTypeStep ==
  ASSUME FaultsTyped, CallsKept, LocksKept, [FaultsNext]_faultsVars
  PROVE  FaultsTyped'
<1>1. CASE Goes
  BY <1>1, GoesOn DEF FaultsTyped
<1>2. CASE Send
  <2>1. Due.service \in Services /\ Due.op \in Ops
    BY <1>2, DueIsCall DEF Send, Calling
  <2>2. issued + 1 \in Nat /\ issued' = issued + 1
    BY <1>2, OneMore DEF Send, FaultsTyped
  <2>3. [id |-> issued + 1, service |-> Due.service, op |-> Due.op] \in Call
    BY <2>1, <2>2 DEF Call
  <2>4. calls' \in SUBSET Call
    BY <1>2, <2>3 DEF Send, FaultsTyped
  <2> QED BY <1>2, <2>2, <2>4 DEF Send, FaultsTyped, controllers
<1>3. CASE RequestFails
  <2>1. calls' \in SUBSET Call
    BY <1>3 DEF RequestFails, FaultsTyped
  <2> QED BY <1>3, <2>1 DEF RequestFails, FaultsTyped, controllers
<1>4. ASSUME NEW s \in Services, Restart(s)
      PROVE  FaultsTyped'
  <2>1. /\ fault' \in [Services -> Faults] /\ spinning' \in [Services -> Nat]
        /\ ending' \in [Services -> Nat] /\ lock' \in [Services -> Nat]
    BY <1>4, FaultTypes DEF Restart, FaultsTyped
  <2>2. calls' \in SUBSET Call /\ reply' \in {"none", "pending", "ok", "refused", "error"}
    BY <1>4 DEF Restart, FaultsTyped
  <2> QED BY <1>4, <2>1, <2>2 DEF Restart, FaultsTyped
<1>5. ASSUME NEW s \in Services, BurnReturns(s)
      PROVE  FaultsTyped'
  <2>1. ending \in [Services -> Nat] /\ ending' = [ending EXCEPT ![s] = ending[s] - 1]
        /\ ending[s] > 0
    BY <1>5 DEF BurnReturns, FaultsTyped
  <2>2. ending[s] - 1 \in Nat
    BY <2>1
  <2>3. ending' \in [Services -> Nat]
    BY <2>1, <2>2, SetAt
  <2> QED BY <1>5, <2>3 DEF BurnReturns, FaultsTyped, network, scenario
<1>6. ASSUME NEW c \in calls, Lock(c)
      PROVE  FaultsTyped'
  <2>1. c.service \in Services /\ c.id \in Nat /\ spinning[c.service] \in Nat /\ 0 \in Nat
    BY DEF FaultsTyped, Call
  <2>2. /\ spinning' \in [Services -> Nat] /\ ending' \in [Services -> Nat]
        /\ lock' \in [Services -> Nat]
    BY <1>6, <2>1 DEF Lock, FaultsTyped
  <2> QED BY <1>6, <2>2 DEF Lock, FaultsTyped, network, scenario
<1>7. ASSUME NEW c \in calls, CarryOut(c)
      PROVE  FaultsTyped'
  <2>1. c.service \in Services /\ c.op \in Ops /\ 0 \in Nat
    BY DEF FaultsTyped, Call
  <2>2. FaultAfter(fault[c.service], c.op) \in Faults
    BY <2>1, FaultTypes DEF FaultsTyped
  <2>3. fault' \in [Services -> Faults] /\ lock' \in [Services -> Nat]
    BY <1>7, <2>1, <2>2 DEF CarryOut, FaultsTyped
  <2>4. spinning' \in [Services -> Nat]
    <3>1. spinning[c.service] \in Nat /\ spinning \in [Services -> Nat]
      BY <2>1 DEF FaultsTyped
    <3>2. spinning[c.service] + Workers \in Nat
      BY <3>1, LabAssumption
    <3>3. \E v \in Nat : spinning' = [spinning EXCEPT ![c.service] = v]
      BY <1>7, <3>1, <3>2 DEF CarryOut
    <3> QED BY <2>1, <3>1, <3>3
  <2>5. overtaken' \in BOOLEAN
    <3>1. overtaken' = (overtaken \/ \E e \in calls : e.service = c.service /\ e.id < c.id)
      BY <1>7 DEF CarryOut
    <3> QED BY <3>1
  <2>6. reply' \in {"none", "pending", "ok", "refused", "error"}
    BY <1>7 DEF CarryOut, Outcome, FaultsTyped
  <2>7. calls' \in SUBSET Call
    BY <1>7 DEF CarryOut, FaultsTyped
  <2> QED BY <1>7, <2>3, <2>4, <2>5, <2>6, <2>7 DEF CarryOut, FaultsTyped
<1>8. CASE UNCHANGED faultsVars
  BY <1>8 DEF faultsVars, controllers, network, scenario, FaultsTyped
<1> QED BY <1>1, <1>2, <1>3, <1>4, <1>5, <1>6, <1>7, <1>8, Steps

(* A call is sent under a number of its own, and its scenario stays where  *)
(* it is until it is answered.                                             *)
LEMMA CallsStep ==
  ASSUME FaultsTyped, CallsKept, [FaultsNext]_faultsVars
  PROVE  CallsKept'
<1>0. /\ cleared => at[1] = "idle"
      /\ \A c \in calls : c.id # 0 /\ c.id <= issued
      /\ \A c, d \in calls : c.id = d.id => c = d
      /\ at[1] \notin Calling => reply = "none"
      /\ at[1] = "inject" => plan # NoFault
      /\ reply = "pending" => \A c \in calls : c.id = issued => /\ c.service = Due.service
                                                              /\ c.op = Due.op
  BY DEF CallsKept
<1>1. CASE Goes
  <2>1. /\ UNCHANGED <<calls, issued>> /\ (reply' # "none" => reply' = reply /\ at' = at /\ plan' = plan)
        /\ (cleared' => at'[1] = "idle")
    BY <1>1, GoesOn
  <2>2. at'[1] = "inject" => plan' # NoFault
    <3>1. \A p : Goto(p) => at'[1] = p
      BY Places
    <3>2. CASE LabHealthy \/ LabUnhealthy \/ PhaseFails \/ Kill \/ Begin
      BY <3>1, <3>2 DEF LabHealthy, LabUnhealthy, PhaseFails, Kill, Begin, OnError
    <3>3. CASE CallReturns
      <4>1. plan' = plan
        BY <3>3 DEF CallReturns
      <4>2. at'[1] = "inject" => \/ at[1] \in Clearing /\ at' = <<at[1], 2>>
                                 \/ at[1] \in Clearing /\ AfterClearing = "inject"
        BY <3>1, <3>3, Returns DEF OnError
      <4>3. at[1] \in Clearing /\ at' = <<at[1], 2>> => at'[1] # "inject"
        BY DEF Clearing
      <4>4. at[1] \in Clearing /\ AfterClearing = "inject" => plan # NoFault
        BY DEF AfterClearing, Clearing
      <4> QED BY <4>1, <4>2, <4>3, <4>4
    <3>4. CASE PhaseEnds
      <4>1. plan' = plan /\ at'[1] = NextPhase
        BY <3>1, <3>4 DEF PhaseEnds, Still
      <4> QED BY <4>1 DEF NextPhase
    <3>5. CASE Interrupt
      BY <1>0, <3>5 DEF Interrupt
    <3> QED BY <1>1, <3>2, <3>3, <3>4, <3>5 DEF Goes
  <2>3. at'[1] \notin Calling => reply' = "none"
    BY <1>0, <2>1
  <2>4. reply' = "pending" => \A c \in calls' : c.id = issued' => /\ c.service = Due.service'
                                                              /\ c.op = Due.op'
    BY <1>0, <2>1 DEF Due
  <2> QED BY <1>0, <2>1, <2>2, <2>3, <2>4 DEF CallsKept
<1>2. CASE Send
  <2> DEFINE new == [id |-> issued + 1, service |-> Due.service, op |-> Due.op]
  <2>1. /\ calls' = calls \cup {new} /\ issued' = issued + 1 /\ UNCHANGED <<at, plan, cleared>>
        /\ reply' = "pending" /\ at[1] \in Calling
    BY <1>2 DEF Send, Calling
  <2>2. new.id = issued + 1 /\ new.service = Due.service /\ new.op = Due.op
    OBVIOUS
  <2>3. /\ issued + 1 # 0 /\ issued + 1 <= issued + 1
        /\ \A c \in calls : c.id <= issued + 1 /\ c.id # issued + 1
    <3>1. issued \in Nat /\ \A c \in calls : c.id \in Nat
      BY DEF FaultsTyped, Call
    <3> QED BY <1>0, <3>1, OneMore
  <2> HIDE DEF new
  <2>4. Due.service' = Due.service /\ Due.op' = Due.op
    BY <2>1 DEF Due
  <2>5. \A c \in calls' : c.id # 0 /\ c.id <= issued'
    BY <1>0, <2>1, <2>2, <2>3
  <2>6. \A c, d \in calls' : c.id = d.id => c = d
    BY <1>0, <2>1, <2>2, <2>3
  <2>7. \A c \in calls' : c.id = issued' => c = new
    BY <2>1, <2>3
  <2> QED BY <1>0, <2>1, <2>2, <2>4, <2>5, <2>6, <2>7 DEF CallsKept
<1>3. CASE RequestFails
  <2>1. /\ calls' \subseteq calls /\ UNCHANGED <<at, plan, cleared, issued>> /\ reply' = "error"
        /\ at[1] \in Calling
    BY <1>3 DEF RequestFails, Calling
  <2> QED BY <1>0, <2>1 DEF CallsKept
<1>4. ASSUME NEW s \in Services, Restart(s)
      PROVE  CallsKept'
  <2>1. /\ calls' \subseteq calls /\ UNCHANGED <<at, plan, cleared, issued>>
        /\ reply' = reply \/ (reply' = "error" /\ reply = "pending")
    BY <1>4 DEF Restart
  <2>2. Due' = Due
    BY <2>1 DEF Due
  <2> QED BY <1>0, <2>1, <2>2 DEF CallsKept
<1>5. ASSUME NEW s \in Services, BurnReturns(s)
      PROVE  CallsKept'
  BY <1>0, <1>5 DEF BurnReturns, network, scenario, CallsKept, Due
<1>6. ASSUME NEW c \in calls, Lock(c)
      PROVE  CallsKept'
  BY <1>0, <1>6 DEF Lock, network, scenario, CallsKept, Due
<1>7. ASSUME NEW c \in calls, CarryOut(c)
      PROVE  CallsKept'
  <2>1. /\ calls' \subseteq calls /\ UNCHANGED <<at, plan, cleared, issued>>
        /\ reply' = reply \/ (reply' = Outcome(c) /\ reply = "pending")
    BY <1>7 DEF CarryOut
  <2>2. Due' = Due /\ Outcome(c) # "pending"
    BY <2>1 DEF Due, Outcome
  <2> QED BY <1>0, <2>1, <2>2 DEF CallsKept
<1>8. CASE UNCHANGED faultsVars
  BY <1>0, <1>8 DEF faultsVars, network, scenario, CallsKept, Due
<1> QED BY <1>1, <1>2, <1>3, <1>4, <1>5, <1>6, <1>7, <1>8, Steps

-----------------------------------------------------------------------------
(* The controllers                                                         *)

(* One goroutine fewer is within the bound.                                *)
LEMMA OneFewer ==
  ASSUME NEW n \in Nat, n > 0, NEW k \in Nat, n <= k
  PROVE  n - 1 <= k
OBVIOUS

(* What a controller starts it has counted, and what it cancels it waits   *)
(* for under its lock.                                                     *)
LEMMA LocksStep ==
  ASSUME FaultsTyped, CallsKept, LocksKept, [FaultsNext]_faultsVars
  PROVE  LocksKept'
<1>0. /\ fault \in [Services -> Faults] /\ spinning \in [Services -> Nat]
      /\ ending \in [Services -> Nat] /\ lock \in [Services -> Nat]
      /\ \A s \in Services : LockKept(s)
  BY DEF FaultsTyped, LocksKept
<1>01. Workers \in Nat /\ 0 \in Nat /\ 0 + Workers = Workers /\ 0 <= Workers /\ Workers <= Workers
  BY LabAssumption
<1>1. CASE UNCHANGED <<fault, spinning, ending, lock>> /\ calls \subseteq calls'
  BY <1>0, <1>1 DEF LocksKept, LockKept
<1>2. CASE RequestFails
  <2>1. UNCHANGED <<fault, spinning, ending, lock>>
        /\ (calls' = calls \/ (calls' = {c \in calls : c.id # issued} /\ \A s \in Services : lock[s] # issued))
    BY <1>2 DEF RequestFails, controllers
  <2> QED BY <1>0, <2>1 DEF LocksKept, LockKept
<1>3. ASSUME NEW s \in Services, Restart(s)
      PROVE  LocksKept'
  <2>1. /\ fault'[s] = Healthy /\ spinning'[s] = 0 /\ ending'[s] = 0 /\ lock'[s] = 0
        /\ \A t \in Services : t # s =>
             /\ fault'[t] = fault[t] /\ spinning'[t] = spinning[t] /\ ending'[t] = ending[t]
             /\ lock'[t] = lock[t]
        /\ calls' = {c \in calls : c.service # s}
    BY <1>0, <1>3 DEF Restart
  <2>2. LockKept(s)'
    BY <2>1, FaultTypes DEF LockKept
  <2>3. ASSUME NEW t \in Services, t # s
        PROVE  LockKept(t)'
    <3>1. LockKept(t)
      BY <1>0
    <3> QED BY <2>1, <2>3, <3>1 DEF LockKept
  <2> QED BY <2>2, <2>3 DEF LocksKept
<1>4. ASSUME NEW s \in Services, BurnReturns(s)
      PROVE  LocksKept'
  <2>1. /\ ending'[s] = ending[s] - 1 /\ ending[s] > 0 /\ ending[s] \in Nat
        /\ \A t \in Services : t # s => ending'[t] = ending[t]
        /\ UNCHANGED <<fault, spinning, lock, calls>>
    BY <1>0, <1>4 DEF BurnReturns, network
  <2>2. LockKept(s) /\ ending[s] # 0
    BY <1>0, <2>1
  <2>3. lock[s] # 0 /\ ending[s] <= Workers
    BY <2>2 DEF LockKept
  <2>4. ending'[s] <= Workers
    BY <1>01, <2>1, <2>3, OneFewer
  <2>5. LockKept(s)'
    BY <2>1, <2>2, <2>3, <2>4 DEF LockKept
  <2> QED BY <1>0, <2>1, <2>5 DEF LocksKept, LockKept
<1>5. ASSUME NEW c \in calls, Lock(c)
      PROVE  LocksKept'
  <2> DEFINE s == c.service
  <2>0. s \in Services /\ c.id \in Nat /\ c.id # 0
    BY DEF FaultsTyped, CallsKept, Call
  <2>1. /\ spinning'[s] = 0 /\ ending'[s] = spinning[s] /\ lock'[s] = c.id
        /\ \A t \in Services : t # s => /\ spinning'[t] = spinning[t] /\ lock'[t] = lock[t]
                                       /\ ending'[t] = ending[t]
        /\ UNCHANGED <<fault, calls>> /\ c.op \in {"cpu", "clear"} /\ lock[s] = 0
    BY <1>0, <1>5, <2>0 DEF Lock, network
  <2>2. spinning[s] <= Workers
    <3>1. spinning[s] = fault[s].cpu
      BY <1>0, <2>0, <2>1 DEF LockKept
    <3>2. fault[s].cpu \in {0, Workers}
      BY <1>0, <2>0 DEF Faults
    <3> QED BY <1>01, <3>1, <3>2
  <2> HIDE DEF s
  <2>3. LockKept(s)'
    <3>1. c.service = s
      BY DEF s
    <3> QED BY <2>0, <2>1, <2>2, <3>1 DEF LockKept
  <2> QED BY <1>0, <2>1, <2>3 DEF LocksKept, LockKept
<1>6. ASSUME NEW c \in calls, CarryOut(c)
      PROVE  LocksKept'
  <2> DEFINE s == c.service
  <2>0. s \in Services /\ c.op \in Ops /\ fault[s] \in Faults /\ spinning[s] \in Nat
    BY <1>0 DEF FaultsTyped, Call
  <2>1. /\ fault'[s] = FaultAfter(fault[s], c.op) /\ lock'[s] = 0
        /\ \A t \in Services : t # s => fault'[t] = fault[t] /\ lock'[t] = lock[t]
        /\ calls' = calls \ {c} /\ ending' = ending /\ Entered(c)
    BY <1>0, <1>6, <2>0 DEF CarryOut
  <2>2. /\ c.op = "cpu" => spinning'[s] = spinning[s] + Workers
        /\ c.op # "cpu" => spinning'[s] = spinning[s]
        /\ \A t \in Services : t # s => spinning'[t] = spinning[t]
    BY <1>0, <1>6, <2>0 DEF CarryOut
  <2>3. spinning'[s] = fault'[s].cpu /\ ending'[s] = 0
    <3>1. LockKept(s)
      BY <1>0, <2>0
    <3>2. CASE c.op \in {"cpu", "clear"}
      <4>1. lock[s] # 0 /\ ending[s] = 0
        BY <2>1, <3>2 DEF Entered, CallsKept
      <4>2. spinning[s] = 0
        BY <3>1, <4>1 DEF LockKept
      <4>3. CASE c.op = "cpu"
        <5>1. spinning'[s] = 0 + Workers
          BY <2>2, <4>2, <4>3
        <5> QED BY <1>01, <2>0, <2>1, <4>1, <4>3, <5>1, FaultTypes
      <4>4. CASE c.op = "clear"
        BY <2>0, <2>1, <2>2, <4>1, <4>2, <4>4, FaultTypes
      <4> QED BY <3>2, <4>3, <4>4
    <3>3. CASE c.op \notin {"cpu", "clear"}
      <4>1. lock[s] = 0
        BY <2>1, <3>3 DEF Entered
      <4>2. spinning[s] = fault[s].cpu /\ ending[s] = 0
        BY <3>1, <4>1 DEF LockKept
      <4> QED BY <2>0, <2>1, <2>2, <3>3, <4>2, FaultTypes
    <3> QED BY <3>2, <3>3
  <2>4. \A t \in Services : t # s => \A d \in calls : d.service = t => d \in calls'
    BY <2>1
  <2> HIDE DEF s
  <2>5. LockKept(s)'
    BY <2>1, <2>3 DEF LockKept
  <2>6. ASSUME NEW t \in Services, t # s
        PROVE  LockKept(t)'
    <3>1. LockKept(t)
      BY <1>0
    <3>2. /\ fault'[t] = fault[t] /\ spinning'[t] = spinning[t] /\ ending'[t] = ending[t]
          /\ lock'[t] = lock[t] /\ \A d \in calls : d.service = t => d \in calls'
      BY <2>1, <2>2, <2>4, <2>6
    <3> QED BY <3>1, <3>2 DEF LockKept
  <2> QED BY <2>5, <2>6 DEF LocksKept
<1> QED
  <2>1. Goes => UNCHANGED <<fault, spinning, ending, lock>> /\ calls \subseteq calls'
    BY GoesOn
  <2>2. Send \/ UNCHANGED faultsVars => UNCHANGED <<fault, spinning, ending, lock>> /\ calls \subseteq calls'
    BY DEF Send, faultsVars, controllers, network
  <2> QED BY <1>1, <1>2, <1>3, <1>4, <1>5, <1>6, <2>1, <2>2, Steps

-----------------------------------------------------------------------------
(* What a scenario knows                                                   *)

(* The service a scenario injects into.                                    *)
LEMMA PlanService ==
  ASSUME FaultsTyped
  PROVE  plan # NoFault => plan.service \in Services /\ plan.op \in Ops
BY DEF FaultsTyped, Plans, NoFault, Ops

(* Fewer calls, and services restarted, undo nothing that was cleared.     *)
LEMMA StaysClear ==
  ASSUME FaultsTyped, CallsKept, PlaceKept, UNCHANGED <<at, plan, issued, cleared>>,
         calls' \subseteq calls, reply' = reply \/ reply' = "error",
         \A s \in Services : fault'[s] = fault[s] \/ fault'[s] = Healthy
  PROVE  PlaceKept'
<1>1. \A s \in Services : Clear(s) => Clear(s)'
  BY DEF Clear, Quiet
<1>2. plan # NoFault /\ Injected => Injected'
  BY PlanService DEF Injected, Quiet
<1>3. /\ Targets[1] \in Services /\ Targets[at[2]] \in Services
      /\ plan # NoFault => plan.service \in Services
      /\ at[1] = "inject" => plan # NoFault
  BY TwoServices, Places, PlanService DEF CallsKept
<1>4. reply' = "pending" /\ at[1] = "inject" =>
        /\ fault'[plan.service] = Healthy
        /\ \A c \in calls' : c.service = plan.service => c.id = issued
  BY <1>3 DEF PlaceKept
<1> QED BY <1>1, <1>2, <1>3, <1>4 DEF PlaceKept

(* At the start of a clearing, or before one, nothing need be known.       *)
LEMMA NothingKnown ==
  ASSUME at' = <<at'[1], 1>>, at'[1] \in Clearing \cup {"health", "idle"},
         reply' # "ok", ~cleared'
  PROVE  PlaceKept'
<1>1. at'[2] = 1 /\ at'[2] # 2
  <2>1. at'[2] = 1
    OBVIOUS
  <2> QED BY <2>1
<1> QED BY <1>1 DEF PlaceKept, Clearing

(* With both services cleared, any other place is right.                   *)
LEMMA BothClear ==
  ASSUME at'[1] \notin Clearing, reply' = "none", FaultsTyped', CallsKept',
         \A s \in Services : Clear(s)'
  PROVE  PlaceKept'
<1>1. plan' # NoFault => plan'.service \in Services
  BY DEF FaultsTyped, Plans, NoFault
<1>2. plan' # NoFault => fault'[plan'.service] = Healthy /\ \A c \in calls' : c.service # plan'.service
  BY <1>1 DEF Clear, Quiet
<1>3. at'[1] = "inject" => plan' # NoFault
  BY DEF CallsKept
<1> QED BY <1>2, <1>3 DEF PlaceKept, Clear, Quiet, Injected

(* A scenario goes on only to where what it knows is enough.               *)
LEMMA GoesKnowing ==
  ASSUME FaultsTyped, CallsKept, PlaceKept, Goes, FaultsTyped', CallsKept'
  PROVE  PlaceKept'
<1>1. UNCHANGED <<fault, calls, issued>>
  BY GoesOn
<1>2. \A s \in Services : Clear(s) => Clear(s)'
  BY <1>1 DEF Clear, Quiet
<1>3. /\ at = <<at[1], at[2]>> /\ at[1] \in Phases /\ at[2] \in {1, 2}
      /\ \A p : Goto(p) => at' = <<p, 1>> /\ at'[1] = p /\ at'[2] = 1
  BY Places
<1>4. /\ at[1] \notin Calling => reply = "none"
      /\ cleared => at[1] = "idle"
      /\ plan # NoFault => plan.service \in Services
  BY PlanService DEF CallsKept
<1>5. ASSUME NEW p \in Clearing \cup {"health", "idle"}, Goto(p), reply' # "ok", ~cleared'
      PROVE  PlaceKept'
  <2>1. at' = <<at'[1], 1>> /\ at'[1] \in Clearing \cup {"health", "idle"}
    BY <1>3, <1>5
  <2> QED BY <1>5, <2>1, NothingKnown
<1>6. OnError \in Clearing \cup {"health", "idle"}
  BY DEF OnError, Clearing
<1>7. CASE LabHealthy \/ LabUnhealthy
  <2>1. /\ at[1] = "health" /\ (Goto("clear") \/ Goto(OnError))
        /\ reply' = reply /\ cleared' = cleared
    BY <1>7 DEF LabHealthy, LabUnhealthy, Still
  <2>2. reply' = "none" /\ ~cleared'
    <3>1. at[1] # "idle" /\ at[1] \notin Calling
      BY <2>1 DEF Calling, Clearing
    <3> QED BY <1>4, <2>1, <3>1, Zenon
  <2>3. reply' # "ok" /\ "clear" \in Clearing
    BY <2>2 DEF Clearing
  <2> QED BY <1>5, <1>6, <2>1, <2>2, <2>3
<1>8. CASE CallReturns
  <2>1. reply' = "none" /\ plan' = plan /\ reply' # "ok"
    BY <1>8 DEF CallReturns
  <2>2. CASE Goto(OnError) /\ ~cleared'
    BY <1>5, <1>6, <2>1, <2>2
  <2>3. CASE reply = "ok" /\ at[1] = "inject" /\ Goto("hold")
    <3>1. /\ \A s \in Services : s # plan.service => Clear(s)
          /\ Injected
      BY <2>3 DEF PlaceKept
    <3>2. Injected'
      BY <1>1, <2>1, <3>1 DEF Injected, Quiet
    <3>3. at'[1] = "hold"
      BY <1>3, <2>3
    <3> QED BY <1>2, <2>1, <3>1, <3>2, <3>3 DEF PlaceKept, Clearing
  <2>4. CASE reply = "ok" /\ at[1] \in Clearing /\ at[2] = 1 /\ at' = <<at[1], 2>>
    <3>1. Clear(Targets[1])'
      BY <1>2, <2>4, TwoServices DEF PlaceKept
    <3>2. at'[1] \in Clearing
      BY <2>4
    <3> QED BY <2>1, <3>1, <3>2 DEF PlaceKept, Clearing
  <2>5. CASE reply = "ok" /\ at[1] \in Clearing /\ at[2] = 2 /\ Goto(AfterClearing)
    <3>1. Clear(Targets[1]) /\ Clear(Targets[2])
      BY <2>5 DEF PlaceKept
    <3>2. \A s \in Services : Clear(s)'
      BY <1>2, <3>1, TwoServices
    <3>3. AfterClearing \notin Clearing
      BY <2>5 DEF AfterClearing, Clearing
    <3> QED BY <1>3, <2>1, <2>5, <3>2, <3>3, BothClear
  <2> QED BY <1>8, <2>2, <2>3, <2>4, <2>5, Returns
<1>9. CASE PhaseEnds \/ PhaseFails
  <2>1. /\ at[1] \in Measuring /\ (Goto("cleanup") \/ Goto(NextPhase))
        /\ plan' = plan /\ reply' = reply /\ cleared' = cleared
    BY <1>9 DEF PhaseEnds, PhaseFails, Still
  <2>2. reply' = "none" /\ ~cleared' /\ reply' # "ok"
    <3>1. at[1] # "idle" /\ at[1] \notin Calling
      BY <2>1 DEF Calling, Clearing, Measuring
    <3>2. reply' = "none" /\ ~cleared'
      BY <1>4, <2>1, <3>1, Zenon
    <3> QED BY <3>2
  <2>3. CASE Goto("cleanup")
    <3>1. "cleanup" \in Clearing
      BY DEF Clearing
    <3> QED BY <1>5, <2>2, <2>3, <3>1
  <2>4. CASE Goto(NextPhase) /\ NextPhase \in Clearing
    BY <1>5, <2>2, <2>4
  <2>5. CASE Goto(NextPhase) /\ NextPhase \notin Clearing
    <3>1. at[1] = "hold" => plan = NoFault
      BY <2>5 DEF NextPhase, Clearing
    <3>2. \A s \in Services : Clear(s)
      <4>1. CASE at[1] = "hold"
        <5>1. \A s \in Services : s # plan.service
          BY <3>1, <4>1, TwoServices DEF NoFault
        <5> QED BY <4>1, <5>1 DEF PlaceKept
      <4>2. CASE at[1] \in {"baseline", "recovery"}
        BY <4>2 DEF PlaceKept
      <4> QED BY <2>1, <4>1, <4>2 DEF Measuring
    <3>3. at'[1] \notin Clearing
      BY <1>3, <2>5
    <3> QED BY <1>2, <2>2, <3>2, <3>3, BothClear
  <2> QED BY <2>1, <2>3, <2>4, <2>5
<1>10. CASE Interrupt
  BY <1>1, <1>10, StaysClear DEF Interrupt
<1>11. CASE Kill \/ Begin
  <2>1. (Goto("idle") \/ Goto("health")) /\ reply' = "none" /\ ~cleared'
    BY <1>11 DEF Kill, Begin
  <2>2. reply' # "ok"
    BY <2>1
  <2> QED BY <1>5, <2>1, <2>2
<1> QED BY <1>7, <1>8, <1>9, <1>10, <1>11 DEF Goes

(* An answer tells of the service: no earlier call is left to undo it.     *)
LEMMA AnswerKnown ==
  ASSUME FaultsTyped, CallsKept, PlaceKept, NEW c \in calls, CarryOut(c), ~overtaken'
  PROVE  PlaceKept'
<1> DEFINE s == c.service
<1>0. /\ s \in Services /\ c.op \in Ops /\ fault[s] \in Faults
      /\ fault \in [Services -> Faults]
      /\ \A d \in calls : d.id \in Nat /\ d.id <= issued
      /\ \A d, e \in calls : d.id = e.id => d = e
      /\ issued \in Nat
  BY DEF FaultsTyped, Call, CallsKept
<1>1. /\ fault'[s] = FaultAfter(fault[s], c.op) /\ \A t \in Services : t # s => fault'[t] = fault[t]
      /\ calls' = calls \ {c} /\ UNCHANGED <<at, plan, cleared, issued>>
      /\ \A e \in calls : ~(e.service = s /\ e.id < c.id)
  <2>1. \A e \in calls : ~(e.service = s /\ e.id < c.id)
    BY DEF CarryOut
  <2> QED BY <1>0, <2>1 DEF CarryOut
<1>2. \A t \in Services : t # s /\ Clear(t) => Clear(t)'
  BY <1>1 DEF Clear, Quiet
<1>3. ~Quiet(s)
  BY DEF Quiet
<1>4. CASE reply = "pending" /\ c.id = issued
  <2>1. /\ reply' = Outcome(c) /\ s = Due.service /\ c.op = Due.op /\ at[1] \in Calling
    BY <1>4 DEF CarryOut, CallsKept
  <2>2. Quiet(s)'
    <3>1. ASSUME NEW e \in calls, e.service = s
          PROVE  e = c
      <4>1. ~(e.id < c.id) /\ e.id <= c.id /\ e.id \in Nat /\ c.id \in Nat
        BY <1>0, <1>1, <1>4, <3>1
      <4>2. e.id = c.id
        BY <4>1
      <4> QED BY <1>0, <4>2
    <3> QED BY <1>1, <3>1 DEF Quiet
  <2>3. CASE at[1] \in Clearing
    <3>1. s = Targets[at[2]] /\ c.op = "clear"
      BY <2>1, <2>3 DEF Due, Clearing
    <3>2. fault'[s] = Healthy
      BY <1>0, <1>1, <3>1, FaultTypes
    <3>3. Clear(Targets[at[2]])'
      BY <1>1, <2>2, <3>1, <3>2 DEF Clear, Quiet
    <3>4. at[2] = 2 => Clear(Targets[1])'
      BY <1>2, <2>3, <3>1, TwoServices DEF PlaceKept
    <3> QED BY <1>1, <2>3, <3>3, <3>4 DEF PlaceKept, Clearing
  <2>4. CASE at[1] = "inject"
    <3>1. s = plan.service /\ c.op = plan.op
      BY <2>1, <2>4 DEF Due
    <3>2. fault[s] = Healthy
      BY <1>4, <2>4, <3>1 DEF PlaceKept
    <3>3. Injected'
      BY <1>1, <2>2, <3>1, <3>2 DEF Injected, Quiet
    <3>4. \A t \in Services : t # plan.service => Clear(t)'
      BY <1>2, <2>4, <3>1 DEF PlaceKept
    <3>5. reply' \in {"ok", "refused"}
      BY <2>1 DEF Outcome
    <3> QED BY <1>1, <2>4, <3>3, <3>4, <3>5 DEF PlaceKept, Clearing
  <2> QED BY <2>1, <2>3, <2>4 DEF Calling
<1>5. CASE ~(reply = "pending" /\ c.id = issued)
  <2>1. reply' = reply
    BY <1>5 DEF CarryOut
  <2>2. \A t \in Services : Clear(t) => Clear(t)'
    BY <1>2, <1>3 DEF Clear
  <2>3. plan # NoFault => plan.service \in Services
    BY PlanService
  <2>4. plan # NoFault /\ Injected => Injected'
    <3>1. Injected => plan.service # s
      BY <1>3 DEF Injected
    <3> QED BY <1>1, <2>3, <3>1 DEF Injected, Quiet
  <2>5. at[1] = "inject" => plan # NoFault
    BY DEF CallsKept
  <2>6. at[1] = "inject" /\ reply = "pending" =>
          /\ fault'[plan.service] = Healthy
          /\ \A d \in calls' : d.service = plan.service => d.id = issued
    <3> SUFFICES ASSUME at[1] = "inject", reply = "pending"
                 PROVE  /\ fault'[plan.service] = Healthy
                        /\ \A d \in calls' : d.service = plan.service => d.id = issued
      OBVIOUS
    <3>1. /\ fault[plan.service] = Healthy
          /\ \A d \in calls : d.service = plan.service => d.id = issued
      BY DEF PlaceKept
    <3>2. plan.service # s
      BY <1>5, <3>1
    <3> QED BY <1>1, <2>3, <2>5, <3>1, <3>2
  <2>7. Targets[1] \in Services /\ Targets[at[2]] \in Services
    BY TwoServices, Places
  <2> QED BY <1>1, <2>1, <2>2, <2>3, <2>4, <2>5, <2>6, <2>7 DEF PlaceKept
<1> QED BY <1>4, <1>5

(* Until a call is overtaken, a scenario's place tells what it has cleared.*)
LEMMA PlaceStep ==
  ASSUME FaultsTyped, CallsKept, LocksKept, PlaceKept, [FaultsNext]_faultsVars, ~overtaken'
  PROVE  PlaceKept'
<1>1. FaultsTyped' /\ CallsKept'
  BY FaultsTypeStep, CallsStep
<1>2. CASE Goes
  BY <1>1, <1>2, GoesKnowing
<1>3. CASE Send
  <2> DEFINE new == [id |-> issued + 1, service |-> Due.service, op |-> Due.op]
  <2>1. /\ calls' = calls \cup {new} /\ issued' = issued + 1 /\ UNCHANGED <<fault, at, plan, cleared>>
        /\ reply' = "pending" /\ reply = "none" /\ at[1] \in Calling
    BY <1>3 DEF Send, Calling, controllers
  <2>2. new.id = issued + 1 /\ new.service = Due.service
    OBVIOUS
  <2> HIDE DEF new
  <2>3. \A t \in Services : t # Due.service /\ Clear(t) => Clear(t)'
    BY <2>1, <2>2 DEF Clear, Quiet
  <2>4. CASE at[1] \in Clearing
    <3>1. Due.service = Targets[at[2]]
      BY <2>4 DEF Due, Clearing
    <3>2. at[2] = 2 => Clear(Targets[1])'
      BY <2>3, <2>4, <3>1, TwoServices DEF PlaceKept
    <3> QED BY <2>1, <2>4, <3>2 DEF PlaceKept, Clearing
  <2>5. CASE at[1] = "inject"
    <3>1. Due.service = plan.service
      BY <2>5 DEF Due
    <3>2. \A t \in Services : t # plan.service => Clear(t)'
      BY <2>3, <2>5, <3>1 DEF PlaceKept
    <3>3. fault[plan.service] = Healthy /\ \A c \in calls : c.service # plan.service
      BY <2>1, <2>5 DEF PlaceKept, Clear, Quiet
    <3>4. \A c \in calls' : c.service = plan.service => c.id = issued'
      BY <2>1, <2>2, <3>3
    <3> QED BY <2>1, <2>5, <3>2, <3>3, <3>4 DEF PlaceKept, Clearing
  <2> QED BY <2>1, <2>4, <2>5 DEF Calling
<1>4. CASE RequestFails
  <2>1. /\ UNCHANGED <<at, plan, issued, cleared, fault>> /\ calls' \subseteq calls /\ reply' = "error"
    BY <1>4 DEF RequestFails, controllers
  <2> QED BY <2>1, StaysClear
<1>5. ASSUME NEW s \in Services, Restart(s)
      PROVE  PlaceKept'
  <2>1. /\ UNCHANGED <<at, plan, issued, cleared>> /\ calls' \subseteq calls
        /\ reply' = reply \/ reply' = "error"
    BY <1>5 DEF Restart
  <2>2. \A t \in Services : fault'[t] = fault[t] \/ fault'[t] = Healthy
    BY <1>5 DEF Restart, FaultsTyped
  <2> QED BY <2>1, <2>2, StaysClear
<1>6. CASE \E s \in Services : BurnReturns(s)
  BY <1>6, StaysClear DEF BurnReturns, network, scenario
<1>7. CASE \E c \in calls : Lock(c)
  BY <1>7, StaysClear DEF Lock, network, scenario
<1>8. CASE \E c \in calls : CarryOut(c)
  BY <1>8, AnswerKnown
<1>9. CASE UNCHANGED faultsVars
  BY <1>9, StaysClear DEF faultsVars, network, scenario, controllers
<1> QED BY <1>2, <1>3, <1>4, <1>5, <1>6, <1>7, <1>8, <1>9, Steps

-----------------------------------------------------------------------------
(* The theorems                                                            *)

(* The lab begins healthy, and nobody is at work on it.                    *)
LEMMA LabInvInit == FaultsInit => LabInv
<1> SUFFICES ASSUME FaultsInit
             PROVE  LabInv
  OBVIOUS
<1>1. FaultsTyped
  BY FaultTypes DEF FaultsInit, FaultsTyped, Plans, Phases
<1>2. CallsKept
  BY DEF FaultsInit, CallsKept, Calling, Clearing
<1>3. LocksKept
  BY FaultTypes DEF FaultsInit, LocksKept, LockKept
<1>4. PlaceKept
  <2>1. at[1] = "idle" /\ ~cleared
    BY DEF FaultsInit
  <2> QED BY <2>1 DEF PlaceKept, Clearing
<1> QED BY <1>1, <1>2, <1>3, <1>4 DEF LabInv

(* An overtaken call is remembered.                                        *)
LEMMA OvertakenStays ==
  ASSUME FaultsTyped, CallsKept, [FaultsNext]_faultsVars, ~overtaken'
  PROVE  ~overtaken
<1>1. CASE Goes
  BY <1>1, GoesOn
<1>2. CASE ~Goes
  BY <1>2, Steps DEF Send, RequestFails, Restart, BurnReturns, Lock, CarryOut, faultsVars, network
<1> QED BY <1>1, <1>2

(* The invariant is kept by every step.                                    *)
LEMMA LabInvStep == LabInv /\ [FaultsNext]_faultsVars => LabInv'
<1> SUFFICES ASSUME LabInv, [FaultsNext]_faultsVars
             PROVE  LabInv'
  OBVIOUS
<1>1. FaultsTyped /\ CallsKept /\ LocksKept /\ (~overtaken => PlaceKept)
  BY DEF LabInv
<1>2. FaultsTyped' /\ CallsKept' /\ LocksKept'
  BY <1>1, FaultsTypeStep, CallsStep, LocksStep
<1>3. ~overtaken' => PlaceKept'
  BY <1>1, OvertakenStays, PlaceStep
<1> QED BY <1>2, <1>3 DEF LabInv

(* What connects the calls on their way, the controllers and the place of  *)
(* the scenario, in every state of every behaviour.                        *)
THEOREM LabInvHolds == FaultsSpec => []LabInv
<1>1. FaultsInit => LabInv
  BY LabInvInit
<1>2. LabInv /\ [FaultsNext]_faultsVars => LabInv'
  BY LabInvStep
<1> QED BY <1>1, <1>2, PTL DEF FaultsSpec

(* However a cpu fault is replaced, cleared, given up on or lost, every    *)
(* goroutine that spins is told of by the fault or waited for under the    *)
(* lock, and there is never more than one set of them.                     *)
THEOREM GoroutinesOwned == FaultsSpec => []SpinningOwned
<1>1. LabInv => SpinningOwned
  <2> SUFFICES ASSUME LabInv, NEW s \in Services
               PROVE  /\ spinning[s] + ending[s] <= Workers
                      /\ lock[s] = 0 => spinning[s] = fault[s].cpu /\ ending[s] = 0
    BY DEF SpinningOwned
  <2>1. LockKept(s) /\ fault[s].cpu \in {0, Workers} /\ ending[s] \in Nat
    BY DEF LabInv, LocksKept, FaultsTyped, Faults
  <2>2. /\ Workers \in Nat /\ 0 + 0 <= Workers /\ Workers + 0 <= Workers
        /\ \A n \in Nat : n <= Workers => 0 + n <= Workers
    BY LabAssumption
  <2>3. CASE lock[s] = 0
    BY <2>1, <2>2, <2>3 DEF LockKept
  <2>4. CASE lock[s] # 0
    BY <2>1, <2>2, <2>4 DEF LockKept
  <2> QED BY <2>3, <2>4
<1> QED BY <1>1, LabInvHolds, PTL

(* Whatever was killed, interrupted or lost before, a phase measures no    *)
(* fault but the one its scenario injected, and that in its hold, unless a *)
(* call given up on was carried out after the calls that came behind it.   *)
THEOREM PhaseMeasuresItsOwn == FaultsSpec => []OwnIncident
<1>1. LabInv => OwnIncident
  <2> SUFFICES ASSUME LabInv, at[1] \in Measuring, ~overtaken, NEW s \in Services,
                      NEW k \in Enabled(s)
               PROVE  at[1] = "hold" /\ plan = [service |-> s, op |-> k]
    BY DEF OwnIncident
  <2>1. PlaceKept /\ plan \in Plans
    BY DEF LabInv, FaultsTyped
  <2>2. fault[s] # Healthy
    BY EnabledBy
  <2>3. at[1] = "hold" /\ s = plan.service
    BY <2>1, <2>2 DEF PlaceKept, Clear, Measuring
  <2>4. plan # NoFault
    BY <2>3, TwoServices DEF NoFault
  <2>5. fault[s] = FaultAfter(Healthy, plan.op)
    BY <2>1, <2>2, <2>3, <2>4 DEF PlaceKept, Injected
  <2>6. k = plan.op
    BY <2>5, EnabledBy
  <2>7. plan = [service |-> plan.service, op |-> plan.op]
    BY <2>1 DEF Plans, NoFault
  <2> QED BY <2>3, <2>6, <2>7
<1> QED BY <1>1, LabInvHolds, PTL

(* A clean-up that reported no failure has left both services healthy,     *)
(* after an interrupt and a call given up on too, unless such a call was   *)
(* carried out behind it.                                                  *)
THEOREM CleanUpLeavesHealthy == FaultsSpec => []LeftHealthy
<1>1. LabInv => LeftHealthy
  BY EnabledBy DEF LabInv, PlaceKept, Clear, LeftHealthy
<1> QED BY <1>1, LabInvHolds, PTL
=============================================================================
