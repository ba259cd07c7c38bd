----------------------------- MODULE CallsProofs -----------------------------
(***************************************************************************)
(* Proofs about Calls and the tool call inside it (Tools): the estimate a  *)
(* lease is sized by, the waits between attempts, the vectors of a         *)
(* document, and what a tool call answers and is recorded as, for every    *)
(* timeout, number of retries, width, document, log, series and text.      *)
(***************************************************************************)
EXTENDS Calls, FiniteSetTheorems, TLAPS

-----------------------------------------------------------------------------
(* Induction, stated of sets                                               *)

(* A set of naturals has a least one.                                      *)
LEMMA Smallest ==
  ASSUME NEW T, T \subseteq Nat, T # {}
  PROVE  \E x \in T : \A y \in T : x <= y
<1> DEFINE R == OpToRel(<, Nat)
<1>1. IsWellFoundedOn(R, Nat)
  BY NatLessThanWellFounded
<1>2. PICK x \in T : \A y \in T : ~(<<y, x>> \in R)
  <2> HIDE DEF R
  <2> QED BY <1>1, WFMin
<1>3. \A y \in T : ~(y < x)
  BY <1>2 DEF OpToRel
<1>4. \A y \in T : y \in Nat
  OBVIOUS
<1> HIDE DEF R
<1> QED BY <1>3, <1>4

(* What 0 has, and each number has from the one before, all have.          *)
LEMMA Induct ==
  ASSUME NEW n \in Nat, NEW T, 0 \in T, \A k \in 1..n : k - 1 \in T => k \in T
  PROVE  \A k \in 0..n : k \in T
<1>1. SUFFICES ASSUME NEW z \in 0..n, z \notin T PROVE FALSE
  OBVIOUS
<1> DEFINE U == {k \in 0..n : k \notin T}
<1>2. U \subseteq Nat /\ U # {}
  BY <1>1
<1>3. PICK x \in U : \A y \in U : x <= y
  <2> HIDE DEF U
  <2> QED BY <1>2, Smallest
<1>4. x \in 1..n /\ x - 1 \in 0..n
  BY <1>3
<1>5. x - 1 \notin U
  BY <1>3, <1>4
<1> QED BY <1>3, <1>4, <1>5

(* What a loop computes: f[k] is the value after k rounds.                 *)
Rounds(f, n, V, b, step) ==
  /\ f \in [0..n -> V] /\ f[0] = b
  /\ \A k \in 1..n : f[k] = step[<<k, f[k - 1]>>]

(* A loop over so many rounds has a value after each of them.              *)
LEMMA Loop ==
  ASSUME NEW n \in Nat, NEW V, NEW b \in V, NEW step \in [(1..n) \X V -> V]
  PROVE  \E f : Rounds(f, n, V, b, step)
<1> DEFINE T == {k \in 0..n : \E f : Rounds(f, k, V, b, step)}
<1>1. 0 \in T
  <2> DEFINE f == [i \in 0..0 |-> b]
  <2>1. f \in [0..0 -> V] /\ f[0] = b
    OBVIOUS
  <2>2. 1..0 = {}
    OBVIOUS
  <2>3. Rounds(f, 0, V, b, step)
    BY <2>1, <2>2 DEF Rounds
  <2> QED BY <2>3
<1>2. ASSUME NEW k \in 1..n, k - 1 \in T PROVE k \in T
  <2>1. PICK f : Rounds(f, k - 1, V, b, step)
    BY <1>2
  <2> DEFINE g == [i \in 0..k |-> IF i = k THEN step[<<k, f[k - 1]>>] ELSE f[i]]
  <2>2. f \in [0..k - 1 -> V] /\ k - 1 \in 0..k - 1
    BY <2>1 DEF Rounds
  <2>3. f[k - 1] \in V
    BY <2>2
  <2>4. step[<<k, f[k - 1]>>] \in V
    BY <2>3
  <2>5. g \in [0..k -> V]
    BY <2>2, <2>4
  <2>6. g[0] = b
    BY <2>1 DEF Rounds
  <2>7. ASSUME NEW i \in 1..k PROVE g[i] = step[<<i, g[i - 1]>>]
    <3>1. g[i - 1] = f[i - 1] /\ i \in 0..k
      OBVIOUS
    <3>2. CASE i = k
      BY <3>1, <3>2
    <3>3. CASE i # k
      <4>1. i \in 1..k - 1
        BY <3>3
      <4> QED BY <2>1, <3>1, <3>3, <4>1 DEF Rounds
    <3> QED BY <3>2, <3>3
  <2> HIDE DEF g
  <2>8. Rounds(g, k, V, b, step)
    BY <2>5, <2>6, <2>7 DEF Rounds
  <2> QED BY <2>8, k \in 0..n
<1>3. n \in T
  <2> HIDE DEF T
  <2>1. \A k \in 0..n : k \in T
    BY <1>1, <1>2, Induct
  <2> QED BY <2>1
<1> QED BY <1>3

-----------------------------------------------------------------------------
(* The waits                                                               *)

(* What a shift is: the value after so many doublings.                     *)
LEMMA Doubling ==
  ASSUME NEW x \in Nat, NEW n \in Nat
  PROVE  \E d \in [0..n -> Nat] :
           d[0] = x /\ (\A k \in 1..n : d[k] = 2 * d[k - 1]) /\ Shifted(x, n) = d[n]
<1> DEFINE step == [z \in (1..n) \X Nat |-> 2 * z[2]]
           Eq(d) == d = [k \in 0..n |-> IF k = 0 THEN x ELSE 2 * d[k - 1]]
           D == CHOOSE d : Eq(d)
<1>1. PICK f : Rounds(f, n, Nat, x, step)
  <2>1. step \in [(1..n) \X Nat -> Nat]
    OBVIOUS
  <2> HIDE DEF step
  <2> QED BY <2>1, Loop
<1>2. f \in [0..n -> Nat] /\ f[0] = x /\ \A k \in 1..n : f[k] = 2 * f[k - 1]
  <2>1. f \in [0..n -> Nat] /\ f[0] = x
    BY <1>1 DEF Rounds
  <2>2. ASSUME NEW k \in 1..n PROVE f[k] = 2 * f[k - 1]
    <3>1. k - 1 \in 0..n
      OBVIOUS
    <3>2. f[k - 1] \in Nat
      BY <2>1, <3>1
    <3>3. f[k] = step[<<k, f[k - 1]>>]
      <4> HIDE DEF step
      <4> QED BY <1>1 DEF Rounds
    <3> QED BY <3>2, <3>3
  <2> QED BY <2>1, <2>2
<1>3. Eq(f)
  BY <1>2
<1>4. Eq(D)
  <2> HIDE DEF Eq
  <2> QED BY <1>3
<1>5. \A k \in 0..n : D[k] = f[k]
  <2> DEFINE T == {k \in 0..n : D[k] = f[k]}
  <2>0. \A k \in 0..n : D[k] = IF k = 0 THEN x ELSE 2 * D[k - 1]
    <3> HIDE DEF D
    <3> QED BY <1>4
  <2> HIDE DEF D
  <2>1. 0 \in T
    BY <1>2, <2>0
  <2>2. ASSUME NEW k \in 1..n, k - 1 \in T PROVE k \in T
    BY <1>2, <2>0, <2>2
  <2>3. \A k \in 0..n : k \in T
    <3> HIDE DEF T
    <3> QED BY <2>1, <2>2, Induct
  <2> QED BY <2>3
<1>6. Shifted(x, n) = D[n]
  BY DEF Shifted
<1>7. Shifted(x, n) = f[n]
  <2> HIDE DEF D
  <2> QED BY <1>5, <1>6
<1> HIDE DEF step, Eq, D
<1> QED BY <1>2, <1>7

(* A shift by one more doubles.                                            *)
LEMMA ShiftGrows ==
  ASSUME NEW x \in Nat, NEW n \in Nat
  PROVE  /\ Shifted(x, n) \in Nat /\ Shifted(x, 0) = x /\ Shifted(x, n) >= x
         /\ Shifted(x, n + 1) = 2 * Shifted(x, n)
<1>1. PICK d \in [0..n -> Nat] :
        d[0] = x /\ (\A k \in 1..n : d[k] = 2 * d[k - 1]) /\ Shifted(x, n) = d[n]
  BY Doubling
<1>2. PICK e \in [0..n + 1 -> Nat] :
        /\ e[0] = x /\ (\A k \in 1..n + 1 : e[k] = 2 * e[k - 1])
        /\ Shifted(x, n + 1) = e[n + 1]
  BY n + 1 \in Nat, Doubling
<1>3. PICK z \in [0..0 -> Nat] : z[0] = x /\ Shifted(x, 0) = z[0]
  BY Doubling
<1> DEFINE T == {k \in 0..n : d[k] = e[k] /\ d[k] >= x}
<1>4. 0 \in T
  BY <1>1, <1>2
<1>5. ASSUME NEW k \in 1..n, k - 1 \in T PROVE k \in T
  BY <1>1, <1>2, <1>5
<1>6. \A k \in 0..n : k \in T
  <2> HIDE DEF T
  <2> QED BY <1>4, <1>5, Induct
<1> QED BY <1>1, <1>2, <1>3, <1>6

(* A duration that fits its width is what it was.                          *)
LEMMA WrappedFits ==
  ASSUME NEW m \in Nat
  PROVE  Wrapped(m) \in Int /\ (m < Shifted(1, Width - 1) => Wrapped(m) = m)
<1> DEFINE half == Shifted(1, Width - 1)
           whole == Shifted(1, Width)
<1>1. Width - 1 \in Nat /\ Width - 1 + 1 = Width
  BY CallsAssumption
<1>2. half \in Nat /\ half >= 1 /\ whole = 2 * half
  BY <1>1, ShiftGrows
<1> HIDE DEF half, whole
<1>3. m % whole \in Int /\ (m < half => m % whole = m)
  BY <1>2
<1>4. Wrapped(m) = IF m % whole < half THEN m % whole ELSE (m % whole) - whole
  BY DEF Wrapped, half, whole
<1> QED BY <1>2, <1>3, <1>4 DEF half

(* The waits asked for are what RetryAfter makes of them.                  *)
Asked == try.asked \in Nat /\ try.attempt \in Nat /\ try.after = RetryAfter(try.asked)

(* Waits that come of what was asked for are as they should be.            *)
LEMMA AskedBackoff == Asked => BackoffHolds
<1> SUFFICES ASSUME Asked, try.waiting PROVE BackoffHolds
  BY DEF BackoffHolds
<1> DEFINE n == try.attempt + 1
           half == Shifted(1, Width - 1)
           plain == Wrapped(Shifted(BaseDelay, n - 1))
<1>1. n \in Nat \ {0} /\ try.asked \in Nat /\ MaxDelay \in Nat \ {0} /\ BaseDelay \in Nat \ {0}
      /\ BaseDelay <= MaxDelay
  BY CallsAssumption DEF Asked
<1>2. Wrapped(try.asked) \in Int /\ (try.asked < half => Wrapped(try.asked) = try.asked)
  BY <1>1, WrappedFits
<1>3. try.after = LesserOf(Wrapped(try.asked), MaxDelay)
  BY DEF Asked, RetryAfter
<1>4. Shifted(BaseDelay, n - 1) \in Nat /\ Shifted(BaseDelay, n - 1) >= BaseDelay
  BY <1>1, n - 1 \in Nat, BaseDelay \in Nat, ShiftGrows
<1>5. plain \in Int /\ (Shifted(BaseDelay, n - 1) < half => plain = Shifted(BaseDelay, n - 1))
  BY <1>4, WrappedFits
<1>6. RetryDelay(n, try.after) = IF try.after > 0 THEN try.after ELSE LesserOf(plain, MaxDelay)
  BY DEF RetryDelay
<1>9. half \in Nat
  <2>1. Width - 1 \in Nat /\ 1 \in Nat
    BY CallsAssumption
  <2> QED BY <2>1, ShiftGrows
<1>7. ASSUME n > 1, Shifted(BaseDelay, n - 1) < half
      PROVE  RetryDelay(n - 1, 0) <= LesserOf(plain, MaxDelay)
  <2> DEFINE less == Shifted(BaseDelay, n - 2)
  <2>1. n - 2 \in Nat /\ n - 2 + 1 = n - 1 /\ n - 1 - 1 = n - 2
    BY <1>1, <1>7
  <2>2. less \in Nat /\ Shifted(BaseDelay, n - 1) = 2 * less
    <3>1. less \in Nat /\ Shifted(BaseDelay, n - 2 + 1) = 2 * less
      BY <1>1, <2>1, BaseDelay \in Nat, ShiftGrows
    <3> QED BY <2>1, <3>1
  <2>3. half \in Nat
    BY <1>9
  <2>4. Wrapped(less) = less
    BY <1>7, <2>2, <2>3, WrappedFits
  <2>5. RetryDelay(n - 1, 0) = LesserOf(less, MaxDelay)
    BY <2>1, <2>4 DEF RetryDelay
  <2> QED BY <1>1, <1>5, <1>7, <2>2, <2>5 DEF LesserOf
<1>8. RetryDelay(n, try.after) <= MaxDelay
  BY <1>1, <1>2, <1>3, <1>5, <1>6 DEF LesserOf
<1>10. ASSUME try.asked \in 1..half - 1
       PROVE  RetryDelay(n, try.after) = LesserOf(try.asked, MaxDelay)
  BY <1>1, <1>2, <1>3, <1>6, <1>9, <1>10 DEF LesserOf
<1>11. ASSUME try.after <= 0, Shifted(BaseDelay, n - 1) < half
       PROVE  /\ RetryDelay(n, try.after) >= BaseDelay
              /\ n > 1 => RetryDelay(n, try.after) >= RetryDelay(n - 1, 0)
  <2>1. RetryDelay(n, try.after) = LesserOf(plain, MaxDelay)
    BY <1>1, <1>2, <1>3, <1>6, <1>11 DEF LesserOf
  <2>2. LesserOf(plain, MaxDelay) >= BaseDelay
    BY <1>1, <1>4, <1>5, <1>11 DEF LesserOf
  <2>3. n > 1 => RetryDelay(n - 1, 0) <= LesserOf(plain, MaxDelay)
    BY <1>7, <1>11
  <2> QED BY <2>1, <2>2, <2>3
<1> QED BY <1>8, <1>10, <1>11 DEF BackoffHolds
-----------------------------------------------------------------------------
(* The attempt and its clients                                             *)

Jobs   == {"investigation", "document"}
Places == {"bound", "chat", "embed", "search", "call", "end"}
Tries  == [attempt : Nat, waiting : BOOLEAN, asked : Nat, after : Int]

CallsTyped ==
  /\ job \in Jobs /\ pos \in Places /\ forced \in BOOLEAN /\ cancelled \in BOOLEAN
  /\ try \in Tries /\ Asked
  /\ clock \in Nat /\ slept \in Nat /\ hung \in Nat

(* The time a caller waits before its next attempt is a time.              *)
LEMMA DelayTyped ==
  ASSUME NEW n \in Nat \ {0}, NEW after \in Int
  PROVE  RetryDelay(n, after) \in Int
<1>1. n - 1 \in Nat /\ BaseDelay \in Nat /\ MaxDelay \in Nat
  BY CallsAssumption
<1>2. Shifted(BaseDelay, n - 1) \in Nat
  BY <1>1, ShiftGrows
<1>3. Wrapped(Shifted(BaseDelay, n - 1)) \in Int
  BY <1>2, WrappedFits
<1> QED BY <1>1, <1>3 DEF RetryDelay, LesserOf

(* A caller that has tried nothing has been asked for nothing.             *)
LEMMA NoTryAsked == NoTry \in Tries /\ NoTry.after = RetryAfter(NoTry.asked)
<1>1. Width - 1 \in Nat /\ MaxDelay \in Nat \ {0}
  BY CallsAssumption
<1>2. Shifted(1, Width - 1) \in Nat /\ 0 < Shifted(1, Width - 1)
  BY <1>1, ShiftGrows
<1>3. Wrapped(0) = 0
  BY <1>2, WrappedFits
<1> QED BY <1>1, <1>3 DEF NoTry, Tries, RetryAfter, LesserOf

(* What is granted of a wait that was asked for is a time.                 *)
LEMMA AfterTyped ==
  ASSUME NEW s \in Nat
  PROVE  RetryAfter(s) \in Int
<1>1. Wrapped(s) \in Int /\ MaxDelay \in Int
  BY WrappedFits, CallsAssumption
<1> QED BY <1>1 DEF RetryAfter, LesserOf

(* The types hold at the start.                                            *)
LEMMA CallsTypedInit == Init => CallsTyped
<1>1. NoTry \in Tries /\ NoTry.after = RetryAfter(NoTry.asked)
      /\ NoTry.asked \in Nat /\ NoTry.attempt \in Nat
  BY NoTryAsked DEF NoTry
<1> SUFFICES ASSUME Init PROVE CallsTyped
  OBVIOUS
<1>2. try = NoTry
  BY DEF Init
<1>3. Asked /\ try \in Tries
  BY <1>1, <1>2 DEF Asked
<1>4. job \in Jobs /\ pos \in Places
  BY DEF Init, Jobs, Places
<1> QED BY <1>3, <1>4 DEF Init, CallsTyped

(* Every step keeps the types.                                             *)
LEMMA CallsTypedStep == CallsTyped /\ [Next]_vars => CallsTyped'
<1> SUFFICES ASSUME CallsTyped, [Next]_vars PROVE CallsTyped'
  OBVIOUS
<1> USE DEF CallsTyped, Jobs, Places
<1>0. /\ ChatTimeout \in Nat /\ EmbedTimeout \in Nat /\ SearchTimeout \in Nat
      /\ ToolTimeout \in Nat /\ MaxRun \in Nat /\ LongestSearch \in Nat
      /\ RetryAfters \subseteq Nat
  BY CallsAssumption
<1>1. NoTry \in Tries /\ NoTry.after = RetryAfter(NoTry.asked)
      /\ NoTry.asked \in Nat /\ NoTry.attempt \in Nat
  BY NoTryAsked DEF NoTry
<1>2. CASE Bound
  BY <1>1, <1>2 DEF Bound, Asked
<1>3. CASE Chat
  BY <1>0, <1>1, <1>3 DEF Chat, Spend, Asked
<1>4. CASE Sleep
  <2> DEFINE n == try.attempt + 1
             delay == RetryDelay(n, try.after)
             d == IF cancelled \/ delay < 0 THEN 0 ELSE delay
  <2>1. n \in Nat \ {0} /\ try.after \in Int
    BY DEF Tries
  <2>2. delay \in Int
    BY <2>1, DelayTyped
  <2>3. d \in Nat
    <3> HIDE DEF delay
    <3> QED BY <2>2
  <2>4. /\ clock' = IF job = "investigation" THEN clock + d ELSE clock
        /\ slept' = IF job = "investigation" THEN slept + d ELSE slept
        /\ pos' \in {pos, "end"} /\ try' \in {NoTry, [try EXCEPT !.attempt = n, !.waiting = FALSE]}
        /\ UNCHANGED <<job, forced, hung, cancelled>>
    BY <1>4 DEF Sleep, Spend
  <2> HIDE DEF d
  <2>5. clock' \in Nat /\ slept' \in Nat
    BY <2>3, <2>4
  <2>6. try' \in Tries /\ Asked'
    BY <1>1, <2>1, <2>4 DEF Tries, Asked
  <2> QED BY <2>4, <2>5, <2>6
<1>5. CASE EmbedBatch
  <2>1. /\ \E d \in {0, EmbedTimeout} : Spend(d)
        /\ try' = NoTry /\ pos' \in {AfterFailure(pos), pos, "end", "search"}
        /\ UNCHANGED <<job, forced, slept, hung, cancelled>>
    BY <1>5 DEF EmbedBatch
  <2> QED BY <1>0, <1>1, <2>1 DEF Spend, Asked, AfterFailure
<1>6. CASE Search
  <2>1. PICK d \in 0..LongestSearch :
          Spend(d) /\ hung' = IF d > SearchTimeout THEN hung + (d - SearchTimeout) ELSE hung
    BY <1>6 DEF Search
  <2>2. d \in Nat
    BY <1>0
  <2>3. clock' \in Nat /\ hung' \in Nat
    BY <1>0, <2>1, <2>2 DEF Spend
  <2> QED BY <1>6, <2>3 DEF Search, Asked
<1>7. ASSUME NEW status, NEW d \in {0, ToolTimeout}, CallEnds(status, d) PROVE CallsTyped'
  BY <1>0, <1>7 DEF CallEnds, Spend, Asked
<1>8. CASE ToolAnswer \/ ToolDeadline \/ ToolLost
  BY <1>7, <1>8 DEF ToolAnswer, ToolDeadline, ToolLost
<1>9. CASE Cancel
  BY <1>9 DEF Cancel, Asked
<1>10. ASSUME NEW e \in Errors, RequestFails(e) PROVE CallsTyped'
  <2>1. PICK d \in {0, Limit(pos)}, after \in RetryAfters \cup {0} :
          /\ Spend(d)
          /\ \/ /\ try' = [try EXCEPT !.waiting = TRUE, !.asked = after,
                                      !.after = RetryAfter(after)]
                /\ UNCHANGED pos
             \/ pos' = AfterFailure(pos) /\ try' = NoTry
    BY <1>10 DEF RequestFails
  <2>2. after \in Nat /\ d \in Nat
    BY <1>0, <2>1 DEF Limit
  <2>3. RetryAfter(after) \in Int
    BY <2>2, AfterTyped
  <2>4. try' \in Tries /\ Asked'
    BY <1>1, <2>1, <2>2, <2>3 DEF Tries, Asked
  <2>5. pos' \in Places /\ clock' \in Nat
    BY <2>1, <2>2 DEF AfterFailure, Spend
  <2> QED BY <1>10, <2>4, <2>5 DEF RequestFails
<1>11. CASE UNCHANGED callVars
  BY <1>11 DEF callVars, Asked
<1> QED BY <1>2, <1>3, <1>4, <1>5, <1>6, <1>8, <1>9, <1>10, <1>11 DEF Next, vars
-----------------------------------------------------------------------------
(* The vectors                                                             *)

(* Numbers 1 to n, none of them twice, are all of them.                    *)
LEMMA AllOfThem ==
  ASSUME NEW n \in Nat, NEW f \in [1..n -> 1..n],
         \A i, j \in 1..n : i # j => f[i] # f[j]
  PROVE  \A k \in 1..n : \E i \in 1..n : f[i] = k
<1>1. f \in Injection(1..n, 1..n)
  BY DEF Injection, IsInjective
<1>2. IsFiniteSet(1..n)
  BY FS_Interval
<1>3. f \in Surjection(1..n, 1..n)
  BY <1>1, <1>2, FS_Injection
<1> QED BY <1>3 DEF Surjection

(* A response that pairs is in order when it has been paired.              *)
LEMMA PairOrders ==
  ASSUME NEW want \in Nat, NEW data \in Seq(Nat), Pair(data, want) # None
  PROVE  Pair(data, want) = [k \in 1..want |-> k]
<1>1. /\ Len(data) = want /\ \A i \in 1..want : data[i] \in 1..want
      /\ \A i, j \in 1..want : i # j => data[i] # data[j]
      /\ Pair(data, want) = [k \in 1..want |-> data[CHOOSE i \in 1..want : data[i] = k]]
  BY DEF Pair
<1>2. data \in [1..want -> 1..want]
  BY <1>1
<1>3. \A k \in 1..want : \E i \in 1..want : data[i] = k
  <2>1. \A i, j \in 1..want : i # j => data[i] # data[j]
    BY <1>1
  <2> QED BY <1>2, <2>1, AllOfThem
<1>4. \A k \in 1..want : data[CHOOSE i \in 1..want : data[i] = k] = k
  BY <1>3
<1> QED BY <1>1, <1>4

(* The inductive invariant of the embedding: its vectors are those of the  *)
(* first texts, some are missing while it goes on, and an investigation    *)
(* keeps none.                                                             *)
VectorsInv ==
  /\ vectors \in Seq(Nat) /\ VectorsInPlace
  /\ pos = "embed" => Len(vectors) < TextCount
  /\ job = "investigation" => vectors = <<>>
  /\ job = "document" => pos \in {"embed", "end"}

(* No vectors are there at the start, and a text is to be embedded.        *)
LEMMA VectorsInit == Init => VectorsInv
<1>1. TextCount \in Nat \ {0}
  BY CallsAssumption DEF TextCount
<1> QED BY <1>1 DEF Init, VectorsInv, VectorsInPlace

(* What a batch adds: the texts that come next, or nothing.                *)
LEMMA BatchAdds ==
  ASSUME CallsTyped, VectorsInv, EmbedBatch
  PROVE  /\ UNCHANGED job /\ TextCount' = TextCount
         /\ \/ pos' = AfterFailure(pos) /\ UNCHANGED vectors
            \/ /\ job = "investigation" /\ pos' = "search" /\ vectors' = <<>>
            \/ /\ job = "document" /\ pos' \in {"embed", "end"}
               /\ vectors' \in Seq(Nat) /\ \A i \in 1..Len(vectors') : vectors'[i] = i
               /\ Len(vectors') <= TextCount
               /\ pos' = "embed" => Len(vectors') < TextCount
<1>1. TextCount \in Nat \ {0} /\ BatchSize \in Nat \ {0} /\ Len(vectors) \in Nat
      /\ Len(vectors) < TextCount /\ pos = "embed" /\ job \in Jobs
      /\ UNCHANGED job /\ TextCount' = TextCount
  BY CallsAssumption DEF TextCount, VectorsInv, EmbedBatch, CallsTyped
<1>2. Batch \in Nat \ {0} /\ Batch <= TextCount - Len(vectors)
  BY <1>1 DEF Batch, LesserOf
<1>3. PICK data \in BoundedSeq(0..(Batch + 1), Batch + 1) :
        LET out == Pair(data, Batch) IN
        IF out = None THEN pos' = AfterFailure(pos) /\ UNCHANGED vectors
        ELSE LET all == vectors \o [k \in 1..Batch |-> Len(vectors) + out[k]] IN
             IF Len(all) < TextCount THEN vectors' = all /\ UNCHANGED pos
             ELSE IF job = "document" THEN vectors' = all /\ pos' = "end"
             ELSE vectors' = <<>> /\ pos' = "search"
  BY DEF EmbedBatch
<1>4. CASE Pair(data, Batch) = None
  BY <1>1, <1>3, <1>4
<1>5. CASE Pair(data, Batch) # None
  <2> DEFINE more == [k \in 1..Batch |-> Len(vectors) + k]
             all == vectors \o more
  <2>1. data \in Seq(Nat)
    BY <1>2 DEF BoundedSeq, SeqOf
  <2>2. Pair(data, Batch) = [k \in 1..Batch |-> k]
    BY <1>2, <1>5, <2>1, PairOrders
  <2>3. [k \in 1..Batch |-> Len(vectors) + Pair(data, Batch)[k]] = more
    BY <2>2
  <2>4. more \in Seq(Nat) /\ Len(more) = Batch
    BY <1>1, <1>2
  <2>5. vectors \in Seq(Nat) /\ \A i \in 1..Len(vectors) : vectors[i] = i
    BY DEF VectorsInv, VectorsInPlace
  <2>6. /\ all \in Seq(Nat) /\ Len(all) = Len(vectors) + Batch
        /\ \A i \in 1..Len(all) : all[i] = IF i <= Len(vectors) THEN vectors[i]
                                           ELSE more[i - Len(vectors)]
    <3> HIDE DEF more
    <3> QED BY <2>4, <2>5, <1>1, <1>2
  <2>7. \A i \in 1..Len(all) : all[i] = i
    <3> HIDE DEF all
    <3> SUFFICES ASSUME NEW i \in 1..Len(all) PROVE all[i] = i
      OBVIOUS
    <3>1. CASE i <= Len(vectors)
      <4>1. i \in 1..Len(vectors)
        BY <1>1, <2>6, <3>1
      <4> HIDE DEF more
      <4> QED BY <2>5, <2>6, <3>1, <4>1
    <3>2. CASE ~(i <= Len(vectors))
      <4>1. i - Len(vectors) \in 1..Batch
        BY <1>1, <1>2, <2>6, <3>2
      <4>2. more[i - Len(vectors)] = Len(vectors) + (i - Len(vectors))
        BY <4>1
      <4>3. all[i] = more[i - Len(vectors)]
        BY <2>6, <3>2
      <4> HIDE DEF more
      <4> QED BY <1>1, <1>2, <2>6, <4>2, <4>3
    <3> QED BY <3>1, <3>2
  <2>8. IF Len(all) < TextCount THEN vectors' = all /\ UNCHANGED pos
        ELSE IF job = "document" THEN vectors' = all /\ pos' = "end"
        ELSE vectors' = <<>> /\ pos' = "search"
    BY <1>3, <1>5, <2>3
  <2>9. job = "investigation" => Len(all) = 1 /\ TextCount = 1
    BY <1>1, <1>2, <2>6 DEF VectorsInv, TextCount, Jobs
  <2> HIDE DEF all
  <2> QED BY <1>1, <1>2, <2>6, <2>7, <2>8, <2>9 DEF Jobs
<1> QED BY <1>4, <1>5

(* Every step keeps the vectors in their places; a batch adds the next.    *)
LEMMA VectorsStep == CallsTyped /\ VectorsInv /\ [Next]_vars => VectorsInv'
<1> SUFFICES ASSUME CallsTyped, VectorsInv, [Next]_vars PROVE VectorsInv'
  OBVIOUS
<1>1. CASE EmbedBatch
  <2>1. /\ UNCHANGED job /\ TextCount' = TextCount /\ TextCount \in Nat \ {0}
        /\ pos = "embed" /\ AfterFailure(pos) \in {"bound", "end"}
        /\ job = "document" => AfterFailure(pos) = "end"
    BY <1>1, BatchAdds, CallsAssumption DEF EmbedBatch, AfterFailure, TextCount
  <2> QED BY <1>1, <2>1, BatchAdds DEF VectorsInv, VectorsInPlace
<1>2. CASE Chat
  <2>1. UNCHANGED <<job, vectors>> /\ TextCount' = TextCount /\ TextCount \in Nat \ {0}
    BY <1>2, CallsAssumption DEF Chat, TextCount
  <2>2. job = "investigation" /\ Len(<<>>) = 0
    BY <1>2 DEF Chat, VectorsInv, CallsTyped, Jobs
  <2> QED BY <2>1, <2>2 DEF VectorsInv, VectorsInPlace
<1>3. ASSUME UNCHANGED <<job, vectors>>, pos' = pos \/ pos' = "end" \/
                                          (pos' # "embed" /\ job = "investigation")
      PROVE  VectorsInv'
  BY <1>3 DEF VectorsInv, VectorsInPlace, TextCount
<1>4. ASSUME pos \notin {"embed", "end"}, UNCHANGED <<job, vectors>>, pos' \in Places \ {"embed"}
      PROVE  VectorsInv'
  BY <1>3, <1>4 DEF VectorsInv, CallsTyped, Jobs
<1>5. CASE Bound \/ Search
  BY <1>4, <1>5 DEF Bound, Search, Places
<1>6. CASE Sleep
  <2>1. UNCHANGED <<job, vectors>> /\ (pos' = pos \/ pos' = "end")
    BY <1>6 DEF Sleep
  <2> QED BY <1>3, <2>1
<1>7. CASE ToolAnswer \/ ToolDeadline \/ ToolLost
  BY <1>4, <1>7 DEF ToolAnswer, ToolDeadline, ToolLost, CallEnds, Places
<1>8. CASE Cancel \/ UNCHANGED callVars
  BY <1>3, <1>8 DEF Cancel, callVars
<1>9. ASSUME NEW e \in Errors, RequestFails(e) PROVE VectorsInv'
  <2>1. UNCHANGED <<job, vectors>> /\ (pos' = pos \/ pos' = AfterFailure(pos))
    BY <1>9 DEF RequestFails
  <2>2. pos' = pos \/ pos' = "end" \/ (pos' = "bound" /\ job # "document")
    BY <2>1 DEF AfterFailure
  <2> QED BY <1>3, <2>1, <2>2 DEF CallsTyped, Jobs
<1> QED BY <1>1, <1>2, <1>5, <1>6, <1>7, <1>8, <1>9 DEF Next, vars
-----------------------------------------------------------------------------
(* The estimate                                                            *)

(* What of the clock the estimate answers for, and what it grants each     *)
(* part of a step.                                                         *)
Spent     == clock - slept - hung
ChatCost  == ChatTimeout * (1 + ChatRetries)
EmbedCost == EmbedTimeout * (1 + EmbedRetries)
StepCost  == GreaterOf(ToolTimeout, EmbedCost + SearchTimeout)

Cost(p) == Limit(p) * (1 + Budget(p))

(* The attempts a call has made, and the most they took.                   *)
Made     == IF try.waiting THEN try.attempt + 1 ELSE try.attempt
Tried(p) == Limit(p) * Made

(* What an investigation has spent at most, by where it is.                *)
SpentKept ==
  /\ pos = "bound" => Spent <= MaxRun + ChatCost + StepCost
  /\ pos = "chat" =>
       Spent <= (IF forced THEN MaxRun + ChatCost + StepCost ELSE MaxRun) + Tried("chat")
  /\ pos = "embed" => Spent <= MaxRun + ChatCost + Tried("embed")
  /\ pos = "search" => Spent <= MaxRun + ChatCost + EmbedCost
  /\ pos = "call" => Spent <= MaxRun + ChatCost
  /\ pos = "end" => Spent <= MaxRun + ChatCost + StepCost + ChatCost
  /\ pos \notin {"chat", "end"} => ~forced

(* The inductive invariant of the estimate: an ingestion keeps no clock,   *)
(* and no call is made more often than its retries allow.                  *)
EstimateInv ==
  /\ CallsTyped /\ VectorsInv
  /\ SpentKept
  /\ Modelled(pos) => Made <= Budget(pos)
  /\ ~Modelled(pos) => Made = 0
  /\ job = "document" => Spent = 0

(* A call that goes on makes no more attempts than it is granted.          *)
LEMMA CostOf ==
  ASSUME NEW p \in {"chat", "embed"}, NEW k \in Nat, k <= Budget(p)
  PROVE  /\ Limit(p) \in Nat /\ Budget(p) \in Nat
         /\ Limit(p) * k \in Nat /\ Limit(p) * (k + 1) = Limit(p) * k + Limit(p)
         /\ Limit(p) * (k + 1) <= Cost(p) /\ Limit(p) * k <= Cost(p)
<1>1. Limit(p) \in Nat /\ Budget(p) \in Nat
  BY CallsAssumption DEF Limit, Budget
<1> DEFINE t == Limit(p)
           b == Budget(p)
<1>2. t \in Nat /\ b \in Nat /\ k <= b
  BY <1>1
<1> HIDE DEF t, b
<1>3. t * k \in Nat /\ t * (k + 1) = t * k + t /\ t * (1 + b) = t * b + t
  BY <1>2
<1>4. t * (b - k) \in Nat /\ t * b = t * k + t * (b - k)
  BY <1>2
<1>5. t * (k + 1) <= t * (1 + b) /\ t * k <= t * (1 + b)
  <2>1. t * (b - k) >= 0 /\ t >= 0
    BY <1>2, <1>4
  <2> DEFINE x == t * k
             y == t * (b - k)
             z == t * b
  <2>2. x \in Nat /\ y \in Nat /\ z = x + y
    BY <1>3, <1>4
  <2> HIDE DEF x, y, z
  <2>3. x + t <= z + t /\ x <= z + t
    BY <2>2, <1>2
  <2> QED BY <2>3, <1>3 DEF x, z
<1> QED BY <1>1, <1>3, <1>5 DEF t, b, Cost

(* The parts of the estimate, and that it is their sum.                    *)
LEMMA Costs ==
  /\ ChatCost \in Nat /\ EmbedCost \in Nat /\ StepCost \in Nat /\ MaxRun \in Nat
  /\ ToolTimeout \in Nat /\ SearchTimeout \in Nat /\ LongestSearch \in Nat
  /\ ToolTimeout <= StepCost /\ EmbedCost + SearchTimeout <= StepCost
  /\ Cost("chat") = ChatCost /\ Cost("embed") = EmbedCost
  /\ Limit("chat") = ChatTimeout /\ Limit("embed") = EmbedTimeout
  /\ ChatTimeout \in Nat /\ EmbedTimeout \in Nat
  /\ WorstCase = MaxRun + ChatCost + StepCost + ChatCost
<1>1. /\ ChatTimeout \in Nat /\ EmbedTimeout \in Nat /\ ChatRetries \in Nat /\ EmbedRetries \in Nat
      /\ MaxRun \in Nat /\ ToolTimeout \in Nat /\ SearchTimeout \in Nat /\ LongestSearch \in Nat
  BY CallsAssumption
<1>2. ChatCost \in Nat /\ EmbedCost \in Nat
  BY <1>1 DEF ChatCost, EmbedCost
<1>3. StepCost \in Nat /\ ToolTimeout <= StepCost /\ EmbedCost + SearchTimeout <= StepCost
  BY <1>1, <1>2 DEF StepCost, GreaterOf
<1>4. 2 * ChatTimeout * (1 + ChatRetries) = ChatCost + ChatCost
  BY <1>1 DEF ChatCost
<1>5. WorstCase = MaxRun + (ChatCost + ChatCost) + StepCost
  BY <1>4 DEF WorstCase, StepCost, EmbedCost
<1>6. WorstCase = MaxRun + ChatCost + StepCost + ChatCost
  BY <1>1, <1>2, <1>3, <1>5
<1> QED BY <1>1, <1>2, <1>3, <1>6 DEF Cost, Limit, Budget, ChatCost, EmbedCost

(* Nothing is spent at the start.                                          *)
LEMMA EstimateInit == Init => EstimateInv
<1> SUFFICES ASSUME Init PROVE EstimateInv
  OBVIOUS
<1>1. CallsTyped /\ VectorsInv
  BY CallsTypedInit, VectorsInit
<1>2. try = NoTry /\ clock = 0 /\ slept = 0 /\ hung = 0 /\ forced = FALSE /\ vectors = <<>>
  BY DEF Init
<1>3. Made = 0 /\ Spent = 0
  BY <1>2 DEF Made, NoTry, Spent
<1>4. Tried("embed") = 0
  BY <1>3, Costs DEF Tried
<1>5. \/ job = "investigation" /\ pos = "bound"
      \/ job = "document" /\ pos = "embed"
  BY DEF Init
<1>6. Budget("embed") \in Nat
  BY CallsAssumption DEF Budget
<1> QED BY <1>1, <1>2, <1>3, <1>4, <1>5, <1>6, Costs
        DEF EstimateInv, SpentKept, Modelled

(* Time passes for an investigation only.                                  *)
LEMMA SpentMore ==
  ASSUME CallsTyped, NEW d \in Nat, Spend(d), UNCHANGED <<job, slept, hung>>
  PROVE  Spent' = IF job = "investigation" THEN Spent + d ELSE Spent
BY DEF CallsTyped, Spend, Spent

(* Every step keeps to what its place in the attempt allows.               *)
LEMMA EstimateStep == EstimateInv /\ [Next]_vars => EstimateInv'
<1> SUFFICES ASSUME EstimateInv, [Next]_vars PROVE EstimateInv'
  OBVIOUS
<1> USE Costs
<1>0. CallsTyped /\ VectorsInv /\ CallsTyped' /\ VectorsInv' /\ SpentKept
  BY CallsTypedStep, VectorsStep DEF EstimateInv
<1>t. /\ Spent \in Int /\ job \in Jobs /\ pos \in Places
      /\ Made \in Nat /\ NoTry.waiting = FALSE /\ NoTry.attempt = 0
  BY <1>0 DEF CallsTyped, Spent, Made, NoTry, Tries
<1>m. ASSUME NEW p \in {"chat", "embed"}, Made <= Budget(p)
      PROVE  /\ Tried(p) \in Nat /\ Tried(p) <= Cost(p)
             /\ Made' = Made => Tried(p)' = Tried(p)
  BY <1>t, <1>m, CostOf DEF Tried
<1>2. CASE Bound
  <2>1. try' = NoTry /\ UNCHANGED <<job, clock, slept, hung, vectors, cancelled>>
        /\ pos = "bound" /\ pos' \in {"chat", "end"}
    BY <1>2 DEF Bound
  <2>2. Made' = 0 /\ Spent' = Spent /\ Tried("chat")' = 0
    BY <1>t, <2>1 DEF Made, Spent, Tried
  <2>3. Spent <= clock
    BY <1>0 DEF CallsTyped, Spent
  <2>4. pos' = "chat" /\ ~forced' => Spent < MaxRun
    BY <1>0, <1>2, <2>3 DEF Bound, CallsTyped, Spent, SpentKept
  <2>5. job = "investigation"
    BY <1>0, <2>1, <1>t DEF VectorsInv, Jobs
  <2>6. SpentKept'
    BY <1>0, <1>t, <2>1, <2>2, <2>4 DEF SpentKept
  <2>7. Budget("chat") \in Nat
    BY CallsAssumption DEF Budget
  <2> QED BY <1>0, <2>1, <2>2, <2>5, <2>6, <2>7 DEF EstimateInv, Modelled
<1>3. CASE Chat
  <2>1. PICK d \in {0, ChatTimeout} : Spend(d)
    BY <1>3 DEF Chat
  <2>2. /\ pos = "chat" /\ ~try.waiting /\ try' = NoTry
        /\ UNCHANGED <<job, forced, slept, hung, vectors>>
        /\ pos' \in {"end", "bound", "embed", "call"} /\ (forced => pos' = "end")
    BY <1>3 DEF Chat
  <2>3. job = "investigation"
    BY <1>0, <1>t, <2>2 DEF VectorsInv, Jobs
  <2>4. Spent' = Spent + d /\ d \in Nat /\ d <= ChatTimeout
    BY <1>0, <2>1, <2>2, <2>3, SpentMore
  <2>5. Made <= Budget("chat")
    BY <2>2 DEF EstimateInv, Modelled
  <2>6. Tried("chat") + ChatTimeout <= ChatCost /\ Tried("chat") \in Nat
    BY <1>t, <2>5, CostOf DEF Tried
  <2>7. Made' = 0 /\ Tried("embed")' = 0 /\ Budget("embed") \in Nat
    BY <1>t, <2>2, CallsAssumption DEF Made, Tried, Budget
  <2>8. SpentKept'
    BY <1>0, <1>t, <2>2, <2>4, <2>6, <2>7 DEF SpentKept
  <2> QED BY <1>0, <2>2, <2>3, <2>7, <2>8 DEF EstimateInv, Modelled
<1>4. CASE Sleep
  <2>0. RetryDelay(try.attempt + 1, try.after) \in Int
    BY <1>0, DelayTyped DEF CallsTyped, Tries
  <2>1. PICK d \in Int :
          Spend(d) /\ slept' = IF job = "investigation" THEN slept + d ELSE slept
    <3> DEFINE delay == RetryDelay(try.attempt + 1, try.after)
    <3>1. (IF cancelled \/ delay < 0 THEN 0 ELSE delay) \in Int
      BY <2>0
    <3> QED BY <1>4, <3>1 DEF Sleep
  <2>2. /\ pos \in {"chat", "embed"} /\ try.waiting
        /\ UNCHANGED <<job, forced, hung, vectors>>
        /\ \/ pos' = "end" /\ try' = NoTry
           \/ pos' = pos /\ try' = [try EXCEPT !.attempt = try.attempt + 1, !.waiting = FALSE]
    BY <1>4 DEF Sleep, Modelled
  <2>3. Spent' = Spent
    <3>1. CASE job = "investigation"
      <4>1. clock' = clock + d /\ slept' = slept + d /\ hung' = hung
        BY <2>1, <2>2, <3>1 DEF Spend
      <4>2. clock' - slept' = clock - slept
        BY <1>0, <4>1, d \in Int DEF CallsTyped
      <4> QED BY <4>1, <4>2 DEF Spent
    <3>2. CASE job # "investigation"
      BY <2>1, <2>2, <3>2 DEF Spend, Spent
    <3> QED BY <3>1, <3>2
  <2>4. Made <= Budget(pos)
    BY <2>2 DEF EstimateInv, Modelled
  <2>5. Tried(pos) \in Nat /\ Tried(pos) <= Cost(pos)
    BY <1>m, <2>2, <2>4
  <2>6. CASE pos' = "end" /\ try' = NoTry
    <3>1. Made' = 0
      BY <1>t, <2>6 DEF Made
    <3>2. SpentKept'
      BY <1>0, <1>t, <2>2, <2>3, <2>5, <2>6 DEF SpentKept
    <3> QED BY <1>0, <2>2, <2>3, <2>6, <3>1, <3>2 DEF EstimateInv, Modelled
  <2>7. CASE pos' = pos /\ try' = [try EXCEPT !.attempt = try.attempt + 1, !.waiting = FALSE]
    <3>1. Made' = Made
      BY <1>0, <2>2, <2>7 DEF Made, CallsTyped, Tries
    <3>2. Tried("chat")' = Tried("chat") /\ Tried("embed")' = Tried("embed")
      BY <3>1 DEF Tried
    <3>3. SpentKept'
      BY <1>0, <2>2, <2>3, <2>7, <3>2 DEF SpentKept
    <3> QED BY <1>0, <2>2, <2>3, <2>4, <2>7, <3>1, <3>3 DEF EstimateInv, Modelled
  <2> QED BY <2>2, <2>6, <2>7
<1>5. CASE EmbedBatch
  <2>1. PICK d \in {0, EmbedTimeout} : Spend(d)
    BY <1>5 DEF EmbedBatch
  <2>2. /\ pos = "embed" /\ ~try.waiting /\ try' = NoTry
        /\ UNCHANGED <<job, forced, slept, hung, cancelled>>
    BY <1>5 DEF EmbedBatch
  <2>3. /\ job = "investigation" => pos' \in {"bound", "search", "end"}
        /\ job = "document" => pos' \in {"embed", "end"}
    BY <1>0, <1>5, <2>2, BatchAdds DEF AfterFailure, VectorsInv
  <2>4. Spent' = (IF job = "investigation" THEN Spent + d ELSE Spent)
        /\ d \in Nat /\ d <= EmbedTimeout
    BY <1>0, <2>1, <2>2, SpentMore
  <2>5. Made <= Budget("embed")
    BY <2>2 DEF EstimateInv, Modelled
  <2>6. Tried("embed") + EmbedTimeout <= EmbedCost /\ Tried("embed") \in Nat
    BY <1>t, <2>5, CostOf DEF Tried
  <2>7. Made' = 0 /\ Tried("embed")' = 0 /\ Budget("embed") \in Nat
    BY <1>t, <2>2, CallsAssumption DEF Made, Tried, Budget
  <2>8. SpentKept'
    <3>1. CASE job = "investigation"
      BY <1>0, <1>t, <2>2, <2>3, <2>4, <2>6, <2>7, <3>1 DEF SpentKept
    <3>2. CASE job = "document"
      BY <1>0, <1>t, <2>2, <2>3, <2>4, <2>7, <3>2 DEF SpentKept, EstimateInv
    <3> QED BY <1>t, <3>1, <3>2 DEF Jobs
  <2>9. job = "document" => Spent' = 0
    BY <2>4 DEF EstimateInv
  <2>10. pos' \in {"bound", "search", "embed", "end"}
    BY <1>t, <2>3 DEF Jobs
  <2> QED BY <1>0, <2>2, <2>7, <2>8, <2>9, <2>10 DEF EstimateInv, Modelled
<1>6. CASE Search
  <2>1. PICK d \in 0..LongestSearch :
          Spend(d) /\ hung' = IF d > SearchTimeout THEN hung + (d - SearchTimeout) ELSE hung
    BY <1>6 DEF Search
  <2>2. /\ pos = "search" /\ pos' \in {"bound", "end"} /\ UNCHANGED <<job, forced, try, slept>>
    BY <1>6 DEF Search
  <2>3. job = "investigation"
    BY <1>0, <1>t, <2>2 DEF VectorsInv, Jobs
  <2>4. Spent' <= Spent + SearchTimeout
    <3>1. clock' = clock + d /\ d \in Nat
      BY <2>1, <2>3 DEF Spend
    <3> QED BY <1>0, <2>1, <2>2, <3>1 DEF Spent, CallsTyped
  <2>5. Spent' \in Int
    BY <1>0 DEF Spent, CallsTyped
  <2>6. SpentKept'
    BY <1>0, <1>t, <2>2, <2>4, <2>5 DEF SpentKept
  <2> QED BY <1>0, <2>2, <2>3, <2>6 DEF EstimateInv, Modelled, Made
<1>7. CASE ToolAnswer \/ ToolDeadline \/ ToolLost
  <2>1. \E status : \E d \in {0, ToolTimeout} : CallEnds(status, d)
    <3>1. CASE ToolAnswer
      BY <3>1 DEF ToolAnswer
    <3>2. CASE ToolDeadline
      BY <3>2 DEF ToolDeadline
    <3>3. CASE ToolLost
      BY <3>3 DEF ToolLost
    <3> QED BY <1>7, <3>1, <3>2, <3>3
  <2>a. PICK status : \E d \in {0, ToolTimeout} : CallEnds(status, d)
    BY <2>1
  <2>b. PICK d \in {0, ToolTimeout} : CallEnds(status, d)
    BY <2>a
  <2>2. /\ pos = "call" /\ pos' \in {"bound", "end"} /\ Spend(d)
        /\ UNCHANGED <<job, forced, try, slept, hung>>
    BY <1>7, <2>b DEF ToolAnswer, ToolDeadline, ToolLost, CallEnds
  <2>3. job = "investigation"
    BY <1>0, <1>t, <2>2 DEF VectorsInv, Jobs
  <2>4. Spent' = Spent + d /\ d \in Nat /\ d <= ToolTimeout
    BY <1>0, <2>2, <2>3, SpentMore
  <2>5. SpentKept'
    BY <1>0, <1>t, <2>2, <2>4 DEF SpentKept
  <2> QED BY <1>0, <2>2, <2>3, <2>5 DEF EstimateInv, Modelled, Made
<1>8. CASE Cancel \/ UNCHANGED callVars
  <2>1. UNCHANGED <<job, pos, forced, try, clock, slept, hung>>
    BY <1>8 DEF Cancel, callVars
  <2>2. Spent' = Spent /\ Made' = Made /\ Tried("chat")' = Tried("chat")
        /\ Tried("embed")' = Tried("embed")
    BY <2>1 DEF Spent, Made, Tried
  <2>3. SpentKept'
    BY <1>0, <2>1, <2>2 DEF SpentKept
  <2> QED BY <1>0, <2>1, <2>2, <2>3 DEF EstimateInv, Modelled
<1>9. ASSUME NEW e \in Errors, RequestFails(e) PROVE EstimateInv'
  <2>1. PICK d \in {0, Limit(pos)} :
          /\ Spend(d)
          /\ \/ /\ try.attempt < Budget(pos) /\ UNCHANGED pos
                /\ \E after : try' = [try EXCEPT !.waiting = TRUE, !.asked = after,
                                                 !.after = RetryAfter(after)]
             \/ pos' = AfterFailure(pos) /\ try' = NoTry
    BY <1>9 DEF RequestFails
  <2>2. /\ pos \in {"chat", "embed"} /\ ~try.waiting
        /\ UNCHANGED <<job, forced, slept, hung>>
    BY <1>9 DEF RequestFails, Modelled
  <2>3. Made <= Budget(pos) /\ Made = try.attempt
    BY <2>2 DEF EstimateInv, Modelled, Made
  <2>4. /\ Limit(pos) \in Nat /\ Limit(pos) * (Made + 1) = Tried(pos) + Limit(pos)
        /\ Tried(pos) + Limit(pos) <= Cost(pos) /\ Tried(pos) \in Nat
    BY <1>t, <2>2, <2>3, CostOf DEF Tried
  <2>5. Spent' = (IF job = "investigation" THEN Spent + d ELSE Spent)
        /\ d \in Nat /\ d <= Limit(pos)
    <3>1. d \in Nat /\ d <= Limit(pos)
      BY <2>4
    <3>2. Spend(d) /\ UNCHANGED <<job, slept, hung>>
      BY <2>1, <2>2
    <3> QED BY <1>0, <3>1, <3>2, SpentMore
  <2>6. CASE pos' = pos /\ try.attempt < Budget(pos) /\ \E after :
               try' = [try EXCEPT !.waiting = TRUE, !.asked = after, !.after = RetryAfter(after)]
    <3>1. Made' = Made + 1 /\ Made' <= Budget(pos)
      <4>1. try'.waiting = TRUE /\ try'.attempt = try.attempt
        BY <1>0, <2>6 DEF CallsTyped, Tries
      <4>2. Budget(pos) \in Nat
        BY <2>2, CallsAssumption DEF Budget
      <4> QED BY <1>t, <2>3, <2>6, <4>1, <4>2 DEF Made
    <3>2. Tried(pos)' = Tried(pos) + Limit(pos)
      BY <2>4, <2>6, <3>1 DEF Tried
    <3>3. SpentKept'
      BY <1>0, <1>t, <2>2, <2>4, <2>5, <2>6, <3>2 DEF SpentKept
    <3> QED BY <1>0, <2>2, <2>5, <2>6, <3>1, <3>3 DEF EstimateInv, Modelled
  <2>7. CASE pos' = AfterFailure(pos) /\ try' = NoTry
    <3>1. Made' = 0 /\ pos' \in {"end", "bound"} /\ (pos = "chat" => pos' = "end")
      BY <1>t, <2>7 DEF Made, AfterFailure
    <3>2. SpentKept'
      BY <1>0, <1>t, <2>2, <2>4, <2>5, <3>1 DEF SpentKept
    <3> QED BY <1>0, <2>2, <2>5, <3>1, <3>2 DEF EstimateInv, Modelled
  <2> QED BY <2>1, <2>6, <2>7
<1> QED BY <1>2, <1>3, <1>4, <1>5, <1>6, <1>7, <1>8, <1>9 DEF Next, vars

(* What any place allows is within the estimate.                           *)
LEMMA EstimateEnough == EstimateInv => EstimateHolds
<1> SUFFICES ASSUME EstimateInv PROVE EstimateHolds
  OBVIOUS
<1>1. Spent \in Int /\ pos \in Places
  BY DEF EstimateInv, CallsTyped, Spent
<1>2. ASSUME NEW p \in {"chat", "embed"}, Made <= Budget(p)
      PROVE  Tried(p) \in Nat /\ Tried(p) <= Cost(p)
  <2>1. Made \in Nat
    BY DEF EstimateInv, CallsTyped, Made, Tries
  <2> QED BY <1>2, <2>1, CostOf DEF Tried
<1>3. Spent <= MaxRun + ChatCost + StepCost + ChatCost
  BY <1>1, <1>2, Costs DEF EstimateInv, SpentKept, Modelled, Places
<1> QED BY <1>3, Costs DEF EstimateHolds, Spent

-----------------------------------------------------------------------------
(* What a call is recorded as                                              *)

(* What the row says when this is what became of the call.                 *)
Truth(why) == CASE why \in {"none", "cut"} -> "OK"
                [] why = "model" -> "REFUSED"
                [] why = "deadline" -> "TIMEOUT"
                [] why \in {"dependency", "late body"} -> "ERROR"

Faults == {"none", "cut", "model", "deadline", "dependency", "late body"}

(* The answers a handler gives, and what each is the answer to.            *)
Answers(r, why) ==
  \/ why \in {"none", "cut"} /\ \E text \in Texts \cup {<<>>} : r = Ok(text)
  \/ why = "model" /\ \E text \in Texts : r \in {Refused(text), Rejected(text)}
  \/ why = "deadline" /\ \E note \in Texts : r = Failed("timeout", note)
  \/ why \in {"dependency", "late body"} /\ \E note \in Texts : r = Failed("error", note)

(* A tool's step answers the call or leaves the answer alone.              *)
LEMMA ToolSteps ==
  ASSUME ToolNext
  PROVE  /\ UNCHANGED calling /\ srv # "answered"
         /\ \/ srv' = "answered" /\ Answers(reply', fault')
            \/ srv' # "answered" /\ UNCHANGED <<reply, fault, view>>
<1> USE DEF Answer, Answers, Refuse, Fail
<1>1. CASE ReadServiceLogs
  <2>1. \/ Refuse
        \/ Fail("error", "dependency")
        \/ srv' = "scanning" /\ UNCHANGED <<reply, fault>>
    BY <1>1 DEF ReadServiceLogs
  <2> QED BY <1>1, <2>1 DEF ReadServiceLogs
<1>2. CASE ScanLog
  <2>1. \/ Fail("timeout", "deadline")
        \/ UNCHANGED <<srv, reply, fault, view>>
        \/ \E text \in Texts : Answer(Ok(text), "none")
    BY <1>2 DEF ScanLog
  <2> QED BY <1>2, <2>1 DEF ScanLog
<1>3. CASE ScanFails
  BY <1>3 DEF ScanFails
<1>4. CASE PrometheusQuery
  BY <1>4 DEF PrometheusQuery
<1>5. CASE GetPrometheus
  BY <1>5 DEF GetPrometheus
<1>6. CASE ReadBody
  BY <1>6 DEF ReadBody, BodyLost, Undecodable, OverCap, RenderValues, RenderSeries
<1>7. CASE HttpProbe
  BY <1>7 DEF HttpProbe
<1>8. CASE Probe
  BY <1>8 DEF Probe
<1>9. CASE Deadline
  BY <1>9 DEF Deadline
<1>10. CASE SchemaRejects
  BY <1>10 DEF SchemaRejects
<1>11. ASSUME NEW line \in Lines, LogLine(line)
       PROVE  UNCHANGED <<calling, srv, reply, fault, view>> /\ srv # "answered"
  BY <1>11 DEF LogLine
<1> QED BY <1>1, <1>2, <1>3, <1>4, <1>5, <1>6, <1>7, <1>8, <1>9, <1>10, <1>11 DEF ToolNext

(* Envelope, SDK, session and agent keep what the handler said.            *)
LEMMA AnswerConveyed ==
  ASSUME NEW r, NEW why, Answers(r, why)
  PROVE  why \in Faults /\ StatusOf(Result(r)) = Truth(why)
<1> USE DEF Faults
<1>1. CASE why \in {"none", "cut"} /\ \E text \in Texts \cup {<<>>} : r = Ok(text)
  <2>1. r.kind = "ok" /\ r.isError = FALSE /\ r.refused = FALSE /\ r.meta = TRUE
    BY <1>1 DEF Ok
  <2>2. StatusOf(Result(r)) = "OK"
    BY <2>1 DEF StatusOf, Result, StatusFor
  <2>3. Truth(why) = "OK"
    BY <1>1 DEF Truth
  <2> QED BY <1>1, <2>2, <2>3
<1>2. CASE why = "model" /\ \E text \in Texts : r = Refused(text)
  <2>1. r.kind = "ok" /\ r.isError = FALSE /\ r.refused = TRUE /\ r.meta = TRUE
    BY <1>2 DEF Ok, Refused
  <2>2. StatusOf(Result(r)) = "REFUSED"
    BY <2>1 DEF StatusOf, Result, StatusFor
  <2> QED BY <1>2, <2>2 DEF Truth
<1>3. CASE why = "model" /\ \E text \in Texts : r = Rejected(text)
  <2>1. r.isError = TRUE /\ r.meta = FALSE
    BY <1>3 DEF Failed, Rejected
  <2>2. StatusOf(Result(r)) = "REFUSED"
    BY <2>1 DEF StatusOf, Result
  <2> QED BY <1>3, <2>2 DEF Truth
<1>4. CASE why = "deadline" /\ \E note \in Texts : r = Failed("timeout", note)
  <2>0. PICK note : r = Failed("timeout", note)
    BY <1>4
  <2>1. r.kind = "timeout" /\ r.isError = TRUE /\ r.refused = FALSE /\ r.meta = TRUE
    BY <2>0 DEF Failed
  <2>2. StatusOf(Result(r)) = "TIMEOUT"
    BY <2>1 DEF StatusOf, Result, StatusFor
  <2> QED BY <1>4, <2>2 DEF Truth
<1>5. CASE why \in {"dependency", "late body"} /\ \E note \in Texts : r = Failed("error", note)
  <2>0. PICK note : r = Failed("error", note)
    BY <1>5
  <2>1. r.kind = "error" /\ r.isError = TRUE /\ r.refused = FALSE /\ r.meta = TRUE
    BY <2>0 DEF Failed
  <2>2. StatusOf(Result(r)) = "ERROR"
    BY <2>1 DEF StatusOf, Result, StatusFor
  <2>3. Truth(why) = "ERROR"
    BY <1>5 DEF Truth
  <2> QED BY <1>5, <2>2, <2>3
<1> QED BY <1>1, <1>2, <1>3, <1>4, <1>5 DEF Answers

(* The inductive invariant of a call's status: the answer in hand is what  *)
(* the fault calls for, and a row is written when the call is over.        *)
StatusInv ==
  /\ srv = "answered" => pos = "call" /\ Answers(reply, fault)
  /\ pos \notin {"bound", "end"} => row = "none"
  /\ row # "none" => fault \in Faults /\ row = Truth(fault)

(* No call has been answered at the start.                                 *)
LEMMA StatusInit == Init => StatusInv
BY DEF Init, ToolInit, StatusInv

(* Every step keeps the answer, the fault and the row in agreement.        *)
LEMMA StatusStep == StatusInv /\ [Next]_vars => StatusInv'
<1> SUFFICES ASSUME StatusInv, [Next]_vars PROVE StatusInv'
  OBVIOUS
<1>1. CASE Bound
  BY <1>1 DEF Bound, StatusInv
<1>2. CASE Chat
  <2>1. row = "none" /\ srv # "answered" /\ UNCHANGED <<srv, reply>>
    BY <1>2 DEF Chat, StatusInv
  <2>2. \/ UNCHANGED row
        \/ pos' = "bound" /\ fault' = "model" /\ row' \in {"none", "REFUSED"}
    BY <1>2 DEF Chat
  <2>3. Truth("model") = "REFUSED" /\ "model" \in Faults
    BY DEF Truth, Faults
  <2> QED BY <2>1, <2>2, <2>3 DEF StatusInv
<1>3. ASSUME UNCHANGED <<toolVars, row>>, pos \notin {"bound", "call", "end"}
      PROVE  StatusInv'
  BY <1>3 DEF StatusInv, toolVars
<1>4. CASE Sleep \/ EmbedBatch \/ Search
  BY <1>3, <1>4 DEF Sleep, EmbedBatch, Search, Modelled
<1>5. ASSUME NEW e \in Errors, RequestFails(e) PROVE StatusInv'
  BY <1>3, <1>5 DEF RequestFails, Modelled
<1>6. ASSUME NEW status, NEW d, CallEnds(status, d),
             fault' \in Faults /\ status = Truth(fault')
      PROVE  StatusInv'
  BY <1>6 DEF CallEnds, StatusInv
<1>7. CASE ToolAnswer
  <2>1. fault \in Faults /\ StatusOf(Result(reply)) = Truth(fault) /\ fault' = fault
    BY <1>7, AnswerConveyed DEF ToolAnswer, StatusInv
  <2> QED BY <1>6, <1>7, <2>1 DEF ToolAnswer
<1>8. CASE ToolDeadline
  BY <1>6, <1>8 DEF ToolDeadline, Truth, Faults
<1>9. CASE ToolLost
  BY <1>6, <1>9 DEF ToolLost, Truth, Faults
<1>10. CASE Cancel
  BY <1>10 DEF Cancel, StatusInv, toolVars
<1>11. CASE ToolNext /\ pos = "call" /\ UNCHANGED callVars
  BY <1>11, ToolSteps DEF StatusInv, callVars
<1>12. CASE UNCHANGED vars
  BY <1>12 DEF vars, toolVars, callVars, StatusInv
<1> QED BY <1>1, <1>2, <1>4, <1>5, <1>7, <1>8, <1>9, <1>10, <1>11, <1>12 DEF Next

(* A row that agrees with the fault is a true one.                         *)
LEMMA StatusEnough == StatusInv => StatusIsTrue
BY DEF StatusInv, StatusIsTrue, Truth, Faults

-----------------------------------------------------------------------------
(* The size of an answer                                                   *)

(* A bounded set of naturals has a greatest one.                           *)
LEMMA Largest ==
  ASSUME NEW n \in Nat, NEW T, T \subseteq 0..n, T # {}
  PROVE  \E x \in T : \A y \in T : y <= x
<1> DEFINE U == {n - y : y \in T}
<1>1. U \subseteq Nat /\ U # {}
  <2>1. ASSUME NEW y \in T PROVE n - y \in Nat
    <3>1. y \in 0..n
      OBVIOUS
    <3> QED BY <3>1
  <2> QED BY <2>1
<1>2. PICK z \in U : \A y \in U : z <= y
  <2> HIDE DEF U
  <2> QED BY <1>1, Smallest
<1>3. PICK x \in T : z = n - x
  BY <1>2
<1>4. ASSUME NEW y \in T PROVE y <= x
  <2>1. n - y \in U /\ x \in 0..n /\ y \in 0..n
    OBVIOUS
  <2>2. z <= n - y
    BY <1>2, <2>1
  <2> QED BY <1>3, <2>1, <2>2
<1> QED BY <1>4

(* The bytes of each start of a text.                                      *)
Sums(u, text) ==
  /\ u \in [0..Len(text) -> Nat] /\ u[0] = 0
  /\ \A k \in 1..Len(text) : u[k] = u[k - 1] + text[k]

(* The bytes of a text are the last of the sums over its starts.           *)
LEMMA Summed ==
  ASSUME NEW text \in Seq(1..4)
  PROVE  \E u : Sums(u, text) /\ Bytes(text) = u[Len(text)]
<1> DEFINE n == Len(text)
           step == [z \in (1..n) \X Nat |-> z[2] + text[z[1]]]
           Eq(u) == u = [k \in 0..n |-> IF k = 0 THEN 0 ELSE u[k - 1] + text[k]]
           U == CHOOSE u : Eq(u)
<1>1. n \in Nat /\ \A k \in 1..n : text[k] \in 1..4
  OBVIOUS
<1>2. PICK f : Rounds(f, n, Nat, 0, step)
  <2>1. step \in [(1..n) \X Nat -> Nat]
    BY <1>1
  <2> HIDE DEF step, n
  <2> QED BY <1>1, <2>1, Loop
<1>3. f \in [0..n -> Nat] /\ f[0] = 0
  BY <1>2 DEF Rounds
<1>4. ASSUME NEW k \in 1..n PROVE f[k] = f[k - 1] + text[k]
  <2>1. k - 1 \in 0..n
    BY <1>1
  <2>2. f[k - 1] \in Nat
    BY <1>3, <2>1
  <2>3. f[k] = step[<<k, f[k - 1]>>]
    <3> HIDE DEF step, n
    <3> QED BY <1>2 DEF Rounds
  <2> QED BY <2>2, <2>3
<1>5. Eq(f)
  BY <1>1, <1>3, <1>4
<1>6. Eq(U)
  <2> HIDE DEF Eq
  <2> QED BY <1>5
<1>7. \A k \in 0..n : U[k] = IF k = 0 THEN 0 ELSE U[k - 1] + text[k]
  <2> HIDE DEF U
  <2> QED BY <1>6
<1>8. U = [k \in 0..n |-> U[k]]
  <2> HIDE DEF U
  <2> QED BY <1>6
<1> HIDE DEF U, step
<1>9. \A k \in 0..n : U[k] = f[k]
  <2> DEFINE T == {k \in 0..n : U[k] = f[k]}
  <2>1. 0 \in T
    BY <1>1, <1>3, <1>7
  <2>2. ASSUME NEW k \in 1..n, k - 1 \in T PROVE k \in T
    BY <1>1, <1>4, <1>7, <2>2
  <2>3. \A k \in 0..n : k \in T
    <3> HIDE DEF T, n
    <3> QED BY <1>1, <2>1, <2>2, Induct
  <2> QED BY <2>3
<1>10. Bytes(text) = U[n]
  BY DEF Bytes, U
<1>11. Sums(f, text)
  BY <1>3, <1>4 DEF Sums
<1> QED BY <1>1, <1>9, <1>10, <1>11

(* The same sums are the bytes of the starts themselves.                   *)
LEMMA SummedStarts ==
  ASSUME NEW text \in Seq(1..4)
  PROVE  \E u : Sums(u, text) /\ \A n \in 0..Len(text) : Bytes(SubSeq(text, 1, n)) = u[n]
<1>1. PICK u : Sums(u, text)
  BY Summed
<1>2. ASSUME NEW n \in 0..Len(text) PROVE Bytes(SubSeq(text, 1, n)) = u[n]
  <2> DEFINE start == SubSeq(text, 1, n)
  <2>1. start \in Seq(1..4) /\ Len(start) = n /\ \A k \in 1..n : start[k] = text[k]
    OBVIOUS
  <2>2. PICK v : Sums(v, start) /\ Bytes(start) = v[Len(start)]
    <3> HIDE DEF start
    <3> QED BY <2>1, Summed
  <2> DEFINE T == {k \in 0..n : u[k] = v[k]}
  <2>3. 0 \in T
    BY <1>1, <2>2 DEF Sums
  <2>4. ASSUME NEW k \in 1..n, k - 1 \in T PROVE k \in T
    <3>1. k \in 1..Len(text) /\ k \in 1..Len(start)
      BY <2>1
    <3>2. u[k] = u[k - 1] + text[k] /\ v[k] = v[k - 1] + start[k]
      BY <1>1, <2>2, <3>1 DEF Sums
    <3> QED BY <2>1, <2>4, <3>2
  <2>5. n \in Nat
    OBVIOUS
  <2>6. \A k \in 0..n : k \in T
    <3> HIDE DEF T
    <3> QED BY <2>3, <2>4, <2>5, Induct
  <2> QED BY <2>1, <2>2, <2>5, <2>6
<1> QED BY <1>1, <1>2

(* A text that does not fit is cut where the next rune would not.          *)
LEMMA CapFits ==
  ASSUME NEW text \in Seq(1..4), NEW limit \in Nat
  PROVE  LET size == Bytes(CapAt(text, limit)) IN
         /\ size \in Nat /\ size <= limit /\ Bytes(text) \in Nat
         /\ Bytes(text) > limit => size > limit - 4
<1>1. PICK u : Sums(u, text) /\ \A n \in 0..Len(text) : Bytes(SubSeq(text, 1, n)) = u[n]
  BY SummedStarts
<1> DEFINE fits == {n \in 0..Len(text) : Bytes(SubSeq(text, 1, n)) <= limit}
           most == CHOOSE n \in fits : \A m \in fits : m <= n
<1>2. Len(text) \in Nat /\ u \in [0..Len(text) -> Nat] /\ u[0] = 0
  BY <1>1 DEF Sums
<1>3. 0 \in fits
  BY <1>1, <1>2
<1>4. most \in fits /\ \A m \in fits : m <= most
  <2>1. \E n \in fits : \A m \in fits : m <= n
    <3>1. fits \subseteq 0..Len(text)
      OBVIOUS
    <3> HIDE DEF fits
    <3> QED BY <1>2, <1>3, <3>1, Largest
  <2> HIDE DEF fits
  <2> QED BY <2>1
<1> HIDE DEF most
<1>5. CapAt(text, limit) = SubSeq(text, 1, most)
  BY DEF CapAt, most
<1>6. most \in 0..Len(text) /\ Bytes(CapAt(text, limit)) = u[most] /\ u[most] <= limit
  BY <1>1, <1>4, <1>5
<1>7. Bytes(text) = u[Len(text)]
  <2>1. SubSeq(text, 1, Len(text)) = text
    OBVIOUS
  <2> QED BY <1>1, <1>2, <2>1
<1>8. ASSUME u[Len(text)] > limit PROVE u[most] > limit - 4
  <2>1. most # Len(text)
    BY <1>2, <1>6, <1>8
  <2>2. most + 1 \in 1..Len(text) /\ most + 1 - 1 = most
    BY <1>2, <1>6, <2>1
  <2>3. most + 1 \notin fits
    BY <1>4, <1>6
  <2>4. u[most + 1] > limit
    BY <1>1, <1>2, <2>2, <2>3
  <2>5. text[most + 1] \in 1..4
    BY <2>2
  <2>6. u[most + 1] = u[most] + text[most + 1] /\ u[most] \in Nat
    BY <1>1, <1>2, <1>6, <2>2 DEF Sums
  <2> QED BY <2>4, <2>5, <2>6
<1> QED BY <1>2, <1>6, <1>7, <1>8

ReplyFits(r) ==
  ~r.isError =>
  /\ r.size <= LimitBytes
  /\ r.truncated <=> r.original > LimitBytes
  /\ r.truncated => r.size > LimitBytes - 4

(* Every answer a handler gives that is no error fits the cap.             *)
LEMMA AnswersFit ==
  ASSUME NEW r, NEW why, Answers(r, why)
  PROVE  ReplyFits(r)
<1>1. LimitBytes \in Nat /\ MarkerBytes \in 0..LimitBytes /\ LimitBytes - MarkerBytes \in Nat
  BY ToolsAssumption
<1>2. ASSUME NEW text \in Texts \cup {<<>>} PROVE ReplyFits(Ok(text))
  <2>1. text \in Seq(1..4)
    <3>1. CASE text \in Texts
      BY <3>1, ToolsAssumption
    <3>2. CASE text = <<>>
      BY <3>2
    <3> QED BY <3>1, <3>2
  <2> DEFINE size(n) == Bytes(CapAt(text, n))
  <2>2. CASE Bytes(text) > LimitBytes
    <3>1. /\ Ok(text).truncated = TRUE /\ Ok(text).original = Bytes(text)
          /\ Ok(text).size = size(LimitBytes - MarkerBytes) + MarkerBytes
      BY <2>2 DEF Ok
    <3>2. /\ size(LimitBytes - MarkerBytes) \in Nat /\ Bytes(text) \in Nat
          /\ size(LimitBytes - MarkerBytes) <= LimitBytes - MarkerBytes
          /\ Bytes(text) > LimitBytes - MarkerBytes =>
               size(LimitBytes - MarkerBytes) > LimitBytes - MarkerBytes - 4
      BY <1>1, <2>1, CapFits
    <3> HIDE DEF size
    <3> QED BY <1>1, <2>2, <3>1, <3>2 DEF ReplyFits
  <2>3. CASE ~(Bytes(text) > LimitBytes)
    <3>1. /\ ~Ok(text).truncated /\ Ok(text).original = Bytes(text)
          /\ Ok(text).size = size(LimitBytes)
      BY <2>3 DEF Ok
    <3>2. size(LimitBytes) <= LimitBytes
      BY <1>1, <2>1, CapFits
    <3> HIDE DEF size
    <3> QED BY <1>1, <2>3, <3>1, <3>2 DEF ReplyFits
  <2> QED BY <2>2, <2>3
<1>3. ASSUME NEW text \in Texts PROVE ReplyFits(Refused(text))
  <2>1. ReplyFits(Ok(text)) /\ Ok(text).isError = FALSE
    BY <1>2 DEF Ok
  <2>2. /\ Refused(text).size = Ok(text).size /\ Refused(text).original = Ok(text).original
        /\ Refused(text).truncated = Ok(text).truncated
    BY DEF Refused, Ok
  <2> QED BY <2>1, <2>2 DEF ReplyFits
<1>4. ASSUME NEW kind, NEW note PROVE ReplyFits(Failed(kind, note))
  BY DEF Failed, ReplyFits
<1>5. ASSUME NEW note PROVE ReplyFits(Rejected(note))
  BY DEF Rejected, Failed, ReplyFits
<1> QED BY <1>2, <1>3, <1>4, <1>5 DEF Answers

(* Every step leaves an answer that fits, an error, or none.               *)
LEMMA FitsStep == ResultFits /\ [Next]_vars => ResultFits'
<1> SUFFICES ASSUME ResultFits, [Next]_vars PROVE ResultFits'
  OBVIOUS
<1>1. ASSUME reply' \in {reply, None} PROVE ResultFits'
  BY <1>1 DEF ResultFits
<1>2. ASSUME ToolNext PROVE ResultFits'
  <2>1. CASE Answers(reply', fault')
    <3>1. ReplyFits(reply')
      BY <2>1, AnswersFit
    <3> QED BY <3>1 DEF ReplyFits, ResultFits
  <2> QED BY <1>1, <1>2, <2>1, ToolSteps
<1>3. CASE Bound \/ Chat \/ Sleep \/ EmbedBatch \/ Search \/ Cancel \/ UNCHANGED vars
  BY <1>1, <1>3 DEF Bound, Chat, Sleep, EmbedBatch, Search, Cancel, vars, toolVars
<1>4. CASE ToolAnswer \/ ToolDeadline \/ ToolLost
  BY <1>1, <1>4 DEF ToolAnswer, ToolDeadline, ToolLost, CallEnds
<1>5. ASSUME NEW e \in Errors, RequestFails(e) PROVE ResultFits'
  BY <1>1, <1>5 DEF RequestFails, toolVars
<1> QED BY <1>2, <1>3, <1>4, <1>5 DEF Next

-----------------------------------------------------------------------------
(* The series shown                                                        *)

(* What an integer quotient is.                                            *)
LEMMA Quotient ==
  ASSUME NEW x \in Nat, NEW b \in Nat \ {0}
  PROVE  x \div b \in Nat /\ (x \div b) * b <= x /\ x < (x \div b) * b + b
<1> DEFINE q == x \div b
           r == x % b
<1>1. q \in Int /\ r \in 0..b - 1 /\ x = b * q + r
  BY SMT
<1> HIDE DEF q, r
<1>2. q >= 0
  <2>1. ASSUME q <= -1 PROVE FALSE
    <3>1. b * q <= b * (-1)
      BY <1>1, <2>1, SMT
    <3> QED BY <1>1, <3>1, SMT
  <2> QED BY <1>1, <2>1
<1>3. b * q = q * b
  BY <1>1, SMT
<1>4. q \in Nat /\ q * b <= x /\ x < q * b + b
  BY <1>1, <1>2, <1>3
<1> QED BY <1>4 DEF q

(* Of two multiples the lesser is of the lesser number.                    *)
LEMMA Cancels ==
  ASSUME NEW x \in Int, NEW y \in Int, NEW b \in Nat \ {0}, x * b < y * b
  PROVE  x < y
<1>1. ASSUME y <= x PROVE FALSE
  <2>1. y * b <= x * b
    BY <1>1, SMT
  <2> QED BY <2>1, SMT
<1> QED BY <1>1

(* What is shown of a series: its ends, and points evenly between.         *)
Even(s, len, n) ==
  /\ Len(s) = LesserOf(len, n)
  /\ s[1] = 1 /\ s[Len(s)] = len
  /\ \A i \in 1..(Len(s) - 1) :
       /\ s[i] < s[i + 1]
       /\ \A j \in 1..(Len(s) - 1) : (s[i + 1] - s[i]) - (s[j + 1] - s[j]) <= 1

(* A series that is shown in part is shown from end to end, evenly.        *)
LEMMA SampleEven ==
  ASSUME NEW len \in Nat \ {0}, NEW n \in Nat \ {0, 1}
  PROVE  Even(Sample(len, n), len, n)
<1>1. CASE len <= n
  <2> DEFINE s == [i \in 1..len |-> i]
  <2>1. Sample(len, n) = s /\ LesserOf(len, n) = len
    BY <1>1 DEF Sample, LesserOf
  <2>2. Len(s) = len /\ \A i \in 1..len : s[i] = i
    OBVIOUS
  <2> HIDE DEF s
  <2>3. Even(s, len, n)
    BY <2>1, <2>2 DEF Even
  <2> QED BY <2>1, <2>3
<1>2. CASE ~(len <= n)
  <2> DEFINE a == len - 1
             b == n - 1
             q(k) == (k * a) \div b
             s == [i \in 1..n |-> q(i - 1) + 1]
  <2>1. Sample(len, n) = s /\ LesserOf(len, n) = n
    BY <1>2 DEF Sample, LesserOf
  <2>2. a \in Nat /\ b \in Nat \ {0} /\ b < a
    BY <1>2
  <2>3. Len(s) = n /\ \A i \in 1..n : s[i] = q(i - 1) + 1
    OBVIOUS
  <2> HIDE DEF a, b, s
  <2>4. ASSUME NEW k \in Nat
        PROVE  q(k) \in Nat /\ q(k) * b <= k * a /\ k * a < q(k) * b + b
    <3>1. k * a \in Nat
      BY <2>2, SMT
    <3> QED BY <2>2, <3>1, Quotient
  <2> HIDE DEF q
  <2>5. ASSUME NEW k \in Nat
        PROVE  /\ q(k + 1) - q(k) \in Int
               /\ (a - b) < (q(k + 1) - q(k)) * b /\ (q(k + 1) - q(k)) * b < a + b
    <3>1. (k + 1) * a = k * a + a /\ k * a \in Int
      BY <2>2, SMT
    <3>2. /\ q(k) \in Nat /\ q(k) * b <= k * a /\ k * a < q(k) * b + b
          /\ q(k + 1) \in Nat /\ q(k + 1) * b <= (k + 1) * a
          /\ (k + 1) * a < q(k + 1) * b + b
      BY <2>4
    <3>3. /\ (q(k + 1) - q(k)) * b = q(k + 1) * b - q(k) * b
          /\ q(k) * b \in Int /\ q(k + 1) * b \in Int
      BY <2>2, <3>2, SMT
    <3> QED BY <2>2, <3>1, <3>2, <3>3
  <2>6. s[1] = 1
    <3>1. 0 * a = 0
      BY <2>2, SMT
    <3>2. q(0) \in Nat /\ q(0) * b <= 0
      BY <2>4, <3>1
    <3>3. q(0) * b < 1 * b
      BY <2>2, <3>2, SMT
    <3>4. q(0) < 1
      BY <2>2, <3>2, <3>3, Cancels
    <3> QED BY <2>3, <3>2, <3>4
  <2>7. s[n] = len
    <3>1. q(b) \in Nat /\ q(b) * b <= b * a /\ b * a < q(b) * b + b
      BY <2>2, <2>4
    <3>2. q(b) * b < (a + 1) * b /\ a * b < (q(b) + 1) * b
      BY <2>2, <3>1, SMT
    <3>3. q(b) < a + 1 /\ a < q(b) + 1
      BY <2>2, <3>1, <3>2, Cancels
    <3>4. q(b) = a
      BY <2>2, <3>1, <3>3
    <3> QED BY <2>3, <3>4 DEF a, b
  <2>8. ASSUME NEW i \in 1..(n - 1)
        PROVE  /\ s[i + 1] - s[i] \in Int
               /\ a - b < (s[i + 1] - s[i]) * b /\ (s[i + 1] - s[i]) * b < a + b
               /\ s[i] \in Nat /\ s[i + 1] \in Nat
    <3>1. /\ i - 1 \in Nat /\ i - 1 + 1 = i /\ i \in Nat /\ i \in 1..n /\ i + 1 \in 1..n
          /\ i + 1 - 1 = i
      OBVIOUS
    <3>2. s[i] = q(i - 1) + 1 /\ s[i + 1] = q(i) + 1
      BY <2>3, <3>1
    <3>3. q(i - 1) \in Nat /\ q(i) \in Nat
      BY <2>4, <3>1
    <3>4. /\ (a - b) < (q(i) - q(i - 1)) * b /\ (q(i) - q(i - 1)) * b < a + b
      BY <2>5, <3>1
    <3>5. s[i + 1] - s[i] = q(i) - q(i - 1)
      BY <3>2, <3>3
    <3> QED BY <3>2, <3>3, <3>4, <3>5
  <2>9. ASSUME NEW i \in 1..(n - 1) PROVE s[i] < s[i + 1]
    <3>1. 0 * b < (s[i + 1] - s[i]) * b
      <4>1. 0 * b = 0
        BY <2>2, SMT
      <4>2. (s[i + 1] - s[i]) * b \in Int
        BY <2>2, <2>8, SMT
      <4> QED BY <2>2, <2>8, <4>1, <4>2
    <3>2. 0 < s[i + 1] - s[i]
      BY <2>2, <2>8, <3>1, Cancels
    <3> QED BY <2>8, <3>2
  <2>10. ASSUME NEW i \in 1..(n - 1), NEW j \in 1..(n - 1)
         PROVE  (s[i + 1] - s[i]) - (s[j + 1] - s[j]) <= 1
    <3> DEFINE g == s[i + 1] - s[i]
               h == s[j + 1] - s[j]
    <3>1. g \in Int /\ h \in Int /\ g * b < a + b /\ a - b < h * b
      BY <2>8
    <3> HIDE DEF g, h
    <3>2. (g - h) * b < 2 * b
      <4>1. (g - h) * b = g * b - h * b /\ g * b \in Int /\ h * b \in Int
        BY <2>2, <3>1, SMT
      <4> QED BY <2>2, <3>1, <4>1
    <3>3. g - h < 2
      BY <2>2, <3>1, <3>2, Cancels
    <3>4. g - h <= 1
      BY <3>1, <3>3
    <3> QED BY <3>4 DEF g, h
  <2>11. Even(s, len, n)
    BY <2>1, <2>3, <2>6, <2>7, <2>9, <2>10 DEF Even
  <2> QED BY <2>1, <2>11
<1> QED BY <1>1, <1>2

(* What the summary of the first k points of a series says.                *)
Summary(st, points, k) ==
  LET Known(v) == v # NaN /\ \E i \in 1..Len(points) : v = points[i] IN
  /\ k > 0 => st.last = points[k]
  /\ points[1] # NaN =>
       /\ Known(st.min) /\ Known(st.max)
       /\ \A i \in 1..k : points[i] # NaN => st.min <= points[i] /\ points[i] <= st.max

(* One more point, whatever it is.                                         *)
LEMMA WithOneMore ==
  ASSUME NEW points \in Seq(Values \cup {NaN}), NEW k \in 1..Len(points), NEW st,
         Summary(st, points, k - 1)
  PROVE  Summary(With(st, points[k]), points, k)
<1> DEFINE new == With(st, points[k])
           p == points[k]
<1>1. /\ Values \subseteq Int /\ NaN \notin Values
      /\ \A i \in 1..Len(points) : points[i] \in Values \cup {NaN}
  BY ToolsAssumption
<1>2. /\ new.min = IF Less(p, st.min) THEN p ELSE st.min
      /\ new.max = IF Less(st.max, p) THEN p ELSE st.max
      /\ new.last = p
  BY DEF With
<1> HIDE DEF new
<1>3. ASSUME points[1] # NaN
      PROVE  /\ new.min # NaN /\ new.max # NaN
             /\ \E i \in 1..Len(points) : new.min = points[i]
             /\ \E i \in 1..Len(points) : new.max = points[i]
             /\ \A i \in 1..k : points[i] # NaN => new.min <= points[i] /\ points[i] <= new.max
  <2>1. /\ st.min # NaN /\ \E i \in 1..Len(points) : st.min = points[i]
        /\ st.max # NaN /\ \E i \in 1..Len(points) : st.max = points[i]
        /\ \A i \in 1..k - 1 : points[i] # NaN => st.min <= points[i] /\ points[i] <= st.max
    BY <1>3 DEF Summary
  <2>2. st.min \in Int /\ st.max \in Int /\ (p # NaN => p \in Int)
    BY <1>1, <2>1
  <2>3. \A i \in 1..Len(points) : points[i] # NaN => points[i] \in Int
    BY <1>1
  <2>4. /\ new.min # NaN /\ \E i \in 1..Len(points) : new.min = points[i]
        /\ new.max # NaN /\ \E i \in 1..Len(points) : new.max = points[i]
    BY <1>2, <2>1 DEF Less
  <2>5. new.min \in Int /\ new.max \in Int /\ new.min <= st.min /\ st.max <= new.max
    BY <1>2, <2>2 DEF Less
  <2>6. p # NaN => new.min <= p /\ p <= new.max
    BY <1>2, <2>1, <2>2 DEF Less
  <2>7. ASSUME NEW i \in 1..k, points[i] # NaN
        PROVE  new.min <= points[i] /\ points[i] <= new.max
    <3>1. CASE i = k
      BY <2>6, <2>7, <3>1
    <3>2. CASE i # k
      <4>1. i \in 1..k - 1 /\ i \in 1..Len(points)
        BY <3>2
      <4>2. st.min <= points[i] /\ points[i] <= st.max /\ points[i] \in Int
        BY <2>1, <2>3, <2>7, <4>1
      <4> QED BY <2>2, <2>5, <4>2
    <3> QED BY <3>1, <3>2
  <2> QED BY <2>4, <2>7
<1>4. Summary(new, points, k)
  BY <1>2, <1>3 DEF Summary
<1> QED BY <1>4 DEF new

(* The summary of a series: the loop over its points.                      *)
LEMMA Described ==
  ASSUME NEW points \in Seq(Values \cup {NaN}), Len(points) # 0
  PROVE  Summary(Describe(points), points, Len(points))
<1> DEFINE n == Len(points)
           D == Values \cup {NaN}
           V == [min : D, max : D, last : D]
           first == [min |-> points[1], max |-> points[1], last |-> points[1]]
           step == [z \in (1..n) \X V |-> With(z[2], points[z[1]])]
           Eq(u) == u = [k \in 0..n |-> IF k = 0 THEN first ELSE With(u[k - 1], points[k])]
           U == CHOOSE u : Eq(u)
<1>1. n \in Nat \ {0} /\ \A k \in 1..n : points[k] \in D
  OBVIOUS
<1>2. first \in V
  BY <1>1
<1>3. ASSUME NEW st \in V, NEW p \in D PROVE With(st, p) \in V
  <2>1. st.min \in D /\ st.max \in D
    OBVIOUS
  <2> HIDE DEF D
  <2> QED BY <2>1 DEF With
<1>4. PICK f : Rounds(f, n, V, first, step)
  <2>1. step \in [(1..n) \X V -> V]
    <3> HIDE DEF V, D
    <3> QED BY <1>1, <1>3
  <2> HIDE DEF step, n, V, first
  <2> QED BY <1>1, <1>2, <2>1, Loop
<1>5. f \in [0..n -> V] /\ f[0] = first
  BY <1>4 DEF Rounds
<1>6. ASSUME NEW k \in 1..n PROVE f[k] = With(f[k - 1], points[k])
  <2>1. k - 1 \in 0..n
    BY <1>1
  <2>2. f[k - 1] \in V
    <3> HIDE DEF V
    <3> QED BY <1>5, <2>1
  <2>3. f[k] = step[<<k, f[k - 1]>>]
    <3> HIDE DEF step, n, V, first
    <3> QED BY <1>4 DEF Rounds
  <2> HIDE DEF V
  <2> QED BY <2>2, <2>3
<1> HIDE DEF V, first, step
<1>7. Eq(f)
  BY <1>1, <1>5, <1>6
<1>8. Eq(U)
  <2> HIDE DEF Eq
  <2> QED BY <1>7
<1>9. \A k \in 0..n : U[k] = IF k = 0 THEN first ELSE With(U[k - 1], points[k])
  <2> HIDE DEF U
  <2> QED BY <1>8
<1>10. Describe(points) = U[n]
  BY DEF Describe, U, first
<1> HIDE DEF U
<1> DEFINE T == {k \in 0..n : Summary(U[k], points, k)}
<1>11. 0 \in T
  <2>1. U[0] = first /\ 0 \in 0..n
    BY <1>1, <1>9
  <2>2. first.min = points[1] /\ first.max = points[1] /\ 1 \in 1..n
    BY <1>1 DEF first
  <2>3. Summary(first, points, 0)
    BY <2>2 DEF Summary
  <2> QED BY <2>1, <2>3
<1>12. ASSUME NEW k \in 1..n, k - 1 \in T PROVE k \in T
  <2>1. U[k] = With(U[k - 1], points[k]) /\ k \in 0..n
    BY <1>1, <1>9
  <2>2. Summary(U[k - 1], points, k - 1)
    BY <1>12
  <2> QED BY <2>1, <2>2, WithOneMore
<1>13. \A k \in 0..n : k \in T
  <2> HIDE DEF T, n
  <2> QED BY <1>1, <1>11, <1>12, Induct
<1>14. n \in T
  BY <1>1, <1>13
<1> QED BY <1>10, <1>14

-----------------------------------------------------------------------------
(* The records read                                                        *)

FilterType == [since : Nat, until : Nat, level : Nat, contains : BOOLEAN,
               limit : Nat \ {0}]
ScanType   == [pos : Nat, kept : Seq(Lines), matched : Nat, unparseable : Nat]

(* A line a filter asks for.                                               *)
Wanted(f, l) ==
  /\ l.sort = "record" /\ l.level >= f.level /\ (f.contains => l.hit)
  /\ f.since <= l.at
  /\ f.until = 0 \/ l.at < f.until

(* The places of the lines asked for, and of those that are no records,    *)
(* among the first p.                                                      *)
WantedIn(f, lines, p) == {i \in 1..p : Wanted(f, lines[i])}
WrongIn(lines, p)     == {i \in 1..p : lines[i].sort \in {"bad", "long"}}

(* What has been read: place numbers the records asked for in the order of *)
(* the log, and the window holds the last of them.                         *)
Taken(f, lines, s, place) ==
  /\ place \in [1..s.matched -> WantedIn(f, lines, s.pos)]
  /\ \A i, j \in 1..s.matched : i < j => place[i] < place[j]
  /\ \A w \in WantedIn(f, lines, s.pos) : \E i \in 1..s.matched : place[i] = w
  /\ Len(s.kept) = LesserOf(f.limit, s.matched)
  /\ \A i \in 1..Len(s.kept) : s.kept[i] = lines[place[s.matched - Len(s.kept) + i]]

Scanned(f, lines, s) ==
  /\ s \in ScanType /\ s.pos <= Len(lines)
  /\ s.unparseable = Cardinality(WrongIn(lines, s.pos))
  /\ \E place : Taken(f, lines, s, place)

(* A line is what the filter asks for when the handler says it matches.    *)
LEMMA MatchesWanted ==
  ASSUME NEW f \in FilterType, NEW l \in Lines
  PROVE  Wanted(f, l) <=> l.sort = "record" /\ Matches(f, l)
<1>1. l.at \in Nat /\ l.level \in Nat /\ l.hit \in BOOLEAN
  BY ToolsAssumption
<1>2. f.since \in Nat /\ f.until \in Nat /\ f.level \in Nat /\ f.contains \in BOOLEAN
  BY DEF FilterType
<1> QED BY <1>1, <1>2 DEF Wanted, Matches

(* The window with one more record in it: the oldest goes when it is full. *)
LEMMA WindowMoves ==
  ASSUME NEW f \in FilterType, NEW lines \in Seq(Lines), NEW s \in ScanType,
         s.pos < Len(lines), NEW place, Taken(f, lines, s, place),
         Wanted(f, lines[s.pos + 1]), NEW t \in ScanType,
         t.pos = s.pos + 1, t.matched = s.matched + 1,
         t.kept = IF Len(s.kept) < f.limit THEN s.kept \o <<lines[s.pos + 1]>>
                                           ELSE Tail(s.kept) \o <<lines[s.pos + 1]>>
  PROVE  \E q : Taken(f, lines, t, q)
<1> DEFINE m == s.matched
           p == s.pos
           new == [i \in 1..(m + 1) |-> IF i = m + 1 THEN p + 1 ELSE place[i]]
<1>1. m \in Nat /\ p \in Nat /\ s.kept \in Seq(Lines) /\ f.limit \in Nat \ {0}
      /\ Len(s.kept) \in Nat
  BY DEF ScanType, FilterType
<1>2. WantedIn(f, lines, p + 1) = WantedIn(f, lines, p) \cup {p + 1}
  BY <1>1 DEF WantedIn
<1>3. \A i \in 1..m : place[i] \in WantedIn(f, lines, p) /\ place[i] \in 1..p
  BY DEF Taken, WantedIn
<1>4. \A i \in 1..m : new[i] = place[i]
  BY <1>1
<1>5. new[m + 1] = p + 1
  BY <1>1
<1>6. new \in [1..t.matched -> WantedIn(f, lines, t.pos)]
  BY <1>1, <1>2, <1>3
<1> HIDE DEF new
<1>7. \A i, j \in 1..t.matched : i < j => new[i] < new[j]
  <2> SUFFICES ASSUME NEW i \in 1..(m + 1), NEW j \in 1..(m + 1), i < j
               PROVE  new[i] < new[j]
    OBVIOUS
  <2>1. i \in 1..m /\ new[i] = place[i] /\ place[i] \in 1..p
    BY <1>1, <1>3, <1>4
  <2>2. CASE j = m + 1
    BY <1>1, <1>5, <2>1, <2>2
  <2>3. CASE j # m + 1
    <3>1. j \in 1..m
      BY <1>1, <2>3
    <3>2. new[j] = place[j]
      BY <1>4, <3>1
    <3> QED BY <2>1, <3>1, <3>2 DEF Taken
  <2> QED BY <2>2, <2>3
<1>8. \A w \in WantedIn(f, lines, t.pos) : \E i \in 1..t.matched : new[i] = w
  <2> SUFFICES ASSUME NEW w \in WantedIn(f, lines, p + 1)
               PROVE  \E i \in 1..(m + 1) : new[i] = w
    OBVIOUS
  <2>1. CASE w = p + 1
    <3>1. m + 1 \in 1..(m + 1)
      BY <1>1
    <3> QED BY <1>5, <2>1, <3>1
  <2>2. CASE w \in WantedIn(f, lines, p)
    <3>1. PICK i \in 1..m : place[i] = w
      BY <2>2 DEF Taken
    <3>2. i \in 1..(m + 1) /\ new[i] = w
      BY <1>1, <1>4, <3>1
    <3> QED BY <3>2
  <2> QED BY <1>2, <2>1, <2>2
<1>11. lines[p + 1] \in Lines
  BY <1>1
<1>9. CASE m < f.limit
  <2>1. Len(s.kept) = m
    BY <1>1, <1>9 DEF Taken, LesserOf
  <2>2. t.kept = s.kept \o <<lines[p + 1]>>
    BY <1>9, <2>1
  <2>3. Len(t.kept) = m + 1 /\ t.kept[m + 1] = lines[p + 1]
        /\ \A i \in 1..m : t.kept[i] = s.kept[i]
    <3> DEFINE x    == lines[p + 1]
               kept == s.kept
               more == t.kept
    <3>1. kept \in Seq(Lines) /\ x \in Lines /\ more = kept \o <<x>>
      BY <1>1, <1>11, <2>2
    <3>2. Len(kept) = m
      BY <2>1
    <3> HIDE DEF x, kept, more
    <3>3. /\ Len(more) = Len(kept) + 1 /\ more[Len(kept) + 1] = x
          /\ \A i \in 1..Len(kept) : more[i] = kept[i]
      BY <3>1
    <3>4. Len(more) = m + 1 /\ more[m + 1] = x /\ \A i \in 1..m : more[i] = kept[i]
      BY <3>2, <3>3
    <3> QED BY <3>4 DEF x, kept, more
  <2>4. LesserOf(f.limit, m + 1) = m + 1
    BY <1>1, <1>9 DEF LesserOf
  <2>5. ASSUME NEW i \in 1..(m + 1) PROVE t.kept[i] = lines[new[i]]
    <3>1. CASE i = m + 1
      BY <1>5, <2>3, <3>1
    <3>2. CASE i # m + 1
      <4>1. i \in 1..m /\ i \in 1..Len(s.kept) /\ s.matched - Len(s.kept) + i = i
        BY <1>1, <2>1, <3>2
      <4>2. s.kept[i] = lines[place[s.matched - Len(s.kept) + i]]
        BY <4>1 DEF Taken
      <4> QED BY <1>4, <2>3, <4>1, <4>2
    <3> QED BY <3>1, <3>2
  <2>6. \A i \in 1..Len(t.kept) : t.kept[i] = lines[new[t.matched - Len(t.kept) + i]]
    <3> SUFFICES ASSUME NEW i \in 1..(m + 1)
                 PROVE  t.kept[i] = lines[new[t.matched - Len(t.kept) + i]]
      BY <2>3
    <3>1. t.matched - Len(t.kept) + i = i
      BY <1>1, <2>3
    <3> QED BY <2>5, <3>1
  <2>7. Taken(f, lines, t, new)
    BY <1>6, <1>7, <1>8, <2>3, <2>4, <2>6 DEF Taken
  <2> QED BY <2>7
<1>10. CASE ~(m < f.limit)
  <2> DEFINE n == f.limit
  <2>1. Len(s.kept) = n /\ n <= m
    BY <1>1, <1>10 DEF Taken, LesserOf
  <2>2. t.kept = Tail(s.kept) \o <<lines[p + 1]>>
    BY <1>1, <2>1
  <2>3. /\ Tail(s.kept) \in Seq(Lines) /\ Len(Tail(s.kept)) = n - 1
        /\ \A i \in 1..n - 1 : Tail(s.kept)[i] = s.kept[i + 1]
    BY <1>1, <2>1
  <2>4. Len(t.kept) = n /\ t.kept[n] = lines[p + 1]
        /\ \A i \in 1..n - 1 : t.kept[i] = s.kept[i + 1]
    <3> DEFINE rest == Tail(s.kept)
    <3>1. rest \in Seq(Lines) /\ Len(rest) = n - 1
      BY <2>3
    <3>2. t.kept = rest \o <<lines[p + 1]>>
      BY <2>2
    <3>3. \A i \in 1..n - 1 : rest[i] = s.kept[i + 1]
      BY <2>3
    <3> DEFINE x    == lines[p + 1]
               more == t.kept
    <3>4. rest \in Seq(Lines) /\ x \in Lines /\ more = rest \o <<x>>
      BY <1>11, <3>1, <3>2
    <3> HIDE DEF rest, x, more
    <3>5. /\ Len(more) = Len(rest) + 1 /\ more[Len(rest) + 1] = x
          /\ \A i \in 1..Len(rest) : more[i] = rest[i]
      BY <3>4
    <3>6. Len(rest) + 1 = n
      BY <1>1, <3>1
    <3>7. Len(more) = n /\ more[n] = x /\ \A i \in 1..n - 1 : more[i] = s.kept[i + 1]
      BY <3>1, <3>3, <3>5, <3>6
    <3> QED BY <3>7 DEF x, more
  <2>5. LesserOf(n, m + 1) = n
    BY <1>1, <2>1 DEF LesserOf
  <2>6. ASSUME NEW i \in 1..n PROVE t.kept[i] = lines[new[(m + 1) - n + i]]
    <3>1. CASE i = n
      <4>1. (m + 1) - n + i = m + 1
        BY <1>1, <3>1
      <4> QED BY <1>5, <2>4, <3>1, <4>1
    <3>2. CASE i # n
      <4>1. /\ i \in 1..n - 1 /\ i + 1 \in 1..n /\ m - n + (i + 1) \in 1..m
            /\ (m + 1) - n + i = m - n + (i + 1)
        BY <1>1, <2>1, <3>2
      <4>2. s.kept[i + 1] = lines[place[m - n + (i + 1)]]
        BY <2>1, <4>1 DEF Taken
      <4> QED BY <1>4, <2>4, <4>1, <4>2
    <3> QED BY <3>1, <3>2
  <2>7. Taken(f, lines, t, new)
    BY <1>6, <1>7, <1>8, <2>4, <2>5, <2>6 DEF Taken
  <2> QED BY <2>7
<1> QED BY <1>9, <1>10

(* A line more, whatever it is.                                            *)
LEMMA LineTaken ==
  ASSUME NEW f \in FilterType, NEW lines \in Seq(Lines), NEW s, Scanned(f, lines, s),
         s.pos < Len(lines)
  PROVE  Scanned(f, lines, [Take(s, f, lines[s.pos + 1]) EXCEPT !.pos = @ + 1])
<1> DEFINE p == s.pos
           l == lines[p + 1]
           t == [Take(s, f, l) EXCEPT !.pos = @ + 1]
<1>1. s \in ScanType /\ p \in Nat /\ s.matched \in Nat /\ s.unparseable \in Nat
      /\ s.kept \in Seq(Lines) /\ Len(s.kept) \in Nat
  BY DEF Scanned, ScanType
<1>2. p + 1 \in 1..Len(lines) /\ l \in Lines
  BY <1>1
<1>3. PICK place : Taken(f, lines, s, place)
  BY DEF Scanned
<1>4. WantedIn(f, lines, p + 1) =
        IF Wanted(f, l) THEN WantedIn(f, lines, p) \cup {p + 1} ELSE WantedIn(f, lines, p)
  BY <1>1 DEF WantedIn
<1>5. WrongIn(lines, p + 1) =
        IF l.sort \in {"bad", "long"} THEN WrongIn(lines, p) \cup {p + 1}
        ELSE WrongIn(lines, p)
  BY <1>1 DEF WrongIn
<1>6. IsFiniteSet(WrongIn(lines, p)) /\ p + 1 \notin WrongIn(lines, p)
      /\ s.unparseable = Cardinality(WrongIn(lines, p))
  <2>1. IsFiniteSet(1..p)
    <3>1. p \in Int
      BY <1>1
    <3> HIDE DEF p, t
    <3> QED BY <3>1, FS_Interval
  <2>4. WrongIn(lines, p) \subseteq 1..p
    BY DEF WrongIn
  <2>2. IsFiniteSet(WrongIn(lines, p))
    BY <2>1, <2>4, FS_Subset
  <2>3. p + 1 \notin WrongIn(lines, p)
    BY <1>1, <2>4
  <2> QED BY <2>2, <2>3 DEF Scanned
<1>7. Wanted(f, l) <=> l.sort = "record" /\ Matches(f, l)
  BY <1>2, MatchesWanted
<1>8. CASE l.sort \in {"bad", "long"}
  <2>1. Take(s, f, l) = [s EXCEPT !.unparseable = @ + 1]
    BY <1>8 DEF Take
  <2>2. /\ t.pos = p + 1 /\ t.matched = s.matched /\ t.kept = s.kept
        /\ t.unparseable = s.unparseable + 1 /\ t \in ScanType
    <3> DEFINE u == [s EXCEPT !.unparseable = @ + 1]
    <3>1. /\ u \in ScanType /\ u.pos = p /\ u.matched = s.matched /\ u.kept = s.kept
          /\ u.unparseable = s.unparseable + 1
      BY <1>1 DEF ScanType
    <3>2. t = [u EXCEPT !.pos = @ + 1]
      BY <2>1
    <3> HIDE DEF u, t
    <3> QED BY <1>1, <3>1, <3>2 DEF ScanType
  <2>3. ~Wanted(f, l)
    BY <1>7, <1>8
  <2>4. Taken(f, lines, t, place)
    BY <1>3, <1>4, <2>2, <2>3 DEF Taken
  <2>5. t.unparseable = Cardinality(WrongIn(lines, t.pos))
    BY <1>5, <1>6, <1>8, <2>2, FS_AddElement
  <2> HIDE DEF t
  <2>6. Scanned(f, lines, t)
    BY <1>2, <2>2, <2>4, <2>5 DEF Scanned
  <2> QED BY <2>6 DEF t
<1>9. CASE l.sort = "record" /\ Matches(f, l)
  <2> DEFINE kept == IF Len(s.kept) < f.limit THEN s.kept \o <<l>> ELSE Tail(s.kept) \o <<l>>
  <2>1. Take(s, f, l) = [s EXCEPT !.matched = @ + 1, !.kept = kept]
    BY <1>1, <1>9 DEF Take
  <2>2. kept \in Seq(Lines)
    <3>1. CASE Len(s.kept) < f.limit
      BY <1>1, <1>2, <3>1
    <3>2. CASE ~(Len(s.kept) < f.limit)
      <4>1. Len(s.kept) # 0
        BY <1>1, <3>2 DEF FilterType
      <4>2. Tail(s.kept) \in Seq(Lines)
        BY <1>1, <4>1
      <4> QED BY <1>2, <3>2, <4>2
    <3> QED BY <3>1, <3>2
  <2>3. /\ t.pos = p + 1 /\ t.matched = s.matched + 1 /\ t.kept = kept
        /\ t.unparseable = s.unparseable /\ t \in ScanType
    <3> DEFINE u == [s EXCEPT !.matched = @ + 1, !.kept = kept]
    <3> HIDE DEF kept
    <3>1. /\ u \in ScanType /\ u.pos = p /\ u.matched = s.matched + 1 /\ u.kept = kept
          /\ u.unparseable = s.unparseable
      <4>1. s \in ScanType /\ s.matched + 1 \in Nat /\ kept \in Seq(Lines)
        BY <1>1, <2>2
      <4> HIDE DEF t
      <4>2. u \in ScanType
        BY <4>1 DEF ScanType
      <4> QED BY <4>1 DEF ScanType
    <3>2. t = [u EXCEPT !.pos = @ + 1]
      BY <2>1
    <3> HIDE DEF u, t
    <3> QED BY <1>1, <3>1, <3>2 DEF ScanType
  <2>4. t.unparseable = Cardinality(WrongIn(lines, t.pos))
    BY <1>5, <1>6, <1>9, <2>3
  <2>5. \E q : Taken(f, lines, t, q)
    <3> HIDE DEF t
    <3> QED BY <1>1, <1>3, <1>7, <1>9, <2>3, WindowMoves
  <2> HIDE DEF t
  <2>6. Scanned(f, lines, t)
    BY <1>2, <2>3, <2>4, <2>5 DEF Scanned
  <2> QED BY <2>6 DEF t
<1>10. CASE l.sort \notin {"bad", "long"} /\ ~(l.sort = "record" /\ Matches(f, l))
  <2>1. Take(s, f, l) = s
    BY <1>10 DEF Take
  <2>2. /\ t.pos = p + 1 /\ t.matched = s.matched /\ t.kept = s.kept
        /\ t.unparseable = s.unparseable /\ t \in ScanType
    BY <1>1, <2>1 DEF ScanType
  <2>3. Taken(f, lines, t, place)
    BY <1>3, <1>4, <1>7, <1>10, <2>2 DEF Taken
  <2>4. t.unparseable = Cardinality(WrongIn(lines, t.pos))
    BY <1>5, <1>6, <1>10, <2>2
  <2> HIDE DEF t
  <2>5. Scanned(f, lines, t)
    BY <1>2, <2>2, <2>3, <2>4 DEF Scanned
  <2> QED BY <2>5 DEF t
<1> QED BY <1>8, <1>9, <1>10

(* What the service goes on to write changes nothing of what was read.     *)
LEMMA LogGrows ==
  ASSUME NEW f, NEW lines \in Seq(Lines), NEW line \in Lines, NEW s, Scanned(f, lines, s)
  PROVE  lines \o <<line>> \in Seq(Lines) /\ Scanned(f, lines \o <<line>>, s)
<1> DEFINE more == lines \o <<line>>
<1>1. /\ more \in Seq(Lines) /\ Len(more) = Len(lines) + 1
      /\ \A i \in 1..Len(lines) : more[i] = lines[i]
  OBVIOUS
<1>2. s \in ScanType /\ s.pos \in Nat /\ s.pos <= Len(lines) /\ Len(lines) \in Nat
  BY DEF Scanned, ScanType
<1> HIDE DEF more
<1>3. \A i \in 1..s.pos : more[i] = lines[i]
  BY <1>1, <1>2
<1>4. /\ WantedIn(f, more, s.pos) = WantedIn(f, lines, s.pos)
      /\ WrongIn(more, s.pos) = WrongIn(lines, s.pos)
  BY <1>3 DEF WantedIn, WrongIn
<1>5. PICK place : Taken(f, lines, s, place)
  BY DEF Scanned
<1>6. Taken(f, more, s, place)
  <2>1. ASSUME NEW i \in 1..Len(s.kept)
        PROVE  lines[place[s.matched - Len(s.kept) + i]] = more[place[s.matched - Len(s.kept) + i]]
    <3>1. s.matched \in Nat /\ Len(s.kept) \in Nat /\ Len(s.kept) <= s.matched
      <4>1. s.matched \in Nat /\ Len(s.kept) \in Nat
        BY <1>2 DEF ScanType
      <4>2. \/ f.limit < s.matched /\ Len(s.kept) = f.limit
            \/ Len(s.kept) = s.matched
        BY <1>5 DEF Taken, LesserOf
      <4> QED BY <4>1, <4>2
    <3>2. s.matched - Len(s.kept) + i \in 1..s.matched
      BY <3>1
    <3>3. place[s.matched - Len(s.kept) + i] \in 1..s.pos
      BY <1>5, <3>2 DEF Taken, WantedIn
    <3> QED BY <1>3, <3>3
  <2> QED BY <1>4, <1>5, <2>1 DEF Taken
<1>7. Scanned(f, more, s)
  BY <1>1, <1>2, <1>4, <1>6 DEF Scanned
<1> QED BY <1>1, <1>7 DEF more

(* The answer about a log, of a filter, the lines and what was read.       *)
LogRight(f, lines, s) ==
  LET wanted == WantedIn(f, lines, Len(lines))
      all == Cardinality(wanted)
      n == LesserOf(f.limit, all)
  IN /\ \E place \in [1..all -> wanted] :
          /\ \A i, j \in 1..all : i < j => place[i] < place[j]
          /\ s.kept = [i \in 1..n |-> lines[place[all - n + i]]]
     /\ s.matched = all
     /\ s.unparseable = Cardinality(WrongIn(lines, Len(lines)))
     /\ \A i \in 1..Len(lines), t \in Times \ {0} :
          LET l == lines[i]
              whole == [f EXCEPT !.since = 0, !.until = 0]
          IN l.sort = "record" /\ Matches(whole, l) =>
               Matches([whole EXCEPT !.until = t], l) # Matches([whole EXCEPT !.since = t], l)

(* A line of a window is on one side or the other of a time in it.         *)
LEMMA WindowsMeet ==
  ASSUME NEW f \in FilterType, NEW l \in Lines, NEW t \in Times \ {0}, NEW w,
         w = [f EXCEPT !.since = 0, !.until = 0], Matches(w, l)
  PROVE  Matches([w EXCEPT !.until = t], l) # Matches([w EXCEPT !.since = t], l)
<1>1. l.at \in Nat /\ t \in Nat \ {0}
  BY ToolsAssumption
<1>2. w \in FilterType /\ w.since = 0 /\ w.until = 0
  BY DEF FilterType
<1> DEFINE u == [w EXCEPT !.until = t]
           v == [w EXCEPT !.since = t]
<1>3. /\ u.since = 0 /\ u.until = t /\ u.level = w.level /\ u.contains = w.contains
      /\ v.since = t /\ v.until = 0 /\ v.level = w.level /\ v.contains = w.contains
  BY <1>2 DEF FilterType
<1> HIDE DEF u, v
<1>4. l.level >= w.level /\ (w.contains => l.hit)
  BY DEF Matches
<1>5. Matches(u, l) <=> l.at < t
  BY <1>1, <1>3, <1>4 DEF Matches
<1>6. Matches(v, l) <=> l.at >= t
  BY <1>1, <1>3, <1>4 DEF Matches
<1>7. l.at < t <=> ~(l.at >= t)
  BY <1>1
<1>8. Matches(u, l) # Matches(v, l)
  BY <1>5, <1>6, <1>7 DEF Matches
<1> QED BY <1>8 DEF u, v

(* What was read to the end is the answer.                                 *)
LEMMA ReadToTheEnd ==
  ASSUME NEW f \in FilterType, NEW lines \in Seq(Lines), NEW s, Scanned(f, lines, s),
         ~(s.pos < Len(lines))
  PROVE  LogRight(f, lines, s)
<1> DEFINE m == s.matched
           W == WantedIn(f, lines, Len(lines))
           n == LesserOf(f.limit, m)
<1>1. s \in ScanType /\ s.pos = Len(lines) /\ m \in Nat /\ f.limit \in Nat \ {0}
  BY DEF Scanned, ScanType, FilterType
<1>2. PICK place : Taken(f, lines, s, place)
  BY DEF Scanned
<1>3. /\ place \in [1..m -> W]
      /\ \A i, j \in 1..m : i < j => place[i] < place[j]
      /\ \A w \in W : \E i \in 1..m : place[i] = w
  BY <1>1, <1>2 DEF Taken
<1>4. Cardinality(W) = m
  <2>1. \A i \in 1..m : place[i] \in Int
    BY <1>3 DEF WantedIn
  <2>2. \A i, j \in 1..m : i # j => place[i] # place[j]
    <3> SUFFICES ASSUME NEW i \in 1..m, NEW j \in 1..m, i # j PROVE place[i] # place[j]
      OBVIOUS
    <3>1. i < j \/ j < i
      OBVIOUS
    <3>2. place[i] < place[j] \/ place[j] < place[i]
      BY <1>3, <3>1
    <3> QED BY <2>1, <3>2
  <2> HIDE DEF W, m
  <2>3. place \in Bijection(1..m, W)
    BY <1>3, <2>2 DEF Bijection, Injection, Surjection, IsInjective
  <2>4. ExistsBijection(1..m, W)
    BY <2>3 DEF ExistsBijection
  <2> QED BY <1>1, <2>4, FS_CountingElements
<1>5. s.kept = [i \in 1..n |-> lines[place[m - n + i]]]
  <2> DEFINE kept == s.kept
             whole == [i \in 1..n |-> lines[place[m - n + i]]]
  <2>1. kept \in Seq(Lines)
    BY <1>1 DEF ScanType
  <2>2. Len(kept) = n /\ \A i \in 1..n : kept[i] = lines[place[m - n + i]]
    <3>1. Len(s.kept) = n
      BY <1>2 DEF Taken
    <3> QED BY <1>2, <3>1 DEF Taken
  <2>3. kept = [i \in 1..n |-> kept[i]]
    <3> HIDE DEF kept, n
    <3> QED BY <2>1, <2>2
  <2> HIDE DEF kept, n, m
  <2>4. kept = whole
    BY <2>2, <2>3
  <2> QED BY <2>4 DEF kept
<1>6. s.unparseable = Cardinality(WrongIn(lines, Len(lines)))
  BY <1>1 DEF Scanned
<1>7. ASSUME NEW i \in 1..Len(lines), NEW t \in Times \ {0},
             Matches([f EXCEPT !.since = 0, !.until = 0], lines[i])
      PROVE  LET w == [f EXCEPT !.since = 0, !.until = 0] IN
             Matches([w EXCEPT !.until = t], lines[i]) # Matches([w EXCEPT !.since = t], lines[i])
  <2>1. lines[i] \in Lines
    OBVIOUS
  <2> QED BY <1>7, <2>1, WindowsMeet
<1> HIDE DEF W, n, m
<1>8. LogRight(f, lines, s)
  <2>1. /\ place \in [1..m -> W] /\ \A i, j \in 1..m : i < j => place[i] < place[j]
        /\ s.kept = [i \in 1..n |-> lines[place[m - n + i]]]
    BY <1>3, <1>5
  <2>2. \E p \in [1..m -> W] : /\ \A i, j \in 1..m : i < j => p[i] < p[j]
                               /\ s.kept = [i \in 1..n |-> lines[p[m - n + i]]]
    BY <2>1
  <2>3. \A i \in 1..Len(lines), t \in Times \ {0} :
          LET l == lines[i]
              whole == [f EXCEPT !.since = 0, !.until = 0]
          IN l.sort = "record" /\ Matches(whole, l) =>
               Matches([whole EXCEPT !.until = t], l) # Matches([whole EXCEPT !.since = t], l)
    BY <1>7
  <2> QED BY <1>4, <1>6, <2>2, <2>3, Zenon DEF LogRight, W, n, m
<1> QED BY <1>8

-----------------------------------------------------------------------------
(* The answers                                                             *)

(* The answer about a series, of what it is made of.                       *)
RangeRight(v) ==
  LET p == v.points
      numbers == {p[i] : i \in 1..Len(p)} \ {NaN}
  IN /\ Even(v.shown, Len(p), Rendered)
     /\ v.step # None => v.step >= MinStep
     /\ v.stats.last = p[Len(p)]
     /\ p[1] # NaN => /\ v.stats.min \in numbers /\ v.stats.max \in numbers
                      /\ \A x \in numbers : v.stats.min <= x /\ x <= v.stats.max

(* A series is summarised and sampled as it should be.                     *)
LEMMA SeriesRight ==
  ASSUME NEW n \in 1..MaxPoints, NEW points \in [1..n -> Values \cup {NaN}], NEW v,
         v.points = points, v.stats = Describe(points), v.shown = Sample(n, Rendered),
         v.step # None => v.step >= MinStep
  PROVE  RangeRight(v)
<1>1. MaxPoints \in Nat /\ Rendered \in Nat \ {0, 1}
  BY ToolsAssumption
<1>2. n \in Nat \ {0} /\ points \in Seq(Values \cup {NaN}) /\ Len(points) = n
  BY <1>1
<1>3. Even(v.shown, n, Rendered)
  BY <1>1, <1>2, SampleEven
<1>4. Summary(v.stats, points, n)
  BY <1>2, Described
<1> DEFINE numbers == {points[i] : i \in 1..n} \ {NaN}
<1>5. v.stats.last = points[n]
  BY <1>2, <1>4 DEF Summary
<1>6. ASSUME points[1] # NaN
      PROVE  /\ v.stats.min \in numbers /\ v.stats.max \in numbers
             /\ \A x \in numbers : v.stats.min <= x /\ x <= v.stats.max
  BY <1>2, <1>4, <1>6 DEF Summary
<1> HIDE DEF numbers
<1>7. RangeRight(v)
  BY <1>2, <1>3, <1>5, <1>6 DEF RangeRight, numbers
<1> QED BY <1>7

(* The inductive invariant of the answers: what a handler has asked and    *)
(* read so far, and what an answer in hand was made of.                    *)
StepAllowed == ask.step # None => ask.step >= MinStep

Reading ==
  /\ calling = "read_service_logs" /\ ask \in FilterType /\ log \in Seq(Lines)
  /\ Scanned(ask, log, scan)

AnswersInv ==
  /\ srv # "idle" => pos = "call"
  /\ srv \in {"asking", "reading"} => calling = "prometheus_query" /\ StepAllowed
  /\ srv = "scanning" => Reading
  /\ view # None =>
       /\ srv = "answered"
       /\ \/ calling = "prometheus_query" /\ RangeRight(view)
          \/ calling = "read_service_logs" /\ LogRight(view.filter, view.lines, view.scan)

(* What a handler is given is a filter, and what is read of an empty start *)
(* of a log is nothing.                                                    *)
LEMMA FilterBuilt ==
  ASSUME NEW in \in LogArguments, BuildFilter(in) # None
  PROVE  BuildFilter(in) \in FilterType
<1>1. /\ in.since \in Nat /\ in.until \in Nat /\ in.level \in Nat /\ in.contains \in BOOLEAN
      /\ in.limit \in 0..(MaxLogLines + 1) /\ MaxLogLines \in Nat \ {0}
      /\ DefaultLimit \in Nat \ {0}
  <2>1. /\ in.since \in Times /\ in.until \in Times /\ in.level \in {1, 2}
        /\ in.contains \in BOOLEAN /\ in.limit \in 0..(MaxLogLines + 1)
    BY DEF LogArguments
  <2>2. Times \subseteq Nat /\ MaxLogLines \in Nat \ {0} /\ DefaultLimit \in Nat \ {0}
    BY ToolsAssumption
  <2>3. in.since \in Nat /\ in.until \in Nat
    BY <2>1, <2>2
  <2>4. in.level \in Nat
    BY <2>1
  <2> QED BY <2>1, <2>2, <2>3, <2>4
<1>2. in.limit # 0 => in.limit \in 1..MaxLogLines
  BY DEF BuildFilter
<1>3. (IF in.limit = 0 THEN DefaultLimit ELSE in.limit) \in Nat \ {0}
  BY <1>1, <1>2
<1>4. BuildFilter(in) =
        [since |-> in.since, until |-> in.until, level |-> in.level,
         contains |-> in.contains, limit |-> IF in.limit = 0 THEN DefaultLimit ELSE in.limit]
  BY DEF BuildFilter
<1> QED BY <1>1, <1>3, <1>4 DEF FilterType

(* Nothing has been read of a log that was just opened.                    *)
LEMMA NothingRead ==
  ASSUME NEW f \in FilterType, NEW lines \in Seq(Lines)
  PROVE  Scanned(f, lines, NoScan)
<1>1. /\ NoScan \in ScanType /\ NoScan.pos = 0 /\ NoScan.matched = 0 /\ NoScan.kept = <<>>
      /\ NoScan.unparseable = 0
  BY DEF NoScan, ScanType
<1> HIDE DEF NoScan
<1>2. WantedIn(f, lines, 0) = {} /\ WrongIn(lines, 0) = {}
  BY DEF WantedIn, WrongIn
<1>3. Len(NoScan.kept) = LesserOf(f.limit, 0)
  BY <1>1 DEF LesserOf, FilterType
<1>4. Taken(f, lines, NoScan, [i \in {} |-> 0])
  BY <1>1, <1>2, <1>3 DEF Taken
<1>5. Cardinality(WrongIn(lines, 0)) = 0
  BY <1>2, FS_EmptySet
<1> QED BY <1>1, <1>4, <1>5 DEF Scanned

(* The step of a range query is at least the least that is allowed.        *)
LEMMA StepResolved ==
  ASSUME NEW raw \in Steps \cup {None}, NEW span \in Spans, ResolveStep(raw, span) # None
  PROVE  ResolveStep(raw, span) >= MinStep
<1>1. /\ MinStep \in Nat /\ (raw # None => raw \in Nat)
      /\ RoundToSecond(span \div StepDivisor) \in Int
  <2>1. span \in Nat /\ StepDivisor \in Nat \ {0}
    BY ToolsAssumption
  <2>2. span \div StepDivisor \in Nat
    BY <2>1, Quotient
  <2>3. \A d \in Nat : ((d + 1) \div 2) * 2 \in Int
    OBVIOUS
  <2> QED BY <2>2, <2>3, ToolsAssumption DEF RoundToSecond
<1> QED BY <1>1 DEF ResolveStep

(* No handler has been entered at the start.                               *)
LEMMA AnswersInit == Init => AnswersInv
BY DEF Init, ToolInit, AnswersInv

(* The tools' steps, one by one.                                           *)
LEMMA ToolAnswersStep ==
  ASSUME AnswersInv, ToolNext, pos = "call", UNCHANGED callVars
  PROVE  AnswersInv'
<1>1. pos' = pos
  BY DEF callVars
<1>2. view = None
  BY ToolSteps DEF AnswersInv
<1>3. ASSUME view' = None, srv' \notin {"scanning", "asking", "reading"} PROVE AnswersInv'
  BY <1>1, <1>3 DEF AnswersInv
<1>4. ASSUME view' = None, srv' = "scanning", Reading' PROVE AnswersInv'
  BY <1>1, <1>4 DEF AnswersInv
<1>5. ASSUME view' = None, srv' \in {"asking", "reading"}, calling' = "prometheus_query",
             StepAllowed'
      PROVE  AnswersInv'
  BY <1>1, <1>5 DEF AnswersInv
<1> USE DEF Refuse, Fail
<1>6. CASE ReadServiceLogs
  <2>1. CASE srv' = "answered"
    BY <1>2, <1>3, <1>6, <2>1 DEF ReadServiceLogs
  <2>2. CASE srv' # "answered"
    <3>1. PICK in \in LogArguments, content \in BoundedSeq(Lines, MaxLines) :
            /\ BuildFilter(in) # None
            /\ srv' = "scanning" /\ ask' = BuildFilter(in) /\ log' = content /\ scan' = NoScan
      BY <1>6, <2>2 DEF ReadServiceLogs, Answer
    <3>2. content \in Seq(Lines)
      <4>1. PICK k \in 0..MaxLines : content \in [1..k -> Lines]
        BY ToolsAssumption DEF BoundedSeq, SeqOf
      <4> QED BY <4>1, ToolsAssumption
    <3>3. ask' \in FilterType
      BY <3>1, FilterBuilt
    <3>4. Scanned(ask', log', scan')
      BY <3>1, <3>2, <3>3, NothingRead
    <3>5. calling' = "read_service_logs" /\ view' = None
      BY <1>2, <1>6 DEF ReadServiceLogs
    <3>6. Reading'
      BY <3>1, <3>2, <3>3, <3>4, <3>5 DEF Reading
    <3> QED BY <1>4, <3>1, <3>5, <3>6
  <2> QED BY <2>1, <2>2
<1>7. CASE ScanLog
  <2>1. Reading /\ srv = "scanning" /\ UNCHANGED <<calling, ask, log>>
    BY <1>7 DEF ScanLog, AnswersInv
  <2>2. CASE Fail("timeout", "deadline") /\ UNCHANGED <<scan, view>>
    BY <1>2, <1>3, <2>2 DEF Answer
  <2>3. CASE /\ scan.pos < Len(log)
             /\ scan' = [Take(scan, ask, log[scan.pos + 1]) EXCEPT !.pos = @ + 1]
             /\ UNCHANGED <<srv, reply, fault, view>>
    <3>1. Scanned(ask, log, scan')
      BY <2>1, <2>3, LineTaken DEF Reading
    <3>2. Reading'
      BY <2>1, <3>1 DEF Reading
    <3> QED BY <1>2, <1>4, <2>1, <2>3, <3>2
  <2>4. CASE /\ ~(scan.pos < Len(log)) /\ srv' = "answered"
             /\ view' = [filter |-> ask, lines |-> log, scan |-> scan]
    <3>1. LogRight(ask, log, scan)
      BY <2>1, <2>4, ReadToTheEnd DEF Reading
    <3>2. LogRight(view'.filter, view'.lines, view'.scan)
      BY <2>4, <3>1
    <3>3. calling' = "read_service_logs"
      BY <2>1 DEF Reading
    <3> QED BY <1>1, <2>4, <3>2, <3>3 DEF AnswersInv
  <2> QED BY <1>7, <2>2, <2>3, <2>4 DEF ScanLog, Answer
<1>8. CASE ScanFails \/ HttpProbe \/ Probe \/ SchemaRejects
  BY <1>2, <1>3, <1>8 DEF ScanFails, HttpProbe, Probe, SchemaRejects, Answer
<1>9. CASE PrometheusQuery
  <2>1. calling' = "prometheus_query" /\ view' = None
    BY <1>2, <1>9 DEF PrometheusQuery
  <2>2. CASE srv' = "answered"
    BY <1>3, <2>1, <2>2
  <2>3. CASE srv' # "answered"
    <3>1. PICK ranged \in BOOLEAN, span \in Spans, raw \in Steps \cup {None} :
            /\ srv' = "asking" /\ ~(ranged /\ ResolveStep(raw, span) = None)
            /\ ask' = [step |-> IF ranged THEN ResolveStep(raw, span) ELSE None]
      BY <1>9, <2>3 DEF PrometheusQuery, Answer
    <3>2. StepAllowed'
      BY <3>1, StepResolved DEF StepAllowed
    <3> QED BY <1>5, <2>1, <3>1, <3>2
  <2> QED BY <2>2, <2>3
<1>10. CASE GetPrometheus
  <2>1. calling' = "prometheus_query" /\ view' = None /\ StepAllowed'
    BY <1>2, <1>10 DEF GetPrometheus, AnswersInv, StepAllowed
  <2>2. srv' \in {"answered", "reading"}
    BY <1>10 DEF GetPrometheus, Answer
  <2> QED BY <1>3, <1>5, <2>1, <2>2
<1>11. CASE ReadBody
  <2>1. calling = "prometheus_query" /\ StepAllowed /\ calling' = calling
    BY <1>11 DEF ReadBody, AnswersInv
  <2>2. CASE BodyLost \/ Undecodable \/ OverCap \/ RenderValues
    BY <1>2, <1>3, <2>2 DEF BodyLost, Undecodable, OverCap, RenderValues, Answer
  <2>3. CASE RenderSeries
    <3>1. PICK n \in 1..MaxPoints : \E points \in [1..n -> Values \cup {NaN}] :
            /\ srv' = "answered"
            /\ view' = [step |-> ask.step, points |-> points, stats |-> Describe(points),
                        shown |-> Sample(n, Rendered)]
      BY <2>3 DEF RenderSeries, Answer
    <3>2. PICK points \in [1..n -> Values \cup {NaN}] :
            /\ srv' = "answered"
            /\ view' = [step |-> ask.step, points |-> points, stats |-> Describe(points),
                        shown |-> Sample(n, Rendered)]
      BY <3>1
    <3>3. /\ view'.points = points /\ view'.stats = Describe(points)
          /\ view'.shown = Sample(n, Rendered) /\ view'.step = ask.step
      BY <3>2
    <3>4. view'.step # None => view'.step >= MinStep
      BY <2>1, <3>3 DEF StepAllowed
    <3>5. RangeRight(view')
      BY <3>3, <3>4, SeriesRight
    <3> QED BY <1>1, <2>1, <3>2, <3>5 DEF AnswersInv
  <2> QED BY <1>11, <2>2, <2>3 DEF ReadBody
<1>12. CASE Deadline
  BY <1>1, <1>12 DEF Deadline, AnswersInv, StepAllowed, Reading
<1>13. ASSUME NEW line \in Lines, LogLine(line) PROVE AnswersInv'
  <2>1. Reading /\ srv' = "scanning" /\ view' = None /\ UNCHANGED <<calling, ask, scan>>
        /\ log' = log \o <<line>>
    BY <1>2, <1>13 DEF LogLine, AnswersInv
  <2>2. log' \in Seq(Lines) /\ Scanned(ask, log', scan)
    BY <2>1, LogGrows DEF Reading
  <2>3. Reading'
    BY <2>1, <2>2 DEF Reading
  <2> QED BY <1>4, <2>1, <2>3
<1> QED BY <1>6, <1>7, <1>8, <1>9, <1>10, <1>11, <1>12, <1>13 DEF ToolNext

(* Every step keeps what was read and what the answers are made of.        *)
LEMMA AnswersStep == AnswersInv /\ [Next]_vars => AnswersInv'
<1> SUFFICES ASSUME AnswersInv, [Next]_vars PROVE AnswersInv'
  OBVIOUS
<1>1. ASSUME pos # "call", srv' = srv, view' = view PROVE AnswersInv'
  BY <1>1 DEF AnswersInv
<1>2. CASE Bound \/ Chat \/ Sleep \/ EmbedBatch \/ Search
  BY <1>1, <1>2 DEF Bound, Chat, Sleep, EmbedBatch, Search, Modelled, toolVars
<1>3. ASSUME NEW e \in Errors, RequestFails(e) PROVE AnswersInv'
  BY <1>1, <1>3 DEF RequestFails, Modelled, toolVars
<1>4. ASSUME NEW status, NEW d, CallEnds(status, d) PROVE AnswersInv'
  BY <1>4 DEF CallEnds, AnswersInv
<1>5. CASE ToolAnswer \/ ToolDeadline \/ ToolLost
  BY <1>4, <1>5 DEF ToolAnswer, ToolDeadline, ToolLost
<1>6. CASE Cancel \/ UNCHANGED vars
  <2>1. UNCHANGED <<toolVars, pos>>
    BY <1>6 DEF Cancel, vars, callVars
  <2> QED BY <2>1 DEF toolVars, AnswersInv, StepAllowed, Reading
<1>7. CASE ToolNext /\ pos = "call" /\ UNCHANGED callVars
  BY <1>7, ToolAnswersStep
<1> QED BY <1>2, <1>3, <1>5, <1>6, <1>7 DEF Next

(* Answers made of that are right.                                         *)
LEMMA AnswersEnough == AnswersInv /\ ResultFits => AnswerHolds
<1> SUFFICES ASSUME AnswersInv, ResultFits PROVE AnswerHolds
  OBVIOUS
<1>1. LogAnswer
  <2> SUFFICES ASSUME view # None, calling = "read_service_logs" PROVE LogAnswer
    BY DEF LogAnswer
  <2>1. LogRight(view.filter, view.lines, view.scan)
    BY DEF AnswersInv
  <2> QED BY <2>1 DEF LogAnswer, LogRight, WantedIn, WrongIn, Wanted
<1>2. RangeAnswer
  <2> SUFFICES ASSUME view # None, calling = "prometheus_query" PROVE RangeAnswer
    BY DEF RangeAnswer
  <2>1. RangeRight(view)
    BY DEF AnswersInv
  <2> QED BY <2>1 DEF RangeAnswer, RangeRight, Even
<1> QED BY <1>1, <1>2 DEF AnswerHolds

-----------------------------------------------------------------------------
(* The results                                                             *)

(* The inductive invariant of the attempt and its clients: what has been   *)
(* spent is accounted for by where the attempt is and how often its call   *)
(* was tried, and the vectors had are those of the first texts, for any    *)
(* timeouts, retries, delays, widths and batches.                          *)
THEOREM EstimateInvHolds == Spec => []EstimateInv
<1> QED BY EstimateInit, EstimateStep, PTL DEF Spec

(* The estimate a worker sizes its lease by covers every run, but for the  *)
(* waits between attempts and a search that takes longer than it may.      *)
THEOREM EstimateIsEnough == Spec => []EstimateHolds
<1> QED BY EstimateInvHolds, EstimateEnough, PTL

(* A wait between attempts is never past the cap; what a provider asks for *)
(* is granted up to it, and waits nobody asked for grow from the first     *)
(* delay on, as long as either fits a duration.                            *)
THEOREM BackoffIsBounded == Spec => []BackoffHolds
<1>1. EstimateInv => BackoffHolds
  BY AskedBackoff DEF EstimateInv, CallsTyped
<1> QED BY <1>1, EstimateInvHolds, PTL

(* A vector is the one of the text at its place, and there are no more of  *)
(* them than texts, whatever order and indices a provider answers in.      *)
THEOREM VectorsAreInPlace == Spec => []VectorsInPlace
<1>1. EstimateInv => VectorsInPlace
  BY DEF EstimateInv, VectorsInv
<1> QED BY <1>1, EstimateInvHolds, PTL

(* What a tool call is recorded as is what became of it, through handler,  *)
(* envelope, SDK, session and agent.                                       *)
THEOREM StatusesAreTrue == Spec => []StatusIsTrue
<1>1. Spec => []StatusInv
  BY StatusInit, StatusStep, PTL DEF Spec
<1> QED BY <1>1, StatusEnough, PTL

(* The inductive invariant of the tools' answers: what a handler has read  *)
(* and asked so far, and what an answer in hand was made of.               *)
THEOREM AnswersInvHolds == Spec => []AnswersInv
<1> QED BY AnswersInit, AnswersStep, PTL DEF Spec

(* A log is answered with the newest records of the window and a count of  *)
(* the others, a series with its true ends, bounds and an even sample, and *)
(* every answer that is no error, a refusal's too, fits the cap and is     *)
(* marked when it was cut, for any log, any series and any text.           *)
THEOREM AnswersAreRight == Spec => []AnswerHolds
<1>1. Init => ResultFits
  BY DEF Init, ToolInit, ResultFits
<1>2. Spec => []ResultFits
  BY <1>1, FitsStep, PTL DEF Spec
<1> QED BY <1>2, AnswersInvHolds, AnswersEnough, PTL

(* What configuration says of SEARCH_TIMEOUT would hold if a search ended  *)
(* in that time: the run that shows it does not differs from this in       *)
(* nothing but the search that hangs.                                      *)
THEOREM BoundedSearchIsEnough ==
  ASSUME LongestSearch <= SearchTimeout
  PROVE  Spec => []SearchIsBounded
<1> DEFINE Quick == hung = 0
<1>1. Init => Quick
  BY DEF Init
<1>2. Quick /\ [Next]_vars => Quick'
  <2> SUFFICES ASSUME Quick, [Next]_vars PROVE Quick'
    OBVIOUS
  <2>1. CASE Search
    <3>1. PICK d \in 0..LongestSearch :
            hung' = IF d > SearchTimeout THEN hung + (d - SearchTimeout) ELSE hung
      BY <2>1 DEF Search
    <3>2. ~(d > SearchTimeout)
      <4>1. SearchTimeout \in Nat /\ LongestSearch \in Nat
        BY CallsAssumption
      <4> QED BY <4>1
    <3> QED BY <3>1, <3>2
  <2>2. ASSUME NEW e \in Errors, RequestFails(e) PROVE Quick'
    BY <2>2 DEF RequestFails
  <2>3. CASE Bound \/ Chat \/ Sleep \/ EmbedBatch \/ Cancel
    BY <2>3 DEF Bound, Chat, Sleep, EmbedBatch, Cancel
  <2>4. CASE ToolAnswer \/ ToolDeadline \/ ToolLost
    BY <2>4 DEF ToolAnswer, ToolDeadline, ToolLost, CallEnds
  <2>5. CASE UNCHANGED callVars
    BY <2>5 DEF callVars
  <2> QED BY <2>1, <2>2, <2>3, <2>4, <2>5 DEF Next, vars
<1>3. EstimateInv /\ EstimateHolds /\ Quick => SearchIsBounded
  BY DEF EstimateInv, CallsTyped, EstimateHolds, SearchIsBounded
<1> QED BY <1>1, <1>2, <1>3, EstimateInvHolds, EstimateIsEnough, PTL DEF Spec

=============================================================================
