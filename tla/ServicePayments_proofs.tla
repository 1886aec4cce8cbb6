------------------------ MODULE ServicePayments_proofs ------------------------
(***************************************************************************)
(* Proofs about ServicePayments, for any operators, rates, stakes, prices, *)
(* splits and periods.                                                     *)
(*                                                                         *)
(* Nobody is billed for more stake-seconds than it spent in the service,   *)
(* but for the excess of late bills: a late bill guesses the stake-seconds *)
(* at the end of its period from the stake of now, and sets a cursor back  *)
(* only if the operator joined or added stake after that end, and then by  *)
(* no more than that stake times the seconds it did not stand; for the     *)
(* time it stood is never billed before (Reserved).                        *)
(*                                                                         *)
(* The money is all there: Books says that the contract holds the escrow,  *)
(* the pending rewards and the payments of undistributed jobs, that the    *)
(* escrow is what went in less what went out, that it serves subscriptions *)
(* only, and that what went out is within the periods billed.  Books is    *)
(* inductive because of what a distribution does to any amount: what is    *)
(* credited, pushed and handed back adds up to it.                         *)
(***************************************************************************)
EXTENDS ServicePayments, FunctionSums

-----------------------------------------------------------------------------
Counters ==
  /\ now \in Nat /\ lastPaymentAt \in Nat /\ lastPaymentAt <= now
  /\ serving \subseteq Operators
  /\ stake \in [Operators -> Nat]
  /\ cum \in [Operators -> Nat] /\ \A o \in Operators : cum[o] > 0
  /\ cursor \in [Operators -> Nat]
  /\ unbilled \in [Operators -> Int]
  /\ raisedAt \in [Operators -> Nat]
  /\ \A o \in Operators : raisedAt[o] <= now
  /\ excess \in [Operators -> Nat]

\* Since when an operator has served with the stake it has, in the period to bill.
Since(o) == IF raisedAt[o] >= lastPaymentAt THEN raisedAt[o] ELSE lastPaymentAt

\* What is left to bill covers the time an operator has served with the stake it has.
Reserved(o) == o \in serving => cum[o] >= cursor[o] + stake[o] * (now - Since(o))

\* What is not billed, or was taken for a tail that was not, covers what is left to bill.
Covered(o) ==
  /\ unbilled[o] + excess[o] >= 0
  /\ o \in serving => unbilled[o] + excess[o] >= cum[o] - cursor[o]

Inv == Counters /\ \A o \in Operators : Reserved(o) /\ Covered(o)

-----------------------------------------------------------------------------
\* A product of naturals is one, grows with its second factor, and is the sum of the
\* products of the parts of that factor.
LEMMA Products ==
  ASSUME NEW s \in Nat, NEW m \in Nat, NEW n \in Nat, m <= n
  PROVE  /\ s * m \in Nat
         /\ s * m <= s * n
         /\ s * n = s * m + s * (n - m)
         /\ s * (n - m) \in Nat
         /\ s * (m + 1) = s * m + s
         /\ s * 0 = 0
<1>1. s * m \in Nat /\ s * (n - m) \in Nat /\ s * n \in Nat /\ s * 0 = 0
  <2>1. n - m \in Nat
    OBVIOUS
  <2>2. \A a, b \in Nat : a * b \in Nat
    OBVIOUS
  <2> QED
    BY <2>1, <2>2
<1>2. s * n = s * m + s * (n - m)
  OBVIOUS
<1> QED
  BY <1>1, <1>2

LEMMA CountersInit == Init => Counters
<1> SUFFICES ASSUME Init PROVE Counters
  OBVIOUS
<1>1. \A s \in Nat : Seeded(s) \in Nat
  BY DEF Seeded
<1>2. /\ cum = [o \in Operators |-> 1]
      /\ cursor = [o \in Operators |-> IF o \in serving THEN Seeded(cum[o]) ELSE 0]
  BY DEF Init
<1>3. \A o \in Operators : cum[o] = 1
  BY <1>2
<1>4. cum \in [Operators -> Nat]
  BY <1>2
<1>5. cursor \in [Operators -> Nat]
  BY <1>1, <1>2, <1>3
<1> QED
  <2>1. now = 0 /\ lastPaymentAt = 0 /\ serving \subseteq Operators
    BY DEF Init
  <2>2. stake \in [Operators -> Nat] /\ unbilled \in [Operators -> Int]
    BY PaymentsAssumption DEF Init
  <2>3. /\ raisedAt \in [Operators -> Nat] /\ \A o \in Operators : raisedAt[o] = 0
        /\ excess \in [Operators -> Nat]
    BY DEF Init
  <2> QED
    BY <1>3, <1>4, <1>5, <2>1, <2>2, <2>3 DEF Counters

LEMMA InvInit == Init => Inv
<1> SUFFICES ASSUME Init PROVE Inv
  OBVIOUS
<1>1. Counters
  BY CountersInit
<1>2. ASSUME NEW o \in Operators PROVE Reserved(o) /\ Covered(o)
  <2>1. now = 0 /\ Since(o) = 0 /\ unbilled[o] = 0 /\ excess[o] = 0 /\ stake[o] \in Nat
    BY <1>1 DEF Init, Since, Counters
  <2>2. stake[o] * (now - Since(o)) = 0
    BY <2>1
  <2>3. cum[o] = 1 /\ (o \in serving => cursor[o] = 1)
    BY DEF Init, Seeded
  <2> QED
    BY <2>1, <2>2, <2>3 DEF Covered, Reserved
<1> QED
  BY <1>1, <1>2 DEF Inv

LEMMA InvQuiet ==
  ASSUME Inv, serving' \subseteq serving,
         UNCHANGED <<now, stake, cum, raisedAt, lastPaymentAt, cursor, unbilled, excess>>
  PROVE  Inv'
BY DEF Inv, Counters, Reserved, Covered, Since

LEMMA InvTick ==
  ASSUME Inv, Tick
  PROVE  Inv'
<1>1. Counters'
  BY DEF Inv, Counters, Tick
<1>2. ASSUME NEW o \in Operators PROVE Reserved(o)' /\ Covered(o)'
  <2>1. Reserved(o) /\ Covered(o)
    BY DEF Inv
  <2>2. /\ now' = now + 1 /\ serving' = serving /\ excess' = excess
        /\ stake' = stake /\ raisedAt' = raisedAt /\ lastPaymentAt' = lastPaymentAt
        /\ cursor' = cursor /\ cum'[o] = cum[o] + stake[o]
        /\ unbilled'[o] = unbilled[o] + IF o \in serving THEN stake[o] ELSE 0
    BY DEF Tick, Inv, Counters
  <2>3. /\ stake[o] \in Nat /\ cum[o] \in Nat /\ cursor[o] \in Nat /\ unbilled[o] \in Int
        /\ excess[o] \in Nat /\ now - Since(o) \in Nat /\ now \in Nat /\ Since(o) \in Nat
    BY DEF Inv, Counters, Since
  <2>4. stake[o] * ((now - Since(o)) + 1) = stake[o] * (now - Since(o)) + stake[o]
    BY <2>3, Products
  <2>5. Since(o)' = Since(o)
    BY <2>2 DEF Since
  <2>6. stake'[o] * (now' - Since(o)') = stake[o] * ((now - Since(o)) + 1)
    BY <2>2, <2>3, <2>5
  <2>7. stake[o] * (now - Since(o)) \in Nat
    BY <2>3, Products
  <2>8. Covered(o)'
    BY <2>1, <2>2, <2>3 DEF Covered
  <2>9. Reserved(o)'
    BY <2>1, <2>2, <2>3, <2>4, <2>6, <2>7 DEF Reserved
  <2> QED
    BY <2>8, <2>9
<1> QED
  BY <1>1, <1>2 DEF Inv, Tick

\* A smaller stake needs less; a larger one starts the operator's time again.
LEMMA InvSetStake ==
  ASSUME Inv, NEW o \in Operators, NEW amount \in Stakes, SetStake(o, amount)
  PROVE  Inv'
<1>1. amount \in Nat
  BY PaymentsAssumption
<1>2. /\ stake' = [stake EXCEPT ![o] = amount]
      /\ raisedAt' = [raisedAt EXCEPT ![o] = IF amount > stake[o] THEN now ELSE @]
      /\ UNCHANGED <<now, serving, cum, lastPaymentAt, cursor, unbilled, excess>>
  BY DEF SetStake, billing
<1>3. Counters'
  BY <1>1, <1>2 DEF Inv, Counters
<1>4. ASSUME NEW p \in Operators PROVE Reserved(p)' /\ Covered(p)'
  <2>1. Reserved(p) /\ Covered(p)
    BY DEF Inv
  <2>2. Covered(p)'
    BY <1>2, <2>1 DEF Covered
  <2>3. /\ stake[p] \in Nat /\ now - Since(p) \in Nat /\ cursor[p] \in Nat /\ cum[p] \in Nat
        /\ Since(p) \in Nat
    BY DEF Since, Inv, Counters
  <2>4. CASE p = o /\ amount > stake[o]
    <3>1. Since(p)' = now
      BY <1>2, <2>4 DEF Since, Inv, Counters
    <3>2. stake'[p] * (now' - Since(p)') = 0
      BY <1>1, <1>2, <2>4, <3>1 DEF Inv, Counters
    <3>3. stake[p] * (now - Since(p)) \in Nat
      BY <2>3, Products
    <3> QED
      BY <1>2, <2>1, <2>2, <2>3, <3>2, <3>3 DEF Reserved
  <2>5. CASE p = o /\ ~(amount > stake[o])
    <3>1. Since(p)' = Since(p) /\ stake'[p] = amount /\ now' = now
      BY <1>2, <2>5 DEF Since, Inv, Counters
    <3>2. /\ (now - Since(p)) * amount <= (now - Since(p)) * stake[p]
          /\ (now - Since(p)) * amount \in Nat
      <4>1. amount <= stake[p]
        BY <1>1, <2>3, <2>5
      <4> QED
        BY <1>1, <2>3, <4>1, Products
    <3>3. /\ stake'[p] * (now' - Since(p)') = (now - Since(p)) * amount
          /\ stake[p] * (now - Since(p)) = (now - Since(p)) * stake[p]
          /\ stake[p] * (now - Since(p)) \in Nat
      <4> DEFINE t == now - Since(p)
                 s == stake[p]
      <4>1. t \in Nat /\ s \in Nat
        BY <2>3
      <4>2. stake'[p] * (now' - Since(p)') = amount * t
        BY <3>1
      <4> HIDE DEF t, s
      <4>3. amount * t = t * amount /\ s * t = t * s /\ s * t \in Nat
        BY <1>1, <4>1, Products
      <4> QED
        BY <4>2, <4>3 DEF t, s
    <3> QED
      BY <1>2, <2>1, <2>2, <2>3, <3>2, <3>3 DEF Reserved
  <2>6. CASE p # o
    BY <1>2, <2>1, <2>2, <2>6 DEF Reserved, Since, Inv, Counters
  <2> QED
    BY <2>4, <2>5, <2>6
<1> QED
  BY <1>2, <1>3, <1>4 DEF Inv

LEMMA InvJoin ==
  ASSUME Inv, NEW o \in Operators, Join(o)
  PROVE  Inv'
<1>1. /\ serving' = serving \cup {o}
      /\ cursor' = [cursor EXCEPT ![o] = Seeded(cum[o])]
      /\ raisedAt' = [raisedAt EXCEPT ![o] = now]
      /\ UNCHANGED <<now, stake, cum, lastPaymentAt, unbilled, excess>>
  BY DEF Join
<1>2. Seeded(cum[o]) = cum[o] /\ cum[o] \in Nat
  BY DEF Seeded, Inv, Counters
<1>3. Counters'
  BY <1>1, <1>2 DEF Inv, Counters
<1>4. ASSUME NEW p \in Operators PROVE Reserved(p)' /\ Covered(p)'
  <2>1. Reserved(p) /\ Covered(p)
    BY DEF Inv
  <2>2. CASE p = o
    <3>1. Since(p)' = now
      BY <1>1, <2>2 DEF Since, Inv, Counters
    <3>2. stake'[p] * (now' - Since(p)') = 0
      BY <1>1, <2>2, <3>1 DEF Inv, Counters
    <3>3. cum'[p] = cursor'[p] /\ cursor'[p] \in Nat
      BY <1>1, <1>2, <2>2 DEF Inv, Counters
    <3>4. unbilled'[p] + excess'[p] >= 0 /\ cum'[p] - cursor'[p] = 0
      BY <1>1, <2>1, <3>3 DEF Covered
    <3> QED
      BY <3>2, <3>3, <3>4 DEF Covered, Reserved
  <2>3. CASE p # o
    BY <1>1, <2>1, <2>3 DEF Covered, Reserved, Since, Inv, Counters
  <2> QED
    BY <2>2, <2>3
<1> QED
  BY <1>1, <1>3, <1>4 DEF Inv

-----------------------------------------------------------------------------
\* The heart of the matter: a bill sets a cursor back by no more than what the stake of
\* now would have earned in the seconds it did not stand.
LEMMA InvBill ==
  ASSUME Inv, NEW qos \in Qos, BillSubscription(qos)
  PROVE  Inv'
<1> DEFINE end == lastPaymentAt + Interval
<1>1. /\ now >= end /\ lastPaymentAt' = end
      /\ cursor' = [o \in Operators |-> IF o \in serving THEN Projected(o) ELSE cursor[o]]
      /\ unbilled' = [o \in Operators |-> unbilled[o] - Weight[o]]
      /\ excess' = [o \in Operators |->
                      excess[o] + IF o \in serving THEN stake[o] * Missed(o) ELSE 0]
      /\ UNCHANGED <<now, serving, stake, cum, raisedAt>>
  BY DEF BillSubscription, Due, stakes
<1>2. end \in Nat /\ now - end \in Nat /\ lastPaymentAt <= end /\ Interval \in Nat
  BY <1>1, PaymentsAssumption DEF Inv, Counters
<1>3. ASSUME NEW o \in Operators
      PROVE  /\ stake[o] * (now - end) \in Nat
             /\ Projected(o) \in Nat /\ Delta(o) \in Nat /\ Weight[o] \in Nat
             /\ Projected(o) = IF cum[o] > stake[o] * (now - end)
                               THEN cum[o] - stake[o] * (now - end) ELSE 0
             /\ Weight[o] = IF o \in serving THEN Delta(o) ELSE 0
             /\ Missed(o) \in Nat /\ stake[o] * Missed(o) \in Nat
             /\ Missed(o) = IF raisedAt[o] > end THEN raisedAt[o] - end ELSE 0
  <2>1. /\ stake[o] * (now - end) \in Nat /\ cum[o] \in Nat /\ cursor[o] \in Nat
        /\ stake[o] \in Nat /\ raisedAt[o] \in Nat
    BY <1>2, Products DEF Inv, Counters
  <2>2. Projected(o) = IF cum[o] > stake[o] * (now - end)
                       THEN cum[o] - stake[o] * (now - end) ELSE 0
    BY DEF Projected
  <2>3. Projected(o) \in Nat
    BY <2>1, <2>2
  <2>4. Delta(o) \in Nat
    BY <2>1, <2>3 DEF Delta
  <2>5. Weight[o] = IF o \in serving THEN Delta(o) ELSE 0
    BY DEF Weight
  <2>6. Missed(o) = IF raisedAt[o] > end THEN raisedAt[o] - end ELSE 0
    BY DEF Missed
  <2>7. Missed(o) \in Nat
    BY <1>2, <2>1, <2>6
  <2>8. stake[o] * Missed(o) \in Nat
    BY <2>1, <2>7, Products
  <2> QED
    BY <2>1, <2>2, <2>3, <2>4, <2>5, <2>6, <2>7, <2>8
<1>4. Counters'
  <2>1. cursor' \in [Operators -> Nat] /\ unbilled' \in [Operators -> Int]
    BY <1>1, <1>3 DEF Inv, Counters
  <2>2. excess' \in [Operators -> Nat]
    BY <1>1, <1>3 DEF Inv, Counters
  <2> QED
    BY <1>1, <1>2, <2>1, <2>2 DEF Inv, Counters
<1>5. ASSUME NEW o \in Operators PROVE Reserved(o)' /\ Covered(o)'
  <2>1. Reserved(o) /\ Covered(o)
    BY DEF Inv
  <2>2. /\ unbilled[o] \in Int /\ cum[o] \in Nat /\ cursor[o] \in Nat /\ stake[o] \in Nat
        /\ excess[o] \in Nat
        /\ now \in Nat /\ raisedAt[o] \in Nat /\ raisedAt[o] <= now /\ lastPaymentAt <= now
        /\ lastPaymentAt \in Nat
    BY DEF Inv, Counters
  <2>3. CASE o \notin serving
    BY <1>1, <1>3, <2>1, <2>2, <2>3 DEF Covered, Reserved
  <2>4. CASE o \in serving
    <3> DEFINE tail == stake[o] * (now - end)
               missed == stake[o] * Missed(o)
               stood == stake[o] * ((now - end) - Missed(o))
               served == stake[o] * (now - Since(o))
    <3>1. /\ unbilled'[o] = unbilled[o] - Delta(o) /\ cursor'[o] = Projected(o)
          /\ excess'[o] = excess[o] + missed
          /\ cum'[o] = cum[o] /\ stake'[o] = stake[o] /\ now' = now
      BY <1>1, <1>3, <2>4
    \* The tail is the part that was missed and the part that stood.
    <3>2. tail = missed + stood /\ missed \in Nat /\ stood \in Nat /\ tail \in Nat
      <4>1. Missed(o) <= now - end
        BY <1>2, <1>3, <2>2
      <4> QED
        BY <1>2, <1>3, <2>2, <4>1, Products
    \* And since the end of the period an operator stood only then.
    <3>3. Since(o)' = (end + Missed(o)) /\ end + Missed(o) <= now
      BY <1>1, <1>2, <1>3, <2>2 DEF Since
    <3>4. stake'[o] * (now' - Since(o)') = stood
      <4>1. now' - Since(o)' = (now - end) - Missed(o)
        BY <1>2, <1>3, <2>2, <3>1, <3>3
      <4> QED
        BY <3>1, <4>1
    <3>5. stood <= served /\ served \in Nat
      <4>1. /\ now - Since(o) \in Nat /\ (now - end) - Missed(o) \in Nat
            /\ (now - end) - Missed(o) <= now - Since(o)
        BY <1>2, <1>3, <2>2, <3>3 DEF Since
      <4> QED
        BY <2>2, <4>1, Products
    <3> DEFINE p == Projected(o)
               m == Missed(o)
    <3>6. cum[o] >= cursor[o] + served
      BY <2>1, <2>4 DEF Reserved
    <3>7. p = (IF cum[o] > tail THEN cum[o] - tail ELSE 0) /\ p \in Nat
      BY <1>3
    <3>8. Delta(o) = IF cursor[o] # 0 /\ p > cursor[o] THEN p - cursor[o] ELSE 0
      BY DEF Delta
    <3>9. unbilled[o] + excess[o] >= cum[o] - cursor[o]
      BY <2>1, <2>4 DEF Covered
    <3> HIDE DEF tail, missed, stood, served, p, m
    <3>10. cum[o] >= p + stood
      BY <2>2, <3>2, <3>5, <3>6, <3>7
    <3>11. cursor[o] - p <= missed
      BY <2>2, <3>2, <3>5, <3>6, <3>7
    <3>12. (unbilled[o] - Delta(o)) + (excess[o] + missed) >= cum[o] - p
      <4> DEFINE d == Delta(o)
      <4>1. /\ d \in Int
            /\ \/ d = p - cursor[o]
               \/ d = 0 /\ (p <= cursor[o] \/ cursor[o] = 0)
        BY <2>2, <3>7, <3>8
      <4> HIDE DEF d
      <4> QED
        <5>1. (unbilled[o] - d) + (excess[o] + missed) >= cum[o] - p
          BY <2>2, <3>2, <3>7, <3>9, <3>11, <4>1
        <5> QED
          BY <5>1 DEF d
    <3>13. Reserved(o)'
      BY <3>1, <3>4, <3>10 DEF Reserved, p
    <3>14. Covered(o)'
      <4>1. unbilled'[o] + excess'[o] >= cum'[o] - cursor'[o]
        BY <3>1, <3>12 DEF p
      <4>2. cum'[o] - cursor'[o] >= 0 /\ cum'[o] - cursor'[o] \in Int
        BY <2>2, <3>1, <3>2, <3>7, <3>10 DEF p
      <4>3. unbilled'[o] + excess'[o] \in Int
        BY <1>4 DEF Counters
      <4> QED
        BY <4>1, <4>2, <4>3 DEF Covered
    <3> QED
      BY <3>13, <3>14
  <2> QED
    BY <2>3, <2>4
<1> QED
  BY <1>4, <1>5 DEF Inv

LEMMA InvSkip ==
  ASSUME Inv, SkipPeriod
  PROVE  Inv'
<1>1. Counters'
  BY PaymentsAssumption DEF Inv, Counters, SkipPeriod, Due, stakes
<1>2. ASSUME NEW o \in Operators PROVE Reserved(o)' /\ Covered(o)'
  BY <1>2 DEF Inv, Reserved, Covered, SkipPeriod
<1> QED
  BY <1>1, <1>2 DEF Inv, SkipPeriod

LEMMA InvStep == Inv /\ [Next]_vars => Inv'
<1> SUFFICES ASSUME Inv, [Next]_vars PROVE Inv'
  OBVIOUS
<1>1. CASE Environment
  <2>1. ASSUME NEW o \in Operators, Leave(o) PROVE Inv'
    BY <2>1, InvQuiet DEF Leave, stakes, billing
  <2> QED
    BY <1>1, <2>1, InvTick, InvSetStake, InvJoin, PaymentsAssumption DEF Environment
<1>2. CASE Bill
  BY <1>2, InvSkip, InvBill DEF Bill
<1>3. CASE JobStep
  <2>1. UNCHANGED <<now, serving, stakes, billing>>
    BY <1>3 DEF JobStep, SubmitJob, SubmitJobFromQuote, SubmitResult, SubmitAggregatedResult,
         Complete
  <2> QED
    BY <2>1, InvQuiet DEF stakes, billing
<1>4. CASE \/ \E amount \in Deposits : FundService(amount)
           \/ TerminateService \/ TerminateServiceForNonPayment \/ WithdrawRemainingEscrow
           \/ \E a \in Claimants : ClaimRewards(a)
  <2>1. UNCHANGED <<now, serving, stakes, billing>>
    BY <1>4 DEF FundService, TerminateService, TerminateServiceForNonPayment,
         WithdrawRemainingEscrow, ClaimRewards
  <2> QED
    BY <2>1, InvQuiet DEF stakes, billing
<1>5. CASE UNCHANGED vars
  BY <1>5, InvQuiet DEF vars, stakes, billing
<1> QED
  BY <1>1, <1>2, <1>3, <1>4, <1>5 DEF Next

\* Whoever joins, leaves, moves its stake and bills, and whenever: what an operator is
\* billed for beyond the stake-seconds it served is at most, per late bill after it
\* joined or added stake, that stake times the seconds of the tail it did not stand
\* (PaymentsBilling.sol:454-466, ServicesLifecycle.sol:721-723).
THEOREM ServedOnlyBilledCorrect == Spec => []ServedOnlyBilled
<1>1. Inv => ServedOnlyBilled
  BY DEF Inv, Covered, ServedOnlyBilled
<1> QED
  BY <1>1, InvInit, InvStep, PTL DEF Spec

-----------------------------------------------------------------------------
(* Sharing an amount.                                                      *)

\* What a division leaves out is less than the divisor.
LEMMA Divided ==
  ASSUME NEW n \in Nat, NEW d \in Nat \ {0}
  PROVE  n \div d \in Nat /\ d * (n \div d) <= n
OBVIOUS

LEMMA Cancelled ==
  ASSUME NEW d \in Nat \ {0}, NEW x \in Nat, NEW y \in Nat, d * x <= d * y
  PROVE  x <= y
<1> SUFFICES ASSUME y + 1 <= x PROVE FALSE
  OBVIOUS
<1>1. d * (y + 1) <= d * x /\ d * (y + 1) = (d * y) + d
  BY Products
<1>2. d * x \in Nat /\ d * y \in Nat
  BY Products
<1> QED
  BY <1>1, <1>2

\* Shares in proportion to weights, rounded down, are at most the pool together.
LEMMA Proportions ==
  ASSUME NEW S, IsFiniteSet(S), NEW pool \in Nat, NEW w, \A x \in S : w[x] \in Nat,
         NEW total, total = SumFunctionOnSet(w, S), total # 0,
         NEW down, \A x \in S : down[x] = (pool * w[x]) \div total
  PROVE  (\A x \in S : down[x] \in Nat) /\ SumFunctionOnSet(down, S) <= pool
<1>1. total \in Nat \ {0}
  BY SumTypeNat
<1>2. ASSUME NEW x \in S PROVE down[x] \in Nat /\ total * down[x] <= pool * w[x] /\ pool * w[x] \in Nat
  <2> DEFINE n == pool * w[x]
  <2>1. n \in Nat
    BY Products
  <2>2. down[x] = n \div total
    OBVIOUS
  <2> HIDE DEF n
  <2>3. down[x] \in Nat /\ total * down[x] <= n
    BY <1>1, <2>1, <2>2, Divided
  <2> QED
    BY <2>1, <2>3 DEF n
<1> DEFINE sum == SumFunctionOnSet(down, S)
           exact == [x \in S |-> pool * w[x]]
           scaled == [x \in S |-> total * down[x]]
<1>3. sum \in Nat
  BY <1>2, SumTypeNat
<1>4. \A x \in S : exact[x] = pool * w[x] /\ scaled[x] = total * down[x]
  OBVIOUS
<1>5. \A x \in S : exact[x] \in Int /\ scaled[x] \in Int /\ scaled[x] <= exact[x]
  <2>1. \A x \in S : total * down[x] \in Int
    BY <1>1, <1>2
  <2> QED
    BY <1>2, <1>4, <2>1
<1> HIDE DEF exact, scaled
<1>6. SumFunctionOnSet(scaled, S) <= SumFunctionOnSet(exact, S)
  BY <1>5, SumLeq
<1>7. SumFunctionOnSet(exact, S) = pool * total
  BY <1>4, SumScale
<1>8. SumFunctionOnSet(scaled, S) = total * sum
  BY <1>1, <1>2, <1>4, SumScale
<1> HIDE DEF sum
<1>9. total * sum <= total * pool
  <2>1. pool * total = total * pool
    BY <1>1
  <2> QED
    BY <1>6, <1>7, <1>8, <2>1
<1>10. sum <= pool
  BY <1>1, <1>3, <1>9, Cancelled
<1> QED
  BY <1>2, <1>10 DEF sum

LEMMA SumOverValues ==
  ASSUME NEW S, IsFiniteSet(S), NEW g
  PROVE  SumFunction([x \in S |-> g[x]]) = SumFunctionOnSet(g, S)
<1> DEFINE f == [x \in S |-> g[x]]
<1>1. SumFunction(f) = SumFunctionOnSet(f, S)
  <2>1. SumFunction(f) = SumFunctionOnSet(f, DOMAIN f)
    BY DEF SumFunction
  <2>2. DOMAIN f = S
    OBVIOUS
  <2> HIDE DEF f
  <2> QED
    BY <2>1, <2>2
<1>2. \A x \in S : f[x] = g[x]
  OBVIOUS
<1> HIDE DEF f
<1>3. SumFunction(f) = SumFunctionOnSet(g, S)
  BY <1>1, <1>2, SumSame
<1> QED
  BY <1>3 DEF f

\* The shares of a pool add up to it, to the last unit, and none is negative.
LEMMA SharesAddUp ==
  ASSUME NEW pool \in Nat, NEW ops, ops \subseteq Operators, NEW last \in ops,
         NEW weight, \A o \in ops : weight[o] \in Nat
  PROVE  /\ \A o \in ops : Shares(pool, weight, ops, last)[o] \in Nat
         /\ SumFunctionOnSet(Shares(pool, weight, ops, last), ops) = pool
<1>1. IsFiniteSet(ops) /\ IsFiniteSet(ops \ {last})
  BY FS_Subset, PaymentsAssumption
<1> DEFINE total == SumFunctionOnSet(weight, ops)
           down == [o \in ops |-> IF total = 0 THEN pool \div Cardinality(ops)
                                  ELSE (pool * weight[o]) \div total]
           rest == SumFunctionOnSet(down, ops \ {last})
           shares == [down EXCEPT ![last] = pool - rest]
<1>2. Shares(pool, weight, ops, last) = shares
  <2>1. SumFunction([o \in ops |-> weight[o]]) = total
    BY <1>1, SumOverValues
  <2>2. SumFunction([o \in ops \ {last} |-> down[o]]) = rest
    <3> HIDE DEF down
    <3> QED
      BY <1>1, SumOverValues
  <2> HIDE DEF total
  <2> QED
    BY <2>1, <2>2, Zenon DEF Shares, SumOver
<1>3. (\A o \in ops : down[o] \in Nat) /\ SumFunctionOnSet(down, ops) <= pool
  <2>1. CASE total # 0
    <3>1. \A o \in ops : down[o] = (pool * weight[o]) \div total
      BY <2>1
    <3> HIDE DEF down, total
    <3>2. total = SumFunctionOnSet(weight, ops)
      BY DEF total
    <3> QED
      BY <1>1, <2>1, <3>1, <3>2, Proportions
  <2>2. CASE total = 0
    <3> DEFINE one == [o \in ops |-> 1]
               card == Cardinality(ops)
    <3>1. \A o \in ops : one[o] = 1
      OBVIOUS
    <3>2. \A o \in ops : down[o] = (pool * one[o]) \div card
      BY <2>2
    <3>3. card # 0
      BY <1>1, FS_EmptySet
    <3> HIDE DEF down, one
    <3>4. card = SumFunctionOnSet(one, ops)
      BY <1>1, <3>1, SumOfOnes
    <3> HIDE DEF card
    <3> QED
      BY <1>1, <3>1, <3>2, <3>3, <3>4, Proportions
  <2> QED
    BY <2>1, <2>2
<1>4. rest \in Nat /\ SumFunctionOnSet(down, ops) = down[last] + rest
  <2> HIDE DEF down
  <2>1. \A o \in ops : down[o] \in Int
    BY <1>3
  <2> QED
    BY <1>1, <1>3, <2>1, SumTypeNat, SumTakeOut
<1>5. pool - rest \in Nat
  <2>1. down[last] \in Nat
    BY <1>3
  <2> HIDE DEF rest, down
  <2> QED
    BY <1>3, <1>4, <2>1
<1>6. \A o \in ops : shares[o] = IF o = last THEN pool - rest ELSE down[o]
  <2> HIDE DEF rest, total
  <2> QED
    OBVIOUS
<1> HIDE DEF shares
<1>7. \A o \in ops : shares[o] \in Nat
  BY <1>3, <1>5, <1>6
<1>8. SumFunctionOnSet(shares, ops \ {last}) = rest
  <2>1. \A o \in ops \ {last} : shares[o] = down[o]
    BY <1>6
  <2> HIDE DEF down
  <2> QED
    BY <1>1, <2>1, SumSame
<1>9. SumFunctionOnSet(shares, ops) = shares[last] + SumFunctionOnSet(shares, ops \ {last})
  <2>1. \A o \in ops : shares[o] \in Int
    BY <1>7
  <2> QED
    BY <1>1, <2>1, SumTakeOut
<1>10. SumFunctionOnSet(shares, ops) = pool
  <2>1. shares[last] = pool - rest
    BY <1>6
  <2> HIDE DEF rest
  <2> QED
    BY <1>4, <1>8, <1>9, <2>1
<1> QED
  BY <1>2, <1>7, <1>10

\* The parts of an amount, rounded down, leave the stakers something or nothing.
LEMMA PartsFit ==
  ASSUME NEW amount \in Nat
  PROVE  /\ \A who \in DOMAIN Split : Part(amount, who) \in Nat
         /\ StakerPart(amount) \in Nat
<1>1. /\ Full \in Nat \ {0} /\ DOMAIN Split = {"developer", "protocol", "operator", "staker", "keeper"}
      /\ \A who \in DOMAIN Split : Split[who] \in Nat
      /\ Split.developer + Split.protocol + Split.operator + Split.staker + Split.keeper = Full
  BY PaymentsAssumption
<1>2. ASSUME NEW who \in DOMAIN Split
      PROVE  /\ Part(amount, who) \in Nat /\ amount * Split[who] \in Nat
             /\ Full * Part(amount, who) <= amount * Split[who]
             /\ Full * Part(amount, who) \in Nat
  <2> DEFINE n == amount * Split[who]
  <2>1. n \in Nat
    BY <1>1, Products
  <2>2. Part(amount, who) = n \div Full
    BY DEF Part
  <2> HIDE DEF n
  <2>3. Part(amount, who) \in Nat /\ Full * Part(amount, who) <= n
    BY <1>1, <2>1, <2>2, Divided
  <2>4. Full * Part(amount, who) \in Nat
    BY <1>1, <2>3, Products
  <2> QED
    BY <2>1, <2>3, <2>4 DEF n
<1> DEFINE a == Part(amount, "developer")
           b == Part(amount, "protocol")
           c == Part(amount, "operator")
           d == Part(amount, "keeper")
           sum == ((a + b) + c) + d
           split == ((Split.developer + Split.protocol) + Split.operator) + Split.keeper
<1>3. a \in Nat /\ b \in Nat /\ c \in Nat /\ d \in Nat
  BY <1>1, <1>2
<1>4. split \in Nat /\ split <= Full
  BY <1>1
<1>5. amount * split = ((amount * Split.developer + amount * Split.protocol)
                           + amount * Split.operator) + amount * Split.keeper
  BY <1>1
<1>6. /\ Full * a <= amount * Split.developer /\ Full * b <= amount * Split.protocol
      /\ Full * c <= amount * Split.operator /\ Full * d <= amount * Split.keeper
  BY <1>1, <1>2
<1>7. /\ amount * Split.developer \in Nat /\ amount * Split.protocol \in Nat
      /\ amount * Split.operator \in Nat /\ amount * Split.keeper \in Nat
      /\ Full * a \in Nat /\ Full * b \in Nat /\ Full * c \in Nat /\ Full * d \in Nat
  BY <1>1, <1>2
<1> HIDE DEF a, b, c, d
<1>8. Full * sum = ((Full * a + Full * b) + Full * c) + Full * d
  BY <1>1, <1>3
<1>9. amount * split <= Full * amount
  <2>1. amount * split <= amount * Full
    BY <1>1, <1>4, Products
  <2>2. amount * Full = Full * amount
    BY <1>1
  <2> QED
    BY <2>1, <2>2
<1>10. Full * sum <= Full * amount
  <2>1. Full * sum <= amount * split
    <3> HIDE DEF sum, split
    <3> QED
      BY <1>5, <1>6, <1>7, <1>8
  <2>2. Full * sum \in Nat /\ amount * split \in Nat /\ Full * amount \in Nat
    <3>1. sum \in Nat
      BY <1>3
    <3> QED
      BY <1>1, <1>4, <3>1, Products
  <2> QED
    BY <1>9, <2>1, <2>2
<1>11. sum <= amount
  <2>1. sum \in Nat
    BY <1>3
  <2> HIDE DEF sum
  <2> QED
    BY <1>1, <1>10, <2>1, Cancelled
<1>12. StakerPart(amount) = amount - sum
  BY <1>3 DEF StakerPart, a, b, c, d
<1> QED
  BY <1>2, <1>3, <1>11, <1>12

\* What the failing pushes add to the operators' pool, and what the others push out.
LEMMA PushesAddUp ==
  ASSUME NEW amount \in Nat, NEW out \in Outsiders
  PROVE  LET failed == SumOver(out.failing, LAMBDA who : Part(amount, who)) IN
         /\ failed \in Nat /\ Pushed(amount, out) \in Nat
         /\ failed + Pushed(amount, out) = Part(amount, "developer") + Part(amount, "protocol")
<1> DEFINE part == [who \in {"developer", "protocol"} |-> Part(amount, who)]
           F == out.failing
           R == {"developer", "protocol"} \ F
           failed == SumOver(F, LAMBDA who : Part(amount, who))
<1>1. F \subseteq {"developer", "protocol"} /\ F \union R = {"developer", "protocol"} /\ F \cap R = {}
  BY PaymentsAssumption
<1>2. IsFiniteSet({"developer", "protocol"})
  <2>1. {"developer", "protocol"} = {"developer"} \union {"protocol"}
    OBVIOUS
  <2>2. IsFiniteSet({"developer"}) /\ IsFiniteSet({"protocol"})
    BY FS_Singleton
  <2>3. IsFiniteSet({"developer"} \union {"protocol"})
    BY <2>2, FS_Union
  <2> QED
    BY <2>1, <2>3
<1>3. IsFiniteSet(F) /\ IsFiniteSet(R)
  BY <1>1, <1>2, FS_Subset
<1>4. /\ \A who \in {"developer", "protocol"} : part[who] \in Nat
      /\ part["developer"] = Part(amount, "developer") /\ part["protocol"] = Part(amount, "protocol")
  BY PartsFit, PaymentsAssumption
<1>5. ASSUME NEW T \in SUBSET {"developer", "protocol"}
      PROVE  SumOver(T, LAMBDA who : Part(amount, who)) = SumFunctionOnSet(part, T)
  <2>1. IsFiniteSet(T)
    BY <1>2, FS_Subset
  <2>2. [who \in T |-> Part(amount, who)] = [who \in T |-> part[who]]
    OBVIOUS
  <2> HIDE DEF part
  <2>3. SumFunction([who \in T |-> part[who]]) = SumFunctionOnSet(part, T)
    BY <2>1, SumOverValues
  <2>4. SumFunction([who \in T |-> Part(amount, who)]) = SumFunctionOnSet(part, T)
    BY <2>2, <2>3
  <2> QED
    BY <2>4 DEF SumOver
<1>6. failed = SumFunctionOnSet(part, F) /\ Pushed(amount, out) = SumFunctionOnSet(part, R)
  BY <1>1, <1>5 DEF Pushed
<1> HIDE DEF part, R
<1>7. /\ SumFunctionOnSet(part, F) \in Nat /\ SumFunctionOnSet(part, R) \in Nat
  BY <1>1, <1>3, <1>4, SumTypeNat
<1>8. SumFunctionOnSet(part, F \union R) = SumFunctionOnSet(part, F) + SumFunctionOnSet(part, R)
  BY <1>1, <1>3, <1>4, SumOfUnion
<1>9. SumFunctionOnSet(part, {"developer", "protocol"}) = part["developer"] + part["protocol"]
  BY <1>4, SumOfTwo
<1> QED
  BY <1>1, <1>4, <1>6, <1>7, <1>8, <1>9

\* An amount is given away: what it credits, pushes out, pays to stakers and gets back
\* from refused ones is that amount, with nothing negative in it.
GivenAway(amount, ops, credits, stakers, out) ==
  /\ \A a \in Accounts : credits[a] \in Nat
  /\ Pushed(amount, out) \in Nat
  /\ SumFunctionOnSet(stakers, ops \ out.refused) \in Nat
  /\ SumFunctionOnSet(stakers, ops \cap out.refused) \in Nat
  /\ (SumFunctionOnSet(credits, Accounts)
        + (Pushed(amount, out) + SumFunctionOnSet(stakers, ops \ out.refused)))
       + SumFunctionOnSet(stakers, ops \cap out.refused) = amount

LEMMA DistributionAddsUp ==
  ASSUME NEW amount \in Nat, NEW ops, ops \subseteq Operators, NEW last \in ops,
         NEW hasKeeper, NEW backed, NEW out \in Outsiders,
         NEW weight, \A o \in Operators : weight[o] \in Nat
  PROVE  GivenAway(amount, ops, Credits(amount, hasKeeper, weight, backed, ops, last, out),
                   Shares(StakerPool(amount, backed), weight, ops, last), out)
<1> DEFINE credits == Credits(amount, hasKeeper, weight, backed, ops, last, out)
           stakers == Shares(StakerPool(amount, backed), weight, ops, last)
<1>0. /\ credits = Credits(amount, hasKeeper, weight, backed, ops, last, out)
      /\ stakers = Shares(StakerPool(amount, backed), weight, ops, last)
  OBVIOUS
<1> HIDE DEF credits, stakers
<1>1. /\ Part(amount, "developer") \in Nat /\ Part(amount, "protocol") \in Nat
      /\ Part(amount, "operator") \in Nat /\ Part(amount, "keeper") \in Nat
      /\ StakerPart(amount) \in Nat
  BY PartsFit, PaymentsAssumption
<1> DEFINE failed == SumOver(out.failing, LAMBDA who : Part(amount, who))
           pool == OperatorPool(amount, hasKeeper, backed, out)
           shares == Shares(pool, weight, ops, last)
           kept == IF hasKeeper THEN Part(amount, "keeper") ELSE 0
           given == StakerPool(amount, backed)
           mine == SumFunctionOnSet(stakers, ops \cap out.refused)
           others == SumFunctionOnSet(stakers, ops \ out.refused)
<1>2. /\ failed \in Nat /\ Pushed(amount, out) \in Nat
      /\ failed + Pushed(amount, out) = Part(amount, "developer") + Part(amount, "protocol")
  BY PushesAddUp
<1>3. /\ pool \in Nat /\ given \in Nat /\ kept \in Nat
      /\ ((pool + kept) + given) + Pushed(amount, out) = amount
  <2>1. /\ pool = (OperatorPart(amount, hasKeeper) + failed)
                     + (IF backed THEN 0 ELSE StakerPart(amount))
        /\ given = IF backed THEN StakerPart(amount) ELSE 0
    BY DEF OperatorPool, StakerPool
  <2>2. OperatorPart(amount, hasKeeper)
          = Part(amount, "operator") + IF hasKeeper THEN 0 ELSE Part(amount, "keeper")
    BY DEF OperatorPart
  <2>3. StakerPart(amount) = (((amount - Part(amount, "developer")) - Part(amount, "protocol"))
                                - Part(amount, "operator")) - Part(amount, "keeper")
    BY DEF StakerPart
  <2> HIDE DEF failed, pool, given
  <2> QED
    BY <1>1, <1>2, <2>1, <2>2, <2>3
<1>4. IsFiniteSet(Operators) /\ IsFiniteSet(ops) /\ keeper \notin Operators
  BY FS_Subset, PaymentsAssumption
<1>5. \A o \in ops : shares[o] \in Nat
  <2> HIDE DEF pool
  <2> QED
    BY <1>3, SharesAddUp
<1>6. SumFunctionOnSet(shares, ops) = pool
  <2> HIDE DEF pool
  <2> QED
    BY <1>3, SharesAddUp
<1>7. \A o \in ops : stakers[o] \in Nat
  <2> HIDE DEF given
  <2>1. stakers = Shares(given, weight, ops, last)
    BY <1>0 DEF given
  <2> QED
    BY <1>3, <2>1, SharesAddUp
<1>8. SumFunctionOnSet(stakers, ops) = given
  <2> HIDE DEF given
  <2>1. stakers = Shares(given, weight, ops, last)
    BY <1>0 DEF given
  <2>2. SumFunctionOnSet(Shares(given, weight, ops, last), ops) = given
    BY <1>3, SharesAddUp
  <2> QED
    BY <2>1, <2>2
<1>9. /\ \A o \in ops : credits[o] = shares[o]
      /\ \A o \in Operators \ ops : credits[o] = 0
      /\ credits[keeper] = kept
  <2>1. \A a \in Accounts : credits[a] = IF a \in ops THEN shares[a]
                                          ELSE IF a = keeper /\ hasKeeper
                                               THEN Part(amount, "keeper") ELSE 0
    <3> HIDE DEF shares, pool
    <3>1. credits = [a \in Accounts |-> IF a \in ops THEN shares[a]
                                        ELSE IF a = keeper /\ hasKeeper
                                             THEN Part(amount, "keeper") ELSE 0]
      BY <1>0 DEF Credits, shares, pool
    <3> QED
      BY <3>1
  <2> HIDE DEF shares, pool
  <2> QED
    BY <1>4, <2>1 DEF Accounts
<1> HIDE DEF shares, kept, pool, given
<1>10. \A a \in Accounts : credits[a] \in Nat
  BY <1>3, <1>5, <1>9 DEF Accounts
<1>11. SumFunctionOnSet(credits, Accounts) = pool + kept
  <2>1. \A a \in Operators \union {keeper} : credits[a] \in Int
    BY <1>10 DEF Accounts
  <2>2. SumFunctionOnSet(credits, Operators \union {keeper})
          = SumFunctionOnSet(credits, Operators) + credits[keeper]
    BY <1>4, <2>1, SumAddOne
  <2>3. SumFunctionOnSet(credits, Operators) = SumFunctionOnSet(credits, ops)
    BY <1>4, <1>9, <2>1, SumOverSupport
  <2>4. SumFunctionOnSet(credits, ops) = SumFunctionOnSet(shares, ops)
    BY <1>4, <1>9, SumSame
  <2> QED
    BY <1>6, <1>9, <2>2, <2>3, <2>4 DEF Accounts
<1>12. mine \in Nat /\ others \in Nat /\ others + mine = given
  <2> DEFINE T == ops \cap out.refused
             U == ops \ out.refused
  <2>1. IsFiniteSet(T) /\ IsFiniteSet(U) /\ ops = U \union T /\ U \cap T = {}
    BY <1>4, FS_Subset
  <2>2. \A o \in U \union T : stakers[o] \in Nat
    BY <1>7
  <2> HIDE DEF T, U
  <2>3. SumFunctionOnSet(stakers, T) \in Nat /\ SumFunctionOnSet(stakers, U) \in Nat
    BY <2>1, <2>2, SumTypeNat
  <2>4. SumFunctionOnSet(stakers, U \union T)
          = SumFunctionOnSet(stakers, U) + SumFunctionOnSet(stakers, T)
    <3>1. \A o \in U \union T : stakers[o] \in Int
      BY <2>2
    <3>2. IsFiniteSet(T) /\ IsFiniteSet(U) /\ U \cap T = {}
      BY <2>1
    <3> QED
      BY ONLY <3>1, <3>2, SumOfUnion
  <2> QED
    BY <1>8, <2>1, <2>3, <2>4 DEF T, U
<1> HIDE DEF mine, others
<1>13. ((pool + kept) + (Pushed(amount, out) + others)) + mine = amount
  BY <1>2, <1>3, <1>12
<1> QED
  BY <1>2, <1>10, <1>11, <1>12, <1>13 DEF mine, others, credits, stakers, GivenAway

-----------------------------------------------------------------------------
(* Distributions of several amounts at once.                               *)

Owed(rewards) == SumFunctionOnSet(rewards, Accounts)
Amounts(ds) == SumFunctionOnSet([d \in ds |-> d.amount], ds)

\* The same of one of several distributions, as the transfers take it apart.
LEMMA DistributionAddsUpHere ==
  ASSUME NEW d, d.amount \in Nat, d.ops \subseteq Operators, d.ops # {},
         NEW hasKeeper, NEW out \in Outsiders, NEW first,
         NEW weight, \A o \in Operators : weight[o] \in Nat,
         NEW credits, NEW stakers,
         credits = Credits(d.amount, hasKeeper, weight, Backed(d.ops), d.ops,
                           LastOf(first, d.ops), out),
         stakers = Shares(StakerPool(d.amount, Backed(d.ops)), weight, d.ops,
                          LastOf(first, d.ops))
  PROVE  /\ \A a \in Accounts : credits[a] \in Nat
         /\ Sent(d, stakers, out) \in Nat /\ Returned(d, stakers, out) \in Nat
         /\ (Owed(credits) + Sent(d, stakers, out)) + Returned(d, stakers, out) = d.amount
<1>1. LastOf(first, d.ops) \in d.ops
  BY DEF LastOf
<1>3. IsFiniteSet(d.ops \ out.refused) /\ IsFiniteSet(d.ops \cap out.refused)
  BY FS_Subset, PaymentsAssumption
<1> DEFINE ops == d.ops
           amount == d.amount
           last == LastOf(first, d.ops)
           backed == Backed(d.ops)
<1>4. /\ Sent(d, stakers, out) = Pushed(amount, out) + SumFunctionOnSet(stakers, ops \ out.refused)
      /\ Returned(d, stakers, out) = SumFunctionOnSet(stakers, ops \cap out.refused)
  <2>1. SumFunction([o \in ops \ out.refused |-> stakers[o]])
          = SumFunctionOnSet(stakers, ops \ out.refused)
    BY <1>3, SumOverValues
  <2>2. SumFunction([o \in ops \cap out.refused |-> stakers[o]])
          = SumFunctionOnSet(stakers, ops \cap out.refused)
    BY <1>3, SumOverValues
  <2> QED
    BY <2>1, <2>2 DEF Sent, Returned, SumOver
<1>5. /\ amount \in Nat /\ ops \subseteq Operators /\ last \in ops
      /\ credits = Credits(amount, hasKeeper, weight, backed, ops, last, out)
      /\ stakers = Shares(StakerPool(amount, backed), weight, ops, last)
  BY <1>1
<1> HIDE DEF ops, amount, last, backed
<1>6. /\ \A a \in Accounts : credits[a] \in Nat
      /\ Pushed(amount, out) + SumFunctionOnSet(stakers, ops \ out.refused) \in Nat
      /\ SumFunctionOnSet(stakers, ops \cap out.refused) \in Nat
      /\ (SumFunctionOnSet(credits, Accounts)
            + (Pushed(amount, out) + SumFunctionOnSet(stakers, ops \ out.refused)))
           + SumFunctionOnSet(stakers, ops \cap out.refused) = amount
  <2>1. GivenAway(amount, ops, Credits(amount, hasKeeper, weight, backed, ops, last, out),
                  Shares(StakerPool(amount, backed), weight, ops, last), out)
    BY <1>5, DistributionAddsUp
  <2>2. GivenAway(amount, ops, credits, stakers, out)
    BY <1>5, <2>1
  <2> QED
    BY <2>2 DEF GivenAway
<1>7. amount = d.amount
  BY DEF amount
<1> QED
  BY <1>4, <1>6, <1>7 DEF Owed

\* Distributions credit, send and get back their amounts, whatever fails in between.
LEMMA DistributeAddsUp ==
  ASSUME NEW ds, IsFiniteSet(ds),
         \A d \in ds : d.amount \in Nat /\ d.ops \subseteq Operators /\ d.ops # {},
         NEW hasKeeper, NEW weight, \A o \in Operators : weight[o] \in Nat, NEW e,
         pending \in [Accounts -> Nat], held \in Int,
         Distribute(ds, hasKeeper, weight, e)
  PROVE  /\ Amounts(ds) \in Nat
         /\ pending' \in [Accounts -> Nat]
         /\ \E back \in 0 .. Amounts(ds) :
              /\ escrow' = Refunded(e, back)
              /\ held' = ((held + (Owed(pending') - Owed(pending))) - Amounts(ds))
                            + IF e.deposited = 0 THEN 0 ELSE back
<1> DEFINE Paid(first, out) == [d \in ds |-> Credits(d.amount, hasKeeper, weight, Backed(d.ops),
                                                     d.ops, LastOf(first, d.ops), out)]
           Stakers(first) == [d \in ds |-> Shares(StakerPool(d.amount, Backed(d.ops)), weight,
                                                  d.ops, LastOf(first, d.ops))]
<1>1. PICK first \in serving, out \in Outsiders :
        Settle(ds, Paid(first, out), Stakers(first), out, e)
  BY DEF Distribute
<1> DEFINE paid == Paid(first, out)
           stakers == Stakers(first)
<1>2. \A d \in ds :
        /\ paid[d] = Credits(d.amount, hasKeeper, weight, Backed(d.ops), d.ops,
                             LastOf(first, d.ops), out)
        /\ stakers[d] = Shares(StakerPool(d.amount, Backed(d.ops)), weight, d.ops,
                               LastOf(first, d.ops))
  OBVIOUS
<1>3. Settle(ds, paid, stakers, out, e)
  BY <1>1
<1> HIDE DEF paid, stakers
<1> DEFINE amount == [d \in ds |-> d.amount]
           credit == [d \in ds |-> Owed(paid[d])]
           sent == [d \in ds |-> Sent(d, stakers[d], out)]
           left == [d \in ds |-> Returned(d, stakers[d], out)]
           column == [a \in Accounts |-> [d \in ds |-> paid[d][a]]]
           mine == [a \in Accounts |-> SumFunctionOnSet(column[a], ds)]
           back == SumFunctionOnSet(left, ds)
<1>4. ASSUME NEW d \in ds
      PROVE  /\ \A a \in Accounts : paid[d][a] \in Nat
             /\ Sent(d, stakers[d], out) \in Nat /\ Returned(d, stakers[d], out) \in Nat
             /\ (Owed(paid[d]) + Sent(d, stakers[d], out)) + Returned(d, stakers[d], out)
                  = d.amount
  <2> DEFINE cr == paid[d]
             st == stakers[d]
  <2>1. /\ cr = Credits(d.amount, hasKeeper, weight, Backed(d.ops), d.ops,
                        LastOf(first, d.ops), out)
        /\ st = Shares(StakerPool(d.amount, Backed(d.ops)), weight, d.ops,
                       LastOf(first, d.ops))
    BY <1>2
  <2> HIDE DEF cr, st
  <2>2. /\ \A a \in Accounts : cr[a] \in Nat
        /\ Sent(d, st, out) \in Nat /\ Returned(d, st, out) \in Nat
        /\ (Owed(cr) + Sent(d, st, out)) + Returned(d, st, out) = d.amount
    BY <2>1, DistributionAddsUpHere
  <2> QED
    BY <2>2 DEF cr, st
<1>5. IsFiniteSet(Accounts)
  BY FS_AddElement, PaymentsAssumption DEF Accounts
<1>6. \A d \in ds : credit[d] \in Nat
  <2> SUFFICES ASSUME NEW d \in ds PROVE Owed(paid[d]) \in Nat
    OBVIOUS
  <2> DEFINE cr == paid[d]
  <2>1. \A a \in Accounts : cr[a] \in Nat
    BY <1>4
  <2> HIDE DEF cr
  <2>2. SumFunctionOnSet(cr, Accounts) \in Nat
    BY <1>5, <2>1, SumTypeNat
  <2> QED
    BY <2>2 DEF cr, Owed
<1>7. \A d \in ds :
        /\ amount[d] \in Nat /\ sent[d] \in Nat /\ left[d] \in Nat
        /\ (credit[d] + sent[d]) + left[d] = amount[d]
  BY <1>4
<1>8. /\ SumFunction(left) = back /\ SumFunction(sent) = SumFunctionOnSet(sent, ds)
      /\ Amounts(ds) = SumFunctionOnSet(amount, ds)
  BY DEF Amounts, SumFunction
<1>9. \A a \in Accounts : mine[a] \in Nat /\ SumFunction([d \in ds |-> paid[d][a]]) = mine[a]
  <2> SUFFICES ASSUME NEW a \in Accounts
               PROVE  mine[a] \in Nat /\ SumFunction([d \in ds |-> paid[d][a]]) = mine[a]
    OBVIOUS
  <2> DEFINE f == [d \in ds |-> paid[d][a]]
  <2>1. \A d \in ds : f[d] \in Nat
    BY <1>4
  <2>2. column[a] = f /\ mine[a] = SumFunctionOnSet(f, ds) /\ SumFunction(f) = SumFunctionOnSet(f, ds)
    BY DEF SumFunction
  <2> HIDE DEF f
  <2>3. SumFunctionOnSet(f, ds) \in Nat
    BY <2>1, SumTypeNat
  <2> QED
    BY <2>2, <2>3 DEF f
<1>10. SumFunctionOnSet(credit, ds) = SumFunctionOnSet(mine, Accounts)
  <2>1. \A d \in ds : \A a \in Accounts : paid[d][a] \in Int /\ paid[d][a] = column[a][d]
    BY <1>4
  <2>2. \A d \in ds : credit[d] = SumFunctionOnSet(paid[d], Accounts)
    BY DEF Owed
  <2>3. \A a \in Accounts : mine[a] = SumFunctionOnSet(column[a], ds)
    OBVIOUS
  <2>4. /\ Table(paid, column, ds, Accounts) /\ SumsOfLines(credit, paid, ds, Accounts)
        /\ SumsOfLines(mine, column, Accounts, ds)
    BY <2>1, <2>2, <2>3 DEF Table, SumsOfLines
  <2> HIDE DEF credit, mine, column
  <2> QED
    BY <1>5, <2>4, SumSwap
<1> HIDE DEF amount, credit, sent, left
<1>11. /\ escrow' = Refunded(e, back)
       /\ pending' = [a \in Accounts |-> pending[a] + mine[a]]
       /\ held' = (held - SumFunctionOnSet(sent, ds)) - IF e.deposited = 0 THEN back ELSE 0
  <2>1. /\ escrow' = Refunded(e, SumFunction(left))
        /\ pending' = [a \in Accounts |-> pending[a] + SumFunction([d \in ds |-> paid[d][a]])]
        /\ held' = (held - SumFunction(sent))
                     - IF e.deposited = 0 THEN SumFunction(left) ELSE 0
    <3> HIDE DEF column, mine, back
    <3> QED
      BY <1>3, Zenon DEF Settle, SumOver, left, sent
  <2>2. \A a \in Accounts : SumFunction([d \in ds |-> paid[d][a]]) = mine[a]
    BY <1>9
  <2> HIDE DEF mine
  <2> QED
    BY <1>8, <2>1, <2>2
<1>12. Owed(pending') = Owed(pending) + SumFunctionOnSet(credit, ds) /\ Owed(pending) \in Int
  <2>1. \A a \in Accounts : pending[a] \in Int /\ mine[a] \in Int /\ pending'[a] = pending[a] + mine[a]
    BY <1>9, <1>11
  <2> DEFINE f == pending
             g == pending'
  <2>2. \A a \in Accounts : f[a] \in Int /\ mine[a] \in Int /\ g[a] = f[a] + mine[a]
    BY <2>1
  <2> HIDE DEF f, g, mine
  <2>3. SumFunctionOnSet(g, Accounts) = SumFunctionOnSet(f, Accounts) + SumFunctionOnSet(mine, Accounts)
    BY <1>5, <2>2, SumPlus
  <2>4. SumFunctionOnSet(f, Accounts) \in Int
    BY <1>5, <2>2, SumType
  <2> QED
    BY <1>10, <2>3, <2>4 DEF Owed, f, g, mine
<1> DEFINE c == SumFunctionOnSet(credit, ds)
           s == SumFunctionOnSet(sent, ds)
           m == SumFunctionOnSet(amount, ds)
<1>13. c \in Nat /\ s \in Nat /\ back \in Nat /\ m \in Nat /\ (c + s) + back = m
  <2> DEFINE both == [d \in ds |-> credit[d] + sent[d]]
  <2>1. \A d \in ds : /\ credit[d] \in Nat /\ sent[d] \in Nat /\ left[d] \in Nat
                      /\ both[d] = credit[d] + sent[d] /\ amount[d] = both[d] + left[d]
    BY <1>6, <1>7
  <2> HIDE DEF both
  <2>2. c \in Nat /\ s \in Nat /\ back \in Nat /\ m \in Nat
    BY <1>6, <1>7, SumTypeNat
  <2>3. SumFunctionOnSet(both, ds) = c + s
    <3>1. \A d \in ds : credit[d] \in Int /\ sent[d] \in Int /\ both[d] = credit[d] + sent[d]
      BY <2>1
    <3> QED
      BY <3>1, SumPlus
  <2>4. m = SumFunctionOnSet(both, ds) + back
    <3>1. \A d \in ds : both[d] \in Int /\ left[d] \in Int /\ amount[d] = both[d] + left[d]
      BY <2>1
    <3> QED
      BY <3>1, SumPlus
  <2> QED
    BY <2>2, <2>3, <2>4
<1>14. pending' \in [Accounts -> Nat]
  <2>1. \A a \in Accounts : mine[a] \in Nat
    BY <1>9
  <2> HIDE DEF mine
  <2>2. \A a \in Accounts : pending[a] + mine[a] \in Nat
    BY <2>1
  <2> QED
    BY <1>11, <2>2
<1>15. Amounts(ds) = m
  BY <1>8
<1> HIDE DEF c, s, m, back
<1>16. back \in 0 .. m
  BY <1>13
<1>17. held' = ((held + (Owed(pending') - Owed(pending))) - m) + IF e.deposited = 0 THEN 0 ELSE back
  <2>1. held' = (held - s) - IF e.deposited = 0 THEN back ELSE 0
    BY <1>11 DEF s
  <2> DEFINE before == Owed(pending)
             after == Owed(pending')
  <2>2. after = before + c /\ before \in Int
    BY <1>12 DEF c
  <2> HIDE DEF before, after
  <2>3. held' = ((held + (after - before)) - m) + IF e.deposited = 0 THEN 0 ELSE back
    BY <1>13, <2>1, <2>2
  <2> QED
    BY <2>3 DEF before, after
<1> QED
  BY <1>11, <1>13, <1>14, <1>15, <1>16, <1>17

-----------------------------------------------------------------------------
(* The payments of jobs.                                                   *)

JobRecord ==
  [quoted : SUBSET Operators, price : [Operators -> Nat], payment : Nat,
   results : SUBSET Operators, completed : BOOLEAN, distributed : BOOLEAN]

\* A job is paid out when it ends, and was paid what was quoted for it.
JobOK(j) ==
  /\ j.distributed => j.completed
  /\ j.quoted # {} => j.payment = SumFunctionOnSet(j.price, j.quoted)

\* A job's distributions are of its payment, all of it.
LEMMA JobAmounts ==
  ASSUME NEW j \in JobRecord, JobOK(j), serving \subseteq Operators, serving # {}
  PROVE  /\ IsFiniteSet(Distributions(j)) /\ Amounts(Distributions(j)) = j.payment
         /\ \A d \in Distributions(j) : /\ d.amount \in Nat
                                        /\ d.ops \subseteq Operators /\ d.ops # {}
<1> DEFINE ds == Distributions(j)
           amount == [d \in ds |-> d.amount]
<1>1. j.payment \in Nat /\ j.quoted \subseteq Operators /\ \A o \in Operators : j.price[o] \in Nat
  BY DEF JobRecord
<1>2. CASE j.quoted = {}
  <2> DEFINE d == [amount |-> j.payment, ops |-> serving]
  <2>1. ds = {d} /\ d.amount = j.payment /\ d.ops = serving /\ amount[d] = j.payment
    BY <1>2 DEF Distributions
  <2>2. Amounts(ds) = SumFunctionOnSet(amount, {d})
    BY <2>1 DEF Amounts
  <2>3. amount[d] \in Int
    BY <1>1, <2>1
  <2> HIDE DEF d, amount, ds
  <2>5. SumFunctionOnSet(amount, {d}) = j.payment
    BY <2>1, <2>3, SumOfOne
  <2>4. IsFiniteSet(ds)
    BY <2>1, FS_Singleton
  <2> QED
    BY <1>1, <2>1, <2>2, <2>4, <2>5 DEF ds
<1>3. CASE j.quoted # {}
  <2> DEFINE S == {o \in j.quoted : j.price[o] > 0}
             b == [o \in S |-> [amount |-> j.price[o], ops |-> {o}]]
             price == j.price
  <2>1. ds = {[amount |-> j.price[o], ops |-> {o}] : o \in S}
    BY <1>3 DEF Distributions
  <2>2. /\ \A o \in S : b[o] \in ds /\ price[o] = amount[b[o]]
        /\ \A o, p \in S : b[o] = b[p] => o = p
        /\ \A d \in ds : amount[d] \in Nat /\ \E o \in S : b[o] = d
    <3>1. ASSUME NEW o \in S
          PROVE  b[o] = [amount |-> j.price[o], ops |-> {o}] /\ b[o] \in ds
      BY <2>1
    <3>2. \A o \in S : amount[b[o]] = j.price[o] /\ b[o].ops = {o}
      BY <3>1
    <3>3. ASSUME NEW d \in ds PROVE \E o \in S : b[o] = d
      BY <2>1, <3>1
    <3>4. \A o, p \in S : b[o] = b[p] => o = p
      <4> SUFFICES ASSUME NEW o \in S, NEW p \in S, b[o] = b[p] PROVE o = p
        OBVIOUS
      <4>1. b[o].ops = {o} /\ b[p].ops = {p}
        BY <3>2
      <4> HIDE DEF b
      <4>2. {o} = {p}
        BY <4>1
      <4> QED
        BY <4>2
    <3>5. ASSUME NEW d \in ds PROVE amount[d] \in Nat
      <4>1. PICK o \in S : b[o] = d
        BY <3>3
      <4> QED
        BY <1>1, <3>2, <4>1
    <3>6. \A o \in S : b[o] \in ds /\ price[o] = amount[b[o]]
      BY <3>1, <3>2
    <3> HIDE DEF ds, amount, S, b, price
    <3> QED
      BY <3>3, <3>4, <3>5, <3>6
  <2>3. \A d \in ds : d.amount \in Nat /\ d.ops \subseteq Operators /\ d.ops # {}
    BY <1>1, <2>1
  <2>4. IsFiniteSet(j.quoted) /\ IsFiniteSet(S) /\ S \in SUBSET j.quoted
    BY <1>1, FS_Subset, PaymentsAssumption
  <2>5. b \in [S -> ds]
    BY <2>1
  <2>6. /\ Amounts(ds) = SumFunctionOnSet(amount, ds)
        /\ j.payment = SumFunctionOnSet(price, j.quoted)
    BY <1>3 DEF Amounts, JobOK
  <2>7. \A o \in j.quoted : price[o] \in Int
    BY <1>1
  <2>8. \A o \in j.quoted \ S : price[o] = 0
    BY <1>1
  <2> HIDE DEF ds, amount, S, b, price
  <2>9. IsFiniteSet(ds)
    <3>1. b \in Surjection(S, ds)
      BY <2>2, <2>5 DEF Surjection
    <3> QED
      BY <2>4, <3>1, FS_Surjection
  <2>10. SumFunctionOnSet(price, S) = SumFunctionOnSet(amount, ds)
    <3>1. /\ \A o \in S : b[o] \in ds /\ price[o] = amount[b[o]]
          /\ \A d \in ds : amount[d] \in Int /\ \E o \in S : b[o] = d
      BY <2>2
    <3>2. \A o, p \in S : b[o] = b[p] => o = p
      BY <2>2
    <3> QED
      BY <2>4, <2>9, <3>1, <3>2, SumRenamed
  <2>11. SumFunctionOnSet(price, j.quoted) = SumFunctionOnSet(price, S)
    BY <2>4, <2>7, <2>8, SumOverSupport
  <2> QED
    BY <2>3, <2>6, <2>9, <2>10, <2>11 DEF ds
<1> QED
  BY <1>2, <1>3

LEMMA NoAmounts == IsFiniteSet({}) /\ Amounts({}) = 0
BY FS_EmptySet, SumOfNone DEF Amounts

\* What is kept for a job, and for all.
Unpaid(j) == IF j.distributed THEN 0 ELSE j.payment

LEMMA UnpaidType == \A j \in JobRecord : Unpaid(j) \in Nat
BY DEF Unpaid, JobRecord

UnpaidOf(js) == SumFunctionOnSet([i \in DOMAIN js |-> Unpaid(js[i])], DOMAIN js)

LEMMA UndistributedIs ==
  jobs \in Seq(JobRecord) => Undistributed = UnpaidOf(jobs) /\ UnpaidOf(jobs) \in Nat
<1> SUFFICES ASSUME jobs \in Seq(JobRecord)
             PROVE  Undistributed = UnpaidOf(jobs) /\ UnpaidOf(jobs) \in Nat
  OBVIOUS
<1> DEFINE D == DOMAIN jobs
           T == {i \in D : ~jobs[i].distributed}
           f == [i \in D |-> Unpaid(jobs[i])]
           g == [i \in T |-> jobs[i].payment]
<1>1. IsFiniteSet(D) /\ T \in SUBSET D
  <2>1. D = 1 .. Len(jobs) /\ Len(jobs) \in Int
    OBVIOUS
  <2> QED
    BY <2>1, FS_Interval
<1>2. \A i \in D : jobs[i] \in JobRecord
  OBVIOUS
<1>3. /\ \A i \in D : f[i] \in Nat
      /\ \A i \in D \ T : f[i] = 0
      /\ \A i \in T : f[i] = g[i]
  BY <1>2 DEF Unpaid, JobRecord
<1>4. Undistributed = SumFunction(g) /\ SumFunction(g) = SumFunctionOnSet(g, T)
  BY DEF Undistributed, SumOver, SumFunction
<1>5. UnpaidOf(jobs) = SumFunctionOnSet(f, D)
  BY DEF UnpaidOf
<1> HIDE DEF D, T, f, g
<1>6. IsFiniteSet(T)
  BY <1>1, FS_Subset
<1>7. SumFunctionOnSet(f, T) = SumFunctionOnSet(g, T)
  BY <1>3, <1>6, SumSame
<1>8. SumFunctionOnSet(f, D) = SumFunctionOnSet(f, T)
  BY <1>1, <1>3, SumOverSupport
<1>9. SumFunctionOnSet(f, D) \in Nat
  BY <1>1, <1>3, SumTypeNat
<1> QED
  BY <1>4, <1>5, <1>7, <1>8, <1>9

LEMMA UnpaidAppend ==
  ASSUME NEW js \in Seq(JobRecord), NEW j \in JobRecord
  PROVE  UnpaidOf(Append(js, j)) = UnpaidOf(js) + Unpaid(j)
<1> DEFINE D == DOMAIN js
           a == Len(js) + 1
           f == [i \in D |-> Unpaid(js[i])]
           g == [i \in DOMAIN Append(js, j) |-> Unpaid(Append(js, j)[i])]
<1>1. IsFiniteSet(D) /\ a \notin D
  <2>1. D = 1 .. Len(js) /\ Len(js) \in Int
    OBVIOUS
  <2> QED
    BY <2>1, FS_Interval
<1>2. DOMAIN Append(js, j) = D \union {a}
  OBVIOUS
<1>3. /\ \A i \in D : f[i] \in Int /\ g[i] = f[i]
      /\ g[a] = Unpaid(j) /\ g[a] \in Int
  <2>1. /\ \A i \in D : js[i] \in JobRecord /\ Append(js, j)[i] = js[i]
        /\ Append(js, j)[a] = j
    OBVIOUS
  <2>2. /\ \A i \in D : f[i] = Unpaid(js[i]) /\ g[i] = Unpaid(Append(js, j)[i])
        /\ g[a] = Unpaid(Append(js, j)[a])
    BY <1>2
  <2>3. Unpaid(j) \in Nat
    BY UnpaidType
  <2> HIDE DEF D, a, f, g
  <2>4. g[a] = Unpaid(j)
    BY <2>1, <2>2
  <2>5. \A i \in D : f[i] = Unpaid(js[i]) /\ g[i] = Unpaid(js[i])
    BY <2>1, <2>2
  <2>6. \A i \in D : Unpaid(js[i]) \in Nat
    BY <2>1, UnpaidType
  <2> QED
    BY <2>3, <2>4, <2>5, <2>6
<1>4. /\ UnpaidOf(js) = SumFunctionOnSet(f, D)
      /\ UnpaidOf(Append(js, j)) = SumFunctionOnSet(g, D \union {a})
  BY <1>2 DEF UnpaidOf
<1> HIDE DEF D, a, f, g
<1>5. SumFunctionOnSet(f, D) = SumFunctionOnSet(g, D)
  BY <1>1, <1>3, SumSame
<1>6. SumFunctionOnSet(g, D \union {a}) = SumFunctionOnSet(g, D) + g[a]
  <2>1. \A i \in D \union {a} : g[i] \in Int
    BY <1>3
  <2> QED
    BY <1>1, <2>1, SumAddOne
<1> QED
  BY <1>3, <1>4, <1>5, <1>6

LEMMA UnpaidChange ==
  ASSUME NEW js \in Seq(JobRecord), NEW i \in DOMAIN js, NEW j \in JobRecord
  PROVE  UnpaidOf([js EXCEPT ![i] = j]) = (UnpaidOf(js) + Unpaid(j)) - Unpaid(js[i])
<1> DEFINE D == DOMAIN js
           new == [js EXCEPT ![i] = j]
           f == [k \in D |-> Unpaid(js[k])]
           g == [k \in D |-> Unpaid(new[k])]
<1>1. IsFiniteSet(D)
  <2>1. D = 1 .. Len(js) /\ Len(js) \in Int
    OBVIOUS
  <2> QED
    BY <2>1, FS_Interval
<1>2. /\ \A k \in D : f[k] \in Int /\ g[k] \in Int
      /\ \A k \in D \ {i} : f[k] = g[k]
      /\ f[i] = Unpaid(js[i]) /\ g[i] = Unpaid(j) /\ i \in D
  <2>1. \A k \in D : js[k] \in JobRecord /\ new[k] = IF k = i THEN j ELSE js[k]
    OBVIOUS
  <2>2. \A k \in D : f[k] = Unpaid(js[k]) /\ g[k] = Unpaid(new[k])
    OBVIOUS
  <2>3. i \in D
    OBVIOUS
  <2> HIDE DEF D, f, g, new
  <2> QED
    BY <2>1, <2>2, <2>3, UnpaidType
<1>3. UnpaidOf(js) = SumFunctionOnSet(f, D) /\ UnpaidOf(new) = SumFunctionOnSet(g, D)
  BY DEF UnpaidOf
<1>4. SumFunctionOnSet(g, D) = (SumFunctionOnSet(f, D) + g[i]) - f[i]
  <2>1. i \in D
    BY <1>2
  <2>2. \A k \in D : f[k] \in Int /\ g[k] \in Int
    BY <1>2
  <2>3. \A k \in D \ {i} : f[k] = g[k]
    BY <1>2
  <2> HIDE DEF D, f, g, new
  <2> QED
    BY ONLY <1>1, <2>1, <2>2, <2>3, SumOneChanges
<1> QED
  BY <1>2, <1>3, <1>4

-----------------------------------------------------------------------------
(* The books of the contract.  A refund never exceeds what was released,   *)
(* because only a bill, which has just released its amount, can lead to    *)
(* one: a service without a subscription has no escrow to refund to.       *)

EscrowRecord == [balance : Nat, deposited : Nat, released : Nat]

\* An escrow of other amounts.
LEMMA EscrowUpdates ==
  ASSUME NEW e \in EscrowRecord, NEW n \in Nat, NEW m \in Nat
  PROVE  /\ e.balance \in Nat /\ e.deposited \in Nat /\ e.released \in Nat
         /\ [e EXCEPT !.balance = n, !.deposited = m] \in EscrowRecord
         /\ [e EXCEPT !.balance = n, !.released = m] \in EscrowRecord
<1>1. e.balance \in Nat /\ e.deposited \in Nat /\ e.released \in Nat
  BY DEF EscrowRecord
<1>2. [e EXCEPT !.balance = n, !.deposited = m] \in EscrowRecord
  BY Zenon DEF EscrowRecord
<1>3. [e EXCEPT !.balance = n, !.released = m] \in EscrowRecord
  BY Zenon DEF EscrowRecord
<1> QED
  BY <1>1, <1>2, <1>3

BooksTyped ==
  /\ pricing \in Pricings /\ now <= MaxTime[pricing]
  /\ status \in {"Active", "Terminated"}
  /\ escrow \in EscrowRecord
  /\ baseline \in Nat \ {0}
  /\ stake \in [Operators -> Stakes]
  /\ jobs \in Seq(JobRecord)
  /\ pending \in [Accounts -> Nat]
  /\ held \in Int

JobsInOrder == \A i \in DOMAIN jobs : JobOK(jobs[i])

Balanced == held = (escrow.balance + Owed(pending)) + UnpaidOf(jobs)

NoEscrow == pricing # "Subscription" => escrow.deposited = 0

PeriodsPaid == status = "Active" => escrow.released <= Rate * (lastPaymentAt \div Interval)

Books == BooksTyped /\ JobsInOrder /\ Balanced /\ EscrowExact /\ NoEscrow /\ PeriodsPaid

\* The periods passed so far: they never grow fewer, and a period adds one.
LEMMA PeriodsGrow ==
  ASSUME NEW m \in Nat, NEW n \in Nat, m <= n
  PROVE  /\ m \div Interval \in Nat
         /\ Rate * (m \div Interval) \in Nat
         /\ Rate * (m \div Interval) <= Rate * (n \div Interval)
         /\ Rate * ((m + Interval) \div Interval) = Rate * (m \div Interval) + Rate
<1>1. Interval \in Nat \ {0} /\ Rate \in Nat
  BY PaymentsAssumption
<1>2. m \div Interval \in Nat /\ n \div Interval \in Nat
  BY <1>1, Divided
<1>3. m \div Interval <= n \div Interval
  <2> SUFFICES ASSUME (n \div Interval) + 1 <= m \div Interval PROVE FALSE
    BY <1>2
  <2>1. Interval * ((n \div Interval) + 1) <= Interval * (m \div Interval)
    BY <1>1, <1>2, Products
  <2>2. Interval * (m \div Interval) <= m
    BY <1>1, Divided
  <2>3. n < Interval * ((n \div Interval) + 1)
    BY <1>1
  <2>4. Interval * ((n \div Interval) + 1) \in Nat /\ Interval * (m \div Interval) \in Nat
    BY <1>1, <1>2, Products
  <2> QED
    BY <2>1, <2>2, <2>3, <2>4
<1>4. (m + Interval) \div Interval = (m \div Interval) + 1
  BY <1>1
<1> QED
  BY <1>1, <1>2, <1>3, <1>4, Products

LEMMA BooksInit == Init => Books
<1> SUFFICES ASSUME Init PROVE Books
  OBVIOUS
<1>1. PICK first \in IF pricing = "Subscription" THEN Deposits ELSE {0} :
        /\ escrow = [balance |-> first, deposited |-> first, released |-> 0]
        /\ held = first
  BY DEF Init
<1>2. first \in Nat /\ (pricing # "Subscription" => first = 0)
  BY <1>1, PaymentsAssumption
<1>3. /\ pricing \in Pricings /\ now = 0 /\ status = "Active" /\ serving \subseteq Operators
      /\ stake \in [Operators -> Stakes] /\ jobs = <<>> /\ lastPaymentAt = 0
      /\ pending = [a \in Accounts |-> 0]
  BY DEF Init
<1>4. MaxTime[pricing] \in Nat
  BY <1>3, PaymentsAssumption
<1>5. baseline \in Nat \ {0}
  <2> DEFINE sum == SumFunction([o \in serving |-> stake[o]])
  <2>1. baseline = IF sum = 0 THEN 1 ELSE sum
    BY DEF Init, SumOver
  <2>2. IsFiniteSet(serving) /\ \A o \in serving : stake[o] \in Nat
    BY <1>3, FS_Subset, PaymentsAssumption
  <2>3. sum = SumFunctionOnSet(stake, serving)
    BY <2>2, SumOverValues
  <2>4. SumFunctionOnSet(stake, serving) \in Nat
    BY <2>2, SumTypeNat
  <2> HIDE DEF sum
  <2> QED
    BY <2>1, <2>3, <2>4
<1>6. Owed(pending) = 0
  <2>1. IsFiniteSet(Accounts)
    BY FS_AddElement, PaymentsAssumption DEF Accounts
  <2>2. \A a \in Accounts : pending[a] = 0
    BY <1>3
  <2> QED
    BY <2>1, <2>2, SumAllZero DEF Owed
<1>7. jobs \in Seq(JobRecord) /\ DOMAIN jobs = {}
  BY <1>3
<1>8. UnpaidOf(jobs) = 0
  BY <1>7, SumOfNone DEF UnpaidOf
<1>9. BooksTyped
  <2>1. escrow \in EscrowRecord /\ held \in Int
    BY <1>1, <1>2 DEF EscrowRecord
  <2>2. pending \in [Accounts -> Nat]
    BY <1>3
  <2> QED
    BY <1>3, <1>4, <1>5, <1>7, <2>1, <2>2 DEF BooksTyped
<1>10. PeriodsPaid
  <2>1. Rate * (lastPaymentAt \div Interval) \in Nat
    BY <1>3, PeriodsGrow
  <2> QED
    BY <1>1, <2>1 DEF PeriodsPaid
<1> QED
  BY <1>1, <1>2, <1>6, <1>7, <1>8, <1>9, <1>10
     DEF Books, JobsInOrder, Balanced, EscrowExact, NoEscrow

\* What moves no money keeps the books.
LEMMA BooksQuiet ==
  ASSUME Books, Counters, Counters',
         UNCHANGED <<pricing, escrow, jobs, pending, held, baseline>>,
         now' <= MaxTime[pricing], stake' \in [Operators -> Stakes],
         status' \in {"Active", "Terminated"}, status' = "Active" => status = "Active",
         lastPaymentAt <= lastPaymentAt'
  PROVE  Books'
<1>1. PeriodsPaid'
  <2>1. Rate * (lastPaymentAt \div Interval) <= Rate * (lastPaymentAt' \div Interval)
    BY PeriodsGrow DEF Counters
  <2>2. Rate * (lastPaymentAt \div Interval) \in Nat /\ Rate * (lastPaymentAt' \div Interval) \in Nat
    BY PeriodsGrow DEF Counters
  <2> QED
    BY <2>1, <2>2 DEF PeriodsPaid, Books, BooksTyped, EscrowRecord
<1> QED
  BY <1>1 DEF Books, BooksTyped, JobsInOrder, Balanced, EscrowExact, NoEscrow

LEMMA BooksFund ==
  ASSUME Books, Counters, NEW amount \in Deposits, FundService(amount)
  PROVE  Books'
<1>1. amount \in Nat
  BY PaymentsAssumption
<1>2. /\ escrow' = [escrow EXCEPT !.balance = @ + amount, !.deposited = @ + amount]
      /\ held' = held + amount /\ pricing = "Subscription"
      /\ UNCHANGED <<now, pricing, status, jobs, pending, stake, baseline, lastPaymentAt>>
  BY DEF FundService, stakes, billing
<1>3. /\ escrow' \in EscrowRecord /\ escrow'.balance = escrow.balance + amount
      /\ escrow'.deposited = escrow.deposited + amount /\ escrow'.released = escrow.released
  <2>1. escrow \in EscrowRecord
    BY DEF Books, BooksTyped
  <2>2. escrow.balance + amount \in Nat /\ escrow.deposited + amount \in Nat
    BY <1>1, <2>1 DEF EscrowRecord
  <2>3. escrow' \in EscrowRecord
    BY <1>2, <2>1, <2>2, EscrowUpdates
  <2> QED
    BY <1>2, <2>1, <2>3 DEF EscrowRecord
<1>4. Owed(pending) \in Int /\ UnpaidOf(jobs) \in Int /\ escrow.balance \in Int
  <2>1. IsFiniteSet(Accounts)
    BY FS_AddElement, PaymentsAssumption DEF Accounts
  <2> QED
    BY <2>1, SumType, UndistributedIs DEF Owed, Books, BooksTyped, EscrowRecord
<1>5. Balanced'
  BY <1>1, <1>2, <1>3, <1>4 DEF Books, Balanced
<1>6. EscrowExact' /\ NoEscrow' /\ PeriodsPaid'
  BY <1>1, <1>2, <1>3 DEF Books, BooksTyped, EscrowRecord, EscrowExact, NoEscrow, PeriodsPaid
<1>7. BooksTyped'
  BY <1>1, <1>2, <1>3 DEF Books, BooksTyped
<1> QED
  BY <1>2, <1>5, <1>6, <1>7 DEF Books, JobsInOrder

LEMMA OwedType == pending \in [Accounts -> Nat] => Owed(pending) \in Nat
<1>1. IsFiniteSet(Accounts)
  BY FS_AddElement, PaymentsAssumption DEF Accounts
<1> QED
  BY <1>1, SumTypeNat DEF Owed

\* A job is added with what was paid for it.
LEMMA BooksNewJob ==
  ASSUME Books, NEW j \in JobRecord, JobOK(j), ~j.distributed,
         jobs' = Append(jobs, j), held' = held + j.payment,
         UNCHANGED <<now, pricing, status, escrow, pending, stake, baseline, lastPaymentAt>>
  PROVE  Books'
<1>1. jobs \in Seq(JobRecord) /\ jobs' \in Seq(JobRecord) /\ j.payment \in Nat
  BY DEF Books, BooksTyped, JobRecord
<1>2. UnpaidOf(jobs') = UnpaidOf(jobs) + j.payment
  BY <1>1, UnpaidAppend DEF Unpaid
<1>3. Balanced'
  <2> DEFINE owed == Owed(pending)
             kept == UnpaidOf(jobs)
  <2>1. owed \in Nat /\ kept \in Nat /\ escrow.balance \in Nat
    BY OwedType, UndistributedIs DEF Books, BooksTyped, EscrowRecord
  <2>2. held = (escrow.balance + owed) + kept /\ held' = held + j.payment
    BY DEF Books, Balanced
  <2>3. Owed(pending)' = owed
    BY DEF Owed
  <2> DEFINE price == j.payment
             rest == escrow.balance
  <2>4. /\ price \in Nat /\ rest \in Nat /\ held = (rest + owed) + kept
        /\ held' = held + price
    BY <1>1, <2>1, <2>2
  <2> HIDE DEF owed, kept, price, rest
  <2>5. held' = (rest + owed) + (kept + price)
    BY <2>1, <2>4
  <2> QED
    BY <1>2, <2>3, <2>5 DEF Balanced, kept, rest, price
<1>4. JobsInOrder'
  <2> SUFFICES ASSUME NEW i \in DOMAIN jobs' PROVE JobOK(jobs'[i])
    BY DEF JobsInOrder
  <2>1. jobs'[i] = j \/ (i \in DOMAIN jobs /\ jobs'[i] = jobs[i])
    BY <1>1
  <2> QED
    BY <2>1 DEF Books, JobsInOrder
<1>5. BooksTyped'
  BY <1>1 DEF Books, BooksTyped
<1> QED
  BY <1>3, <1>4, <1>5 DEF Books, EscrowExact, NoEscrow, PeriodsPaid

LEMMA BooksSubmit ==
  ASSUME Books, SubmitJob
  PROVE  Books'
<1> DEFINE payment == IF pricing = "EventDriven" THEN EventRate ELSE 0
           j == Job({}, [o \in Operators |-> 0], payment)
<1>1. payment \in Nat
  BY PaymentsAssumption
<1>2. /\ j \in JobRecord /\ j.payment = payment /\ j.quoted = {} /\ j.distributed = FALSE
  BY <1>1 DEF Job, JobRecord
<1>3. /\ jobs' = Append(jobs, j) /\ held' = held + payment
      /\ UNCHANGED <<now, pricing, status, escrow, pending, stake, baseline, lastPaymentAt>>
  BY DEF SubmitJob, stakes, billing
<1> HIDE DEF payment, j
<1>4. JobOK(j)
  BY <1>2 DEF JobOK
<1> QED
  BY <1>2, <1>3, <1>4, BooksNewJob

LEMMA BooksQuote ==
  ASSUME Books, NEW quoted \in SUBSET Operators, NEW price \in [Operators -> QuotePrices],
         SubmitJobFromQuote(quoted, price)
  PROVE  Books'
<1> DEFINE payment == SumFunction([o \in quoted |-> price[o]])
           j == Job(quoted, price, payment)
<1>1. IsFiniteSet(quoted) /\ price \in [Operators -> Nat]
  BY FS_Subset, PaymentsAssumption
<1>2. payment = SumFunctionOnSet(price, quoted) /\ payment \in Nat
  BY <1>1, SumOverValues, SumTypeNat
<1>3. /\ jobs' = Append(jobs, j) /\ held' = held + payment
      /\ UNCHANGED <<now, pricing, status, escrow, pending, stake, baseline, lastPaymentAt>>
  BY DEF SubmitJobFromQuote, SumOver, stakes, billing
<1> HIDE DEF payment
<1>4. /\ j \in JobRecord /\ j.payment = payment /\ j.quoted = quoted /\ j.price = price
      /\ j.distributed = FALSE
  BY <1>1, <1>2 DEF Job, JobRecord
<1> HIDE DEF j
<1>5. JobOK(j)
  BY <1>2, <1>4 DEF JobOK
<1> QED
  BY <1>3, <1>4, <1>5, BooksNewJob

\* What is claimed or withdrawn leaves the account that owed it.
LEMMA BooksClaim ==
  ASSUME Books, NEW a \in Claimants, ClaimRewards(a)
  PROVE  Books'
<1>1. /\ pending' = [pending EXCEPT ![a] = 0] /\ held' = held - pending[a]
      /\ UNCHANGED <<now, pricing, status, escrow, jobs, stake, baseline, lastPaymentAt>>
  BY DEF ClaimRewards, stakes, billing
<1>2. a \in Accounts /\ IsFiniteSet(Accounts)
  BY FS_AddElement, PaymentsAssumption DEF Accounts
<1>3. pending \in [Accounts -> Nat] /\ pending' \in [Accounts -> Nat] /\ pending'[a] = 0
  BY <1>1, <1>2 DEF Books, BooksTyped
<1>4. Owed(pending') = (Owed(pending) + 0) - pending[a]
  <2> DEFINE f == pending
             g == pending'
  <2>1. (\A x \in Accounts : f[x] \in Int /\ g[x] \in Int) /\ (\A x \in Accounts \ {a} : f[x] = g[x])
    BY <1>1, <1>3
  <2>2. g[a] = 0
    BY <1>3
  <2> HIDE DEF f, g
  <2>3. SumFunctionOnSet(g, Accounts) = (SumFunctionOnSet(f, Accounts) + g[a]) - f[a]
    BY <1>2, <2>1, SumOneChanges
  <2> QED
    BY <2>2, <2>3 DEF Owed, f, g
<1>5. Balanced'
  <2> DEFINE owed == Owed(pending)
             kept == UnpaidOf(jobs)
  <2>1. owed \in Nat /\ kept \in Nat /\ escrow.balance \in Nat /\ pending[a] \in Nat
    BY <1>2, OwedType, UndistributedIs DEF Books, BooksTyped, EscrowRecord
  <2>2. held = (escrow.balance + owed) + kept
    BY DEF Books, Balanced
  <2>3. UnpaidOf(jobs)' = kept
    BY <1>1
  <2> HIDE DEF owed, kept
  <2>4. held' = (escrow.balance + ((owed + 0) - pending[a])) + kept
    BY <1>1, <2>1, <2>2
  <2> QED
    BY <1>1, <1>4, <2>3, <2>4 DEF Balanced, owed
<1>6. BooksTyped'
  BY <1>1, <1>2, <1>3 DEF Books, BooksTyped
<1> QED
  BY <1>1, <1>5, <1>6 DEF Books, JobsInOrder, EscrowExact, NoEscrow, PeriodsPaid

LEMMA BooksWithdraw ==
  ASSUME Books, WithdrawRemainingEscrow
  PROVE  Books'
<1>1. /\ status = "Terminated" /\ escrow' = Withdrawn /\ held' = held - escrow.balance
      /\ UNCHANGED <<now, pricing, status, jobs, pending, stake, baseline, lastPaymentAt>>
  BY DEF WithdrawRemainingEscrow, stakes, billing
<1>2. /\ escrow' \in EscrowRecord /\ escrow'.balance = 0 /\ escrow'.deposited = escrow.deposited
      /\ escrow'.released = escrow.released + escrow.balance
      /\ escrow.balance \in Nat /\ escrow.released \in Nat /\ escrow.deposited \in Nat
  <2>1. escrow \in EscrowRecord
    BY DEF Books, BooksTyped
  <2>2. escrow.balance \in Nat /\ escrow.released \in Nat /\ escrow.deposited \in Nat
    BY <2>1 DEF EscrowRecord
  <2>3. /\ escrow'.balance = 0 /\ escrow'.deposited = escrow.deposited
        /\ escrow'.released = escrow.released + escrow.balance
    BY <1>1, <2>1 DEF Withdrawn, EscrowRecord
  <2>4. escrow' \in EscrowRecord
    <3>1. escrow.released + escrow.balance \in Nat /\ 0 \in Nat
      BY <2>2
    <3> QED
      BY <1>1, <2>1, <3>1, EscrowUpdates DEF Withdrawn
  <2> QED
    BY <2>2, <2>3, <2>4
<1>3. Balanced'
  <2> DEFINE owed == Owed(pending)
             kept == UnpaidOf(jobs)
  <2>1. owed \in Nat /\ kept \in Nat
    BY OwedType, UndistributedIs DEF Books, BooksTyped
  <2>2. held = (escrow.balance + owed) + kept
    BY DEF Books, Balanced
  <2>3. UnpaidOf(jobs)' = kept /\ Owed(pending)' = owed
    BY <1>1 DEF Owed
  <2> HIDE DEF owed, kept
  <2>4. held' = (0 + owed) + kept
    BY <1>1, <1>2, <2>1, <2>2
  <2> QED
    BY <1>2, <2>3, <2>4 DEF Balanced
<1>4. EscrowExact' /\ NoEscrow'
  BY <1>1, <1>2 DEF Books, EscrowExact, NoEscrow
<1>5. BooksTyped'
  BY <1>1, <1>2 DEF Books, BooksTyped
<1> QED
  BY <1>1, <1>3, <1>4, <1>5 DEF Books, JobsInOrder, PeriodsPaid

\* Distributions keep an escrow exact that has released at least what they share.
LEMMA DistributeKeepsEscrow ==
  ASSUME Books, NEW ds, IsFiniteSet(ds),
         \A d \in ds : d.amount \in Nat /\ d.ops \subseteq Operators /\ d.ops # {},
         NEW hasKeeper, NEW weight, \A o \in Operators : weight[o] \in Nat,
         NEW e \in EscrowRecord, e.balance = e.deposited - e.released,
         e.deposited = 0 \/ Amounts(ds) <= e.released,
         Distribute(ds, hasKeeper, weight, e)
  PROVE  /\ escrow' \in EscrowRecord /\ EscrowExact'
         /\ escrow'.deposited = e.deposited /\ escrow'.released <= e.released
         /\ pending' \in [Accounts -> Nat]
         /\ held' = ((held + (Owed(pending') - Owed(pending))) - Amounts(ds))
                       + (escrow'.balance - e.balance)
<1>1. pending \in [Accounts -> Nat] /\ held \in Int
  BY DEF Books, BooksTyped
<1>2. Amounts(ds) \in Nat /\ pending' \in [Accounts -> Nat]
  BY <1>1, DistributeAddsUp
<1>3. PICK back \in 0 .. Amounts(ds) :
        /\ escrow' = Refunded(e, back)
        /\ held' = ((held + (Owed(pending') - Owed(pending))) - Amounts(ds))
                      + IF e.deposited = 0 THEN 0 ELSE back
  BY <1>1, DistributeAddsUp
<1>4. e.balance \in Nat /\ e.deposited \in Nat /\ e.released \in Nat /\ back \in Nat
  BY <1>2, <1>3 DEF EscrowRecord
<1>5. CASE e.deposited = 0
  <2>1. escrow' = e
    BY <1>3, <1>5 DEF Refunded
  <2>2. escrow'.balance - e.balance = 0
    BY <1>4, <2>1
  <2>3. held' = ((held + (Owed(pending') - Owed(pending))) - Amounts(ds))
                   + (escrow'.balance - e.balance)
    BY <1>3, <1>5, <2>2
  <2>4. EscrowExact' /\ escrow'.released <= e.released
    BY <1>4, <2>1 DEF EscrowExact
  <2> QED
    BY <1>2, <2>1, <2>3, <2>4
<1>6. CASE e.deposited # 0
  <2>1. back <= e.released
    BY <1>2, <1>3, <1>4, <1>6
  <2>2. escrow' = [e EXCEPT !.balance = e.balance + back, !.released = e.released - back]
    BY <1>3, <1>6, <2>1 DEF Refunded
  <2>3. e.balance + back \in Nat /\ e.released - back \in Nat
    BY <1>4, <2>1
  <2>4. escrow' \in EscrowRecord
    BY <2>2, <2>3, EscrowUpdates
  <2>5. /\ escrow'.balance = e.balance + back /\ escrow'.released = e.released - back
        /\ escrow'.deposited = e.deposited
    BY <2>2 DEF EscrowRecord
  <2>6. escrow'.balance - e.balance = back /\ escrow'.released <= e.released
    BY <1>4, <2>5
  <2>7. EscrowExact'
    BY <1>4, <2>5 DEF EscrowExact
  <2> QED
    BY <1>2, <1>3, <1>6, <2>4, <2>5, <2>6, <2>7
<1> QED
  BY <1>5, <1>6

\* What an operator is billed for, and the bill, which is not above the rate.
LEMMA WeightType ==
  ASSUME Counters, Due
  PROVE  \A o \in Operators : Delta(o) \in Nat /\ Weight[o] \in Nat
<1> SUFFICES ASSUME NEW o \in Operators PROVE Delta(o) \in Nat /\ Weight[o] \in Nat
  OBVIOUS
<1> DEFINE late == stake[o] * (now - (lastPaymentAt + Interval))
<1>1. late \in Nat
  <2>1. now - (lastPaymentAt + Interval) \in Nat /\ stake[o] \in Nat
    BY PaymentsAssumption DEF Counters, Due
  <2> QED
    BY <2>1, Products
<1>2. cum[o] \in Nat /\ cursor[o] \in Nat
  BY DEF Counters
<1>3. Projected(o) \in Nat
  BY <1>1, <1>2 DEF Projected
<1>4. Delta(o) \in Nat
  BY <1>2, <1>3 DEF Delta
<1> QED
  BY <1>4 DEF Weight

LEMMA BillWithinRate ==
  ASSUME Counters, Due, baseline \in Nat \ {0}, NEW qos \in Qos
  PROVE  BillAmount(qos) \in Nat /\ BillAmount(qos) <= Rate
<1> DEFINE delta == [o \in serving |-> Delta(o)]
           seconds == SumFunction(delta)
           n == Rate * seconds
           d == baseline * Interval
           bill == IF n \div d > Rate THEN Rate ELSE n \div d
<1>1. Rate \in Nat /\ Full \in Nat \ {0} /\ Interval \in Nat \ {0} /\ qos \in Nat /\ qos <= Full
  BY PaymentsAssumption
<1>2. seconds \in Nat
  <2>1. seconds = SumFunctionOnSet(delta, serving)
    BY DEF SumFunction
  <2>2. IsFiniteSet(serving) /\ \A o \in serving : delta[o] \in Nat
    BY WeightType, FS_Subset, PaymentsAssumption DEF Counters
  <2> HIDE DEF delta
  <2> QED
    BY <2>1, <2>2, SumTypeNat
<1>3. BillAmount(qos) = (bill * qos) \div Full
  BY DEF BillAmount, SumOver
<1> HIDE DEF seconds
<1>4. n \in Nat /\ d \in Nat \ {0}
  <2>1. baseline * 1 <= baseline * Interval /\ baseline * 1 = baseline
    BY <1>1, Products
  <2> QED
    BY <1>1, <1>2, <2>1, Products
<1> HIDE DEF n, d
<1>5. bill \in Nat /\ bill <= Rate
  BY <1>1, <1>4, Divided
<1> HIDE DEF bill
<1>6. bill * qos \in Nat /\ bill * qos <= bill * Full
  BY <1>1, <1>5, Products
<1> DEFINE product == bill * qos
           result == product \div Full
<1>7. product \in Nat
  BY <1>6
<1>8. result \in Nat /\ Full * result <= product
  <2> HIDE DEF product
  <2> QED
    BY <1>1, <1>7, Divided
<1> HIDE DEF result
<1>9. Full * result <= Full * bill
  <2>1. bill * Full = Full * bill /\ Full * bill \in Nat /\ Full * result \in Nat
    BY <1>1, <1>5, <1>8, Products
  <2> QED
    BY <1>6, <1>7, <1>8, <2>1
<1>10. result <= bill
  BY <1>1, <1>5, <1>8, <1>9, Cancelled
<1> QED
  BY <1>1, <1>3, <1>5, <1>8, <1>10 DEF result

\* A bill releases its amount and distributes it; the period it is for is paid once.
LEMMA BooksBill ==
  ASSUME Books, Counters, NEW qos \in Qos, BillSubscription(qos)
  PROVE  Books'
<1> DEFINE amount == IF BillAmount(qos) < MinBill THEN 0 ELSE BillAmount(qos)
           ds == IF amount = 0 THEN {} ELSE {[amount |-> amount, ops |-> serving]}
           e == [escrow EXCEPT !.balance = escrow.balance - amount,
                               !.released = escrow.released + amount]
<1>1. /\ Open /\ pricing = "Subscription" /\ Due /\ serving # {}
      /\ escrow.balance >= BillAmount(qos)
      /\ lastPaymentAt' = lastPaymentAt + Interval
      /\ Distribute(ds, TRUE, Weight, e)
      /\ UNCHANGED <<now, pricing, status, jobs, stake, baseline>>
  BY DEF BillSubscription, stakes
<1>2. BillAmount(qos) \in Nat /\ BillAmount(qos) <= Rate
  BY <1>1, BillWithinRate DEF Books, BooksTyped
<1>3. escrow \in EscrowRecord /\ escrow.balance = escrow.deposited - escrow.released
  BY DEF Books, BooksTyped, EscrowExact
<1>4. escrow.balance \in Nat /\ escrow.deposited \in Nat /\ escrow.released \in Nat
  BY <1>3 DEF EscrowRecord
<1>5. amount \in Nat /\ amount <= Rate /\ amount <= escrow.balance
  BY <1>1, <1>2, <1>4, PaymentsAssumption
<1> HIDE DEF amount
<1>6. /\ e \in EscrowRecord /\ e.balance = escrow.balance - amount
      /\ e.released = escrow.released + amount /\ e.deposited = escrow.deposited
  <2>1. escrow.balance - amount \in Nat /\ escrow.released + amount \in Nat
    BY <1>4, <1>5
  <2>2. e \in EscrowRecord
    BY <1>3, <2>1, EscrowUpdates
  <2>3. /\ e.balance = escrow.balance - amount /\ e.released = escrow.released + amount
        /\ e.deposited = escrow.deposited
    BY <1>3 DEF EscrowRecord
  <2> QED
    BY <2>2, <2>3
<1>7. /\ IsFiniteSet(ds) /\ Amounts(ds) = amount
      /\ \A d \in ds : d.amount \in Nat /\ d.ops \subseteq Operators /\ d.ops # {}
  <2>1. CASE amount = 0
    BY <2>1, NoAmounts
  <2>2. CASE amount # 0
    <3> DEFINE d == [amount |-> amount, ops |-> serving]
               f == [x \in ds |-> x.amount]
    <3>1. ds = {d} /\ d.amount = amount /\ d.ops = serving
      BY <2>2
    <3>2. f[d] = amount /\ Amounts(ds) = SumFunctionOnSet(f, ds)
      BY <3>1 DEF Amounts
    <3>3. serving \subseteq Operators
      BY DEF Counters
    <3> HIDE DEF d, f, ds
    <3>4. SumFunctionOnSet(f, {d}) = amount
      <4>1. f[d] \in Int
        BY <1>5, <3>2
      <4> QED
        BY <3>2, <4>1, SumOfOne
    <3> QED
      BY <1>1, <1>5, <3>1, <3>2, <3>3, <3>4, FS_Singleton
  <2> QED
    BY <2>1, <2>2
<1>8. \A o \in Operators : Weight[o] \in Nat
  BY <1>1, WeightType
<1>9. e.balance = e.deposited - e.released /\ Amounts(ds) <= e.released
  BY <1>3, <1>4, <1>5, <1>6, <1>7
<1> HIDE DEF ds, e
<1>10. /\ escrow' \in EscrowRecord /\ EscrowExact'
       /\ escrow'.deposited = e.deposited /\ escrow'.released <= e.released
       /\ pending' \in [Accounts -> Nat]
       /\ held' = ((held + (Owed(pending') - Owed(pending))) - Amounts(ds))
                     + (escrow'.balance - e.balance)
  <2> DEFINE w == Weight
  <2>1. (\A o \in Operators : w[o] \in Nat) /\ Distribute(ds, TRUE, w, e)
    BY <1>1, <1>8
  <2> HIDE DEF w
  <2> QED
    BY <1>6, <1>7, <1>9, <2>1, DistributeKeepsEscrow
<1>11. Balanced' /\ held' \in Int
  <2> DEFINE owed == Owed(pending)
             after == Owed(pending')
             kept == UnpaidOf(jobs)
             old == escrow.balance
             new == escrow'.balance
  <2>1. owed \in Nat /\ after \in Nat /\ kept \in Nat /\ old \in Nat /\ new \in Nat
    <3>1. pending \in [Accounts -> Nat] /\ jobs \in Seq(JobRecord)
      BY DEF Books, BooksTyped
    <3>2. owed \in Nat /\ kept \in Nat
      BY <3>1, OwedType, UndistributedIs
    <3>3. after \in Nat
      <4>1. (pending \in [Accounts -> Nat] => Owed(pending) \in Nat)'
        BY OwedType, PTL
      <4> QED
        BY <1>10, <4>1 DEF Owed
    <3>4. new \in Nat
      BY <1>10 DEF EscrowRecord
    <3> QED
      BY <1>4, <3>2, <3>3, <3>4
  <2>2. held = (old + owed) + kept
    BY DEF Books, Balanced
  <2>3. held' = ((held + (after - owed)) - amount) + (new - (old - amount))
    BY <1>6, <1>7, <1>10
  <2>4. UnpaidOf(jobs)' = kept /\ Owed(pending)' = after
    BY <1>1 DEF Owed
  <2> HIDE DEF owed, after, kept, old, new
  <2>5. held' = (new + after) + kept /\ held' \in Int
    BY <1>5, <2>1, <2>2, <2>3
  <2> QED
    BY <2>4, <2>5 DEF Balanced, new
<1>12. PeriodsPaid'
  <2>1. /\ Rate * (lastPaymentAt' \div Interval) = Rate * (lastPaymentAt \div Interval) + Rate
        /\ Rate * (lastPaymentAt \div Interval) \in Nat
    BY <1>1, PeriodsGrow DEF Counters
  <2>2. escrow.released <= Rate * (lastPaymentAt \div Interval)
    BY <1>1 DEF Open, Books, PeriodsPaid
  <2>3. escrow'.released <= escrow.released + amount
    BY <1>6, <1>10
  <2>4. escrow'.released \in Nat /\ Rate \in Nat
    BY <1>10, PaymentsAssumption DEF EscrowRecord
  <2>5. escrow'.released <= Rate * (lastPaymentAt' \div Interval)
    <3> DEFINE paid == Rate * (lastPaymentAt \div Interval)
    <3> HIDE DEF paid
    <3>1. escrow'.released <= paid + Rate
      BY <1>4, <1>5, <2>1, <2>2, <2>3, <2>4 DEF paid
    <3> QED
      BY <2>1, <3>1 DEF paid
  <2> QED
    BY <2>5 DEF PeriodsPaid
<1>13. BooksTyped'
  BY <1>1, <1>10, <1>11 DEF Books, BooksTyped
<1>14. NoEscrow'
  BY <1>1 DEF NoEscrow
<1> QED
  BY <1>1, <1>10, <1>11, <1>12, <1>13, <1>14 DEF Books, JobsInOrder

\* A job is replaced by its next state.
LEMMA JobReplaced ==
  ASSUME Books, NEW i \in DOMAIN jobs, NEW j \in JobRecord, JobOK(j),
         jobs' = [jobs EXCEPT ![i] = j]
  PROVE  /\ jobs' \in Seq(JobRecord) /\ JobsInOrder'
         /\ UnpaidOf(jobs') = (UnpaidOf(jobs) + Unpaid(j)) - Unpaid(jobs[i])
<1>1. jobs \in Seq(JobRecord) /\ JobsInOrder
  BY DEF Books, BooksTyped
<1>2. jobs' \in Seq(JobRecord)
  BY <1>1
<1>3. JobsInOrder'
  <2> SUFFICES ASSUME NEW k \in DOMAIN jobs' PROVE JobOK(jobs'[k])
    BY DEF JobsInOrder
  <2>1. k \in DOMAIN jobs /\ (jobs'[k] = j \/ jobs'[k] = jobs[k])
    BY <1>1
  <2> QED
    BY <1>1, <2>1 DEF JobsInOrder
<1>4. UnpaidOf(jobs') = (UnpaidOf(jobs) + Unpaid(j)) - Unpaid(jobs[i])
  BY <1>1, UnpaidChange
<1> QED
  BY <1>2, <1>3, <1>4

\* A job gets one more result.
LEMMA BooksResult ==
  ASSUME Books, NEW i \in DOMAIN jobs, NEW results \in SUBSET Operators,
         jobs' = [jobs EXCEPT ![i].results = results],
         UNCHANGED <<now, pricing, status, escrow, pending, held, stake, baseline, lastPaymentAt>>
  PROVE  Books'
<1> DEFINE j == [jobs[i] EXCEPT !.results = results]
<1>1. jobs \in Seq(JobRecord) /\ jobs[i] \in JobRecord /\ JobOK(jobs[i])
  BY DEF Books, BooksTyped, JobsInOrder
<1>2. j \in JobRecord
  BY <1>1, Zenon DEF JobRecord
<1>3. /\ j.quoted = jobs[i].quoted /\ j.price = jobs[i].price /\ j.payment = jobs[i].payment
      /\ j.completed = jobs[i].completed /\ j.distributed = jobs[i].distributed
  BY <1>1 DEF JobRecord
<1>4. jobs' = [jobs EXCEPT ![i] = j]
  OBVIOUS
<1> HIDE DEF j
<1>5. JobOK(j) /\ Unpaid(j) = Unpaid(jobs[i])
  BY <1>1, <1>3 DEF JobOK, Unpaid
<1>6. /\ jobs' \in Seq(JobRecord) /\ JobsInOrder'
      /\ UnpaidOf(jobs') = (UnpaidOf(jobs) + Unpaid(j)) - Unpaid(jobs[i])
  BY <1>2, <1>4, <1>5, JobReplaced
<1>7. UnpaidOf(jobs') = UnpaidOf(jobs)
  BY <1>1, <1>5, <1>6, UnpaidType, UndistributedIs
<1> QED
  BY <1>6, <1>7 DEF Books, BooksTyped, Balanced, EscrowExact, NoEscrow, PeriodsPaid

\* A job ends: what was paid for it is owed to others now, or stays where it was.
LEMMA BooksComplete ==
  ASSUME Books, Counters, NEW i \in DOMAIN jobs, NEW results \in SUBSET Operators,
         ~jobs[i].completed, Complete(i, results)
  PROVE  Books'
<1> DEFINE old == jobs[i]
           pays == pricing = "EventDriven" /\ old.payment > 0
           ds == IF pays THEN Distributions(old) ELSE {}
           j == [old EXCEPT !.results = results, !.completed = TRUE, !.distributed = pays]
           paid == IF pays THEN old.payment ELSE 0
<1>1. /\ jobs' = [jobs EXCEPT ![i] = j]
      /\ Distribute(ds, FALSE, stake, escrow)
      /\ UNCHANGED <<now, pricing, status, stake, baseline, lastPaymentAt>>
  BY DEF Complete, stakes, billing
<1>2. /\ jobs \in Seq(JobRecord) /\ old \in JobRecord /\ JobOK(old)
      /\ old.payment \in Nat /\ pays \in BOOLEAN /\ old.distributed = FALSE
  <2>1. jobs \in Seq(JobRecord) /\ old \in JobRecord /\ JobOK(old)
    BY DEF Books, BooksTyped, JobsInOrder
  <2> QED
    BY <2>1 DEF JobRecord, JobOK
<1>3. j \in JobRecord
  <2> HIDE DEF old, pays
  <2> QED
    BY <1>2, Zenon DEF JobRecord
<1>4. /\ j.quoted = old.quoted /\ j.price = old.price /\ j.payment = old.payment
      /\ j.completed = TRUE /\ j.distributed = pays
  <2> HIDE DEF old, pays
  <2> QED
    BY <1>2 DEF JobRecord
<1>5. JobOK(j) /\ Unpaid(j) = old.payment - paid /\ Unpaid(old) = old.payment /\ paid \in Nat
  <2>1. old.distributed = FALSE /\ j.distributed = pays /\ j.payment = old.payment
    BY <1>2, <1>4
  <2>2. paid = IF pays THEN old.payment ELSE 0
    OBVIOUS
  <2> HIDE DEF j, old, pays, paid
  <2>3. JobOK(j)
    BY <1>2, <1>4 DEF JobOK
  <2>4. Unpaid(old) = old.payment
    BY <2>1 DEF Unpaid
  <2>5. Unpaid(j) = old.payment - paid /\ paid \in Nat
    BY <1>2, <2>1, <2>2 DEF Unpaid
  <2> QED
    BY <2>3, <2>4, <2>5
<1>6. /\ IsFiniteSet(ds) /\ Amounts(ds) = paid
      /\ \A d \in ds : d.amount \in Nat /\ d.ops \subseteq Operators /\ d.ops # {}
  <2>1. CASE ~pays
    BY <2>1, NoAmounts
  <2>2. CASE pays
    <3>1. serving \subseteq Operators /\ serving # {}
      BY <1>1 DEF Distribute, Counters
    <3>2. ds = Distributions(old) /\ paid = old.payment
      BY <2>2
    <3> HIDE DEF old, ds, pays, paid
    <3> QED
      BY <1>2, <3>1, <3>2, JobAmounts
  <2> QED
    BY <2>1, <2>2
<1>7. \A o \in Operators : stake[o] \in Nat
  BY DEF Counters
<1>8. escrow \in EscrowRecord /\ escrow.balance = escrow.deposited - escrow.released
  BY DEF Books, BooksTyped, EscrowExact
<1>9. escrow.deposited = 0 \/ Amounts(ds) <= escrow.released
  <2>1. escrow.released \in Nat
    BY <1>8 DEF EscrowRecord
  <2>2. pays => escrow.deposited = 0
    BY DEF Books, NoEscrow
  <2> HIDE DEF ds
  <2> QED
    BY <1>6, <2>1, <2>2
<1> HIDE DEF ds, paid
<1>10. /\ escrow' \in EscrowRecord /\ EscrowExact'
       /\ escrow'.deposited = escrow.deposited /\ escrow'.released <= escrow.released
       /\ pending' \in [Accounts -> Nat]
       /\ held' = ((held + (Owed(pending') - Owed(pending))) - Amounts(ds))
                     + (escrow'.balance - escrow.balance)
  <2> DEFINE w == stake
             e == escrow
  <2>1. (\A o \in Operators : w[o] \in Nat) /\ Distribute(ds, FALSE, w, e)
    BY <1>1, <1>7
  <2>2. e \in EscrowRecord /\ e.balance = e.deposited - e.released
    BY <1>8
  <2>3. e.deposited = 0 \/ Amounts(ds) <= e.released
    BY <1>9
  <2> HIDE DEF w, e
  <2>4. /\ escrow' \in EscrowRecord /\ EscrowExact'
        /\ escrow'.deposited = e.deposited /\ escrow'.released <= e.released
        /\ pending' \in [Accounts -> Nat]
        /\ held' = ((held + (Owed(pending') - Owed(pending))) - Amounts(ds))
                      + (escrow'.balance - e.balance)
    BY <1>6, <2>1, <2>2, <2>3, DistributeKeepsEscrow
  <2> QED
    BY <2>4 DEF e
<1>11. /\ jobs' \in Seq(JobRecord) /\ JobsInOrder'
       /\ UnpaidOf(jobs') = (UnpaidOf(jobs) + Unpaid(j)) - Unpaid(old)
  <2> HIDE DEF j
  <2> QED
    BY <1>1, <1>3, <1>5, JobReplaced
<1>12. Balanced' /\ held' \in Int
  <2> DEFINE owed == Owed(pending)
             after == Owed(pending')
             kept == UnpaidOf(jobs)
             keeps == UnpaidOf(jobs')
             had == escrow.balance
             has == escrow'.balance
             price == old.payment
  <2>1. /\ owed \in Nat /\ after \in Nat /\ kept \in Nat /\ had \in Nat /\ has \in Nat
        /\ price \in Nat
    <3>1. pending \in [Accounts -> Nat]
      BY DEF Books, BooksTyped
    <3>2. owed \in Nat /\ kept \in Nat
      BY <1>2, <3>1, OwedType, UndistributedIs
    <3>3. after \in Nat
      <4>1. (pending \in [Accounts -> Nat] => Owed(pending) \in Nat)'
        BY OwedType, PTL
      <4> QED
        BY <1>10, <4>1 DEF Owed
    <3>4. had \in Nat /\ has \in Nat
      BY <1>8, <1>10 DEF EscrowRecord
    <3> QED
      BY <1>2, <3>2, <3>3, <3>4
  <2>2. held = (had + owed) + kept
    BY DEF Books, Balanced
  <2>3. held' = ((held + (after - owed)) - paid) + (has - had)
    BY <1>6, <1>10
  <2>4. keeps = (kept + (price - paid)) - price
    BY <1>5, <1>11
  <2>5. UnpaidOf(jobs)' = keeps /\ Owed(pending)' = after
    BY DEF Owed, UnpaidOf, Unpaid
  <2> HIDE DEF owed, after, kept, keeps, had, has, price
  <2>6. held' = (has + after) + keeps /\ held' \in Int
    BY <1>5, <2>1, <2>2, <2>3, <2>4
  <2> QED
    BY <2>5, <2>6 DEF Balanced, has
<1>13. PeriodsPaid' /\ NoEscrow'
  <2>1. lastPaymentAt \in Nat /\ escrow.released \in Nat /\ escrow'.released \in Nat
    BY <1>8, <1>10 DEF Counters, EscrowRecord
  <2>2. Rate * (lastPaymentAt \div Interval) \in Nat
    BY <2>1, PeriodsGrow
  <2> QED
    BY <1>1, <1>10, <2>1, <2>2 DEF Books, PeriodsPaid, NoEscrow
<1>14. BooksTyped'
  BY <1>1, <1>10, <1>11, <1>12 DEF Books, BooksTyped
<1> QED
  BY <1>10, <1>11, <1>12, <1>13, <1>14 DEF Books

-----------------------------------------------------------------------------
LEMMA BooksJob ==
  ASSUME Books, Counters, JobStep
  PROVE  Books'
<1>1. CASE SubmitJob
  BY <1>1, BooksSubmit
<1>2. CASE \E quoted \in SUBSET Operators, price \in [Operators -> QuotePrices] :
             SubmitJobFromQuote(quoted, price)
  BY <1>2, BooksQuote
<1>3. ASSUME NEW i \in DOMAIN jobs PROVE jobs[i].results \in SUBSET Operators
  <2>1. jobs[i] \in JobRecord
    BY DEF Books, BooksTyped
  <2> QED
    BY <2>1 DEF JobRecord
<1>4. ASSUME NEW i \in DOMAIN jobs, NEW o \in Operators, SubmitResult(o, i) PROVE Books'
  <2> DEFINE results == jobs[i].results \cup {o}
  <2>1. results \in SUBSET Operators /\ ~jobs[i].completed
    BY <1>3, <1>4 DEF SubmitResult
  <2>2. \/ Complete(i, results)
        \/ /\ jobs' = [jobs EXCEPT ![i].results = results]
           /\ UNCHANGED <<now, pricing, status, serving, escrow, pending, held, stakes, billing>>
    BY <1>4 DEF SubmitResult
  <2> HIDE DEF results
  <2> QED
    BY <2>1, <2>2, BooksComplete, BooksResult DEF stakes, billing
<1>5. ASSUME NEW i \in DOMAIN jobs, NEW signers \in SUBSET Operators,
             SubmitAggregatedResult(signers, i)
      PROVE  Books'
  BY <1>3, <1>5, BooksComplete DEF SubmitAggregatedResult
<1> QED
  BY <1>1, <1>2, <1>4, <1>5 DEF JobStep

\* The clock stops where the bound is.
LEMMA TimeBound == pricing \in Pricings => MaxTime[pricing] \in Nat
<1>1. MaxTime \in [{"Subscription", "EventDriven"} -> Nat]
  BY PaymentsAssumption
<1>2. Pricings \subseteq {"Subscription", "EventDriven"}
  BY PaymentsAssumption
<1> QED
  BY <1>1, <1>2

LEMMA BooksStep == Books /\ Inv /\ [Next]_vars => Books'
<1> SUFFICES ASSUME Books, Inv, [Next]_vars PROVE Books'
  OBVIOUS
<1>1. Counters /\ Counters'
  BY InvStep DEF Inv
<1>2. /\ now <= MaxTime[pricing] /\ stake \in [Operators -> Stakes]
      /\ status \in {"Active", "Terminated"} /\ lastPaymentAt \in Nat /\ now \in Nat
  BY <1>1 DEF Books, BooksTyped, Counters
<1>3. CASE Environment
  <2>1. CASE Tick
    <3>1. now' <= MaxTime[pricing]
      BY <1>2, <2>1, TimeBound DEF Tick, Books, BooksTyped
    <3> QED
      BY <1>1, <1>2, <2>1, <3>1, BooksQuiet DEF Tick
  <2>2. ASSUME NEW o \in Movers, NEW amount \in Stakes, SetStake(o, amount) PROVE Books'
    <3>1. /\ UNCHANGED <<pricing, escrow, jobs, pending, held, baseline, now, status,
                         lastPaymentAt>>
          /\ stake' = [stake EXCEPT ![o] = amount]
      BY <2>2 DEF SetStake, billing
    <3>2. stake' \in [Operators -> Stakes]
      BY <1>2, <3>1
    <3> QED
      BY <1>1, <1>2, <3>1, <3>2, BooksQuiet
  <2>3. ASSUME NEW o \in Joiners, Join(o) \/ Leave(o) PROVE Books'
    BY <1>1, <1>2, <2>3, BooksQuiet DEF Join, Leave, stakes, billing
  <2> QED
    BY <1>3, <2>1, <2>2, <2>3 DEF Environment
<1>4. CASE Bill
  <2>1. CASE SkipPeriod
    <3>1. lastPaymentAt <= lastPaymentAt'
      BY <1>2, <2>1, PaymentsAssumption DEF SkipPeriod
    <3> QED
      BY <1>1, <1>2, <2>1, <3>1, BooksQuiet DEF SkipPeriod, stakes
  <2> QED
    BY <1>1, <1>4, <2>1, BooksBill DEF Bill
<1>5. CASE JobStep
  BY <1>1, <1>5, BooksJob
<1>6. CASE TerminateService \/ TerminateServiceForNonPayment
  BY <1>1, <1>2, <1>6, BooksQuiet
     DEF TerminateService, TerminateServiceForNonPayment, stakes, billing
<1>7. CASE UNCHANGED vars
  BY <1>1, <1>2, <1>7, BooksQuiet DEF vars, stakes, billing
<1> QED
  BY <1>1, <1>3, <1>4, <1>5, <1>6, <1>7, BooksFund, BooksWithdraw, BooksClaim DEF Next

LEMMA BooksAlways == Spec => [](Inv /\ Books)
<1>1. Init => Inv /\ Books
  BY InvInit, BooksInit
<1>2. Inv /\ Books /\ [Next]_vars => (Inv /\ Books)'
  BY InvStep, BooksStep
<1> QED
  BY <1>1, <1>2, PTL DEF Spec

\* No amount owed or held ever underflows: whatever is claimed, withdrawn or refunded
\* is there (PaymentsDistribution.sol:253-449, PaymentLib.sol:305-336).
THEOREM TypeCorrect == Spec => []TypeOK
<1>1. Inv /\ Books => TypeOK
  <2> SUFFICES ASSUME Inv, Books PROVE TypeOK
    OBVIOUS
  <2>1. held \in Nat
    <3>1. Owed(pending) \in Nat /\ UnpaidOf(jobs) \in Nat
      BY OwedType, UndistributedIs DEF Books, BooksTyped
    <3>2. escrow.balance \in Nat
      BY DEF Books, BooksTyped, EscrowRecord
    <3> QED
      BY <3>1, <3>2 DEF Books, Balanced
  <2>2. now \in 0 .. MaxTime[pricing]
    <3>1. MaxTime[pricing] \in Nat
      BY TimeBound DEF Books, BooksTyped
    <3> QED
      BY <3>1 DEF Books, BooksTyped, Inv, Counters
  <2> QED
    BY <2>1, <2>2 DEF TypeOK, Books, BooksTyped, Inv, Counters, EscrowRecord, JobRecord
<1> QED
  BY <1>1, BooksAlways, PTL

\* The contract holds exactly what it owes: the escrow, the rewards not claimed and
\* the payments of jobs not distributed, through failed pushes, refused stakers'
\* shares, roundings and refunds (PaymentsDistribution.sol:253-449).
THEOREM SolventCorrect == Spec => []Solvent
<1>1. Inv /\ Books => Solvent
  <2> SUFFICES ASSUME Books PROVE Solvent
    OBVIOUS
  <2>1. Undistributed = UnpaidOf(jobs)
    BY UndistributedIs DEF Books, BooksTyped
  <2>2. SumOver(Accounts, LAMBDA a : pending[a]) = Owed(pending)
    <3>1. SumOver(Accounts, LAMBDA a : pending[a]) = SumFunction([a \in Accounts |-> pending[a]])
      BY Zenon DEF SumOver
    <3>2. IsFiniteSet(Accounts) /\ \A a \in Accounts : pending[a] \in Int
      <4>1. IsFiniteSet(Accounts)
        BY FS_AddElement, PaymentsAssumption DEF Accounts
      <4>2. pending \in [Accounts -> Nat]
        BY DEF Books, BooksTyped
      <4> QED
        BY <4>1, <4>2
    <3> DEFINE f == pending
               S == Accounts
    <3>3. IsFiniteSet(S) /\ \A a \in S : f[a] \in Int
      BY <3>2
    <3> HIDE DEF f, S
    <3>4. SumFunction([a \in S |-> f[a]]) = SumFunctionOnSet(f, S)
      BY <3>3, SumOverValues
    <3> QED
      BY <3>1, <3>4 DEF Owed, f, S
  <2> QED
    BY <2>1, <2>2 DEF Solvent, Books, Balanced
<1> QED
  BY <1>1, BooksAlways, PTL

\* The escrow holds what was paid in less what was released: no share that comes
\* back credits it with money its customer did not put in, and no amount is released
\* twice (PaymentsDistribution.sol:427, PaymentLib.sol:305-336).
THEOREM EscrowExactCorrect == Spec => []EscrowExact
<1>1. Inv /\ Books => EscrowExact
  BY DEF Books
<1> QED
  BY <1>1, BooksAlways, PTL

\* A running subscription has paid at most the rate for each period billed, and
\* none that has not ended: late bills, catching up, funding after a failed bill
\* and stakes that rise never bill a period twice or early (PaymentsBilling.sol:106-191).
THEOREM PaidByPeriodsCorrect == Spec => []PaidByPeriods
<1>1. Inv /\ Books => PaidByPeriods
  BY DEF Inv, Counters, Books, PeriodsPaid, PaidByPeriods
<1> QED
  BY <1>1, BooksAlways, PTL
=============================================================================
