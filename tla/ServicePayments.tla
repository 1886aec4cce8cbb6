--------------------------- MODULE ServicePayments ---------------------------
(***************************************************************************)
(* The money of one service (src/core: PaymentsBilling, -Distribution,     *)
(* -Escrow, -Refund, -Rewards, JobsSubmission, JobsRFQ, JobsAggregation,   *)
(* and the part of ServicesLifecycle that ends a service): a subscription  *)
(* is billed once per period from an escrow, in proportion to the          *)
(* stake-seconds of its operators; a job of an event-driven service is     *)
(* paid for when submitted and distributed when its results are in; a job  *)
(* may be priced by quotes instead.  Shares are credited and claimed.      *)
(*                                                                         *)
(* One token, full exposure, no price oracle and no discount.  What the    *)
(* staking layer says of an operator being active is left open.            *)
(***************************************************************************)
EXTENDS Integers, Sequences, FiniteSets, FiniteSetsExt, Functions

CONSTANTS Operators,
          keeper,      \* who triggers the bills
          Pricings,    \* bound: the pricing models tried
          Rate, Interval,        \* subscriptionRate, subscriptionInterval
          Ttl,         \* ttl, 0 for unbounded
          Grace,       \* non-payment grace, in intervals
          Qos,         \* what computeBillAdjustmentBps may answer, of Full
          EventRate,   \* price of a job of an event-driven service
          QuotePrices, \* bound: prices operators sign
          Required,    \* what getRequiredResultCount may answer
          Threshold,   \* of an aggregated result, of Full
          Minimum,     \* MINIMUM_PAYMENT_AMOUNT
          Full,        \* 10_000 bps
          Split,       \* developer, protocol, operator, staker, keeper, of Full
          Stakes,      \* bound: stakes of an operator
          Deposits,    \* bound: what can be paid into the escrow at a time
          Outsiders,   \* bound: what those who are sent money do with it
          Movers, Joiners, Claimants, \* bounds: whose stake moves, who joins and leaves, claims
          MaxDeposited, MaxJobs, MaxTime  \* bounds, the last two by pricing

ASSUME PaymentsAssumption ==
  /\ Pricings \subseteq {"Subscription", "EventDriven"}
  /\ IsFiniteSet(Operators) /\ keeper \notin Operators
  /\ {Interval, Full, Minimum} \subseteq Nat \ {0}
  /\ {Rate, Ttl, Grace, EventRate, Threshold, MaxDeposited} \subseteq Nat
  /\ {MaxJobs, MaxTime} \subseteq [{"Subscription", "EventDriven"} -> Nat]
  /\ Qos \subseteq 0 .. Full /\ Full \in Qos
  /\ QuotePrices \cup Stakes \cup Required \cup Deposits \subseteq Nat
  /\ Split \in [{"developer", "protocol", "operator", "staker", "keeper"} -> Nat]
  /\ Split.developer + Split.protocol + Split.operator + Split.staker + Split.keeper = Full
  /\ Ttl # 0 => Interval < Ttl
  /\ Outsiders \subseteq [failing : SUBSET {"developer", "protocol"}, refused : SUBSET Operators]
  /\ Movers \cup Joiners \subseteq Operators /\ Claimants \subseteq Operators \cup {keeper}

VARIABLES now,
          pricing, status,  \* of the service, created at 0
          serving,       \* its active operators
          lastPaymentAt,
          escrow,        \* balance, totalDeposited, totalReleased
          baseline,      \* subscriptionBaselineStake
          stake, cum,    \* getCumStakeSeconds of the staking layer
          cursor,        \* _twapCursorByOpAsset
          jobs,          \* the calls, in order of their ids
          pending,       \* _pendingRewards
          held,          \* the token balance of the contract
          unbilled,      \* history: stake-seconds spent serving, less those billed
          raisedAt,      \* history: when an operator last joined or raised its stake
          excess         \* history: stake-seconds late bills took for a tail that was not

stakes == <<stake, cum, raisedAt>>
billing == <<lastPaymentAt, baseline, cursor, unbilled, excess>>
vars == <<now, pricing, status, serving, escrow, jobs, pending, held, stakes, billing>>

Accounts == Operators \cup {keeper}
SumOver(S, f(_)) == SumFunction([x \in S |-> f(x)])

\* A job: who quoted which price, what was paid for it, who sent a result, and
\* (history) whether the payment was handed on.
Job(quoted, price, payment) ==
  [quoted |-> quoted, price |-> price, payment |-> payment, results |-> {},
   completed |-> FALSE, distributed |-> FALSE]

\* The cursor is never 0, which would read as not set.
Seeded(seconds) == IF seconds = 0 THEN 1 ELSE seconds

\* Activation: the operators of the service, its first deposit and its baseline.
Init ==
  /\ now = 0
  /\ pricing \in Pricings
  /\ status = "Active"
  /\ serving \in SUBSET Operators \ {{}}
  /\ lastPaymentAt = 0
  /\ \E first \in IF pricing = "Subscription" THEN Deposits ELSE {0} :
       /\ escrow = [balance |-> first, deposited |-> first, released |-> 0]
       /\ held = first
  /\ stake \in [Operators -> Stakes]
  /\ cum = [o \in Operators |-> 1]
  /\ cursor = [o \in Operators |-> IF o \in serving THEN Seeded(cum[o]) ELSE 0]
  /\ baseline = LET sum == SumOver(serving, LAMBDA o : stake[o])
                IN IF sum = 0 THEN 1 ELSE sum
  /\ jobs = <<>>
  /\ pending = [a \in Accounts |-> 0]
  /\ unbilled = [o \in Operators |-> 0]
  /\ raisedAt = [o \in Operators |-> 0]
  /\ excess = [o \in Operators |-> 0]

Expired == Ttl > 0 /\ now > Ttl
Open == status = "Active" /\ ~Expired

-----------------------------------------------------------------------------
(* The staking layer and the membership, as far as bills see them: what    *)
(* they do after the service ended changes nothing and is left out.        *)

Tick ==
  /\ status = "Active"
  /\ now < MaxTime[pricing]
  /\ now' = now + 1
  /\ cum' = [o \in Operators |-> cum[o] + stake[o]]
  /\ unbilled' = [o \in Operators |-> unbilled[o] + IF o \in serving THEN stake[o] ELSE 0]
  /\ UNCHANGED <<pricing, status, serving, escrow, jobs, pending, held, stake, raisedAt,
                 lastPaymentAt, baseline, cursor, excess>>

SetStake(o, amount) ==
  /\ status = "Active"
  /\ amount # stake[o]
  /\ stake' = [stake EXCEPT ![o] = amount]
  /\ raisedAt' = [raisedAt EXCEPT ![o] = IF amount > stake[o] THEN now ELSE @]
  /\ UNCHANGED <<now, pricing, status, serving, escrow, jobs, pending, held, cum, billing>>

\* Keeps the cursor of a former stay.
FaultyJoin(o) ==
  /\ Open
  /\ o \notin serving
  /\ serving' = serving \cup {o}
  /\ cursor' = [cursor EXCEPT ![o] = IF @ = 0 THEN Seeded(cum[o]) ELSE @]
  /\ raisedAt' = [raisedAt EXCEPT ![o] = now]
  /\ UNCHANGED <<now, pricing, status, escrow, jobs, pending, held, stake, cum,
                 lastPaymentAt, baseline, unbilled, excess>>

Join(o) ==
  /\ Open
  /\ o \notin serving
  /\ serving' = serving \cup {o}
  /\ cursor' = [cursor EXCEPT ![o] = Seeded(cum[o])]
  /\ raisedAt' = [raisedAt EXCEPT ![o] = now]
  /\ UNCHANGED <<now, pricing, status, escrow, jobs, pending, held, stake, cum,
                 lastPaymentAt, baseline, unbilled, excess>>

\* A forced removal may leave nobody.
Leave(o) ==
  /\ status = "Active"
  /\ o \in serving
  /\ serving' = serving \ {o}
  /\ UNCHANGED <<now, pricing, status, escrow, jobs, pending, held, stakes, billing>>

-----------------------------------------------------------------------------
(* _distributeBill: how an amount is shared.                               *)

Part(amount, who) == (amount * Split[who]) \div Full

\* calculateSplit: no keeper, then its part goes to the operators; the stakers
\* take what the divisions leave.
OperatorPart(amount, hasKeeper) ==
  Part(amount, "operator") + IF hasKeeper THEN 0 ELSE Part(amount, "keeper")
StakerPart(amount) ==
  amount - Part(amount, "developer") - Part(amount, "protocol") - Part(amount, "operator")
         - Part(amount, "keeper")

\* One of Outsiders, `out`: its `failing` pushes are folded into the operators' pool,
\* and the distributor refuses the stakers' share of its `refused` operators.
OperatorPool(amount, hasKeeper, backed, out) ==
  OperatorPart(amount, hasKeeper) + SumOver(out.failing, LAMBDA who : Part(amount, who))
    + IF backed THEN 0 ELSE StakerPart(amount)
StakerPool(amount, backed) == IF backed THEN StakerPart(amount) ELSE 0

FaultyShares(pool, weight, ops, last) ==
  LET total == SumOver(ops, LAMBDA o : weight[o])
  IN [o \in ops |-> IF total = 0 THEN pool \div Cardinality(ops)
                   ELSE (pool * weight[o]) \div total]

\* A pool by weight; whoever comes last takes the rest of the divisions.
Shares(pool, weight, ops, last) ==
  LET total == SumOver(ops, LAMBDA o : weight[o])
      down == [o \in ops |-> IF total = 0 THEN pool \div Cardinality(ops)
                             ELSE (pool * weight[o]) \div total]
  IN [down EXCEPT ![last] = pool - SumOver(ops \ {last}, LAMBDA o : down[o])]

\* What a distribution of `amount` to `ops` credits to each account.
Credits(amount, hasKeeper, weight, backed, ops, last, out) ==
  LET shares == Shares(OperatorPool(amount, hasKeeper, backed, out), weight, ops, last)
  IN [a \in Accounts |-> IF a \in ops THEN shares[a]
                         ELSE IF a = keeper /\ hasKeeper THEN Part(amount, "keeper") ELSE 0]

\* What is pushed out to the developer and the protocol.
Pushed(amount, out) ==
  SumOver({"developer", "protocol"} \ out.failing, LAMBDA who : Part(amount, who))

\* What comes back goes to a funded escrow, or to the treasury, where a failed
\* transfer reverts the whole distribution.
ToTreasury(back, out) == escrow.deposited = 0 /\ back > 0 /\ "protocol" \in out.failing
FaultyRefunded(e, back) == IF e.deposited = 0 THEN e ELSE [e EXCEPT !.balance = @ + back]

Refunded(e, back) ==
  IF e.deposited = 0 THEN e
  ELSE [e EXCEPT !.balance = @ + back,
                 !.released = IF @ >= back THEN @ - back ELSE 0]

\* Of the stakers' shares of a distribution, what is paid out with what is pushed, and
\* what the refused ones leave.
Sent(d, shares, out) ==
  Pushed(d.amount, out) + SumOver(d.ops \ out.refused, LAMBDA o : shares[o])
Returned(d, shares, out) == SumOver(d.ops \cap out.refused, LAMBDA o : shares[o])

\* The transfers of distributions that credit `paid` and share `stakers`.
Settle(ds, paid, stakers, out, e) ==
  LET back == SumOver(ds, LAMBDA d : Returned(d, stakers[d], out)) IN
  /\ ~ToTreasury(back, out)
  /\ escrow' = Refunded(e, back)
  /\ pending' = [a \in Accounts |-> pending[a] + SumOver(ds, LAMBDA d : paid[d][a])]
  /\ held' = held - SumOver(ds, LAMBDA d : Sent(d, stakers[d], out))
                  - IF e.deposited = 0 THEN back ELSE 0

Backed(ops) == \E o \in ops : stake[o] > 0
LastOf(first, ops) == IF first \in ops THEN first ELSE CHOOSE o \in ops : TRUE

\* Distributions, each an [amount, ops], of money that left `e` or was paid in; the
\* operators are served in the order of a set that joining and leaving shuffle.
Distribute(ds, hasKeeper, weight, e) ==
  \E first \in serving, out \in Outsiders :
    \E paid \in {[d \in ds |-> Credits(d.amount, hasKeeper, weight, Backed(d.ops), d.ops,
                                       LastOf(first, d.ops), out)]},
       stakers \in {[d \in ds |-> Shares(StakerPool(d.amount, Backed(d.ops)), weight, d.ops,
                                         LastOf(first, d.ops))]} :
      Settle(ds, paid, stakers, out, e)

-----------------------------------------------------------------------------
(* Subscriptions.                                                          *)

FaultyDue == now >= lastPaymentAt

Due == now >= lastPaymentAt + Interval

\* fundService, from anyone while the subscription runs.
FundService(amount) ==
  /\ Open
  /\ pricing = "Subscription"
  /\ amount >= Minimum
  /\ escrow.deposited + amount <= MaxDeposited
  /\ escrow' = [escrow EXCEPT !.balance = @ + amount, !.deposited = @ + amount]
  /\ held' = held + amount
  /\ UNCHANGED <<now, pricing, status, serving, jobs, pending, stakes, billing>>

\* The stake-seconds at the end of the period, guessed from today's stake.
Projected(o) ==
  LET late == stake[o] * (now - (lastPaymentAt + Interval)) IN
  IF cum[o] > late THEN cum[o] - late ELSE 0

Delta(o) == IF cursor[o] # 0 /\ Projected(o) > cursor[o] THEN Projected(o) - cursor[o] ELSE 0

\* The bill of a period: by stake-seconds, not above the rate, then discounted.
BillAmount(qos) ==
  LET seconds == SumOver(serving, Delta)
      byStake == (Rate * seconds) \div (baseline * Interval)
  IN ((IF byStake > Rate THEN Rate ELSE byStake) * qos) \div Full

\* minBillAmount: every kind of recipient gets something.
MinBill ==
  LET Up(n, who) == IF Split[who] = 0 THEN 0 ELSE (Full * n + Split[who] - 1) \div Split[who]
  IN Max({Minimum, Up(1, "developer"), Up(1, "protocol"), Up(1, "keeper"),
          Up(Cardinality(serving), "operator")})

\* A period nobody served passes without a bill.
SkipPeriod ==
  /\ Open /\ pricing = "Subscription" /\ Due
  /\ serving = {}
  /\ lastPaymentAt' = lastPaymentAt + Interval
  /\ UNCHANGED <<now, pricing, status, serving, escrow, jobs, pending, held, stakes, baseline,
                 cursor, unbilled, excess>>

\* What the operators that serve are billed for.
Weight == [o \in Operators |-> IF o \in serving THEN Delta(o) ELSE 0]

\* The seconds past the period in which an operator did not yet serve with its stake
\* of now, and which the projection takes off as if it had.
Missed(o) ==
  LET end == lastPaymentAt + Interval IN IF raisedAt[o] > end THEN raisedAt[o] - end ELSE 0

\* _billSubscriptionImpl.  What the escrow cannot pay leaves everything as it was; a
\* bill below the least one is not drawn, but its period has passed.
BillSubscription(qos) ==
  /\ Open /\ pricing = "Subscription" /\ Due
  /\ serving # {}
  /\ escrow.balance >= BillAmount(qos)
  /\ lastPaymentAt' = lastPaymentAt + Interval
  /\ cursor' = [o \in Operators |-> IF o \in serving THEN Projected(o) ELSE cursor[o]]
  /\ unbilled' = [o \in Operators |-> unbilled[o] - Weight[o]]
  /\ excess' = [o \in Operators |-> excess[o] + IF o \in serving THEN stake[o] * Missed(o) ELSE 0]
  /\ \E amount \in {IF BillAmount(qos) < MinBill THEN 0 ELSE BillAmount(qos)}, weight \in {Weight} :
       Distribute(IF amount = 0 THEN {} ELSE {[amount |-> amount, ops |-> serving]}, TRUE, weight,
                  [escrow EXCEPT !.balance = @ - amount, !.released = @ + amount])
  /\ UNCHANGED <<now, pricing, status, serving, jobs, stakes, baseline>>

-----------------------------------------------------------------------------
(* Jobs.                                                                   *)

SubmitJob ==
  LET payment == IF pricing = "EventDriven" THEN EventRate ELSE 0 IN
  /\ Open
  /\ Len(jobs) < MaxJobs[pricing]
  /\ jobs' = Append(jobs, Job({}, [o \in Operators |-> 0], payment))
  /\ held' = held + payment
  /\ UNCHANGED <<now, pricing, status, serving, escrow, pending, stakes, billing>>

\* Each operator that quotes signs a price of its own, 0 or worth paying out.
SubmitJobFromQuote(quoted, price) ==
  LET payment == SumOver(quoted, LAMBDA o : price[o]) IN
  /\ Open
  /\ Len(jobs) < MaxJobs[pricing]
  /\ quoted # {} /\ quoted \subseteq serving
  /\ \A o \in quoted : price[o] = 0 \/ price[o] >= Minimum
  /\ jobs' = Append(jobs, Job(quoted, price, payment))
  /\ held' = held + payment
  /\ UNCHANGED <<now, pricing, status, serving, escrow, pending, stakes, billing>>

\* The distributions of a job: one to the operators serving now, by stake, or one
\* to each that quoted, of its own price.  A distribution is [amount, ops].
Distributions(j) ==
  IF j.quoted = {} THEN {[amount |-> j.payment, ops |-> serving]}
  ELSE {[amount |-> j.price[o], ops |-> {o}] : o \in {p \in j.quoted : j.price[p] > 0}}

\* The end of a job.  Only an event-driven service distributes what was paid.
Complete(i, results) ==
  LET j == jobs[i]
      pays == pricing = "EventDriven" /\ j.payment > 0
  IN
  /\ jobs' = [jobs EXCEPT ![i] =
       [j EXCEPT !.results = results, !.completed = TRUE, !.distributed = pays]]
  /\ Distribute(IF pays THEN Distributions(j) ELSE {}, FALSE, stake, escrow)
  /\ UNCHANGED <<now, pricing, status, serving, stakes, billing>>

\* The manager is asked again at every result how many it takes.
SubmitResult(o, i) ==
  LET results == jobs[i].results \cup {o} IN
  /\ Open
  /\ o \in serving
  /\ ~jobs[i].completed
  /\ o \notin jobs[i].results
  /\ jobs[i].quoted # {} => o \in jobs[i].quoted
  /\ \E required \in Required :
       \/ /\ Cardinality(results) >= required
          /\ Complete(i, results)
       \/ /\ Cardinality(results) < required
          /\ jobs' = [jobs EXCEPT ![i].results = results]
          /\ UNCHANGED <<now, pricing, status, serving, escrow, pending, held, stakes,
                         billing>>

\* One aggregated answer of enough signers, of whom none need have quoted.
SubmitAggregatedResult(signers, i) ==
  /\ Open
  /\ ~jobs[i].completed
  /\ signers # {} /\ signers \subseteq serving
  /\ Cardinality(signers) * Full >= Cardinality(serving) * Threshold
  /\ Complete(i, jobs[i].results)

-----------------------------------------------------------------------------
(* The end of the service, and what is taken out.                          *)

\* The owner ends it, not while a period that was served is due.
TerminateService ==
  /\ status = "Active"
  /\ ~(pricing = "Subscription" /\ ~Expired /\ Due /\ serving # {})
  /\ status' = "Terminated"
  /\ UNCHANGED <<now, pricing, serving, escrow, jobs, pending, held, stakes, billing>>

FaultyInsolvent == escrow.balance = 0

\* The escrow cannot pay for a full period.
Insolvent == escrow.balance < Rate

TerminateServiceForNonPayment ==
  /\ status = "Active"
  /\ pricing = "Subscription"
  /\ Insolvent
  /\ now >= lastPaymentAt + Interval * (1 + Grace)
  /\ status' = "Terminated"
  /\ UNCHANGED <<now, pricing, serving, escrow, jobs, pending, held, stakes, billing>>

FaultyWithdrawn == escrow

Withdrawn == [escrow EXCEPT !.balance = 0, !.released = @ + escrow.balance]

WithdrawRemainingEscrow ==
  /\ status = "Terminated"
  /\ escrow.balance > 0
  /\ escrow' = Withdrawn
  /\ held' = held - escrow.balance
  /\ UNCHANGED <<now, pricing, status, serving, jobs, pending, stakes, billing>>

ClaimRewards(a) ==
  /\ pending[a] > 0
  /\ pending' = [pending EXCEPT ![a] = 0]
  /\ held' = held - pending[a]
  /\ UNCHANGED <<now, pricing, status, serving, escrow, jobs, stakes, billing>>

-----------------------------------------------------------------------------
Environment ==
  \/ Tick
  \/ \E o \in Movers, amount \in Stakes : SetStake(o, amount)
  \/ \E o \in Joiners : Join(o) \/ Leave(o)
Bill == SkipPeriod \/ \E qos \in Qos : BillSubscription(qos)
JobStep ==
  \/ SubmitJob
  \/ \E quoted \in SUBSET Operators, price \in [Operators -> QuotePrices] :
       SubmitJobFromQuote(quoted, price)
  \/ \E i \in DOMAIN jobs :
       \/ \E o \in Operators : SubmitResult(o, i)
       \/ \E signers \in SUBSET Operators : SubmitAggregatedResult(signers, i)

Next ==
  \/ Environment
  \/ \E amount \in Deposits : FundService(amount)
  \/ Bill
  \/ JobStep
  \/ TerminateService
  \/ TerminateServiceForNonPayment
  \/ WithdrawRemainingEscrow
  \/ \E a \in Claimants : ClaimRewards(a)

\* Keepers bill what is due, without counting on a discount, and someone ends a
\* service that does not pay.
Fairness ==
  /\ WF_vars(SkipPeriod \/ BillSubscription(Full))
  /\ WF_vars(TerminateServiceForNonPayment)

Spec == Init /\ [][Next]_vars
FairSpec == Spec /\ Fairness

-----------------------------------------------------------------------------
\* No amount owed or held ever underflows: whatever is claimed, withdrawn or refunded
\* is there.
TypeOK ==
  /\ now \in 0 .. MaxTime[pricing]
  /\ pricing \in Pricings
  /\ status \in {"Active", "Terminated"}
  /\ serving \subseteq Operators
  /\ lastPaymentAt \in Nat
  /\ escrow \in [balance : Nat, deposited : Nat, released : Nat]
  /\ baseline \in Nat \ {0}
  /\ stake \in [Operators -> Stakes]
  /\ cum \in [Operators -> Nat]
  /\ cursor \in [Operators -> Nat]
  /\ jobs \in Seq([quoted : SUBSET Operators, price : [Operators -> Nat], payment : Nat,
                   results : SUBSET Operators, completed : BOOLEAN, distributed : BOOLEAN])
  /\ pending \in [Accounts -> Nat]
  /\ held \in Nat
  /\ unbilled \in [Operators -> Int]
  /\ raisedAt \in [Operators -> Nat]
  /\ excess \in [Operators -> Nat]

\* What was paid for jobs and not handed on.
Undistributed == SumOver({i \in DOMAIN jobs : ~jobs[i].distributed}, LAMBDA i : jobs[i].payment)

\* The contract holds exactly what it owes: the escrow, the rewards not claimed and
\* the payments of jobs not distributed, through failed pushes, refused stakers'
\* shares, roundings and refunds (PaymentsDistribution.sol:253-449).
Solvent == held = escrow.balance + SumOver(Accounts, LAMBDA a : pending[a]) + Undistributed

\* "escrow.balance == totalDeposited - totalReleased" (PaymentsDistribution.sol:427):
\* no share that comes back credits an escrow with money its customer did not put
\* in, and no amount is released twice (PaymentLib.sol:305-336).
EscrowExact == escrow.balance = escrow.deposited - escrow.released

\* A running subscription has paid at most the rate for each period billed, and
\* none that has not ended: late bills, catching up, funding after a failed bill
\* and stakes that rise never bill a period twice or early (PaymentsBilling.sol:106-191).
PaidByPeriods ==
  pricing = "Subscription" /\ status = "Active" =>
    lastPaymentAt <= now /\ escrow.released <= Rate * (lastPaymentAt \div Interval)

\* Nobody is billed for more stake-seconds than it spent in the service, across
\* leaving, joining again and bills that failed, but for one cause: a late bill takes
\* an operator's stake of now for its stake since the end of the period
\* (PaymentsBilling.sol:454-466).  If it joined or added stake after that end, its
\* cursor may go back, behind the seed of its join too, and what was billed before or
\* never served is billed by a later bill, against ServicesLifecycle.sol:721-723.
\* Such a bill costs at most that stake times the seconds it did not yet stand.
ServedOnlyBilled == \A o \in Operators : unbilled[o] + excess[o] >= 0

\* A subscription that is behind by more than the grace is billed or ended, or
\* expires: no period stays due because of too little in the escrow, of operators
\* that left or of a bill that rounds to nothing (PaymentsBilling.sol:109-189).
Behind ==
  pricing = "Subscription" /\ Open /\ now >= lastPaymentAt + Interval * (1 + Grace)
ScheduleKept == Behind ~> ~Behind

\* "Each quoted operator's gross share is their individually quoted price"
\* (docs/PRICING.md:425): what was paid for a job by quote is handed on when the
\* job completes.  Refuted: only the jobs of event-driven services are distributed.
QuotedJobsPaid == \A i \in DOMAIN jobs : jobs[i].completed /\ jobs[i].payment > 0 => jobs[i].distributed
=============================================================================
