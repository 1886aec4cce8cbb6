# Tangle protocol (tnt-core): TLA+ models and proofs

This directory holds a formal model of the core of the Tangle protocol contracts in
`src/src` and of the claim prover's service in `src/packages/migration-claim`: TLA+ modules, TLC configurations that check them on small instances, and
theorems that TLAPS checks for every value of the constants. `PROJECT.json` lists the
components, the runs, the hazards each property is aimed at, and, for every definition
that models code, the lines it stands for.

    tlc -workers 2 -config SlashQueue.cfg MCSlashProposals.tla     # one run
    tlapm SlashProtocol_proofs.tla                                 # one proof

## 1. The system

Two diamonds share the protocol. **Tangle** (the core) keeps blueprints, services, jobs,
payments and the slash proposals; **MultiAssetDelegation** (staking) keeps operators,
their bonds, deposits and delegations. The core calls staking through `IStaking`
(is this operator active, slash it, count a pending slash); staking calls the core
through `ITangleServices` (how many live services does this operator serve).
Two more parts stand apart: cross-chain slashing, where contracts on two chains talk over
a bridge, and the prover of the migration claim, a Rust service of threads, queues and timers.
In the contracts each external call is one transaction: an entry point runs to its end or
reverts. Concurrency is the interleaving of transactions of many accounts; time is
`block.timestamp` in the core and rounds in staking; nothing is ever called by itself,
so whatever must happen eventually needs an account that sends the transaction.

| Component | State it keeps | Operations | What makes it correct |
|---|---|---|---|
| Slash proposals (`core/Slashing.sol`, `libraries/SlashingLib.sol`) | proposals with status, deadlines, dispute bond, commitment snapshot; a counter of open proposals per operator; credits of bonds | propose, dispute, execute, execute a batch, cancel, claim, configure | a proposal is closed once; enough time to review; a dispute is paid for and does not freeze for ever; every bond is somewhere; the counter is right |
| Operators (`staking/OperatorManager.sol`, `SlashingManager.sol`) | status, stake, leaving round, one unstake request, pending-slash counter | register, add stake, schedule and execute an unstake, start and complete leaving, slash | nobody gets more than it paid; a pending slash freezes the bond; a new life does not inherit an old request |
| Delegation pools (`staking/DelegationManagerLib.sol`, `RewardsManager.sol`, `DepositManager.sol`, `StakingUnstakeWithdrawFacet.sol`) | deposits, positions in shares, a pool per operator and one per blueprint of it, requests with a cost basis, the operator's aggregate | deposit, delegate, unstake, execute, rebalance, withdraw, slash the pools | deposits, positions, pools and aggregate agree; no exit under a pending slash; only a slash destroys principal |
| Service membership (`core/Services*.sol`, `QuotesCreate.sol`, `Operators.sol`) | requests and approvals, a service's operators in three records, exit requests, a counter of live services per operator | register for a blueprint, request, approve, reject, expire, start from quotes, join, the exit queue, force out, terminate | the records agree; a payment leaves once; commitments meet the requirements; the quorum is kept |
| Payments and escrow (`core/Payments*.sol`, `libraries/PaymentLib.sol`) | the escrow of a service, the last period paid, a cursor of stake-seconds per operator, pending rewards | fund, bill, split and push, refund, end for non-payment, withdraw, claim | the contract holds what it owes; no period is paid twice or early; what is billed is what was served, up to what a late bill guesses; no period stays due for ever |
| Jobs (`core/Jobs*.sol`) | calls, their quotes, results and payments | submit, submit by quote, answer, aggregate, complete | a call completes once, with enough results, and its payment is handed on |
| Cross-chain slashing (`beacon/L2SlashingConnector.sol`, `L2SlashingReceiver.sol`, `TangleL2Slasher.sol`) | the factor last sent per pod, nonces; on the other chain the nonces taken, debts, who may send and through which messenger | propagate, receive, flush a debt, schedule, activate and revoke | a loss is sent once and applied once, whatever the bridge does |
| Claim prover (`sp1/prover-api`) | rate limits, cache, jobs, channel, counter of the queue, permits | submit, dispatch, prove, time out, clean up, restart | bounded work; a caller gets its own proof, once; what is queued is answered |
| Operator status registry | heartbeats, missed beats | heartbeat, check, slash offence | no missed beat without a missed interval |
| Liquid delegation vaults | ERC-7540 requests, vault shares | request, redeem, claim | vault shares are backed by positions |
| Validator pods | pods, checkpoints, withdrawals | checkpoint, queue a withdrawal | shares follow the proven balance |
| Rewards, streaming, inflation | accumulators per share, streams, epochs | notify, drip, claim | nothing is claimed twice |

Components with no logic of their own worth modelling (governance contracts, oracles,
bindings, scripts, the indexer, schema decoding, curve arithmetic) are in `PROJECT.json`
with the reason.

How they interact: a slash proposed in the core increments a counter in staking in the
same transaction, and from then on every exit of stake is meant to be blocked until the
core executes or cancels it, which decrements the counter; an execution also cuts the
bond and the delegators' pools. Bills and jobs read who serves and with how much stake, at a
time other than the one they pay for. A pod's loss on one chain becomes a message, and a slash
or a debt on the other. An operator in a live service is counted in the core, and
staking asks for the count before it lets the operator start leaving.

What is hard to test here: two contracts that count the same slashes; deadlines that
depend on a configuration an administrator changes and on what a blueprint's manager
answers; slashes proposed between the two steps of a two-step exit; shares converted at a
rate that a slash moves between request and execution; exits, expiries and approvals that
race at a boundary; batches that fail or skip in part; bills that come late, after stakes moved;
pushes that fail in the middle of a distribution; messages that arrive late, twice or never; counters
that two threads change without a lock; proofs that outlive their timeout.

## 2. Modules

| Module | Models | Composes |
|---|---|---|
| `SlashLifecycle` | what slashing promises: each proposal goes None, Pending, possibly Disputed, then Executed or Cancelled, once; an operator is frozen exactly while one against it is open | abstract specification |
| `SlashProposals` | the proposal queue: `Slashing.sol` and `SlashingLib.sol` | refines `SlashLifecycle` |
| `OperatorBonds` | an operator's self-bond: `OperatorManager.sol`, the bond's side of `SlashingManager.sol` | |
| `SlashProtocol` | both, joined by the calls of `Slashing.sol` on `IStaking`, each transaction one step | `SlashProposals` + `OperatorBonds` |
| `ServiceMembership` | one service and its operators, from request to termination | |
| `DelegationPools` | delegators: deposits, positions, pools, slashing of pools | |
| `ServicePayments` | the money of one service: subscriptions, jobs, quotes, escrow, claims | |
| `CrossChainSlash` | a pod's loss slashed on another chain, over an unreliable bridge | |
| `ClaimProver` | the prover service: handlers, queue, workers, timers, restart | |
| `*_proofs` | the theorems of a module; those of the queue are in `SlashProtocol_proofs` | extends it and `FunctionSums` |
| `FunctionSums` | no code: lemmas about sums of a function over a finite set, and about sets of indices | |
| `MC*` | values a `.cfg` cannot write | extends it |

Definitions named `Faulty...` next to a definition are that definition with a plausible bug
(a dropped guard, a lost decrement). No specification uses them: putting one in the place
of the right definition breaks the property `PROJECT.json` pairs it with, which shows
that the property can fail.

### SlashProposals
`proposals` is `_slashProposals` with the commitment snapshot, `activeProposals` is
`_operatorActiveSlashProposals`, `refunds` is `_pendingDisputeBondRefunds`, `bondEth` the
ETH the core holds for bonds; `proposedAt` is history. Actions (`QueueNext`):
`ProposeSlash`, `DisputeSlash`, `ExecuteSlash`, `ExecuteSlashBatch`, `CancelSlash`,
`ClaimDisputeBond`, `SetSlashConfig`, `SetTreasury` and `Tick`. Two variables belong to the
environment, which may change them at any time (`EnvironmentNext`): `registered`, the operators
staking knows, and `slashingOrigin`, what the blueprint's manager names as such. An execution
calls staking, which reverts for an operator that is not registered, so `Execute` asks for that: a
slash alone waits until its operator registers again, and one such slash stops a whole batch.
A dispute may find that the manager does not answer (`"failed"`), and then the
check of the proposer fails closed. The dispute window and the dispute origin are inputs: any
answer the constants list, at any call. A push of a forfeited bond to the treasury may
fail. `ClampWindow`, `EffectiveSlashBps` and `CapSlashBps` compute what the library does.

### OperatorBonds
`status`, `stake`, `leavingRound` are `_operatorMetadata`; `unstakeReq` is
`_operatorBondLessRequests`; `pendingSlashes` is `_operatorPendingSlashCount`. An account
that never registered has status Active, as the enum's zero value has in the code.
`paidIn`, `paidOut` and `slashed` are history. Rounds are the only time.

### SlashProtocol
`Propose`, `ExecuteOne`, `ExecuteBatch` and `Cancel` conjoin the queue's step with what
it does in staking: count, cut, uncount. `Bonds` is `OperatorBonds` under INSTANCE, and its
`registered` is the queue's: what was the queue's environment is now the bonds' registering and
leaving (`BondStep`) and the manager's choice of a slashing origin (`ManagerStep`). Of a
service it keeps what slashing reads: who serves, who ever had an entry, the live
commitment.

### ServiceMembership
The three records of who is in a service (`_serviceOperatorSet`, `_serviceOperators.active`
and `operatorCount`) are `members`, `active` and `operatorCount`; `activeServices` is the
counter staking asks for; `exitAt` the exit requests; `offered` and `commitment` what
was committed with an approval and in the service. The staking layer answers any way when
it is asked, and a manager's `getExitConfig` answers any member of `ExitConfigs`.

### DelegationPools
For one asset: `deposits` and `withdrawals`, `delegations` (a sequence per delegator, as
`_delegations`), `blueprintLists` (by index, as `_delegationBlueprints`, and, as there, not
moved when a position is), `blueprintShares`, `requests` with their cost basis, `pool`
(the pool of All mode and one per blueprint), `aggregate`, `delegationCount`. The
conversions of shares round as the code's do, with the virtual offsets as constants. One
execution of an unstake is computed on a record of the state (`Books`) by `Executed`, and
`ExecuteUnstake` folds it over all ripe requests, as the transaction does; the order, which
in the code depends on earlier removals, is any. `Kept` is what the loop leaves of a list of requests. An executed slash is one action with
the decrement of the counter, because the core does both in one transaction.
Abstracted: locks and their multipliers, minimum amounts, whitelists, adapters, pausing,
stake-second accounting, notifications of rewards and fees. Which blueprints an operator
serves is left open (a slash of the native asset reaches any set of pools), and an operator
that is registered is taken to be active: both only add behaviours. `_tryAdvanceRound` at
the head of several entry points is the step `AdvanceRound` just before; `depositAndDelegate`
is two steps.

### ServicePayments
`escrow` is `_serviceEscrows` (balance, deposited, released), `cursor` is `_twapCursorByOpAsset`,
`baseline` the stake a full rate stands for, `pending` is `_pendingRewards`, `jobs` the calls in
the order of their ids, `held` the contract's token balance, which no variable of the code says
and `Solvent` is about. `BillSubscription` is `_billSubscriptionImpl` with the distribution in
the same transaction: `Distribute` computes what each account is credited (`Credits`), what is
pushed out (`Pushed`) and what comes back, for one of the `Outsiders`: which pushes fail and
whose stakers' share the distributor refuses. Money that comes back goes to a funded escrow
(`Refunded`) or to the treasury. `SubmitResult` and `SubmitAggregatedResult` complete a job; the
manager is asked anew at each result how many it wants. Stakes and the membership move as they
like. `unbilled`, `raisedAt` and `excess` are history: stake-seconds served and not yet billed; when
an operator last joined or raised its stake; and, for each late bill, the operator's stake times the
seconds between the end of the period and that moment (`Missed`), in which it did not serve
with that stake although the bill's guess takes them off its stake-seconds. Abstracted: prices in dollars, exposure below full, the
discount for the network's token, other tokens, signatures.

### CrossChainSlash
On the first chain `factor` and `principal` are the pod's, `last`, `nonce`, `podOperator` and
`route` the connector's; `sent` is what the bridge holds, for good: delivering leaves it there,
so that a message may arrive late, in any order and again. On the second chain `processed`,
`deferred`, `total`, `authorized`, `pendingSender`, `messenger` and `pendingMessenger` are the
receiver's, `stake`, `paused` and `registered` what the slasher looks at and slashes. `canSlash` asks
for stake, the delegators' included, and not whether the operator is registered; `Leave` takes
the operator out with its bond and leaves what was delegated, and from then on the slash reverts
although `canSlash` is true (`SlashReverts`), in a delivery as in a flush, until it registers
again (`Join`) or the delegators are gone too. A call that reverts is a step that is
not enabled. What the staking layer answers on the first chain is any member of `L1Stakes`. `askedAt` is
history: when a sender was first scheduled since it was last revoked.

### ClaimProver
`handler[c]` says how far call `c` of `submit_job` has come, `task[c]` where its `process_job`
is, `dispatcher` which message the loop of `WorkerPool::start` holds; a step is what happens
between two points at which another thread may come in: a lock, an atomic, an await. So
`try_enqueue` is `LoadSize`, `TrySend`, `CountSent`, and the handler's `InsertPending` comes after;
the dispatcher is `Receive`, `CountReceived`, `Spawn`; a proof that ends is `Prove` (cached)
and then `Publish`, or `Fail`. `queueSize` wraps, as `usize` does. `Restart` forgets everything,
`Disconnect` drops a handler where it awaits. The two limiters are one function `limits` over
addresses and accounts. `admitted` is history. Two bounds keep the run small where its
parts do not need each other: while calls have met only the limiters (`OnlyLimited`), `MaxCalls` of
them and `MaxTime` seconds are explored; past the limiters, `ProvedCalls` and `ProvedTime`.

## 3. Runs

Passing runs (TLC explores every state):

| Run | Instance | Shows |
|---|---|---|
| `slash_queue` | one operator that registers and leaves, two proposals, four kinds of account and two dispute origins, one of which may be the slashing origin, two valid configurations and one refused, one treasury, six instants | `TrackerCountsOpen`, `BondsBacked`, `NoFreeFreeze`, `ReviewTimeGuaranteed`, `OnlyDisputeMovesDeadline`, the refinement `ImplementsLifecycle`, and under fairness `EverySlashResolves` |
| `operator_bonds` | one operator, amounts 1 and 3, minimum 2, slashes of a quarter or a half, delays 0 or 1 that may change | `TypeOK` (no subtraction underflows), `BondSolvent`, `NoInheritedRequest` |
| `slash_protocol` | one operator, two slashes, a bond of 4, commitments of a half or all; the operator may leave and return | `CountersInStep`, `BondFrozen`, `SlashTakesWhatWasOwed`, and under fairness `ResolvesOrOperatorGone` |
| `membership` | three operators, a service for one or two, two exit configurations | `CountsAgree`, `PaymentLeavesOnce`, `CommitmentsAccepted`, `QuorumKept` |
| `pools` | two delegators, one operator, two blueprints, both modes, two units of deposit in all (the cap), one slash of a half | `DepositsAccounted`, `DelegatedWithinDeposit`, `AggregateInStep`, `SharesClaimed`, `FrozenUnderSlash` |
| `payments` | two operators, three periods of a subscription or one job of an event-driven service, deposits of half a period's rate, stakes of 0 or 2 | `TypeOK`, `Solvent`, `EscrowExact`, `PaidByPeriods`, `ServedOnlyBilled`, and under fairness `ScheduleKept` |
| `crosschain` | one pod, one connector, two messengers, two messages, a stake of 1 that comes and goes, an operator that leaves with or without its delegators | `LedgerExact`, `FactorsFall`, `AcceptedOnlyTrusted`, and under fairness `SentLands`, `DebtCollected` |
| `prover` | calls for two recipients of one account and a forged one; three calls in two instants with one worker and a queue of one; five calls in five instants on the limiters, two requests per window of two | `WorkersBounded`, `QueueCountExact`, `OwnProof`, `RateBound`, `CompletedIsFinal`, and under fairness `QueuedIsAnswered` |

Runs that show a disagreement between the code and what the repository says of it; the
trace TLC finds is the evidence:

| Run | What happens |
|---|---|
| `slash_protocol_exit` | an operator that started leaving before a slash was proposed completes leaving under it, bond and all (`NoExitWhileOpen`) |
| `pools_writeoff` | the cost basis of an unstake is the share of raw shares over pools with different rates; a delegator that joined after a slash loses principal no slash reached (`OnlySlashesWrittenOff`) |
| `pools_lists` | a top-up of a Fixed position with another blueprint does not enter the position's list; the exit burns another delegator's part of the listed pool (`BlueprintSharesMatch`) |
| `payments_rfq` | a job by quote on a subscription service is paid for when submitted; completing it distributes only under event-driven pricing, and its operators get nothing (`QuotedJobsPaid`) |

`BlueprintSharesMatch` is also what the swap-and-pop of a position endangers, which moves the
position and not its list.

Known behaviours without a run of their own, which the models contain:

- An account that is not registered can top up a stake, because its status reads as Active, and
  registering overwrites the stake: a leaver does not get the top-up back (`OperatorManager.sol`
  108, 262).
- After an operator left under a slash, no slash of it can be executed, disputed or not: the dispute
  does not end at its deadline, its delegators stay frozen until an administrator cancels or the
  operator registers again, and a batch that names the slash reverts with the others
  (`SlashingManager.sol` 193 and 258, `SlashingLib.sol` 78). `EverySlashResolves` and `ResolvesOrOperatorGone` leave
  such an operator out.
- Whether a slash was proposed by the slashing origin is asked at the dispute: when the manager has
  named another one since, a dispute origin disputes the former one's slash for free
  (`Slashing.sol` 301). `NoFreeFreeze` speaks of the origin at that time.
- An operator that leaves while its delegators stay has stake that `canSlash` sees and that staking
  refuses to slash: each redelivery of a message for it and each flush of its debt revert until it
  registers again or the delegators are gone (`TangleL2Slasher.sol` 143, `SlashingManager.sol` 324).
  The comment at `L2SlashingReceiver.sol` 369-381 says that a delivered slash always consumes its nonce,
  and that reverting on every redelivery was the earlier design. `SentLands` and
  `DebtCollected` except this case.
- `leaveService` leaves a pending exit request behind; after a return it is executed before the
  minimum stay (`ServicesLifecycle.sol` 428, `Types.sol` 753).
- A dispute window longer than the resolution deadline lets a dispute bring a slash forward,
  before its `executeAfter`; the guaranteed review time still holds.
- A late bill takes today's stake for the stake since the period ended. When it fell, the operator
  is billed too much for the period, not too little as the comment above `_projectToPeriodEnd` has it
  (`PaymentsBilling.sol` 456). When it rose, or the operator joined after that end, the cursor moves back,
  behind the seed of the join too, and the next bill takes seconds that were billed before or never
  served, against `ServicesLifecycle.sol` 721-723. `ServedOnlyBilled` therefore does not say that no second
  is billed twice; it says that what is billed too much is at most `excess`, and that nothing else,
  a return after a leave or a failed bill, adds to it.
- A factor of 0 recorded by the connector reads as never written (`L2SlashingConnector.sol` 273):
  the loss of a pod that lost everything is measured from no loss at all, and after a restake it
  is sent whole again, with factor 0, as often as somebody asks. `FactorsFall`
  says that this is the only way in which a factor repeats.
- A request made from a Fixed position may outlive it: two requests, and a slash and `AddBlueprint`
  between them, and the first one executed empties the position; a position of All mode opened with
  the same operator then meets the second request, which asks for more than it holds. The code caps
  what it takes off the position, but not what it burns of the pool and pays out
  (`DelegationManagerLib.sol` 574), so the difference is taken from the other delegators of that pool.
  `SharesClaimed` says that no share of the pool is left without a delegator, for any number of
  requests; that the two sides are equal is false with two requests at a time.
- A worker that ends before the handler has inserted the job's entry updates nothing, and the entry
  stays Pending (`handlers.rs` 240). `QueuedIsAnswered` asks for the entry to be there.

**Bounds.** Every bound is a constant marked so in its module. Two proposals are what a batch,
two counts and a second proposal after a resolved one need; the theorems hold for any number. The
clock of `slash_queue` runs past the last moment any proposal can become executable, so the
liveness property is not cut off by it. Its one treasury makes `SetTreasury` a step that changes
nothing there: a new treasury matters to `BondsBacked` only, which `BondsBackedCorrect`
proves for any number. One operator is enough for the queue and the bonds, whose accounts
do not interact there; three operators and two places let two exits race for the minimum while a
third waits to join. In `pools` two units let one delegator top up and rebalance alone, or two
share a pool; the virtual offsets keep their inequality (2 shares to 1 asset), so the first
share price is not one, and one slash of a half makes rates that round. What its bounds leave
out: two slashes in a row, several requests at a time, and several operators, which only the
two violation runs have. In `payments` a deposit is half of a period's rate, so that a first bill may
fail, be paid after a top-up, or lead to the end for non-payment; the grace is one period, and
the time to live of two periods falls before the clock stops. Jobs run under event-driven pricing
only, and the clock under subscriptions only, because neither touches the other's state in a passing run;
`payments_rfq` joins them. The amounts, in eighths, are chosen so that divisions leave a rest. In
`crosschain` two messages of one connector can be swapped, repeated, banked both, and cut off by a
new messenger or a revoked sender; a second connector or pod adds actors that share nothing but
the operator's debt, and the theorems hold for any number. Factors have four steps. In `prover` one worker and a queue of one
let a third call find the queue full, or the counter wrapped; a limit of two in a window of two
seconds, five calls and five instants let two full windows meet, with three calls in two seconds that
span both, and let the cleanup find entries that are stale and entries that still count; a life of one instant lets jobs and cache entries be cleaned while
others run.

`CHECK_DEADLOCK FALSE` is set in every run but `crosschain`, because a bounded instance ends: when
the clock and the amounts are used up, nothing is left to do.

**Symmetry** is used over operators or delegators only in runs without liveness properties.

**Fairness.** `Fairness` of the queue is weak fairness of `Tick` (time passes) and of
`ExecuteSlash(s)` for each proposal: `executeSlash` may be sent by anybody, so one keeper that
goes on trying is enough, and once executable a proposal stays so until it is closed, while its
operator is registered; for one that leaves and returns for ever nothing is promised. The
same holds of `ProtocolFairSpec`. In `ServicePayments` it is weak fairness of billing, which anybody
may do and keepers are paid for, and of ending a service that does not pay, which anybody may
do too; nothing is assumed of customers or of time. A bill is assumed to be tried without a
discount, because a manager need not grant one. In `CrossChainSlash` a relayer that goes on
delivering each message (not each copy, and only while the receiver would take it) and anybody who
collects a debt; administrators may stop or interfere at any time, and the properties except what
they break. In `ClaimProver` the runtime polls the dispatcher, and each task that holds a permit
goes on: a proof computation ends, with or without a proof. Handlers, timers and clean-ups need
not happen. No other action is assumed to happen: administrators, proposers, disputers, operators
and customers may stop at any time.

## 4. Proofs

TLAPS checks the following for every value of the constants that the named assumptions of the
modules allow (numbers are naturals, the configuration the deployment starts with is valid,
`Nobody` is no account, the counter of the queue wraps beyond its capacity, and the like).

Three ideas recur. *Sums*: balances are sums folded over data, and the library's induction theorems take
an operator as a parameter, which no installed prover instantiates. `FunctionSums` goes around
them: the fold is a recursive function on the subsets of a finite set, the strict subset ordering
of those is well founded, a nonempty family of them has a minimal member (`SmallestMember`), and a
proof by induction is a proof that the set of counterexamples is empty. From that come: the
recursive function exists and is unique (`AddsExists`, `AddsUnique`), a sum of naturals is one,
any member can be taken out of a sum, a change of one value changes the sum by the difference, a
sum over a part is no larger, and sums can be moved along an injection. *Batches*: a fold over a
sequence is a recursive function on its sets of indices, and the same argument gives what holds after
any batch in any order. *Products and quotients*, which the SMT solver does not handle, are hidden
behind names and treated by lemmas of their own.

- **`SlashProtocol_proofs`**, the queue: `QueueTypeCorrect`; `TrackerCorrect` (the counter equals
  the cardinality of the set of open proposals); `ReviewTimeCorrect`; `QueueImplementsLifecycle`;
  `DeadlinesFixed`; `FreezeCharged`; `BondsBackedCorrect`. The type invariant says that exactly the ids below
  `nextSlashId` are in use: without it a new proposal might overwrite an open one and no count
  would hold. `TrackerCorrect` is then inductive; its steps rest on what adding an id to, and
  removing ids from, the finite set `OpenSlashes(o)` does to its cardinality, the batch
  included (the number of closed proposals of one operator is subtracted at once).
  `ReviewTimeGuaranteed` and `NoFreeFreeze` are about steps. The first rests on the dates that each
  open proposal carries (no earlier than the minimum window after it was proposed, disputed or
  not; the buffer is added when it is executed); the second on who may dispute and what it costs.
  The environment's steps leave the queue as it is (`QueueRuns`). The refinement maps each action to `Open`, `Contest`,
  `Close` or a stutter, and needs the counter to know when an operator is thawed.
  `BondsBacked` needs in addition (`BondsInv`) that a proposal with a bond names its disputer and
  that only a disputed one has a bond, or a cancellation would credit nobody; an execution moves the bonds of a
  set of proposals, some of them pushed out and the others credited.
- **`SlashProtocol_proofs`**, the protocol: `ProtocolRunsTheQueue` (each behaviour of the protocol is one of
  the queue in its environment, so every theorem about the queue holds of the protocol), `CountersInStepCorrect`,
  `BondFrozenCorrect`, `SlashTakesWhatWasOwedCorrect`. The invariant is that the two counters are equal as functions; the
  number of open proposals follows from `TrackerCorrect`. What a slash takes needs `Snapshots` (what an
  open slash carries is what was committed when it was proposed) and that bonds stay integers
  through batches in any order.
- **`OperatorBonds_proofs`**: `BondTypeCorrect`, `BondSolventCorrect`,
  `NoInheritedRequestCorrect`, `UnstakeBlockedCorrect`. The type invariant and the solvency
  together are inductive: the subtraction of an exit is covered because the stake is what is
  left of what was paid in.
- **`ServiceMembership_proofs`**: `MembershipTypeCorrect`, `CountsAgreeCorrect`,
  `PaymentLeavesOnceCorrect`, `CommitmentsAcceptedCorrect`, `QuorumKeptCorrect`. The inductive
  invariant `MemberInv` is the type invariant, `CountsAgree` and `RequestOK` (while a
  request is open there is no service yet, and its operators are within the bounds); for the
  commitments it is strengthened by the offers of those who approved.
- **`DelegationPools_proofs`**: `TypeCorrect`, `DepositsAccountedCorrect`, `DelegatedWithinDepositCorrect`,
  `AggregateInStepCorrect`, `SharesClaimedCorrect`, `FrozenUnderSlashCorrect`, so every property the
  run `pools` checks, for any number of delegators, operators, blueprints, positions and requests.
  `IInv` is the types and the four invariants at once, because each step that
  converts shares to assets needs the others: the deposit covers the write-off, the pool the cut, the
  aggregate the pool. An execution of unstakes works on the books of one delegator:
  `BookOK` is `IInv` said of those books, with what does not belong to the delegator held fixed, and
  adds that pools of operators with a pending slash are untouched, which is where
  `FrozenUnderSlash` comes from. Each request keeps `BookOK` in each of its cases (no position, All,
  Fixed with and without blueprints), the fold over all ripe requests keeps it, and what is
  written back is `IInv` again. The proof assumes finite sets of delegators, operators and blueprints.
- **`CrossChainSlash_proofs`**: `CrossChainTypeCorrect`, `NoncesDistinctCorrect`,
  `FactorsFallCorrect`, `AcceptedOnlyTrustedCorrect`, `LedgerExactCorrect`. The type invariant needs that a factor never
  exceeds the scale and a share never all of the stake, which rests on lemmas about the divisions. `FactorsFall`
  becomes inductive with what a connector remembers: each message about a pod carries a nonce
  already used and a factor not below the last one sent. A sender is authorised or pending only
  if it was scheduled, and its date lies a whole delay after `askedAt`. `LedgerExact` is a sum over the
  messages taken: a delivery adds one that was not in it, because nonces are distinct, and a
  flush moves its amount from owed to applied.
- **`ClaimProver_proofs`**: `OwnProofCorrect`, `CompletedIsFinalCorrect`, `WorkersBoundedCorrect`,
  `QueueCountCorrect`, `RateBoundCorrect`. The
  invariant says where a job is: its message is in one place only (in the channel once, with the
  dispatcher, or spawned, and in none before it was sent), a task works only for a call that passed
  the checks, an entry is there only once its handler has replied, and a completed job has no
  message and no running task left that could write to it. The permits are a count over that partition. The
  counter of the queue rests on a lemma of its own, that a step of one commutes with wrapping.
  `RateBound` is a sum over instants of the history; `LimitsKept` ties each key's window to it: what was let
  through since the window began is its count, what was let through in any span that ends
  before it is bounded already, and so two windows that meet give at most twice the limit less one.
- **`ServicePayments_proofs`**: `TypeCorrect`, `SolventCorrect`, `EscrowExactCorrect`, `PaidByPeriodsCorrect`,
  `ServedOnlyBilledCorrect`. The books (`Books`) are one invariant: what the contract holds is the
  escrow, the pending rewards and the payments of jobs not handed on; the escrow is what went in less
  what went out; a service that is not a subscription has none; what went out is within the
  periods billed. It is inductive because of one lemma about a distribution: for any weights, failed
  pushes and refusals, what is credited, pushed out and handed back adds up to the amount.
  `ServedOnlyBilled` is not inductive by itself: `Covered` says that for an operator in service
  what is unbilled, with the excess, is at least the growth of its stake-seconds beyond the cursor,
  and `Reserved` that this growth is at least its stake times the time since it last joined or
  raised its stake or the last billed period ended, whichever is later. The second is what a
  late bill's guess needs; what it lacks when the join or the rise came after the period is what
  `excess` counts.

Only model-checked: the liveness properties (`EverySlashResolves`, `ResolvesOrOperatorGone`,
`ScheduleKept`, `SentLands`, `DebtCollected`, `QueuedIsAnswered`), because neither fairness nor
`ENABLED` is within the prover's reach. Every other property of a passing run is a theorem. The
violation runs are traces and need no proof.

## 5. Plan

Done, in this order: `SlashLifecycle`, `SlashProposals`, `OperatorBonds`, `SlashProtocol`,
`ServiceMembership`, `DelegationPools`, `CrossChainSlash`, `ClaimProver`, `ServicePayments`. Next:

1. `ServiceBacking`: `ServiceMembership` with `OperatorBonds`. Is every operator of a live
   service still active in staking? Approvals and quotes are checked at different times from
   activation, and `startLeaving` asks for a count that pending approvals are not part of.
2. Pools in the protocol: `SlashProtocol` with `DelegationPools`, for what a whole slash takes,
   with an abstract specification of a delegator's account that the pools implement.
3. Quotes: replay, expiry, extension. Bills with several assets and their prices.
4. Operator status registry; liquid delegation vaults; validator pods' checkpoints and withdrawals;
   direct delivery by the OP-stack messenger; streaming payments and inflation.
5. Theorems about the composition: that the bonds of the protocol stay solvent through batches, as those of
   `OperatorBonds` do; what `EverySlashResolves` rests on that is safety (an executable slash stays so).

## 6. Not modelled

`PROJECT.json` gives a reason for each component; in short: byte decoding, Merkle and signature
checks, curve arithmetic, price feeds, governance contracts that are a library's with parameters,
selector routing and storage declarations, deployment scripts, and the indexer, which projects
events into a database. The Rust files under `src/bindings` (about 267,000 lines) are generated from the
contracts' interfaces and hold no logic; the logic they bind to is the Solidity modelled here.
