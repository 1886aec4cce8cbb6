--------------------------- MODULE DelegationPools ---------------------------
(***************************************************************************)
(* Delegators of the staking layer: their deposits and withdrawals         *)
(* (src/src/staking/DepositManager.sol), their positions with operators in *)
(* share pools (DelegationManagerLib.sol, RewardsManager.sol,              *)
(* StakingUnstakeWithdrawFacet.sol) and the slashing of those pools        *)
(* (SlashingManager.sol), for one asset.  An entry point is one            *)
(* transaction, hence one action.  Operators come and go; their own bond   *)
(* is OperatorBonds.  Which blueprints an operator serves, and whom it     *)
(* lets delegate, is left open: any answer is possible.                    *)
(***************************************************************************)
EXTENDS Integers, FiniteSets, Functions, SequencesExt

CONSTANTS Delegators,
          Operators,
          Blueprints,
          Deposits,         \* amounts a delegator deposits, or asks back
          Delegations,      \* amounts it delegates
          Unstakes,         \* amounts it asks to unstake
          Selections,       \* lists of blueprints a Fixed delegation may name
          All,              \* name of the pool of delegations in All mode
          VirtualShares,    \* VIRTUAL_SHARES
          VirtualAssets,    \* VIRTUAL_ASSETS
          BPS,              \* BPS_DENOMINATOR
          SlashBps,         \* fractions a slash may take
          UnstakeDelay,     \* delegationBondLessDelay
          WithdrawDelay,    \* leaveDelegatorsDelay
          DepositCap,       \* depositCap of the asset
          MaxDeposited,     \* bound: what one delegator ever deposits
          MaxRequests,      \* bound: outstanding requests of one delegator
          MaxRound,         \* bound: the last round
          MaxPending,       \* bound: pending slashes of one operator
          MaxSlashes        \* bound: slashes ever proposed

ASSUME PoolAssumption ==
  /\ VirtualShares \in Nat \ {0} /\ VirtualAssets \in Nat \ {0} /\ BPS \in Nat \ {0}
  /\ UNION {Deposits, Delegations, Unstakes} \subseteq Nat \ {0}
  /\ SlashBps \subseteq 1 .. BPS
  /\ Selections \subseteq Seq(Blueprints) \ {<<>>}
  /\ \A list \in Selections : IsInjective(list)
  /\ All \notin Blueprints
  /\ IsFiniteSet(Delegators) /\ IsFiniteSet(Operators) /\ IsFiniteSet(Blueprints)

Pools == {All} \cup Blueprints
Modes == {"All", "Fixed"}
Indices == 1 .. Cardinality(Operators)

VARIABLES deposits,         \* _deposits
          currentDeposits,  \* _assetConfigs.currentDeposits
          withdrawals,      \* _withdrawRequests
          delegations,      \* _delegations, the positions of a delegator
          blueprintLists,   \* _delegationBlueprints, by the index of a position
          blueprintShares,  \* _delegatorBlueprintShares
          requests,         \* _unstakeRequests, the cost basis included
          pool,             \* _rewardPools and _blueprintPools
          aggregate,        \* _operatorDelegatedAggregate
          delegationCount,  \* _operatorMetadata.delegationCount
          registered,       \* _operators; all of them are taken to be active
          pendingSlashes,   \* _operatorPendingSlashCount
          currentRound,     \* currentRound
          deposited,        \* history: what a delegator ever deposited
          slashes,          \* history: how many slashes were proposed
          hit,              \* history: delegators in a pool when it was slashed
          lost              \* history: principal written off a delegator's deposit

delegatorVars == <<deposits, currentDeposits, withdrawals, delegations, blueprintLists,
                   blueprintShares, requests>>
operatorVars  == <<pool, aggregate, delegationCount, registered, pendingSlashes>>
historyVars   == <<deposited, slashes, hit, lost>>
poolVars      == <<delegatorVars, operatorVars, currentRound, historyVars>>

-----------------------------------------------------------------------------
(* Arithmetic. *)

Minus(n, k) == IF n >= k THEN n - k ELSE 0

CeilDiv(n, k) == (n + k - 1) \div k

\* _amountToShares and _sharesToAmount, for either kind of pool.
ToShares(p, amount) == (amount * (p.shares + VirtualShares)) \div (p.assets + VirtualAssets)
ToAmount(p, shares) == (shares * (p.assets + VirtualAssets)) \div (p.shares + VirtualShares)

\* What a pool really loses when amount is to be taken from it.
Applied(p, amount) == IF amount > p.assets THEN p.assets ELSE amount

CutPool(p, shares, amount) ==
  [shares |-> Minus(p.shares, shares), assets |-> p.assets - Applied(p, amount)]

GrowPool(p, shares, amount) ==
  [shares |-> p.shares + shares, assets |-> p.assets + amount]

\* Index of the position of a delegator with o, 0 for none.
PositionOf(positions, o) == SelectInSeq(positions, LAMBDA p : p.operator = o)

Init ==
  /\ deposits = [d \in Delegators |-> [amount |-> 0, delegated |-> 0]]
  /\ currentDeposits = 0
  /\ withdrawals = [d \in Delegators |-> <<>>]
  /\ delegations = [d \in Delegators |-> <<>>]
  /\ blueprintLists = [d \in Delegators |-> [i \in Indices |-> <<>>]]
  /\ blueprintShares = [d \in Delegators |-> [o \in Operators |-> [b \in Blueprints |-> 0]]]
  /\ requests = [d \in Delegators |-> <<>>]
  /\ pool = [o \in Operators |-> [p \in Pools |-> [shares |-> 0, assets |-> 0]]]
  /\ aggregate = [o \in Operators |-> 0]
  /\ delegationCount = [o \in Operators |-> 0]
  /\ registered = Operators
  /\ pendingSlashes = [o \in Operators |-> 0]
  /\ currentRound = 0
  /\ deposited = [d \in Delegators |-> 0]
  /\ slashes = 0
  /\ hit = {}
  /\ lost = [d \in Delegators |-> 0]

-----------------------------------------------------------------------------
(* Deposits and withdrawals.  Locks, which only delay withdrawals, are left out. *)

Deposit(d, amount) ==
  /\ currentDeposits + amount <= DepositCap
  /\ deposited[d] + amount <= MaxDeposited
  /\ currentDeposits' = currentDeposits + amount
  /\ deposits' = [deposits EXCEPT ![d].amount = @ + amount]
  /\ deposited' = [deposited EXCEPT ![d] = @ + amount]
  /\ UNCHANGED <<withdrawals, delegations, blueprintLists, blueprintShares, requests,
                 operatorVars, currentRound, slashes, hit, lost>>

\* What of a deposit is not delegated; the subtraction reverts on underflow.
Available(dep) == dep.amount - dep.delegated

FaultyWithdrawable(dep, amount) == dep.amount >= amount

Withdrawable(dep, amount) == Available(dep) >= amount

ScheduleWithdraw(d, amount) ==
  /\ Withdrawable(deposits[d], amount)
  /\ Len(withdrawals[d]) < MaxRequests
  /\ deposits' = [deposits EXCEPT ![d].amount = @ - amount]
  /\ withdrawals' = [withdrawals EXCEPT
       ![d] = Append(@, [amount |-> amount, round |-> currentRound])]
  /\ UNCHANGED <<currentDeposits, delegations, blueprintLists, blueprintShares, requests,
                 operatorVars, currentRound, historyVars>>

\* What is left of a list of requests: those with the given indices, in their order.
Kept(list, indices) ==
  LET place(i) == Cardinality({j \in indices : j <= i})
  IN [k \in 1 .. Cardinality(indices) |-> list[CHOOSE i \in indices : place(i) = k]]

\* Every matured request is paid.
ExecuteWithdraw(d) ==
  LET list  == withdrawals[d]
      ready == {i \in DOMAIN list : currentRound >= list[i].round + WithdrawDelay}
  IN
  /\ ready # {}
  /\ withdrawals' = [withdrawals EXCEPT ![d] = Kept(list, DOMAIN list \ ready)]
  /\ currentDeposits' = currentDeposits - SumFunction([i \in ready |-> list[i].amount])
  /\ UNCHANGED <<deposits, delegations, blueprintLists, blueprintShares, requests,
                 operatorVars, currentRound, historyVars>>

-----------------------------------------------------------------------------
(* Delegation. *)

\* The amounts of the members of a list: equal parts, the last takes the rest.
Parts(n, amount) ==
  [k \in 1 .. n |-> IF k < n THEN amount \div n ELSE amount - (n - 1) * (amount \div n)]

\* The same, keyed by the blueprints of the list.
ByBlueprint(list, f) ==
  [b \in ToSet(list) |-> f[SelectInSeq(list, LAMBDA x : x = b)]]

FaultyModeAgrees(position, mode) == TRUE

\* A top-up must have the mode of the position it adds to.
ModeAgrees(position, mode) == position.mode = mode

\* _upsertDelegationPosition and the pool update: amounts says what goes to which
\* pool of o.  A delegation to an operator the delegator is with already adds to that
\* position, whose list of blueprints stays as it was.
Delegate(d, o, mode, list, amount) ==
  LET amounts == IF mode = "All" THEN [p \in {All} |-> amount]
                 ELSE ByBlueprint(list, Parts(Len(list), amount))
      minted  == [p \in DOMAIN amounts |-> ToShares(pool[o][p], amounts[p])]
      i       == PositionOf(delegations[d], o)
  IN
  /\ o \in registered
  /\ Available(deposits[d]) >= amount
  /\ \A p \in DOMAIN minted : minted[p] # 0
  /\ i # 0 => ModeAgrees(delegations[d][i], mode)
  /\ deposits' = [deposits EXCEPT ![d].delegated = @ + amount]
  /\ delegations' = [delegations EXCEPT ![d] =
       IF i # 0 THEN [delegations[d] EXCEPT ![i].shares = @ + SumFunction(minted)]
       ELSE Append(@, [operator |-> o, shares |-> SumFunction(minted), mode |-> mode])]
  /\ blueprintLists' = IF i = 0 /\ mode = "Fixed"
       THEN [blueprintLists EXCEPT ![d][Len(delegations[d]) + 1] = list]
       ELSE blueprintLists
  /\ blueprintShares' = [blueprintShares EXCEPT ![d][o] =
       [b \in Blueprints |-> @[b] + IF b \in DOMAIN minted THEN minted[b] ELSE 0]]
  /\ pool' = [pool EXCEPT ![o] = [p \in Pools |->
       IF p \in DOMAIN amounts THEN GrowPool(@[p], minted[p], amounts[p]) ELSE @[p]]]
  /\ aggregate' = [aggregate EXCEPT ![o] = @ + amount]
  /\ delegationCount' = [delegationCount EXCEPT ![o] = @ + IF i = 0 THEN 1 ELSE 0]
  /\ UNCHANGED <<currentDeposits, withdrawals, requests, registered, pendingSlashes,
                 currentRound, historyVars>>

-----------------------------------------------------------------------------
(* Unstaking. *)

PendingShares(d, o) ==
  SumFunction([i \in DOMAIN requests[d] |->
    IF requests[d][i].operator = o THEN requests[d][i].shares ELSE 0])

\* What the position pos, number i of d, is worth in the pools of its list.
ListedAmount(d, i, o) ==
  LET list == blueprintLists[d][i]
  IN SumFunction([k \in DOMAIN list |->
       ToAmount(pool[o][list[k]], blueprintShares[d][o][list[k]])])

\* _previewDelegatorUnstakeShares: rounded up, without the virtual offsets.
SharesFor(d, i, amount) ==
  LET pos    == delegations[d][i]
      p      == pool[pos.operator][All]
      shares == IF pos.mode = "All" THEN p.shares ELSE pos.shares
      assets == IF pos.mode = "All" THEN p.assets ELSE ListedAmount(d, i, pos.operator)
  IN IF assets = 0 \/ shares = 0 THEN amount ELSE CeilDiv(amount * shares, assets)

\* Shares of position i not yet in a request; the subtraction reverts on underflow.
Unpromised(d, i) ==
  delegations[d][i].shares - PendingShares(d, delegations[d][i].operator)

\* _delegatedCostBasisForShares: the principal behind shares of position i, in
\* proportion to the shares of all positions, whatever pool they are in.
CostBasis(d, i, shares) ==
  LET own   == delegations[d][i].shares
      all   == SumFunction([k \in DOMAIN delegations[d] |-> delegations[d][k].shares])
      share == IF shares > own THEN own ELSE shares
  IN IF own = 0 THEN 0
     ELSE IF share = all THEN deposits[d].delegated
     ELSE (deposits[d].delegated * share) \div all

ScheduleUnstake(d, o, amount) ==
  LET i == PositionOf(delegations[d], o) IN
  /\ i # 0
  /\ pendingSlashes[o] = 0
  /\ Len(requests[d]) < MaxRequests
  /\ LET shares == SharesFor(d, i, amount) IN
       /\ Unpromised(d, i) >= shares
       /\ requests' = [requests EXCEPT ![d] = Append(@,
            [operator |-> o, shares |-> shares, round |-> currentRound,
             cost |-> CostBasis(d, i, shares)])]
  /\ UNCHANGED <<deposits, currentDeposits, withdrawals, delegations, blueprintLists,
                 blueprintShares, operatorVars, currentRound, historyVars>>

\* The state an execution works on, as far as d is concerned.
Books(d) ==
  [deposit |-> deposits[d], total |-> currentDeposits, positions |-> delegations[d],
   held |-> blueprintShares[d], pool |-> pool, aggregate |-> aggregate,
   count |-> delegationCount, lost |-> lost[d], returned |-> 0]

\* How a request for shares of a Fixed position is spread over its list: by the
\* shares held there, or equally when none are; the last takes the rest.
Spread(list, held, shares) ==
  LET n     == Len(list)
      all   == SumFunction([k \in 1 .. n |-> held[list[k]]])
      front == [k \in 1 .. n - 1 |->
                 IF all > 0 THEN (shares * held[list[k]]) \div all ELSE shares \div n]
  IN [k \in 1 .. n |-> IF k < n THEN front[k] ELSE shares - SumFunction(front)]

\* The shares a request takes from each pool of its operator.  A Fixed position
\* whose list is empty takes from none.
Burnt(position, list, held, shares) ==
  IF position.mode = "All" THEN [p \in {All} |-> shares]
  ELSE IF list = <<>> THEN <<>>
  ELSE ByBlueprint(list, Spread(list, held, shares))

\* _settleDelegatedCostBasis, and what it writes off the deposit.
WriteOff(dep, total, cost, amount) ==
  IF cost = 0 THEN 0 ELSE Min({Minus(cost, amount), dep.amount, total})

FaultySettledDeposit(dep, total, cost, amount) ==
  [amount |-> dep.amount, delegated |-> Minus(dep.delegated, IF cost = 0 THEN amount ELSE cost)]

SettledDeposit(dep, total, cost, amount) ==
  [amount |-> dep.amount - WriteOff(dep, total, cost, amount),
   delegated |-> Minus(dep.delegated, IF cost = 0 THEN amount ELSE cost)]

\* Swap and pop: the list of blueprints is stored under the index and stays there.
SwapAndPop(s, i) == [k \in 1 .. Len(s) - 1 |-> IF k = i THEN s[Len(s)] ELSE s[k]]

\* The execution of request r of d on the books bk.  A count that would go below
\* zero reverts the transaction: it is let through here and refused by Settled.
Executed(d, bk, r) ==
  LET i == PositionOf(bk.positions, r.operator) IN
  IF i = 0 THEN bk
  ELSE
    LET o      == r.operator
        burnt  == Burnt(bk.positions[i], blueprintLists[d][i], bk.held[o], r.shares)
        worth  == [p \in DOMAIN burnt |-> ToAmount(bk.pool[o][p], burnt[p])]
        amount == IF burnt = <<>> THEN ToAmount(bk.pool[o][All], r.shares)
                                  ELSE SumFunction(worth)
        left   == Minus(bk.positions[i].shares, r.shares)
    IN [bk EXCEPT
          !.deposit = SettledDeposit(@, bk.total, r.cost, amount),
          !.total = @ - WriteOff(bk.deposit, bk.total, r.cost, amount),
          !.positions = IF left = 0 THEN SwapAndPop(@, i)
                                    ELSE [@ EXCEPT ![i].shares = left],
          !.held[o] = [b \in Blueprints |->
             IF b \in DOMAIN burnt THEN Minus(@[b], burnt[b]) ELSE @[b]],
          !.pool[o] = [p \in Pools |->
             IF p \in DOMAIN burnt THEN CutPool(@[p], burnt[p], worth[p]) ELSE @[p]],
          !.aggregate[o] = Minus(@, SumFunction(
             [p \in DOMAIN burnt |-> Applied(bk.pool[o][p], worth[p])])),
          !.count[o] = IF left = 0 THEN @ - 1 ELSE @,
          !.lost = @ + WriteOff(bk.deposit, bk.total, r.cost, amount),
          !.returned = @ + amount]

\* The books bk become the state.
Settled(d, bk) ==
  /\ \A o \in Operators : bk.count[o] >= 0
  /\ delegations' = [delegations EXCEPT ![d] = bk.positions]
  /\ blueprintShares' = [blueprintShares EXCEPT ![d] = bk.held]
  /\ pool' = bk.pool
  /\ aggregate' = bk.aggregate
  /\ delegationCount' = bk.count
  /\ lost' = [lost EXCEPT ![d] = bk.lost]
  /\ UNCHANGED <<withdrawals, blueprintLists, registered, pendingSlashes, currentRound,
                 deposited, slashes, hit>>

FaultyRipe(r) == currentRound >= r.round + UnstakeDelay

\* Requests with an operator under a pending slash are skipped.
Ripe(r) == pendingSlashes[r.operator] = 0 /\ currentRound >= r.round + UnstakeDelay

\* executeDelegatorUnstake: every ripe request, in an order that depends on earlier
\* removals and is left open.
ExecuteUnstake(d) ==
  LET ripe == {i \in DOMAIN requests[d] : Ripe(requests[d][i])} IN
  /\ ripe # {}
  /\ \E order \in SetToSeqs(ripe) :
       LET bk == FoldLeft(LAMBDA b, i : Executed(d, b, requests[d][i]), Books(d), order)
       IN /\ Settled(d, bk)
          /\ deposits' = [deposits EXCEPT ![d] = bk.deposit]
          /\ currentDeposits' = bk.total
  /\ requests' = [requests EXCEPT ![d] = Kept(@, DOMAIN @ \ ripe)]

\* executeDelegatorUnstakeAndWithdraw of the first request with the given operator,
\* shares and round, after both delays.
ExecuteUnstakeAndWithdraw(d, k) ==
  LET r  == requests[d][k]
      i  == PositionOf(delegations[d], r.operator)
      bk == Executed(d, Books(d), r)
  IN
  /\ \A j \in 1 .. k - 1 : [requests[d][j] EXCEPT !.cost = r.cost] # r
  /\ Ripe(r)
  /\ currentRound >= r.round + UnstakeDelay + WithdrawDelay
  /\ i # 0
  /\ delegations[d][i].shares >= r.shares
  /\ Withdrawable(bk.deposit, bk.returned)
  /\ Settled(d, bk)
  /\ deposits' = [deposits EXCEPT ![d] =
       [bk.deposit EXCEPT !.amount = @ - bk.returned]]
  /\ currentDeposits' = bk.total - bk.returned
  /\ requests' = [requests EXCEPT ![d] = SwapAndPop(@, k)]

-----------------------------------------------------------------------------
(* Rebalancing a Fixed position. *)

\* _setDelegatorBlueprintPosition for each blueprint of targets: the position of d
\* in its pool becomes worth the target at the rate of now.
Rebalance(d, i, targets, list) ==
  LET o     == delegations[d][i].operator
      held  == blueprintShares[d][o]
      worth == [b \in DOMAIN targets |-> ToAmount(pool[o][b], held[b])]
      new   == [b \in DOMAIN targets |-> ToShares(pool[o][b], targets[b])]
      after(p, b) ==
        [shares |-> Minus(p.shares + new[b], held[b]),
         assets |-> p.assets + Minus(targets[b], worth[b])
                      - Applied(p, Minus(worth[b], targets[b]))]
      change(b) == Minus(targets[b], worth[b])
                     - Applied(pool[o][b], Minus(worth[b], targets[b]))
  IN
  /\ delegations' = [delegations EXCEPT ![d][i].shares = SumFunction(new)]
  /\ blueprintLists' = [blueprintLists EXCEPT ![d][i] = list]
  /\ blueprintShares' = [blueprintShares EXCEPT ![d][o] =
       [b \in Blueprints |-> IF b \in DOMAIN targets THEN new[b] ELSE @[b]]]
  /\ pool' = [pool EXCEPT ![o] =
       [p \in Pools |-> IF p \in DOMAIN targets THEN after(@[p], p) ELSE @[p]]]
  /\ aggregate' = [aggregate EXCEPT ![o] =
       Minus(@ + SumFunction([b \in DOMAIN targets |-> change(b)]), 0)]
  /\ UNCHANGED <<deposits, currentDeposits, withdrawals, requests, delegationCount,
                 registered, pendingSlashes, currentRound, historyVars>>

\* Blocked under a pending slash, which takes from one blueprint's pool only.
Rebalanceable(d, i) ==
  /\ i \in DOMAIN delegations[d]
  /\ delegations[d][i].mode = "Fixed"
  /\ pendingSlashes[delegations[d][i].operator] = 0

AddBlueprint(d, i, b) ==
  /\ Rebalanceable(d, i)
  /\ b \notin ToSet(blueprintLists[d][i])
  /\ LET list == Append(blueprintLists[d][i], b)
         all  == ListedAmount(d, i, delegations[d][i].operator)
     IN Rebalance(d, i, ByBlueprint(list, Parts(Len(list), all)), list)

\* The list loses b by swap and pop; b's own position becomes zero.
RemoveBlueprint(d, i, b) ==
  /\ Rebalanceable(d, i)
  /\ Len(blueprintLists[d][i]) > 1
  /\ b \in ToSet(blueprintLists[d][i])
  /\ LET old  == blueprintLists[d][i]
         list == SwapAndPop(old, SelectInSeq(old, LAMBDA x : x = b))
         all  == ListedAmount(d, i, delegations[d][i].operator)
         kept == ByBlueprint(list, Parts(Len(list), all))
     IN Rebalance(d, i, [x \in ToSet(old) |-> IF x = b THEN 0 ELSE kept[x]], list)

-----------------------------------------------------------------------------
(* Slashes, operators and rounds. *)

FaultySlashedAggregate(o, cuts) == aggregate[o]

SlashedAggregate(o, cuts) == Minus(aggregate[o], SumFunction(cuts))

\* Who is in one of the pools ps of o.
Exposed(o, ps) ==
  {d \in Delegators :
     \/ All \in ps /\ \E i \in DOMAIN delegations[d] :
          delegations[d][i].operator = o /\ delegations[d][i].mode = "All"
     \/ \E b \in ps \ {All} : blueprintShares[d][o][b] > 0}

\* The core counts a slash against its operator when it is proposed.
IncrementPendingSlash(o) ==
  /\ pendingSlashes[o] < MaxPending
  /\ slashes < MaxSlashes
  /\ pendingSlashes' = [pendingSlashes EXCEPT ![o] = @ + 1]
  /\ slashes' = slashes + 1
  /\ UNCHANGED <<delegatorVars, pool, aggregate, delegationCount, registered,
                 currentRound, deposited, hit, lost>>

\* A cancelled slash.
DecrementPendingSlash(o) ==
  /\ pendingSlashes[o] > 0
  /\ pendingSlashes' = [pendingSlashes EXCEPT ![o] = @ - 1]
  /\ UNCHANGED <<delegatorVars, pool, aggregate, delegationCount, registered,
                 currentRound, historyVars>>

\* An executed slash: the core slashes and takes the count back in one transaction.
\* slashForBlueprint and slashForService reach the pool of All and that of one
\* blueprint, the slash of the native asset those of every blueprint of the operator.
SlashPools(o, blueprints, bps) ==
  LET ps    == {All} \cup blueprints
      cuts  == [p \in ps |-> (pool[o][p].assets * bps) \div BPS]
      lossy == {p \in ps : cuts[p] > 0}
  IN
  /\ o \in registered
  /\ pendingSlashes[o] > 0
  /\ pendingSlashes' = [pendingSlashes EXCEPT ![o] = @ - 1]
  /\ pool' = [pool EXCEPT ![o] =
       [p \in Pools |-> IF p \in ps THEN CutPool(@[p], 0, cuts[p]) ELSE @[p]]]
  /\ aggregate' = [aggregate EXCEPT ![o] = SlashedAggregate(o, cuts)]
  /\ hit' = hit \cup Exposed(o, lossy)
  /\ UNCHANGED <<delegatorVars, delegationCount, registered, currentRound, deposited,
                 slashes, lost>>

\* completeLeaving: the pools and the positions with the operator stay.
CompleteLeaving(o) ==
  /\ o \in registered
  /\ registered' = registered \ {o}
  /\ UNCHANGED <<delegatorVars, pool, aggregate, delegationCount, pendingSlashes,
                 currentRound, historyVars>>

\* registerOperator overwrites the metadata, the number of delegations included.
RegisterOperator(o) ==
  /\ o \notin registered
  /\ registered' = registered \cup {o}
  /\ delegationCount' = [delegationCount EXCEPT ![o] = 0]
  /\ UNCHANGED <<delegatorVars, pool, aggregate, pendingSlashes, currentRound,
                 historyVars>>

AdvanceRound ==
  /\ currentRound < MaxRound
  /\ currentRound' = currentRound + 1
  /\ UNCHANGED <<delegatorVars, operatorVars, historyVars>>

-----------------------------------------------------------------------------
DelegatorStep(d) ==
  \/ \E a \in Deposits : Deposit(d, a)
  \/ \E a \in Deposits : ScheduleWithdraw(d, a)
  \/ ExecuteWithdraw(d)
  \/ \E o \in Operators, a \in Delegations : Delegate(d, o, "All", <<>>, a)
  \/ \E o \in Operators, a \in Delegations, list \in Selections :
       Delegate(d, o, "Fixed", list, a)
  \/ \E o \in Operators, a \in Unstakes : ScheduleUnstake(d, o, a)
  \/ ExecuteUnstake(d)
  \/ \E k \in DOMAIN requests[d] : ExecuteUnstakeAndWithdraw(d, k)
  \/ \E i \in Indices, b \in Blueprints : AddBlueprint(d, i, b)
  \/ \E i \in Indices, b \in Blueprints : RemoveBlueprint(d, i, b)

\* What the core calls with SLASHER_ROLE, and the comings and goings of o.
OperatorStep(o) ==
  \/ IncrementPendingSlash(o)
  \/ DecrementPendingSlash(o)
  \/ \E bs \in SUBSET Blueprints, bps \in SlashBps : SlashPools(o, bs, bps)
  \/ CompleteLeaving(o)
  \/ RegisterOperator(o)

Next ==
  \/ \E d \in Delegators : DelegatorStep(d)
  \/ \E o \in Operators : OperatorStep(o)
  \/ AdvanceRound

Spec == Init /\ [][Next]_poolVars

-----------------------------------------------------------------------------
(* Properties. *)

Pool == [shares : Nat, assets : Nat]

\* Every variable stays in its range; in particular no subtraction that the code
\* checks underflows, so no account is locked by a revert.
TypeOK ==
  /\ deposits \in [Delegators -> [amount : Nat, delegated : Nat]]
  /\ currentDeposits \in Nat
  /\ \A d \in Delegators :
       /\ Len(delegations[d]) <= Cardinality(Operators)
       /\ \A i \in DOMAIN delegations[d] :
            delegations[d][i] \in [operator : Operators, shares : Nat, mode : Modes]
       /\ \A i \in DOMAIN withdrawals[d] :
            withdrawals[d][i] \in [amount : Nat, round : Nat]
       /\ \A i \in DOMAIN requests[d] :
            requests[d][i] \in [operator : Operators, shares : Nat \ {0}, round : Nat, cost : Nat]
       /\ \A i \in Indices : \A b \in ToSet(blueprintLists[d][i]) : b \in Blueprints
  /\ blueprintShares \in [Delegators -> [Operators -> [Blueprints -> Nat]]]
  /\ pool \in [Operators -> [Pools -> Pool]]
  /\ aggregate \in [Operators -> Nat]
  /\ delegationCount \in [Operators -> Nat]
  /\ registered \subseteq Operators
  /\ pendingSlashes \in [Operators -> Nat]
  /\ currentRound \in Nat
  /\ deposited \in [Delegators -> Nat] /\ lost \in [Delegators -> Nat]
  /\ slashes \in Nat /\ hit \subseteq Delegators

\* currentDeposits, which the deposit cap is checked against and every withdrawal
\* is subtracted from, is what delegators have deposited and are waiting to
\* withdraw: no exit, write-off or single-step redemption leaks cap or makes a
\* later withdrawal revert.
DepositsAccounted ==
  currentDeposits =
    SumFunction([d \in Delegators |-> deposits[d].amount +
      SumFunction([i \in DOMAIN withdrawals[d] |-> withdrawals[d][i].amount])])

\* What is delegated is part of the deposit, whatever slashes were written off: the
\* code subtracts the one from the other in every withdrawal and delegation.
DelegatedWithinDeposit ==
  \A d \in Delegators : deposits[d].delegated <= deposits[d].amount

\* DelegationStorage states it of _operatorDelegatedAggregate: it is the assets of
\* all pools of the operator after every call.
AggregateInStep ==
  \A o \in Operators :
    aggregate[o] = SumFunction([p \in Pools |-> pool[o][p].assets])

\* The shares that one delegator's positions hold in the pool of All mode of o.
HeldInAll(positions, o) ==
  SumFunction([i \in DOMAIN positions |->
    IF positions[i].operator = o /\ positions[i].mode = "All" THEN positions[i].shares ELSE 0])

\* Every share of an operator's pool of All-mode delegations is held by one of its
\* delegators, through top-ups, removed positions and requests for more than is left
\* ("Cap shares to burn at available", DelegationManagerLib.sol:574): no stake is
\* slashed, or left behind, that is nobody's.
SharesClaimed ==
  \A o \in Operators :
    pool[o][All].shares <= SumFunction([d \in Delegators |-> HeldInAll(delegations[d], o)])

\* While a slash is pending against an operator nobody takes shares out of one of its
\* pools: neither an unstake scheduled before, nor a single-step redemption, nor a
\* rebalance between blueprints.
FrozenUnderSlash ==
  [][\A o \in Operators, p \in Pools :
       pendingSlashes[o] > 0 => pool'[o][p].shares >= pool[o][p].shares]_poolVars

\* DelegationManagerLib says of the write-off that it "can never underflow or destroy
\* principal that was not actually slashed": a delegator whose pools were never
\* slashed loses no more than rounding, one unit.
OnlySlashesWrittenOff == \A d \in Delegators \ hit : lost[d] <= 1

\* RewardsManager says Fixed delegators are only exposed to selected blueprints: the
\* shares of a blueprint's pool are those its delegators hold in it, and leaving it
\* never takes the part of another.
BlueprintSharesMatch ==
  \A o \in Operators, b \in Blueprints :
    pool[o][b].shares = SumFunction([d \in Delegators |-> blueprintShares[d][o][b]])
=============================================================================
