---------------------------- MODULE OperatorBonds ----------------------------
(***************************************************************************)
(* The self-stake ("bond") of operators in the staking layer:              *)
(* registration, top-up, delayed unstake, leaving, slashing and the        *)
(* pending-slash counter (src/src/staking/OperatorManager.sol, the         *)
(* operator's side of SlashingManager.sol, the rounds and the delays).     *)
(* Amounts are in the bond asset.  One function call is one transaction,   *)
(* hence one action.  What delegators stake is DelegationPools.            *)
(***************************************************************************)
EXTENDS Integers

CONSTANTS Operators,     \* accounts that may become operators
          Amounts,       \* amounts an operator may pay in or ask back
          MinStake,      \* minOperatorStake of the bond asset
          BPS,           \* BPS_DENOMINATOR
          BondBps,       \* fractions of the bond a slash may take
          Delays,        \* values setDelays may store
          MaxPaidIn,     \* bound: what one operator ever pays in
          MaxRound,      \* bound: the last round
          MaxPending     \* bound: pending slashes of one operator

ASSUME BondAssumption ==
  /\ MinStake \in Nat /\ BPS \in Nat \ {0}
  /\ Amounts \subseteq Nat /\ Delays \subseteq Nat /\ BondBps \subseteq Nat
  /\ MaxPaidIn \in Nat /\ MaxRound \in Nat /\ MaxPending \in Nat

VARIABLES registered,      \* _operators
          status,          \* _operatorMetadata.status; Active is the enum's zero
          stake,           \* _operatorMetadata.stake
          leavingRound,    \* _operatorMetadata.leavingRound
          unstakeReq,      \* _operatorBondLessRequests
          pendingSlashes,  \* _operatorPendingSlashCount
          currentRound,    \* currentRound
          delays,          \* delegationBondLessDelay and leaveOperatorsDelay
          paidIn,          \* history: what each account ever paid in
          paidOut,         \* history: what each account ever got back
          slashed          \* history: what was ever slashed of each bond

bondVars == <<registered, status, stake, leavingRound, unstakeReq, pendingSlashes,
              currentRound, delays, paidIn, paidOut, slashed>>

OperatorStatus == {"Active", "Inactive", "Leaving"}
NoRequest == [amount |-> 0, round |-> 0]

-----------------------------------------------------------------------------
\* The first unstake is asked for in round 0; delays start at any allowed value.
Init ==
  /\ registered = {}
  /\ status = [o \in Operators |-> "Active"]
  /\ stake = [o \in Operators |-> 0]
  /\ leavingRound = [o \in Operators |-> 0]
  /\ unstakeReq = [o \in Operators |-> NoRequest]
  /\ pendingSlashes = [o \in Operators |-> 0]
  /\ currentRound = 0
  /\ delays \in [unstake : Delays, leave : Delays]
  /\ paidIn = [o \in Operators |-> 0]
  /\ paidOut = [o \in Operators |-> 0]
  /\ slashed = [o \in Operators |-> 0]

\* registerOperator and registerOperatorWithAsset: the metadata is overwritten.
RegisterOperator(o, amount) ==
  /\ o \notin registered
  /\ amount >= MinStake
  /\ paidIn[o] + amount <= MaxPaidIn
  /\ registered' = registered \cup {o}
  /\ status' = [status EXCEPT ![o] = "Active"]
  /\ stake' = [stake EXCEPT ![o] = amount]
  /\ leavingRound' = [leavingRound EXCEPT ![o] = 0]
  /\ paidIn' = [paidIn EXCEPT ![o] = @ + amount]
  /\ UNCHANGED <<unstakeReq, pendingSlashes, currentRound, delays, paidOut, slashed>>

\* increaseStake looks at the status only, which is Active by default.
IncreaseStake(o, amount) ==
  /\ status[o] = "Active"
  /\ amount # 0
  /\ paidIn[o] + amount <= MaxPaidIn
  /\ stake' = [stake EXCEPT ![o] = @ + amount]
  /\ paidIn' = [paidIn EXCEPT ![o] = @ + amount]
  /\ UNCHANGED <<registered, status, leavingRound, unstakeReq, pendingSlashes,
                 currentRound, delays, paidOut, slashed>>

\* scheduleOperatorUnstake; the subtractions revert when they would underflow.
ScheduleUnstake(o, amount) ==
  /\ status[o] = "Active"
  /\ pendingSlashes[o] = 0
  /\ amount # 0
  /\ stake[o] - unstakeReq[o].amount - amount >= MinStake
  /\ unstakeReq' = [unstakeReq EXCEPT
       ![o] = [amount |-> @.amount + amount, round |-> currentRound]]
  /\ UNCHANGED <<registered, status, stake, leavingRound, pendingSlashes, currentRound,
                 delays, paidIn, paidOut, slashed>>

FaultyUnlocked(o) == TRUE

\* A slash proposed after the request was made blocks its execution.
Unlocked(o) == pendingSlashes[o] = 0

FaultyCovered(o) == TRUE

\* The bond may have been slashed below the request since.
Covered(o) == stake[o] >= unstakeReq[o].amount

\* executeOperatorUnstake, at any status.
ExecuteUnstake(o) ==
  LET request == unstakeReq[o] IN
  /\ request.amount # 0
  /\ Unlocked(o)
  /\ currentRound >= request.round + delays.unstake
  /\ Covered(o)
  /\ stake' = [stake EXCEPT ![o] = @ - request.amount]
  /\ unstakeReq' = [unstakeReq EXCEPT ![o] = NoRequest]
  /\ paidOut' = [paidOut EXCEPT ![o] = @ + request.amount]
  /\ UNCHANGED <<registered, status, leavingRound, pendingSlashes, currentRound,
                 delays, paidIn, slashed>>

\* startLeaving; liveServices is the core's getOperatorTotalActiveServices.
StartLeaving(o, liveServices) ==
  /\ status[o] \in {"Active", "Inactive"}
  /\ pendingSlashes[o] = 0
  /\ liveServices = 0
  /\ status' = [status EXCEPT ![o] = "Leaving"]
  /\ leavingRound' = [leavingRound EXCEPT ![o] = currentRound]
  /\ UNCHANGED <<registered, stake, unstakeReq, pendingSlashes, currentRound, delays,
                 paidIn, paidOut, slashed>>

\* A leaver's unstake request is left behind.
FaultyRequestsAfterExit(o) == unstakeReq

RequestsAfterExit(o) == [unstakeReq EXCEPT ![o] = NoRequest]

FaultyStakeAfterExit(o) == stake

StakeAfterExit(o) == [stake EXCEPT ![o] = 0]

\* completeLeaving, whatever slashes are pending.
CompleteLeaving(o) ==
  /\ status[o] = "Leaving"
  /\ currentRound >= leavingRound[o] + delays.leave
  /\ registered' = registered \ {o}
  /\ status' = [status EXCEPT ![o] = "Inactive"]
  /\ stake' = StakeAfterExit(o)
  /\ unstakeReq' = RequestsAfterExit(o)
  /\ paidOut' = [paidOut EXCEPT ![o] = @ + stake[o]]
  /\ UNCHANGED <<leavingRound, pendingSlashes, currentRound, delays, paidIn, slashed>>

\* The cut of the bond, rounded down.
BondCut(o, bps) == (stake[o] * bps) \div BPS

\* slashForBlueprint, slashForService and slash as far as the bond goes: bps of it
\* are taken, and poolCut says whether anything was taken from delegators' pools.
\* With nothing taken at all the status is not looked at.
SlashBond(o, bps, poolCut) ==
  /\ o \in registered
  /\ bps \in 1 .. BPS
  /\ stake' = [stake EXCEPT ![o] = @ - BondCut(o, bps)]
  /\ slashed' = [slashed EXCEPT ![o] = @ + BondCut(o, bps)]
  /\ status' = IF (BondCut(o, bps) > 0 \/ poolCut) /\ stake'[o] < MinStake
               THEN [status EXCEPT ![o] = "Inactive"] ELSE status
  /\ UNCHANGED <<registered, leavingRound, unstakeReq, pendingSlashes, currentRound,
                 delays, paidIn, paidOut>>

IncrementPendingSlash(o) ==
  /\ pendingSlashes[o] < MaxPending
  /\ pendingSlashes' = [pendingSlashes EXCEPT ![o] = @ + 1]
  /\ UNCHANGED <<registered, status, stake, leavingRound, unstakeReq, currentRound,
                 delays, paidIn, paidOut, slashed>>

DecrementPendingSlash(o) ==
  /\ pendingSlashes' =
       [pendingSlashes EXCEPT ![o] = IF @ > 0 THEN @ - 1 ELSE 0]
  /\ UNCHANGED <<registered, status, stake, leavingRound, unstakeReq, currentRound,
                 delays, paidIn, paidOut, slashed>>

\* An admin's recovery; the right count is worked out off the chain.
ResetPendingSlashCount(o, count) ==
  /\ pendingSlashes' = [pendingSlashes EXCEPT ![o] = count]
  /\ UNCHANGED <<registered, status, stake, leavingRound, unstakeReq, currentRound,
                 delays, paidIn, paidOut, slashed>>

\* advanceRound, permissionless, at most once per roundDuration: the clock is left
\* out, so rounds advance at any pace.
AdvanceRound ==
  /\ currentRound < MaxRound
  /\ currentRound' = currentRound + 1
  /\ UNCHANGED <<registered, status, stake, leavingRound, unstakeReq, pendingSlashes,
                 delays, paidIn, paidOut, slashed>>

SetDelays(d) ==
  /\ delays' = d
  /\ UNCHANGED <<registered, status, stake, leavingRound, unstakeReq, pendingSlashes,
                 currentRound, paidIn, paidOut, slashed>>

-----------------------------------------------------------------------------
\* What an operator calls.  On its own the module does not know the core.
OperatorStep(o, liveServices) ==
  \/ \E a \in Amounts : RegisterOperator(o, a)
  \/ \E a \in Amounts : IncreaseStake(o, a)
  \/ \E a \in Amounts : ScheduleUnstake(o, a)
  \/ ExecuteUnstake(o)
  \/ StartLeaving(o, liveServices)
  \/ CompleteLeaving(o)

\* What the core calls with SLASHER_ROLE, in any order.
SlasherStep(o) ==
  \/ \E b \in BondBps, poolCut \in BOOLEAN : SlashBond(o, b, poolCut)
  \/ IncrementPendingSlash(o)
  \/ DecrementPendingSlash(o)

AdminStep ==
  \/ \E d \in [unstake : Delays, leave : Delays] : SetDelays(d)
  \/ \E o \in Operators, n \in 0 .. MaxPending : ResetPendingSlashCount(o, n)

Next ==
  \/ \E o \in Operators : OperatorStep(o, 0)
  \/ \E o \in Operators : SlasherStep(o)
  \/ AdminStep
  \/ AdvanceRound

Spec == Init /\ [][Next]_bondVars

-----------------------------------------------------------------------------
(* Properties. *)

\* Every field stays in its range; in particular no subtraction underflows.
TypeOK ==
  /\ registered \subseteq Operators
  /\ status \in [Operators -> OperatorStatus]
  /\ stake \in [Operators -> Nat]
  /\ leavingRound \in [Operators -> Nat]
  /\ unstakeReq \in [Operators -> [amount : Nat, round : Nat]]
  /\ pendingSlashes \in [Operators -> Nat]
  /\ currentRound \in Nat
  /\ delays \in [unstake : Delays, leave : Delays]
  /\ paidIn \in [Operators -> Nat]
  /\ paidOut \in [Operators -> Nat]
  /\ slashed \in [Operators -> Nat]

\* No operator ever has a claim on another's bond: what it got back, what it was
\* slashed and what it still has staked is at most what it paid in, through any
\* sequence of registrations, slashes, unstakes and exits.
BondSolvent ==
  \A o \in Operators : stake[o] + paidOut[o] + slashed[o] <= paidIn[o]

\* A bond is not paid out under a pending slash to an operator that is not leaving:
\* a slash proposed after an unstake was scheduled still freezes it.
UnstakeBlockedByPending ==
  [][\A o \in Operators :
       pendingSlashes[o] > 0 /\ paidOut'[o] > paidOut[o] => status[o] = "Leaving"]_bondVars

\* A returning operator starts clean: with no request inherited from its former
\* life, nothing is paid out that was not asked for since it registered.
NoInheritedRequest ==
  \A o \in Operators :
    o \notin registered /\ status[o] = "Inactive" => unstakeReq[o] = NoRequest
=============================================================================
