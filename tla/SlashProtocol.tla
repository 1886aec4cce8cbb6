---------------------------- MODULE SlashProtocol ----------------------------
(***************************************************************************)
(* Slashing end to end: the proposal queue of the Tangle core              *)
(* (SlashProposals) and the operators' bonds in the staking layer          *)
(* (OperatorBonds), joined by the calls Slashing.sol makes on IStaking in  *)
(* the same transaction.  Of the service (ServiceMembership) only what     *)
(* slashing reads is kept: who serves, who ever did, and the live          *)
(* commitments.                                                            *)
(***************************************************************************)
EXTENDS SlashProposals, SequencesExt

CONSTANTS Amounts, MinStake, BondBps, Delays, MaxPaidIn, MaxRound  \* of OperatorBonds

VARIABLES status, stake, leavingRound, unstakeReq, pendingSlashes,
          currentRound, delays, paidIn, paidOut, slashed, \* of OperatorBonds, beside
                                                          \* registered
          serving,         \* operators in the live service
          served,          \* operators with a _serviceOperators entry, now or before
          liveCommitment,  \* _serviceSecurityCommitments, as the bps of the bond asset
          owedAt           \* history: the commitment when each slash was proposed

ASSUME AmountsAssumption == Amounts \subseteq Nat

Bonds == INSTANCE OperatorBonds WITH MaxPending <- MaxSlashes

bondVars    == <<registered, status, stake, leavingRound, unstakeReq, pendingSlashes,
                 currentRound, delays, paidIn, paidOut, slashed>>
serviceVars == <<serving, served, liveCommitment, slashingOrigin>>
vars        == <<slashVars, bondVars, serviceVars, owedAt>>

-----------------------------------------------------------------------------
ProtocolInit ==
  /\ Init
  /\ Bonds!Init
  /\ serving = {} /\ served = {}
  /\ liveCommitment = [o \in Operators |-> 0]
  /\ owedAt = [s \in SlashIds |-> 0]

\* An operator enters the service, for the first time or again, with commitments of
\* its choice.  Where the asset is not committed c is 0; an operator without any
\* commitment has c = BPS, for slashing it takes the whole fraction of every asset.
EnterService(o, c) ==
  /\ o \notin serving
  /\ stake[o] >= MinStake
  /\ serving' = serving \cup {o}
  /\ served' = served \cup {o}
  /\ liveCommitment' = [liveCommitment EXCEPT ![o] = c]
  /\ UNCHANGED <<slashVars, bondVars, slashingOrigin, owedAt>>

\* It leaves, is removed, or the service ends; its commitments are kept.
QuitService(o) ==
  /\ o \in serving
  /\ serving' = serving \ {o}
  /\ UNCHANGED <<slashVars, bondVars, served, liveCommitment, slashingOrigin, owedAt>>

\* proposeSlash, the call of incrementPendingSlash included.  An operator that has
\* left the service can still be slashed for what it did there.
Propose(p, o, bps, exposure) ==
  /\ o \in served
  /\ ProposeSlash(p, o, bps, exposure, liveCommitment[o])
  /\ owedAt' = [owedAt EXCEPT ![nextSlashId] = liveCommitment[o]]
  /\ Bonds!IncrementPendingSlash(o)
  /\ UNCHANGED serviceVars

\* cancelSlash, the call of decrementPendingSlash included.
Cancel(s) ==
  /\ CancelSlash(s)
  /\ Bonds!DecrementPendingSlash(proposals[s].operator)
  /\ UNCHANGED <<serviceVars, owedAt>>

\* The fraction of a committed asset that slashForService takes: at least one bps.
Rate(bps, c) ==
  LET product == (bps * c) \div BPS
  IN IF bps > 0 /\ c > 0 /\ product = 0 THEN 1 ELSE product

\* Reads the commitments as they are now.
FaultyRateOf(s) == Rate(proposals[s].bps, liveCommitment[proposals[s].operator])

\* The commitments are those of the snapshot.
RateOf(s) == Rate(proposals[s].bps, proposals[s].commit)

\* What is left of the bond of o after the slashes of order, one after the other.
BondAfter(o, order) ==
  FoldLeft(LAMBDA bond, s : IF proposals[s].operator = o
                            THEN bond - (bond * RateOf(s)) \div BPS ELSE bond,
           stake[o], order)

FaultyPendingAfter(o, ids) == Minus(pendingSlashes[o], 1)

PendingAfter(o, ids) == Minus(pendingSlashes[o], CountAgainst(o, ids))

\* slashForService (or slashForBlueprint) and decrementPendingSlash for every slash
\* of ids, in that order; Execute requires that their operators are registered.
\* poolsCut says from whose delegators something was taken as well.
SlashBonds(ids, order) ==
  LET hit == {proposals[s].operator : s \in ids} IN
  /\ stake' = [o \in Operators |-> BondAfter(o, order)]
  /\ slashed' = [o \in Operators |-> slashed[o] + stake[o] - BondAfter(o, order)]
  /\ pendingSlashes' = [o \in Operators |-> PendingAfter(o, ids)]
  /\ \E poolsCut \in SUBSET hit :
       status' = [o \in Operators |->
         IF (stake'[o] # stake[o] \/ o \in poolsCut) /\ stake'[o] < MinStake
         THEN "Inactive" ELSE status[o]]
  /\ UNCHANGED <<registered, leavingRound, unstakeReq, currentRound, delays, paidIn,
                 paidOut>>

\* executeSlash.
ExecuteOne(s) ==
  /\ ExecuteSlash(s)
  /\ SlashBonds({s}, <<s>>)
  /\ UNCHANGED <<serviceVars, owedAt>>

\* executeSlashBatch, in the order the caller gives; ids that are not executable
\* are skipped, an operator that cannot be slashed reverts the whole batch.
ExecuteBatch(ids) ==
  /\ ExecuteSlashBatch(ids)
  /\ LET executable == {s \in ids : IsExecutable(s)}
     IN \E order \in SetToSeqs(executable) : SlashBonds(executable, order)
  /\ UNCHANGED <<serviceVars, owedAt>>

\* The steps that leave the staking layer alone.
QueueStep ==
  /\ \/ Tick
     \/ \E s \in SlashIds, a \in Disputers : DisputeSlash(a, s)
     \/ \E a \in Accounts : ClaimDisputeBond(a)
     \/ \E c \in Configs : SetSlashConfig(c)
     \/ \E t \in Treasuries : SetTreasury(t)
  /\ UNCHANGED <<bondVars, serviceVars, owedAt>>

\* The steps that leave the core alone; startLeaving asks it for live services.
BondStep ==
  /\ \/ \E o \in Operators : Bonds!OperatorStep(o, IF o \in serving THEN 1 ELSE 0)
     \/ Bonds!AdvanceRound
     \/ \E d \in [unstake : Delays, leave : Delays] : Bonds!SetDelays(d)
  /\ UNCHANGED <<slashVars, serviceVars, owedAt>>

\* The manager names another slashing origin.
ManagerStep ==
  /\ \E a \in SlashOrigins \cup {Nobody} : SetSlashingOrigin(a)
  /\ UNCHANGED <<slashVars, bondVars, serving, served, liveCommitment, owedAt>>

ProtocolNext ==
  \/ QueueStep
  \/ BondStep
  \/ ManagerStep
  \/ \E o \in Operators, c \in Commitments : EnterService(o, c)
  \/ \E o \in Operators : QuitService(o)
  \/ \E p \in Proposers, o \in Operators, b \in SlashBps, e \in Exposures :
       Propose(p, o, b, e)
  \/ \E s \in SlashIds : Cancel(s)
  \/ \E s \in SlashIds : ExecuteOne(s)
  \/ \E ids \in SUBSET SlashIds : ExecuteBatch(ids)

ProtocolSpec == ProtocolInit /\ [][ProtocolNext]_vars

\* Time passes and a keeper executes what can be executed, as in SlashProposals.
ProtocolFairSpec ==
  /\ ProtocolSpec
  /\ WF_vars(QueueStep /\ now' > now)
  /\ \A s \in SlashIds : WF_vars(ExecuteOne(s))

-----------------------------------------------------------------------------
(* Properties. *)

\* The counter that freezes withdrawals in the staking layer, the counter that caps
\* proposals in the core and the number of open proposals are the same number: the
\* two contracts never drift apart, whatever is batched, cancelled or re-registered.
CountersInStep ==
  \A o \in Operators :
    /\ pendingSlashes[o] = activeProposals[o]
    /\ pendingSlashes[o] = Cardinality(OpenSlashes(o))

\* No bond is paid out to an operator with an open proposal against it, unless it
\* was already leaving when the slash was proposed: unstakes scheduled before the
\* proposal stay frozen until every proposal is closed.
BondFrozen ==
  [][\A o \in Operators :
       OpenSlashes(o) # {} /\ paidOut'[o] # paidOut[o] => status[o] = "Leaving"]_vars

\* A slash executed on its own takes from the bond what the commitments of the
\* moment it was proposed expose: leaving and coming back with smaller ones in the
\* meantime does not lessen it.
SlashTakesWhatWasOwed ==
  [][\A s \in SlashIds :
       LET o == proposals[s].operator
           executed == {t \in SlashIds : /\ proposals[t].status # "Executed"
                                         /\ proposals'[t].status = "Executed"}
       IN executed = {s} =>
            slashed'[o] - slashed[o] = (stake[o] * Rate(proposals[s].bps, owedAt[s])) \div BPS
    ]_vars

\* An executable slash resolves, unless its operator leaves the staking layer
\* before: nothing else, a dispute included, keeps it open.
ResolvesOrOperatorGone ==
  \A s \in SlashIds :
    Open(s) ~> (~Open(s) \/ proposals[s].operator \notin registered)

\* The audit report under docs says the dispute-window protection "is enforced on
\* EVERY stake-exit path": no bond is paid out while a slash is open.
NoExitWhileOpen ==
  [][\A o \in Operators : OpenSlashes(o) # {} => paidOut'[o] = paidOut[o]]_vars
=============================================================================
