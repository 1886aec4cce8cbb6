--------------------------- MODULE SlashProposals ---------------------------
(***************************************************************************)
(* The slash proposal queue of the Tangle core (src/src/core/Slashing.sol  *)
(* and src/src/libraries/SlashingLib.sol): propose, dispute with a bond,   *)
(* execute after the window (one or a batch), cancel, settle and claim the *)
(* bond.  Every entry point is one transaction, hence one action.  The     *)
(* staking side (slashing the stake, the second pending counter) is        *)
(* OperatorBonds and is joined to this module in SlashProtocol; here it is *)
(* the set of operators registered there, without whom no slash executes.  *)
(***************************************************************************)
EXTENDS Integers, FiniteSets, Functions

CONSTANTS Operators,       \* operators that are or were in the service
          SvcOwner,        \* owner of the service
          BpOwner,         \* owner of its blueprint
          SlashOrigins,    \* what the manager's querySlashingOrigin may answer
          DisputeOrigins,  \* what the manager's queryDisputeOrigin may answer
          Admins,          \* accounts with SLASH_ADMIN_ROLE
          Treasuries,      \* accounts setTreasury may name
          Nobody,          \* address(0)
          Configs,         \* configurations an admin may submit to setSlashConfig
          InitConfig,      \* the one initializeConfig stores
          CustomWindows,   \* windows the manager's getSlashingWindow may answer
          MinWindow,       \* MIN_DISPUTE_WINDOW
          MaxWindow,       \* MAX_DISPUTE_WINDOW
          MinDeadline,     \* 1 days, of updateConfig
          MaxDeadline,     \* 60 days, of updateConfig
          Buffer,          \* TIMESTAMP_BUFFER
          BPS,             \* BPS_DENOMINATOR
          SlashBps,        \* fractions a proposer may name
          Exposures,       \* service-level exposures an operator may have
          Commitments,     \* fractions of the bond asset an operator may commit
          MaxSlashes,      \* bound: proposals ever made
          LastProposal,    \* bound: the last time at which one is made
          MaxTime          \* bound: where the clock stops

SlashIds  == 0 .. MaxSlashes - 1
Proposers == {SvcOwner, BpOwner} \cup SlashOrigins
Disputers == Operators \cup Admins \cup DisputeOrigins
Accounts  == Disputers \cup Treasuries

SlashConfig ==
  [window : Nat, deadline : Nat, bond : Nat, maxPending : Nat, maxBps : Nat]

ASSUME NumbersAssumption ==
  /\ MinWindow \in Nat /\ MaxWindow \in Nat /\ MinWindow <= MaxWindow
  /\ MinDeadline \in Nat /\ MaxDeadline \in Nat /\ MinWindow <= MinDeadline
  /\ Buffer \in Nat /\ BPS \in Nat \ {0}
  /\ MaxSlashes \in Nat /\ LastProposal \in Nat /\ MaxTime \in Nat
  /\ CustomWindows \subseteq Nat
  /\ SlashBps \subseteq Nat /\ Exposures \subseteq Nat /\ Commitments \subseteq Nat

ASSUME ConfigAssumption ==
  /\ Configs \subseteq SlashConfig
  /\ InitConfig \in SlashConfig
  /\ InitConfig.deadline >= MinDeadline

ASSUME AccountsAssumption ==
  /\ Nobody \notin Accounts \cup Proposers
  /\ IsFiniteSet(Accounts)

VARIABLES now,             \* block.timestamp
          config,          \* _slashState.config
          nextSlashId,     \* _slashState.nextSlashId
          proposals,       \* _slashProposals with _slashCommitmentSnapshots
          activeProposals, \* _operatorActiveSlashProposals
          refunds,         \* _pendingDisputeBondRefunds
          bondEth,         \* ETH of dispute bonds the core holds
          treasury,        \* _treasury
          proposedAt,      \* history: when each proposal was made
          registered,      \* operators registered in the staking layer
          slashingOrigin   \* what the manager's querySlashingOrigin answers

slashVars == <<now, config, nextSlashId, proposals, activeProposals, refunds,
               bondEth, treasury, proposedAt>>

\* What the queue reads and other contracts change.
environment == <<registered, slashingOrigin>>

Statuses == {"Pending", "Disputed", "Executed", "Cancelled"}

SlashProposal ==
  [status : Statuses, operator : Operators \cup {Nobody},
   proposer : Proposers \cup {Nobody}, bps : Nat, commit : Nat,
   executeAfter : Nat, disputer : Disputers \cup {Nobody}, bond : Nat,
   deadline : Nat]

\* What the mapping holds under an id nobody used: all zeroes, so Pending.
NoProposal ==
  [status |-> "Pending", operator |-> Nobody, proposer |-> Nobody, bps |-> 0,
   commit |-> 0, executeAfter |-> 0, disputer |-> Nobody, bond |-> 0, deadline |-> 0]

-----------------------------------------------------------------------------
(* Operators of SlashingLib.  A definition named Faulty... is a variant with *)
(* a plausible bug, kept to show that a property can fail.                   *)

\* What updateConfig accepts.
ValidConfig(c) ==
  /\ c.window \in MinWindow .. MaxWindow
  /\ c.deadline \in MinDeadline .. MaxDeadline
  /\ c.maxPending > 0
  /\ c.maxBps \in 1 .. BPS

CapSlashBps(bps, maxBps) == IF bps > maxBps THEN maxBps ELSE bps

EffectiveSlashBps(bps, exposure) == (bps * exposure) \div BPS

FaultyClampWindow(w) == IF w > MaxWindow THEN MaxWindow ELSE w

ClampWindow(w) ==
  IF w < MinWindow THEN MinWindow ELSE IF w > MaxWindow THEN MaxWindow ELSE w

\* The protocol default, or the manager's own window; clamped in any case.
DisputeWindows == {ClampWindow(w) : w \in CustomWindows \cup {config.window}}

Exists(s) == proposals[s].operator # Nobody

Open(s) == Exists(s) /\ proposals[s].status \in {"Pending", "Disputed"}

OpenSlashes(o) == {s \in SlashIds : Open(s) /\ proposals[s].operator = o}

\* Reads the live configuration instead of the deadline stored at the dispute.
FaultyExecutableFrom(s) ==
  IF proposals[s].status = "Disputed"
  THEN proposedAt[s] + config.deadline + Buffer
  ELSE proposals[s].executeAfter + Buffer

ExecutableFrom(s) ==
  IF proposals[s].status = "Disputed" THEN proposals[s].deadline + Buffer
                                      ELSE proposals[s].executeAfter + Buffer

\* A disputed slash waits for the admin.
FaultyIsExecutable(s) == proposals[s].status = "Pending" /\ now >= ExecutableFrom(s)

\* isExecutable does not look at the operator: it holds of an unused id too.
IsExecutable(s) ==
  proposals[s].status \in {"Pending", "Disputed"} /\ now >= ExecutableFrom(s)

FaultyIsDisputable(s) == Exists(s) /\ now < proposals[s].executeAfter + Buffer

IsDisputable(s) ==
  /\ Exists(s)
  /\ proposals[s].status = "Pending"
  /\ now < proposals[s].executeAfter + Buffer

\* origin is what the manager's querySlashingOrigin answers now, or "failed" when
\* the call does not come back with an address: then the check fails closed.
ProposerIsBlueprintControlled(p, origin) ==
  p = BpOwner \/ origin = "failed" \/ p = origin

Minus(n, k) == IF n >= k THEN n - k ELSE 0

-----------------------------------------------------------------------------
Init ==
  /\ now = 0
  /\ config = InitConfig
  /\ nextSlashId = 0
  /\ proposals = [s \in SlashIds |-> NoProposal]
  /\ activeProposals = [o \in Operators |-> 0]
  /\ refunds = [a \in Accounts |-> 0]
  /\ bondEth = 0
  /\ treasury \in Treasuries
  /\ proposedAt = [s \in SlashIds |-> 0]
  /\ registered \in SUBSET Operators
  /\ slashingOrigin \in SlashOrigins \cup {Nobody}

Tick ==
  /\ now < MaxTime
  /\ now' = now + 1
  /\ UNCHANGED <<config, nextSlashId, proposals, activeProposals, refunds, bondEth,
                 treasury, proposedAt>>

\* proposeSlash by p against o, whose exposure and commitments are read now.
ProposeSlash(p, o, bps, exposure, commit) ==
  LET capped    == CapSlashBps(bps, config.maxBps)
      effective == EffectiveSlashBps(capped, exposure)
  IN
  /\ nextSlashId < MaxSlashes
  /\ now <= LastProposal
  /\ p \in {SvcOwner, BpOwner, slashingOrigin}
  /\ bps <= BPS
  /\ activeProposals[o] < config.maxPending
  /\ capped # 0 /\ effective # 0
  /\ \E window \in DisputeWindows :
       proposals' = [proposals EXCEPT ![nextSlashId] =
         [status |-> "Pending", operator |-> o, proposer |-> p, bps |-> effective,
          commit |-> commit, executeAfter |-> now + window, disputer |-> Nobody,
          bond |-> 0, deadline |-> 0]]
  /\ activeProposals' = [activeProposals EXCEPT ![o] = @ + 1]
  /\ nextSlashId' = nextSlashId + 1
  /\ proposedAt' = [proposedAt EXCEPT ![nextSlashId] = now]
  /\ UNCHANGED <<now, config, refunds, bondEth, treasury>>

\* The caller is the dispute origin, and neither the operator nor an admin: only
\* then does the code ask the manager.
IsDisputeOrigin(a, s) ==
  a \in DisputeOrigins /\ a \notin Admins /\ a # proposals[s].operator

FaultyRequiredBond(a, s, origin) ==
  IF a \in Admins \/ IsDisputeOrigin(a, s) THEN 0 ELSE config.bond

\* The bond disputeSlash requires of a.
RequiredBond(a, s, origin) ==
  IF \/ a \in Admins
     \/ /\ IsDisputeOrigin(a, s)
        /\ ~ProposerIsBlueprintControlled(proposals[s].proposer, origin)
  THEN 0 ELSE config.bond

MayDispute(a, s) ==
  LET privileged == a \in Admins \/ IsDisputeOrigin(a, s)
  IN /\ a = proposals[s].operator \/ privileged
     /\ ~(a = proposals[s].proposer /\ privileged)

DisputeSlash(a, s) ==
  /\ IsDisputable(s)
  /\ MayDispute(a, s)
  /\ \E origin \in {slashingOrigin, "failed"} :
       LET bond == RequiredBond(a, s, origin)
       IN /\ proposals' = [proposals EXCEPT ![s].status = "Disputed",
                                            ![s].disputer = a,
                                            ![s].bond = bond,
                                            ![s].deadline = now + config.deadline]
          /\ bondEth' = bondEth + bond
  /\ UNCHANGED <<now, config, nextSlashId, activeProposals, refunds, treasury,
                 proposedAt>>

FaultySettled(p) == p

\* _settleDisputeBond clears the bond and its disputer first.
Settled(p) ==
  IF p.bond = 0 THEN p ELSE [p EXCEPT !.bond = 0, !.disputer = Nobody]

SumOfBonds(ids) == SumFunction([s \in ids |-> proposals[s].bond])

\* Forfeited bonds are pushed to the treasury; one whose push fails is credited
\* to it.  _treasury is never zero: initialize and setTreasury refuse that.
ForfeitBonds(ids) ==
  \E pushed \in SUBSET ids :
    /\ bondEth' = bondEth - SumOfBonds(pushed)
    /\ refunds' = [refunds EXCEPT ![treasury] = @ + SumOfBonds(ids \ pushed)]

FaultyCountAgainst(o, ids) ==
  IF \E s \in ids : proposals[s].operator = o THEN 1 ELSE 0

CountAgainst(o, ids) == Cardinality({s \in ids : proposals[s].operator = o})

\* What executing the proposals ids does to the queue.  The staking layer refuses to
\* slash an operator that is not registered, markExecuted an unused id, and either
\* reverts the transaction; the commitment snapshot is consumed.
Execute(ids) ==
  /\ \A s \in ids : IsExecutable(s) /\ Exists(s)
  /\ \A s \in ids : proposals[s].operator \in registered
  /\ proposals' = [s \in SlashIds |->
       IF s \in ids
       THEN [Settled(proposals[s]) EXCEPT !.status = "Executed", !.commit = 0]
       ELSE proposals[s]]
  /\ activeProposals' =
       [o \in Operators |-> Minus(activeProposals[o], CountAgainst(o, ids))]
  /\ ForfeitBonds(ids)
  /\ UNCHANGED <<now, config, nextSlashId, treasury, proposedAt>>

\* executeSlash reverts on an id that is not executable.
ExecuteSlash(s) == Execute({s})

\* executeSlashBatch skips those, in one transaction; an unused id, or an operator
\* that cannot be slashed, reverts it all.
ExecuteSlashBatch(ids) == Execute({s \in ids : IsExecutable(s)})

Refunded(a, bond) == IF bond = 0 THEN refunds ELSE [refunds EXCEPT ![a] = @ + bond]

\* cancelSlash by SLASH_ADMIN, at any time; the bond is credited to its disputer.
CancelSlash(s) ==
  LET p == proposals[s] IN
  /\ Open(s)
  /\ Admins # {}
  /\ proposals' = [proposals EXCEPT ![s] = [Settled(p) EXCEPT !.status = "Cancelled"]]
  /\ activeProposals' = [activeProposals EXCEPT ![p.operator] = Minus(@, 1)]
  /\ refunds' = Refunded(p.disputer, p.bond)
  /\ UNCHANGED <<now, config, nextSlashId, bondEth, treasury, proposedAt>>

\* claimDisputeBond; it reverts when the account does not accept the transfer.
ClaimDisputeBond(a) ==
  /\ refunds[a] > 0
  /\ refunds' = [refunds EXCEPT ![a] = 0]
  /\ bondEth' = bondEth - refunds[a]
  /\ UNCHANGED <<now, config, nextSlashId, proposals, activeProposals, treasury,
                 proposedAt>>

SetSlashConfig(c) ==
  /\ ValidConfig(c)
  /\ config' = c
  /\ UNCHANGED <<now, nextSlashId, proposals, activeProposals, refunds, bondEth,
                 treasury, proposedAt>>

SetTreasury(t) ==
  /\ treasury' = t
  /\ UNCHANGED <<now, config, nextSlashId, proposals, activeProposals, refunds,
                 bondEth, proposedAt>>

-----------------------------------------------------------------------------
(* The environment: the staking layer and the blueprint's manager. *)

\* registerOperator, for the first time or again.
Register(o) ==
  /\ o \notin registered
  /\ registered' = registered \cup {o}
  /\ UNCHANGED slashingOrigin

\* completeLeaving: an open slash does not stop it.
Deregister(o) ==
  /\ o \in registered
  /\ registered' = registered \ {o}
  /\ UNCHANGED slashingOrigin

\* The manager may name another slashing origin at any time.
SetSlashingOrigin(a) ==
  /\ slashingOrigin' = a
  /\ UNCHANGED registered

EnvironmentNext ==
  \/ \E o \in Operators : Register(o)
  \/ \E o \in Operators : Deregister(o)
  \/ \E a \in SlashOrigins \cup {Nobody} : SetSlashingOrigin(a)

-----------------------------------------------------------------------------
QueueNext ==
  \/ Tick
  \/ \E p \in Proposers, o \in Operators, b \in SlashBps, e \in Exposures,
        c \in Commitments : ProposeSlash(p, o, b, e, c)
  \/ \E s \in SlashIds, a \in Disputers : DisputeSlash(a, s)
  \/ \E s \in SlashIds : ExecuteSlash(s)
  \/ \E ids \in SUBSET SlashIds : ExecuteSlashBatch(ids)
  \/ \E s \in SlashIds : CancelSlash(s)
  \/ \E a \in Accounts : ClaimDisputeBond(a)
  \/ \E c \in Configs : SetSlashConfig(c)
  \/ \E t \in Treasuries : SetTreasury(t)

Next ==
  \/ QueueNext /\ UNCHANGED environment
  \/ EnvironmentNext /\ UNCHANGED slashVars

Spec == Init /\ [][Next]_<<slashVars, environment>>

\* Time passes, and executeSlash is permissionless: a keeper who wants a matured
\* slash executed can always send the transaction.  Nobody is obliged to dispute,
\* cancel or claim.
Fairness == WF_slashVars(Tick) /\ \A s \in SlashIds : WF_slashVars(ExecuteSlash(s))

FairSpec == Spec /\ Fairness

-----------------------------------------------------------------------------
(* Properties. *)

QueueTypeOK ==
  /\ now \in Nat
  /\ config \in SlashConfig /\ config.deadline >= MinDeadline
  /\ nextSlashId \in 0 .. MaxSlashes
  /\ proposals \in [SlashIds -> SlashProposal]
  /\ \A s \in SlashIds : IF s < nextSlashId THEN Exists(s)
                                          ELSE proposals[s] = NoProposal
  /\ activeProposals \in [Operators -> Nat]
  /\ proposedAt \in [SlashIds -> Nat]

LedgerTypeOK ==
  /\ refunds \in [Accounts -> Nat]
  /\ bondEth \in Int
  /\ treasury \in Treasuries

\* Every field stays in its range, exactly the ids below nextSlashId are in use,
\* and the configuration is one that updateConfig accepts.
TypeOK == QueueTypeOK /\ LedgerTypeOK

\* The concurrency counter of an operator is the number of proposals against it
\* that are neither executed nor cancelled: no path, the batch included, loses a
\* decrement or takes one twice, so the cap neither leaks nor locks legitimate
\* proposals out.
TrackerCountsOpen ==
  \A o \in Operators : activeProposals[o] = Cardinality(OpenSlashes(o))

\* Every bond posted is on exactly one proposal or credited to exactly one
\* account, and the core holds the ETH for all of them: no settlement pays a
\* bond twice or strands it.
BondsBacked == bondEth = SumOfBonds(SlashIds) + SumFunction(refunds)

\* Where the configuration asks for a bond, no dispute without one is raised by
\* the proposer of the slash, by the slashed operator unless it is an admin, or,
\* unless an admin raises it, against a slash proposed by the blueprint's owner or by
\* the account that is the slashing origin at that time: the freeze of an operator's
\* stake is never extended for free by the side that asked for it, its resolver
\* included.
NoFreeFreeze ==
  [][\A s \in SlashIds :
       LET p == proposals[s]
           d == proposals'[s].disputer
       IN /\ p.status = "Pending" /\ proposals'[s].status = "Disputed"
          /\ proposals'[s].bond = 0 /\ config.bond > 0
          => /\ d # p.proposer
             /\ \/ d \in Admins
                \/ d # p.operator /\ p.proposer \notin {BpOwner, slashingOrigin}
    ]_slashVars

\* An operator always has the minimum window plus the timestamp buffer between
\* the proposal and its execution, whatever the configuration, the manager's
\* window, the dispute and the changes of configuration in between.
ReviewTimeGuaranteed ==
  [][\A s \in SlashIds :
       Open(s) /\ proposals'[s].status = "Executed" =>
         now >= proposedAt[s] + MinWindow + Buffer]_slashVars

\* A change of configuration never moves the time at which an open proposal
\* becomes executable; only a dispute of that very proposal, once, does.
OnlyDisputeMovesDeadline ==
  [][\A s \in SlashIds :
       Open(s) /\ Open(s)' =>
         \/ ExecutableFrom(s)' = ExecutableFrom(s)
         \/ proposals[s].status = "Pending" /\ proposals'[s].status = "Disputed"]_slashVars

\* No dispute, change of configuration or other slash keeps a slash open for ever: as
\* long as its operator does not leave the staking layer for good, each proposal
\* is executed or cancelled in the end.
EverySlashResolves ==
  \A o \in Operators :
    <>[](o \in registered) =>
      \A s \in SlashIds : s \in OpenSlashes(o) ~> s \notin OpenSlashes(o)

\* The abstract state: the queue implements the abstract life cycle, and an
\* operator is frozen exactly while its counter is positive.
Stage  == [s \in SlashIds |-> IF Exists(s) THEN proposals[s].status ELSE "None"]
Target == [s \in SlashIds |-> proposals[s].operator]
Frozen == {o \in Operators : activeProposals[o] > 0}

Lifecycle ==
  INSTANCE SlashLifecycle WITH stage <- Stage, target <- Target, frozen <- Frozen

\* Whatever the clock, the bonds and the configuration do, the queue opens, contests
\* and closes each proposal once, in that order, and thaws an operator with the
\* step that closes the last proposal against it.
ImplementsLifecycle == Lifecycle!Spec
=============================================================================
