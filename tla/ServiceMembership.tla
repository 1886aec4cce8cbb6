-------------------------- MODULE ServiceMembership --------------------------
(***************************************************************************)
(* One service of the Tangle core and the operators in it: request,        *)
(* approvals, activation (or activation from signed quotes), join, the     *)
(* exit queue, forced exits and termination, and the registration of       *)
(* operators for its blueprint (src/src/core/ServicesRequests.sol,         *)
(* ServicesApprovals.sol, ServicesLifecycle.sol, QuotesCreate.sol,         *)
(* Operators.sol).  The manager's hooks answer anything; the staking layer *)
(* is asked through a parameter of the actions that ask it.                *)
(***************************************************************************)
EXTENDS Integers, FiniteSets

CONSTANTS Operators,      \* accounts that may register for the blueprint
          MinOperators,   \* svc.minOperators
          MaxOperators,   \* svc.maxOperators clamped to the protocol's ceiling
          Dynamic,        \* membership model: whether operators join and leave
          Accepted,       \* exposures that security requirements accept, if any are set
          Commitments,    \* exposures an operator may commit, 0 for no commitment
          ExitConfigs,    \* what getExitConfig may answer, the defaults included
          Grace,          \* request expiry grace
          MaxTime         \* bound: where the clock stops

ExitConfig == [commitment : Nat, queue : Nat, force : BOOLEAN]

ASSUME MembershipAssumption ==
  /\ IsFiniteSet(Operators)
  /\ MinOperators \in Nat \ {0} /\ MaxOperators \in Nat /\ MinOperators <= MaxOperators
  /\ Dynamic \in BOOLEAN
  /\ Commitments \subseteq Nat /\ Accepted \subseteq Commitments
  /\ ExitConfigs \subseteq ExitConfig
  /\ Grace \in Nat /\ MaxTime \in Nat

VARIABLES time,           \* block.timestamp
          registered,     \* _operatorRegistrations of the blueprint
          request,        \* _serviceRequests, and whether it has requirements
          approvals,      \* _requestApprovals; approvalCount is their number
          offered,        \* _requestSecurityCommitments
          payouts,        \* history: how often the request's payment was paid out
          svcStatus,      \* svc.status
          members,        \* _serviceOperatorSet
          operatorCount,  \* svc.operatorCount
          active,         \* operators whose _serviceOperators entry is active
          joinedAt,       \* _serviceOperators.joinedAt, Never for zero
          exitAt,         \* _exitRequests.executeAfter, Never when not pending
          activeServices, \* _operatorActiveServiceCount for the blueprint
          commitment      \* _serviceSecurityCommitments

requestVars == <<request, approvals, offered, payouts>>
serviceVars == <<svcStatus, members, operatorCount, active, joinedAt, exitAt,
                 activeServices, commitment>>
memberVars  == <<time, registered, requestVars, serviceVars>>

Never == -1
NoRequest ==
  [state |-> "None", operators |-> {}, createdAt |-> 0, secured |-> FALSE]

\* Whether the service has _serviceSecurityRequirements.
Required == request.secured

-----------------------------------------------------------------------------
Init ==
  /\ time = 0
  /\ registered = {}
  /\ request = NoRequest
  /\ approvals = {}
  /\ offered = [o \in Operators |-> 0]
  /\ payouts = 0
  /\ svcStatus = "None"
  /\ members = {}
  /\ operatorCount = 0
  /\ active = {}
  /\ joinedAt = [o \in Operators |-> Never]
  /\ exitAt = [o \in Operators |-> Never]
  /\ activeServices = [o \in Operators |-> 0]
  /\ commitment = [o \in Operators |-> 0]

Tick ==
  /\ time < MaxTime
  /\ time' = time + 1
  /\ UNCHANGED <<registered, requestVars, serviceVars>>

-----------------------------------------------------------------------------
(* Blueprint registration.  staked: the operators isOperatorActive holds of. *)

RegisterOperator(o, staked) ==
  /\ o \in staked
  /\ o \notin registered
  /\ registered' = registered \cup {o}
  /\ UNCHANGED <<time, requestVars, serviceVars>>

MayUnregister(o) == o \in registered /\ activeServices[o] = 0

UnregisterOperator(o) ==
  /\ MayUnregister(o)
  /\ registered' = registered \ {o}
  /\ UNCHANGED <<time, requestVars, serviceVars>>

-----------------------------------------------------------------------------
(* Request, approval, activation. *)

WithinBounds(n) == n \in MinOperators .. MaxOperators

RequestService(ops, secured, staked) ==
  /\ request = NoRequest /\ svcStatus = "None"
  /\ ops \subseteq registered \cap staked
  /\ WithinBounds(Cardinality(ops))
  /\ request' =
       [state |-> "Open", operators |-> ops, createdAt |-> time, secured |-> secured]
  /\ UNCHANGED <<time, registered, approvals, offered, payouts, serviceVars>>

Expired == time > request.createdAt + Grace

\* What a commitment must satisfy; without requirements it is not validated.
Acceptable(c) == Required => c \in Accepted

\* The entries of the operators a service starts with.
Enlist(ops, commit) ==
  /\ svcStatus' = "Active"
  /\ members' = ops
  /\ operatorCount' = Cardinality(ops)
  /\ active' = ops
  /\ joinedAt' = [o \in Operators |-> IF o \in ops THEN time ELSE joinedAt[o]]
  /\ activeServices' =
       [o \in Operators |-> activeServices[o] + IF o \in ops THEN 1 ELSE 0]
  /\ commitment' = commit

MayApprove(o) == o \in request.operators \ approvals

\* approveService, which activates the service with the last approval.  Offered
\* commitments reach the service only when the request has requirements.
ApproveService(o, c, staked) ==
  /\ request.state = "Open"
  /\ ~Expired
  /\ o \in staked
  /\ MayApprove(o)
  /\ Acceptable(c)
  /\ approvals' = approvals \cup {o}
  /\ offered' = [offered EXCEPT ![o] = c]
  /\ IF approvals' = request.operators
     THEN /\ request' = [request EXCEPT !.state = "Activated"]
          /\ payouts' = payouts + 1
          /\ Enlist(request.operators, IF Required THEN offered' ELSE commitment)
          /\ UNCHANGED exitAt
     ELSE UNCHANGED <<request, payouts, serviceVars>>
  /\ UNCHANGED <<time, registered>>

\* rejectService by any of its operators: the requester is refunded.
RejectService(o, staked) ==
  /\ request.state = "Open"
  /\ ~Expired
  /\ o \in staked
  /\ o \in request.operators
  /\ request' = [request EXCEPT !.state = "Rejected"]
  /\ payouts' = payouts + 1
  /\ UNCHANGED <<time, registered, approvals, offered, serviceVars>>

\* Expiry does not look at a request already processed by another path.
FaultyUnprocessed == request.state # "None"

\* expireServiceRequest tests the two flags rejected and activated.
Unprocessed == request.state = "Open"

ExpireServiceRequest ==
  /\ Unprocessed
  /\ Expired
  /\ request' = [request EXCEPT !.state = "Rejected"]
  /\ payouts' = payouts + 1
  /\ UNCHANGED <<time, registered, approvals, offered, serviceVars>>

\* createServiceFromQuotes: the signed quotes stand for the approvals, the staking
\* layer is not asked, and no commitment is stored.
CreateServiceFromQuotes(ops) ==
  /\ request = NoRequest /\ svcStatus = "None"
  /\ ops \subseteq registered
  /\ WithinBounds(Cardinality(ops))
  /\ Enlist(ops, commitment)
  /\ UNCHANGED <<time, registered, requestVars, exitAt>>

-----------------------------------------------------------------------------
(* Joining. *)

FaultyNewCommitments(o) == Commitments \cup {commitment[o]}

\* joinService, and joinServiceWithCommitments.  The first is refused where there
\* are requirements and keeps what an earlier stay committed; the second replaces it.
NewCommitments(o) ==
  IF Required THEN Accepted ELSE Commitments \cup {commitment[o]}

JoinService(o, c) ==
  /\ svcStatus = "Active" /\ Dynamic
  /\ operatorCount < MaxOperators
  /\ o \in registered
  /\ o \notin active
  /\ active' = active \cup {o}
  /\ joinedAt' = [joinedAt EXCEPT ![o] = time]
  /\ members' = members \cup {o}
  /\ operatorCount' = operatorCount + 1
  /\ activeServices' = [activeServices EXCEPT ![o] = @ + 1]
  /\ commitment' = [commitment EXCEPT ![o] = c]
  /\ UNCHANGED <<time, registered, requestVars, svcStatus, exitAt>>

-----------------------------------------------------------------------------
(* Leaving. *)

Minus1(n) == IF n > 0 THEN n - 1 ELSE 0

FaultyCountsAfterRemoval(o) == activeServices

CountsAfterRemoval(o) == [activeServices EXCEPT ![o] = Minus1(@)]

\* _removeOperatorFromService; the commitments are kept for later accounting.
RemoveOperator(o) ==
  /\ active' = active \ {o}
  /\ members' = members \ {o}
  /\ operatorCount' = operatorCount - 1
  /\ activeServices' = CountsAfterRemoval(o)
  /\ UNCHANGED <<svcStatus, joinedAt, commitment>>

FaultyMayLeave(o) == svcStatus = "Active" /\ o \in active

\* _executeLeave, where the manager's canLeave may refuse.
MayLeave(o) ==
  /\ svcStatus = "Active"
  /\ operatorCount > MinOperators
  /\ o \in active

\* config is what _getExitConfig answers now.
ScheduleExit(o, config) ==
  /\ svcStatus = "Active" /\ Dynamic
  /\ o \in active
  /\ exitAt[o] = Never
  /\ time >= joinedAt[o] + config.commitment
  /\ exitAt' = [exitAt EXCEPT ![o] = time + config.queue]
  /\ UNCHANGED <<time, registered, requestVars, svcStatus, members, operatorCount, active,
                 joinedAt, activeServices, commitment>>

ExecuteExit(o) ==
  /\ exitAt[o] # Never
  /\ time >= exitAt[o]
  /\ MayLeave(o)
  /\ RemoveOperator(o)
  /\ exitAt' = [exitAt EXCEPT ![o] = Never]
  /\ UNCHANGED <<time, registered, requestVars>>

CancelExit(o) ==
  /\ exitAt[o] # Never
  /\ exitAt' = [exitAt EXCEPT ![o] = Never]
  /\ UNCHANGED <<time, registered, requestVars, svcStatus, members, operatorCount, active,
                 joinedAt, activeServices, commitment>>

\* leaveService: only without a queue; a pending exit request is left behind.
LeaveService(o, config) ==
  /\ Dynamic
  /\ MayLeave(o)
  /\ time >= joinedAt[o] + config.commitment
  /\ config.queue = 0
  /\ RemoveOperator(o)
  /\ UNCHANGED <<time, registered, requestVars, exitAt>>

\* forceExit by the service owner.
ForceExit(o, config) ==
  /\ config.force
  /\ MayLeave(o)
  /\ RemoveOperator(o)
  /\ exitAt' = [exitAt EXCEPT ![o] = Never]
  /\ UNCHANGED <<time, registered, requestVars>>

\* forceRemoveOperator by the manager; belowMin is its forceRemoveAllowsBelowMin.
ForceRemoveOperator(o, belowMin) ==
  /\ svcStatus = "Active"
  /\ o \in active
  /\ operatorCount > MinOperators \/ belowMin
  /\ RemoveOperator(o)
  /\ exitAt' = [exitAt EXCEPT ![o] = Never]
  /\ UNCHANGED <<time, registered, requestVars>>

CountsAfterTermination ==
  [o \in Operators |-> IF o \in members THEN Minus1(activeServices[o])
                                        ELSE activeServices[o]]

\* terminateService and terminateServiceForNonPayment: when they are allowed is up
\* to the owner and to the billing, which this module leaves out.  The entries of
\* the operators stay as they are.
TerminateService ==
  /\ svcStatus = "Active"
  /\ svcStatus' = "Terminated"
  /\ activeServices' = CountsAfterTermination
  /\ UNCHANGED <<time, registered, requestVars, members, operatorCount, active, joinedAt,
                 exitAt, commitment>>

-----------------------------------------------------------------------------
OperatorStep(o, staked) ==
  \/ RegisterOperator(o, staked)
  \/ UnregisterOperator(o)
  \/ \E c \in Commitments \cup {0} : ApproveService(o, c, staked)
  \/ RejectService(o, staked)
  \/ \E c \in NewCommitments(o) : JoinService(o, c)
  \/ \E config \in ExitConfigs : ScheduleExit(o, config)
  \/ ExecuteExit(o)
  \/ CancelExit(o)
  \/ \E config \in ExitConfigs : LeaveService(o, config)

ManagementStep(staked) ==
  \/ \E ops \in SUBSET Operators, secured \in BOOLEAN :
       RequestService(ops, secured, staked)
  \/ \E ops \in SUBSET Operators : CreateServiceFromQuotes(ops)
  \/ ExpireServiceRequest
  \/ \E o \in Operators, config \in ExitConfigs : ForceExit(o, config)
  \/ \E o \in Operators, belowMin \in BOOLEAN : ForceRemoveOperator(o, belowMin)
  \/ TerminateService

\* On its own the module does not know the staking layer: any operator may be
\* active there at any time.
Next ==
  \/ Tick
  \/ \E o \in Operators : OperatorStep(o, Operators)
  \/ ManagementStep(Operators)

Spec == Init /\ [][Next]_memberVars

-----------------------------------------------------------------------------
(* Properties. *)

\* Every variable stays in its range, and only requested operators approve.
TypeOK ==
  /\ time \in Nat
  /\ registered \subseteq Operators
  /\ request \in [state : {"None", "Open", "Rejected", "Activated"},
                  operators : SUBSET Operators, createdAt : Nat, secured : BOOLEAN]
  /\ approvals \subseteq request.operators
  /\ offered \in [Operators -> Commitments \cup {0}]
  /\ payouts \in Nat
  /\ svcStatus \in {"None", "Active", "Terminated"}
  /\ members \subseteq Operators /\ active \subseteq Operators
  /\ operatorCount \in Nat
  /\ joinedAt \in [Operators -> Nat \cup {Never}]
  /\ exitAt \in [Operators -> Nat \cup {Never}]
  /\ activeServices \in [Operators -> Nat]
  /\ commitment \in [Operators -> Commitments \cup {0}]

\* The three records of who is in a live service agree, and the counter that
\* blocks unregisterOperator and startLeaving is one for exactly the operators of a
\* live service: no path in or out of it counts an operator twice or leaves a
\* count behind.
CountsAgree ==
  /\ members = active
  /\ operatorCount = Cardinality(members)
  /\ \A o \in Operators :
       activeServices[o] = IF svcStatus = "Active" /\ o \in members THEN 1 ELSE 0

\* A live service has at most MaxOperators operators, and only its manager, saying
\* so, takes it below MinOperators: no sequence of exits does.
QuorumKept ==
  [][/\ operatorCount' <= MaxOperators
     /\ operatorCount' < operatorCount /\ operatorCount' < MinOperators =>
          \E o \in Operators : ForceRemoveOperator(o, TRUE)]_memberVars

\* The payment of a request leaves the core once, when the request closes: it is
\* refunded by rejection or expiry, or handed to the service, never two of them.
PaymentLeavesOnce == payouts = IF request.state \in {"Rejected", "Activated"} THEN 1 ELSE 0

\* Every operator of a service with requirements holds a commitment they accept,
\* after any number of exits and returns.
CommitmentsAccepted ==
  Required /\ svcStatus = "Active" =>
    \A o \in members : commitment[o] \in Accepted
=============================================================================
