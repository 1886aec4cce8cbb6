----------------------- MODULE ServiceMembership_proofs -----------------------
(***************************************************************************)
(* Proofs about ServiceMembership, for any set of operators, bounds, exit  *)
(* configurations and commitments.  The inductive invariant is MemberInv:  *)
(* the records of who is in the service agree, and an open request is one  *)
(* for a service that does not run yet.                                    *)
(***************************************************************************)
EXTENDS ServiceMembership, TLAPS, FiniteSetTheorems

-----------------------------------------------------------------------------
\* A request that can still be approved: the service has not started, and its
\* operators fit the bounds.
RequestOK ==
  request.state = "Open" =>
    svcStatus = "None" /\ WithinBounds(Cardinality(request.operators))

MemberInv == TypeOK /\ CountsAgree /\ RequestOK

LEMMA OperatorsFinite == \A ops \in SUBSET Operators : IsFiniteSet(ops)
BY FS_Subset, MembershipAssumption

LEMMA MemberInit == Init => MemberInv
<1> SUFFICES ASSUME Init PROVE MemberInv
  OBVIOUS
<1>1. TypeOK
  BY DEF Init, TypeOK, NoRequest, Never
<1>2. CountsAgree
  BY FS_EmptySet DEF Init, CountsAgree
<1>3. RequestOK
  BY DEF Init, RequestOK, NoRequest
<1> QED
  BY <1>1, <1>2, <1>3 DEF MemberInv

-----------------------------------------------------------------------------
(* The two ways the set of members changes in a running service, and its start. *)

LEMMA RemoveKeepsInv ==
  ASSUME MemberInv, NEW o \in Operators, svcStatus = "Active", o \in active,
         RemoveOperator(o),
         exitAt' \in [Operators -> Nat \cup {Never}],
         UNCHANGED <<time, registered, requestVars>>
  PROVE  MemberInv'
<1>1. /\ members \in SUBSET Operators /\ IsFiniteSet(members)
      /\ members = active /\ operatorCount = Cardinality(members)
  BY OperatorsFinite DEF MemberInv, TypeOK, CountsAgree
<1>2. Cardinality(members \ {o}) = operatorCount - 1
  BY <1>1, FS_RemoveElement
<1>3. Cardinality(members \ {o}) \in Nat
  BY <1>1, FS_Subset, FS_CardinalityType
<1>4. TypeOK'
  <2>1. operatorCount' \in Nat
    BY <1>1, <1>2, <1>3 DEF RemoveOperator
  <2>2. activeServices' \in [Operators -> Nat]
    BY DEF MemberInv, TypeOK, RemoveOperator, CountsAfterRemoval, Minus1
  <2> QED
    BY <2>1, <2>2 DEF MemberInv, TypeOK, RemoveOperator, requestVars
<1>5. CountsAgree'
  BY <1>1, <1>2 DEF MemberInv, TypeOK, CountsAgree, RemoveOperator, CountsAfterRemoval,
                    Minus1
<1>6. RequestOK'
  BY DEF MemberInv, RequestOK, RemoveOperator, requestVars
<1> QED
  BY <1>4, <1>5, <1>6 DEF MemberInv

LEMMA JoinKeepsInv ==
  ASSUME MemberInv, NEW o \in Operators, NEW c \in NewCommitments(o), JoinService(o, c)
  PROVE  MemberInv'
<1>1. /\ members \in SUBSET Operators /\ IsFiniteSet(members)
      /\ members = active /\ operatorCount = Cardinality(members)
  BY OperatorsFinite DEF MemberInv, TypeOK, CountsAgree
<1>2. o \notin members /\ svcStatus = "Active"
  BY <1>1 DEF JoinService
<1>3. Cardinality(members \cup {o}) = operatorCount + 1
  BY <1>1, <1>2, FS_AddElement
<1>4. c \in Commitments \cup {0}
  BY MembershipAssumption DEF NewCommitments, MemberInv, TypeOK
<1>5. TypeOK'
  BY <1>4 DEF MemberInv, TypeOK, JoinService, requestVars
<1>6. CountsAgree'
  BY <1>1, <1>2, <1>3 DEF MemberInv, TypeOK, CountsAgree, JoinService
<1>7. RequestOK'
  BY DEF MemberInv, RequestOK, JoinService, requestVars
<1> QED
  BY <1>5, <1>6, <1>7 DEF MemberInv

\* The types of what Enlist assigns, and the counts it starts with.
LEMMA EnlistCounts ==
  ASSUME MemberInv, NEW ops \in SUBSET Operators, NEW commit, svcStatus # "Active",
         commit \in [Operators -> Commitments \cup {0}], Enlist(ops, commit)
  PROVE  /\ CountsAgree'
         /\ svcStatus' = "Active" /\ members' \subseteq Operators /\ active' \subseteq Operators
         /\ operatorCount' \in Nat
         /\ joinedAt' \in [Operators -> Nat \cup {Never}]
         /\ activeServices' \in [Operators -> Nat]
         /\ commitment' \in [Operators -> Commitments \cup {0}]
<1>1. IsFiniteSet(ops) /\ Cardinality(ops) \in Nat
  BY OperatorsFinite, FS_CardinalityType
<1>2. \A o \in Operators : activeServices[o] = 0
  BY DEF MemberInv, CountsAgree
<1>3. activeServices' = [o \in Operators |-> IF o \in ops THEN 1 ELSE 0]
  BY <1>2 DEF Enlist
<1>4. CountsAgree'
  BY <1>3 DEF Enlist, CountsAgree
<1>5. joinedAt' \in [Operators -> Nat \cup {Never}]
  BY DEF Enlist, MemberInv, TypeOK
<1> QED
  BY <1>1, <1>3, <1>4, <1>5 DEF Enlist

-----------------------------------------------------------------------------
(* The request, its approvals and the service they start. *)

LEMMA RequestKeepsInv ==
  ASSUME MemberInv, NEW ops \in SUBSET Operators, NEW secured \in BOOLEAN, NEW staked,
         RequestService(ops, secured, staked)
  PROVE  MemberInv'
<1>1. request' \in [state : {"None", "Open", "Rejected", "Activated"},
                    operators : SUBSET Operators, createdAt : Nat, secured : BOOLEAN]
  BY DEF RequestService, MemberInv, TypeOK
<1>2. approvals = {}
  BY DEF RequestService, NoRequest, MemberInv, TypeOK
<1>3. payouts' \in Nat
  BY DEF RequestService, MemberInv, TypeOK
<1>4. TypeOK'
  BY <1>1, <1>2, <1>3 DEF RequestService, MemberInv, TypeOK, serviceVars
<1>5. CountsAgree'
  BY DEF RequestService, MemberInv, CountsAgree, serviceVars
<1>6. RequestOK'
  BY DEF RequestService, RequestOK, serviceVars
<1> QED
  BY <1>4, <1>5, <1>6 DEF MemberInv

\* The request closes, and the service is left alone.
LEMMA CloseKeepsInv ==
  ASSUME MemberInv, request' = [request EXCEPT !.state = "Rejected"],
         payouts' = payouts + 1,
         UNCHANGED <<time, registered, approvals, offered, serviceVars>>
  PROVE  MemberInv'
<1>1. /\ request' \in [state : {"None", "Open", "Rejected", "Activated"},
                       operators : SUBSET Operators, createdAt : Nat, secured : BOOLEAN]
      /\ request'.operators = request.operators
      /\ request'.state = "Rejected"
  BY DEF MemberInv, TypeOK
<1>2. TypeOK'
  BY <1>1 DEF MemberInv, TypeOK, serviceVars
<1>3. CountsAgree'
  BY DEF MemberInv, CountsAgree, serviceVars
<1>4. RequestOK'
  BY <1>1 DEF RequestOK
<1> QED
  BY <1>2, <1>3, <1>4 DEF MemberInv

LEMMA ApproveKeepsInv ==
  ASSUME MemberInv, NEW o \in Operators, NEW c \in Commitments \cup {0}, NEW staked,
         ApproveService(o, c, staked)
  PROVE  MemberInv'
<1> DEFINE last == approvals' = request.operators
<1>1. /\ request.state = "Open" /\ svcStatus = "None"
      /\ o \in request.operators
  BY DEF ApproveService, MayApprove, MemberInv, RequestOK
<1>2. offered' \in [Operators -> Commitments \cup {0}]
  BY DEF ApproveService, MemberInv, TypeOK
<1>3. approvals' \subseteq request.operators
  BY <1>1 DEF ApproveService, MemberInv, TypeOK
<1>4. CASE last
  <2>1. /\ request' = [request EXCEPT !.state = "Activated"]
        /\ payouts' = payouts + 1
        /\ Enlist(request.operators, IF Required THEN offered' ELSE commitment)
        /\ UNCHANGED <<exitAt, time, registered>>
    BY <1>4 DEF ApproveService
  <2>2. /\ request' \in [state : {"None", "Open", "Rejected", "Activated"},
                         operators : SUBSET Operators, createdAt : Nat, secured : BOOLEAN]
        /\ request'.operators = request.operators
        /\ request'.state = "Activated"
    BY <2>1 DEF MemberInv, TypeOK
  <2>3. /\ request.operators \in SUBSET Operators
        /\ (IF Required THEN offered' ELSE commitment) \in [Operators -> Commitments \cup {0}]
    BY <1>2 DEF MemberInv, TypeOK
  <2> DEFINE commit == IF Required THEN offered' ELSE commitment
  <2>4. Enlist(request.operators, commit) /\ commit \in [Operators -> Commitments \cup {0}]
    BY <2>1, <2>3
  <2> HIDE DEF commit
  <2>5. /\ CountsAgree'
        /\ svcStatus' = "Active" /\ members' \subseteq Operators /\ active' \subseteq Operators
        /\ operatorCount' \in Nat
        /\ joinedAt' \in [Operators -> Nat \cup {Never}]
        /\ activeServices' \in [Operators -> Nat]
        /\ commitment' \in [Operators -> Commitments \cup {0}]
    BY <1>1, <2>3, <2>4, EnlistCounts
  <2>6. TypeOK'
    BY <1>2, <1>3, <2>1, <2>2, <2>5 DEF MemberInv, TypeOK
  <2>7. RequestOK'
    BY <2>2 DEF RequestOK
  <2> QED
    BY <2>5, <2>6, <2>7 DEF MemberInv
<1>5. CASE ~last
  <2>1. UNCHANGED <<request, payouts, serviceVars, time, registered>>
    BY <1>5 DEF ApproveService
  <2>2. TypeOK'
    BY <1>2, <1>3, <2>1 DEF MemberInv, TypeOK, serviceVars
  <2>3. CountsAgree' /\ RequestOK'
    BY <2>1 DEF MemberInv, CountsAgree, RequestOK, serviceVars
  <2> QED
    BY <2>2, <2>3 DEF MemberInv
<1> QED
  BY <1>4, <1>5

LEMMA QuotesKeepInv ==
  ASSUME MemberInv, NEW ops \in SUBSET Operators, CreateServiceFromQuotes(ops)
  PROVE  MemberInv'
<1>1. /\ svcStatus # "Active" /\ request.state = "None"
      /\ commitment \in [Operators -> Commitments \cup {0}]
  BY DEF CreateServiceFromQuotes, NoRequest, MemberInv, TypeOK
<1>2. Enlist(ops, commitment) /\ UNCHANGED <<time, registered, requestVars, exitAt>>
  BY DEF CreateServiceFromQuotes
<1>3. /\ CountsAgree'
      /\ svcStatus' = "Active" /\ members' \subseteq Operators /\ active' \subseteq Operators
      /\ operatorCount' \in Nat
      /\ joinedAt' \in [Operators -> Nat \cup {Never}]
      /\ activeServices' \in [Operators -> Nat]
      /\ commitment' \in [Operators -> Commitments \cup {0}]
  BY <1>1, <1>2, EnlistCounts
<1>4. TypeOK'
  BY <1>2, <1>3 DEF MemberInv, TypeOK, requestVars
<1>5. RequestOK'
  BY <1>1, <1>2 DEF RequestOK, requestVars
<1> QED
  BY <1>3, <1>4, <1>5 DEF MemberInv

LEMMA TerminateKeepsInv == MemberInv /\ TerminateService => MemberInv'
<1> SUFFICES ASSUME MemberInv, TerminateService PROVE MemberInv'
  OBVIOUS
<1>1. activeServices' = [o \in Operators |-> 0]
  BY DEF TerminateService, CountsAfterTermination, Minus1, MemberInv, CountsAgree
<1>2. TypeOK'
  BY <1>1 DEF TerminateService, MemberInv, TypeOK, requestVars
<1>3. CountsAgree'
  BY <1>1 DEF TerminateService, MemberInv, CountsAgree
<1>4. RequestOK'
  BY DEF TerminateService, MemberInv, RequestOK, requestVars
<1> QED
  BY <1>2, <1>3, <1>4 DEF MemberInv

-----------------------------------------------------------------------------
(* The remaining steps leave the service's members alone. *)

LEMMA OthersKeepInv ==
  ASSUME MemberInv, UNCHANGED <<request, approvals, offered, payouts, svcStatus, members,
                                operatorCount, active, joinedAt, activeServices, commitment>>,
         time' \in Nat, registered' \subseteq Operators,
         exitAt' \in [Operators -> Nat \cup {Never}]
  PROVE  MemberInv'
<1>1. TypeOK'
  BY DEF MemberInv, TypeOK
<1>2. CountsAgree' /\ RequestOK'
  BY DEF MemberInv, CountsAgree, RequestOK
<1> QED
  BY <1>1, <1>2 DEF MemberInv

LEMMA ExitKeepsInv ==
  ASSUME MemberInv, NEW o \in Operators, NEW config \in ExitConfigs,
         ScheduleExit(o, config)
  PROVE  MemberInv'
<1>1. config.queue \in Nat /\ time \in Nat
  BY MembershipAssumption DEF ExitConfig, MemberInv, TypeOK
<1>2. exitAt' \in [Operators -> Nat \cup {Never}]
  BY <1>1 DEF ScheduleExit, MemberInv, TypeOK
<1> QED
  BY <1>2, OthersKeepInv DEF ScheduleExit, requestVars, MemberInv, TypeOK

LEMMA OperatorKeepsInv ==
  ASSUME MemberInv, NEW o \in Operators, OperatorStep(o, Operators)
  PROVE  MemberInv'
<1>1. CASE RegisterOperator(o, Operators)
  BY <1>1, OthersKeepInv DEF RegisterOperator, requestVars, serviceVars, MemberInv, TypeOK
<1>2. CASE UnregisterOperator(o)
  BY <1>2, OthersKeepInv DEF UnregisterOperator, requestVars, serviceVars, MemberInv, TypeOK
<1>3. ASSUME NEW c \in Commitments \cup {0}, ApproveService(o, c, Operators)
      PROVE  MemberInv'
  BY <1>3, ApproveKeepsInv
<1>4. CASE RejectService(o, Operators)
  BY <1>4, CloseKeepsInv DEF RejectService
<1>5. ASSUME NEW c \in NewCommitments(o), JoinService(o, c)
      PROVE  MemberInv'
  BY <1>5, JoinKeepsInv
<1>6. ASSUME NEW config \in ExitConfigs, ScheduleExit(o, config)
      PROVE  MemberInv'
  BY <1>6, ExitKeepsInv
<1>7. CASE ExecuteExit(o)
  BY <1>7, RemoveKeepsInv DEF ExecuteExit, MayLeave, MemberInv, TypeOK
<1>8. CASE CancelExit(o)
  BY <1>8, OthersKeepInv DEF CancelExit, requestVars, MemberInv, TypeOK
<1>9. ASSUME NEW config \in ExitConfigs, LeaveService(o, config)
      PROVE  MemberInv'
  BY <1>9, RemoveKeepsInv DEF LeaveService, MayLeave, MemberInv, TypeOK
<1> QED
  BY <1>1, <1>2, <1>3, <1>4, <1>5, <1>6, <1>7, <1>8, <1>9 DEF OperatorStep

LEMMA ManagementKeepsInv ==
  ASSUME MemberInv, ManagementStep(Operators)
  PROVE  MemberInv'
<1>1. ASSUME NEW ops \in SUBSET Operators, NEW secured \in BOOLEAN,
             RequestService(ops, secured, Operators)
      PROVE  MemberInv'
  BY <1>1, RequestKeepsInv
<1>2. ASSUME NEW ops \in SUBSET Operators, CreateServiceFromQuotes(ops)
      PROVE  MemberInv'
  BY <1>2, QuotesKeepInv
<1>3. CASE ExpireServiceRequest
  BY <1>3, CloseKeepsInv DEF ExpireServiceRequest
<1>4. ASSUME NEW o \in Operators, NEW config \in ExitConfigs, ForceExit(o, config)
      PROVE  MemberInv'
  BY <1>4, RemoveKeepsInv DEF ForceExit, MayLeave, MemberInv, TypeOK
<1>5. ASSUME NEW o \in Operators, NEW belowMin \in BOOLEAN, ForceRemoveOperator(o, belowMin)
      PROVE  MemberInv'
  BY <1>5, RemoveKeepsInv DEF ForceRemoveOperator, MemberInv, TypeOK
<1> QED
  BY <1>1, <1>2, <1>3, <1>4, <1>5, TerminateKeepsInv DEF ManagementStep

LEMMA MemberStep == MemberInv /\ [Next]_memberVars => MemberInv'
<1> SUFFICES ASSUME MemberInv, [Next]_memberVars PROVE MemberInv'
  OBVIOUS
<1>1. CASE Tick
  BY <1>1, OthersKeepInv DEF Tick, requestVars, serviceVars, MemberInv, TypeOK
<1>2. CASE UNCHANGED memberVars
  BY <1>2, OthersKeepInv DEF memberVars, requestVars, serviceVars, MemberInv, TypeOK
<1> QED
  BY <1>1, <1>2, OperatorKeepsInv, ManagementKeepsInv DEF Next

LEMMA MemberInvariant == Spec => []MemberInv
BY MemberInit, MemberStep, PTL DEF Spec

\* Every variable of the membership stays in its range.
THEOREM MembershipTypeCorrect == Spec => []TypeOK
<1>1. MemberInv => TypeOK
  BY DEF MemberInv
<1> QED
  BY <1>1, MemberInvariant, PTL

\* The set of members, their entries and the count agree in every state, and an
\* operator is counted as busy exactly while it is in the live service: unregistering
\* and leaving the staking layer are blocked for exactly the right operators.
THEOREM CountsAgreeCorrect == Spec => []CountsAgree
<1>1. MemberInv => CountsAgree
  BY DEF MemberInv
<1> QED
  BY <1>1, MemberInvariant, PTL

-----------------------------------------------------------------------------
(* The payment. *)

LEMMA PaymentInit == Init => PaymentLeavesOnce
BY DEF Init, PaymentLeavesOnce, NoRequest

LEMMA PaymentStep ==
  MemberInv /\ PaymentLeavesOnce /\ [Next]_memberVars => PaymentLeavesOnce'
<1> SUFFICES ASSUME MemberInv, PaymentLeavesOnce, [Next]_memberVars
             PROVE  PaymentLeavesOnce'
  OBVIOUS
<1> USE DEF PaymentLeavesOnce
<1>1. UNCHANGED <<request, payouts>> => PaymentLeavesOnce'
  OBVIOUS
<1>2. ASSUME NEW state \in {"Rejected", "Activated"}, request.state = "Open",
             request' = [request EXCEPT !.state = state], payouts' = payouts + 1
      PROVE  PaymentLeavesOnce'
  BY <1>2 DEF MemberInv, TypeOK
<1>3. ASSUME NEW o \in Operators, OperatorStep(o, Operators)
      PROVE  PaymentLeavesOnce'
  <2>1. ASSUME NEW c, ApproveService(o, c, Operators)
        PROVE  PaymentLeavesOnce'
    <3>1. CASE approvals' = request.operators
      BY <1>2, <2>1, <3>1 DEF ApproveService
    <3>2. CASE approvals' # request.operators
      BY <1>1, <2>1, <3>2 DEF ApproveService
    <3> QED
      BY <3>1, <3>2
  <2>2. RejectService(o, Operators) => PaymentLeavesOnce'
    BY <1>2 DEF RejectService
  <2>3. \/ RegisterOperator(o, Operators) \/ UnregisterOperator(o)
        \/ \E c \in NewCommitments(o) : JoinService(o, c)
        \/ \E config \in ExitConfigs : ScheduleExit(o, config) \/ LeaveService(o, config)
        \/ ExecuteExit(o) \/ CancelExit(o)
        => UNCHANGED <<request, payouts>>
    BY DEF RegisterOperator, UnregisterOperator, JoinService, ScheduleExit, LeaveService,
           ExecuteExit, CancelExit, requestVars
  <2> QED
    BY <1>1, <1>3, <2>1, <2>2, <2>3 DEF OperatorStep
<1>4. ASSUME ManagementStep(Operators)
      PROVE  PaymentLeavesOnce'
  <2>1. ASSUME NEW ops, NEW secured, RequestService(ops, secured, Operators)
        PROVE  PaymentLeavesOnce'
    BY <2>1 DEF RequestService, NoRequest
  <2>2. ExpireServiceRequest => PaymentLeavesOnce'
    BY <1>2 DEF ExpireServiceRequest, Unprocessed
  <2>3. \/ \E ops \in SUBSET Operators : CreateServiceFromQuotes(ops)
        \/ \E o \in Operators, config \in ExitConfigs : ForceExit(o, config)
        \/ \E o \in Operators, belowMin \in BOOLEAN : ForceRemoveOperator(o, belowMin)
        \/ TerminateService
        => UNCHANGED <<request, payouts>>
    BY DEF CreateServiceFromQuotes, ForceExit, ForceRemoveOperator, TerminateService,
           requestVars
  <2> QED
    BY <1>1, <1>4, <2>1, <2>2, <2>3 DEF ManagementStep
<1>5. Tick \/ UNCHANGED memberVars => UNCHANGED <<request, payouts>>
  BY DEF Tick, memberVars, requestVars
<1> QED
  BY <1>1, <1>3, <1>4, <1>5 DEF Next

\* The payment of a request is refunded or handed over once: approval, rejection and
\* expiry never both act on it.
THEOREM PaymentLeavesOnceCorrect == Spec => []PaymentLeavesOnce
BY MemberInvariant, PaymentInit, PaymentStep, PTL DEF Spec

-----------------------------------------------------------------------------
(* The security commitments. *)

\* What CommitmentsAccepted needs of the approvals still being collected.
OffersAccepted == Required => \A o \in approvals : offered[o] \in Accepted

CommitInv == OffersAccepted /\ CommitmentsAccepted

LEMMA CommitInit == Init => CommitInv
BY DEF Init, CommitInv, OffersAccepted, CommitmentsAccepted, Required, NoRequest

\* Members that go, and commitments that stay.
LEMMA ShrinkKeepsCommit ==
  ASSUME CommitInv, members' \subseteq members, svcStatus' = "Active" => svcStatus = "Active",
         request'.secured = request.secured, UNCHANGED <<approvals, offered, commitment>>
  PROVE  CommitInv'
BY DEF CommitInv, OffersAccepted, CommitmentsAccepted, Required

LEMMA JoinKeepsCommit ==
  ASSUME MemberInv, CommitInv, NEW o \in Operators, NEW c \in NewCommitments(o),
         JoinService(o, c)
  PROVE  CommitInv'
<1>1. /\ Required' = Required /\ OffersAccepted'
      /\ commitment' = [commitment EXCEPT ![o] = c]
      /\ members' = members \cup {o}
      /\ svcStatus = "Active"
  BY DEF JoinService, requestVars, CommitInv, OffersAccepted, Required
<1>2. Required => c \in Accepted
  BY DEF NewCommitments
<1>3. members \subseteq Operators /\ commitment \in [Operators -> Commitments \cup {0}]
  BY DEF MemberInv, TypeOK
<1> QED
  BY <1>1, <1>2, <1>3 DEF CommitInv, CommitmentsAccepted

LEMMA ApproveKeepsCommit ==
  ASSUME MemberInv, CommitInv, NEW o \in Operators, NEW c, NEW staked,
         ApproveService(o, c, staked)
  PROVE  CommitInv'
<1>1. /\ offered' = [offered EXCEPT ![o] = c]
      /\ approvals' = approvals \cup {o}
      /\ Required => c \in Accepted
      /\ offered \in [Operators -> Commitments \cup {0}]
      /\ approvals \subseteq Operators
      /\ request.state = "Open" /\ svcStatus = "None"
  BY DEF ApproveService, Acceptable, MemberInv, TypeOK, RequestOK
<1>2. Required => \A p \in approvals' : offered'[p] \in Accepted
  BY <1>1 DEF CommitInv, OffersAccepted
<1>3. CASE approvals' = request.operators
  <2>1. /\ request' = [request EXCEPT !.state = "Activated"]
        /\ members' = approvals'
        /\ commitment' = IF Required THEN offered' ELSE commitment
    BY <1>3 DEF ApproveService, Enlist
  <2>2. Required' = Required
    BY <2>1 DEF Required, MemberInv, TypeOK
  <2> QED
    BY <1>2, <2>1, <2>2 DEF CommitInv, OffersAccepted, CommitmentsAccepted
<1>4. CASE approvals' # request.operators
  <2>1. Required' = Required /\ svcStatus' = "None"
    BY <1>1, <1>4 DEF ApproveService, Required, serviceVars
  <2> QED
    BY <1>2, <2>1 DEF CommitInv, OffersAccepted, CommitmentsAccepted
<1> QED
  BY <1>3, <1>4

LEMMA CommitStep == MemberInv /\ CommitInv /\ [Next]_memberVars => CommitInv'
<1> SUFFICES ASSUME MemberInv, CommitInv, [Next]_memberVars PROVE CommitInv'
  OBVIOUS
<1>1. UNCHANGED <<requestVars, serviceVars>> => CommitInv'
  BY DEF requestVars, serviceVars, CommitInv, OffersAccepted, CommitmentsAccepted, Required
<1>2. ASSUME NEW o \in Operators, RemoveOperator(o), UNCHANGED requestVars
      PROVE  CommitInv'
  BY <1>2, ShrinkKeepsCommit DEF RemoveOperator, requestVars
<1>3. ASSUME NEW o \in Operators, OperatorStep(o, Operators)
      PROVE  CommitInv'
  <2>1. RegisterOperator(o, Operators) \/ UnregisterOperator(o) => CommitInv'
    BY <1>1 DEF RegisterOperator, UnregisterOperator
  <2>2. \A c : ApproveService(o, c, Operators) => CommitInv'
    BY ApproveKeepsCommit
  <2>3. RejectService(o, Operators) => CommitInv'
    BY ShrinkKeepsCommit DEF RejectService, serviceVars, MemberInv, TypeOK
  <2>4. \A c \in NewCommitments(o) : JoinService(o, c) => CommitInv'
    BY JoinKeepsCommit
  <2>5. \A config \in ExitConfigs : ScheduleExit(o, config) => CommitInv'
    BY ShrinkKeepsCommit DEF ScheduleExit, requestVars
  <2>6. ExecuteExit(o) => CommitInv'
    BY <1>2 DEF ExecuteExit
  <2>7. CancelExit(o) => CommitInv'
    BY ShrinkKeepsCommit DEF CancelExit, requestVars
  <2>8. \A config \in ExitConfigs : LeaveService(o, config) => CommitInv'
    BY <1>2 DEF LeaveService
  <2> QED
    BY <1>3, <2>1, <2>2, <2>3, <2>4, <2>5, <2>6, <2>7, <2>8 DEF OperatorStep
<1>4. ASSUME ManagementStep(Operators)
      PROVE  CommitInv'
  <2>1. ASSUME NEW ops, NEW secured, RequestService(ops, secured, Operators)
        PROVE  CommitInv'
    <3>1. approvals' = {} /\ svcStatus' = "None"
      BY <2>1 DEF RequestService, serviceVars, MemberInv, TypeOK, NoRequest
    <3> QED
      BY <3>1 DEF CommitInv, OffersAccepted, CommitmentsAccepted
  <2>2. ASSUME NEW ops, CreateServiceFromQuotes(ops)
        PROVE  CommitInv'
    <3>1. Required' = FALSE
      BY <2>2 DEF CreateServiceFromQuotes, requestVars, Required, NoRequest
    <3> QED
      BY <3>1 DEF CommitInv, OffersAccepted, CommitmentsAccepted
  <2>3. ExpireServiceRequest => CommitInv'
    BY ShrinkKeepsCommit DEF ExpireServiceRequest, serviceVars, MemberInv, TypeOK
  <2>4. \A o \in Operators, config \in ExitConfigs : ForceExit(o, config) => CommitInv'
    BY <1>2 DEF ForceExit
  <2>5. \A o \in Operators, below \in BOOLEAN : ForceRemoveOperator(o, below) => CommitInv'
    BY <1>2 DEF ForceRemoveOperator
  <2>6. TerminateService => CommitInv'
    BY ShrinkKeepsCommit DEF TerminateService, requestVars
  <2> QED
    BY <1>4, <2>1, <2>2, <2>3, <2>4, <2>5, <2>6 DEF ManagementStep
<1>5. Tick \/ UNCHANGED memberVars => CommitInv'
  BY <1>1 DEF Tick, memberVars
<1> QED
  BY <1>3, <1>4, <1>5 DEF Next

\* Every operator of a running service with requirements holds a commitment they
\* accept, whichever way it came in and however often it left.
THEOREM CommitmentsAcceptedCorrect == Spec => []CommitmentsAccepted
<1>1. CommitInv => CommitmentsAccepted
  BY DEF CommitInv
<1> QED
  BY <1>1, MemberInvariant, CommitInit, CommitStep, PTL DEF Spec

-----------------------------------------------------------------------------
(* The bounds on the number of operators. *)

AtMostMax == operatorCount <= MaxOperators

ManagerRemoves == \E o \in Operators : ForceRemoveOperator(o, TRUE)

\* What a step may do to the count.
CountStepOK ==
  /\ operatorCount' <= MaxOperators
  /\ operatorCount' < operatorCount /\ operatorCount' < MinOperators => ManagerRemoves

LEMMA QuorumStep == MemberInv /\ AtMostMax /\ [Next]_memberVars => CountStepOK
<1> SUFFICES ASSUME MemberInv, AtMostMax, [Next]_memberVars PROVE CountStepOK
  OBVIOUS
<1> USE MembershipAssumption
<1>1. operatorCount \in Nat
  BY DEF MemberInv, TypeOK
<1>2. UNCHANGED operatorCount => CountStepOK
  BY <1>1 DEF CountStepOK, AtMostMax
<1>3. ASSUME NEW ops, WithinBounds(Cardinality(ops)), operatorCount' = Cardinality(ops)
      PROVE  CountStepOK
  BY <1>1, <1>3 DEF CountStepOK, WithinBounds
<1>4. ASSUME operatorCount > MinOperators, operatorCount' = operatorCount - 1
      PROVE  CountStepOK
  BY <1>1, <1>4 DEF CountStepOK, AtMostMax
<1>5. ASSUME NEW o \in Operators, OperatorStep(o, Operators)
      PROVE  CountStepOK
  <2>1. ASSUME NEW c, ApproveService(o, c, Operators)
        PROVE  CountStepOK
    <3>1. CASE approvals' = request.operators
      BY <1>3, <2>1, <3>1 DEF ApproveService, Enlist, MemberInv, RequestOK
    <3>2. CASE approvals' # request.operators
      BY <1>2, <2>1, <3>2 DEF ApproveService, serviceVars
    <3> QED
      BY <3>1, <3>2
  <2>2. \A c : JoinService(o, c) => CountStepOK
    BY <1>1 DEF JoinService, CountStepOK
  <2>3. \/ ExecuteExit(o)
        \/ \E config \in ExitConfigs : LeaveService(o, config)
        => CountStepOK
    BY <1>4 DEF ExecuteExit, LeaveService, MayLeave, RemoveOperator
  <2>4. \/ RegisterOperator(o, Operators) \/ UnregisterOperator(o)
        \/ RejectService(o, Operators) \/ CancelExit(o)
        \/ \E config \in ExitConfigs : ScheduleExit(o, config)
        => UNCHANGED operatorCount
    BY DEF RegisterOperator, UnregisterOperator, RejectService, CancelExit, ScheduleExit,
           serviceVars
  <2> QED
    BY <1>2, <1>5, <2>1, <2>2, <2>3, <2>4 DEF OperatorStep
<1>6. ASSUME ManagementStep(Operators)
      PROVE  CountStepOK
  <2>1. \A ops : CreateServiceFromQuotes(ops) => CountStepOK
    BY <1>3 DEF CreateServiceFromQuotes, Enlist
  <2>2. \A o \in Operators, config \in ExitConfigs : ForceExit(o, config) => CountStepOK
    BY <1>4 DEF ForceExit, MayLeave, RemoveOperator
  <2>3. \A o \in Operators : ForceRemoveOperator(o, FALSE) => CountStepOK
    BY <1>4 DEF ForceRemoveOperator, RemoveOperator
  <2>4. ASSUME NEW o \in Operators, ForceRemoveOperator(o, TRUE)
        PROVE  CountStepOK
    <3>1. operatorCount' = operatorCount - 1
      BY <2>4 DEF ForceRemoveOperator, RemoveOperator
    <3>2. ManagerRemoves
      BY <2>4 DEF ManagerRemoves
    <3> QED
      BY <1>1, <3>1, <3>2 DEF CountStepOK, AtMostMax
  <2>5. \/ \E ops \in SUBSET Operators, secured \in BOOLEAN :
             RequestService(ops, secured, Operators)
        \/ ExpireServiceRequest \/ TerminateService
        => UNCHANGED operatorCount
    BY DEF RequestService, ExpireServiceRequest, TerminateService, serviceVars
  <2> QED
    BY <1>2, <1>6, <2>1, <2>2, <2>3, <2>4, <2>5 DEF ManagementStep
<1>7. Tick \/ UNCHANGED memberVars => UNCHANGED operatorCount
  BY DEF Tick, memberVars, serviceVars
<1> QED
  BY <1>2, <1>5, <1>6, <1>7 DEF Next

\* A service never has more operators than it may, and no sequence of voluntary or
\* owner-forced exits takes it below its minimum: only its manager does, asking to.
THEOREM QuorumKeptCorrect == Spec => QuorumKept
<1>1. MemberInv /\ AtMostMax /\ [Next]_memberVars => [CountStepOK]_memberVars /\ AtMostMax'
  BY QuorumStep DEF CountStepOK, AtMostMax
<1>2. Init => AtMostMax
  BY MembershipAssumption DEF Init, AtMostMax
<1> QED
  BY <1>1, <1>2, MemberInvariant, PTL
     DEF Spec, QuorumKept, CountStepOK, ManagerRemoves
=============================================================================
