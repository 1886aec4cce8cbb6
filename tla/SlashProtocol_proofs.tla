------------------------- MODULE SlashProtocol_proofs -------------------------
(***************************************************************************)
(* Proofs about the slash queue and about SlashProtocol, for every value   *)
(* of the constants.  The inductive invariant of the queue is QueueTypeOK  *)
(* (which ids are in use, and that the configuration stays within bounds)  *)
(* together with TrackerCountsOpen, and for the money BondsInv: no bond    *)
(* lies with a proposal whose disputer is unknown, and the bonds and the   *)
(* credits add up to what the core holds.  A step of the protocol is a     *)
(* step of the queue, or leaves it alone, so that what holds of the queue  *)
(* holds in the protocol; what ties the two contracts together is InStep:  *)
(* the two counters are equal, and Snapshots: what an open slash carries   *)
(* is what was owed when it was proposed.                                  *)
(***************************************************************************)
EXTENDS SlashProtocol, FunctionSums

-----------------------------------------------------------------------------
\* The ids are finitely many, and so is any set of them.
LEMMA IdsFinite == \A ids \in SUBSET SlashIds : IsFiniteSet(ids)
<1>1. IsFiniteSet(SlashIds)
  BY FS_Interval, NumbersAssumption DEF SlashIds
<1> QED
  BY <1>1, FS_Subset

-----------------------------------------------------------------------------
\* What the environment does leaves the queue alone.
LEMMA QueueRuns == Spec => Init /\ [][QueueNext]_slashVars
<1>1. [Next]_<<slashVars, environment>> => [QueueNext]_slashVars
  BY DEF Next
<1> QED
  BY <1>1, PTL DEF Spec

-----------------------------------------------------------------------------
(* The parts of the records and sets the steps build. *)

\* A window the queue uses is a number of at least the minimum.
LEMMA WindowBounds ==
  ASSUME QueueTypeOK, NEW w \in DisputeWindows
  PROVE  w \in Nat /\ w >= MinWindow
BY NumbersAssumption DEF QueueTypeOK, SlashConfig, DisputeWindows, ClampWindow

\* Settling keeps a proposal well-formed, and touches only bond and disputer.
LEMMA SettledType ==
  ASSUME NEW p \in SlashProposal
  PROVE  /\ Settled(p) \in SlashProposal
         /\ Settled(p).operator = p.operator
         /\ Settled(p).status = p.status
         /\ Settled(p).executeAfter = p.executeAfter
         /\ Settled(p).deadline = p.deadline
         /\ Settled(p).proposer = p.proposer
BY DEF Settled, SlashProposal

\* A proposal made by ProposeSlash is well-formed.
LEMMA ProposedType ==
  ASSUME QueueTypeOK,
         NEW p \in Proposers, NEW o \in Operators, NEW b \in SlashBps,
         NEW e \in Exposures, NEW c \in Commitments, NEW w \in DisputeWindows
  PROVE  [status |-> "Pending", operator |-> o, proposer |-> p,
          bps |-> EffectiveSlashBps(CapSlashBps(b, config.maxBps), e),
          commit |-> c, executeAfter |-> now + w, disputer |-> Nobody,
          bond |-> 0, deadline |-> 0] \in SlashProposal
<1>1. w \in Nat
  BY WindowBounds
<1>2. CapSlashBps(b, config.maxBps) \in Nat
  BY NumbersAssumption DEF CapSlashBps, QueueTypeOK, SlashConfig
<1>3. \A m, n \in Nat : (m * n) \in Nat
  OBVIOUS
<1>4. EffectiveSlashBps(CapSlashBps(b, config.maxBps), e) \in Nat
  BY <1>2, <1>3, NumbersAssumption DEF EffectiveSlashBps
<1> QED
  BY <1>1, <1>4, NumbersAssumption DEF SlashProposal, Statuses, QueueTypeOK

-----------------------------------------------------------------------------
(* Type correctness. *)

LEMMA InitType == Init => QueueTypeOK
BY NumbersAssumption, ConfigAssumption
   DEF Init, QueueTypeOK, SlashProposal, NoProposal, Statuses, SlashConfig, SlashIds

LEMMA ProposeType ==
  ASSUME QueueTypeOK,
         NEW p \in Proposers, NEW o \in Operators, NEW b \in SlashBps,
         NEW e \in Exposures, NEW c \in Commitments, ProposeSlash(p, o, b, e, c)
  PROVE  QueueTypeOK'
<1>1. PICK w \in DisputeWindows :
        proposals' = [proposals EXCEPT ![nextSlashId] =
          [status |-> "Pending", operator |-> o, proposer |-> p,
           bps |-> EffectiveSlashBps(CapSlashBps(b, config.maxBps), e),
           commit |-> c, executeAfter |-> now + w, disputer |-> Nobody,
           bond |-> 0, deadline |-> 0]]
  BY DEF ProposeSlash
<1>2. proposals' \in [SlashIds -> SlashProposal]
  BY <1>1, ProposedType DEF QueueTypeOK
<1>3. nextSlashId \in SlashIds /\ nextSlashId' = nextSlashId + 1
  BY NumbersAssumption DEF ProposeSlash, QueueTypeOK, SlashIds
<1>4. proposals'[nextSlashId].operator = o /\ o # Nobody
  BY <1>1, <1>3, AccountsAssumption DEF QueueTypeOK, Accounts, Disputers
<1>5. ASSUME NEW s \in SlashIds
      PROVE  IF s < nextSlashId' THEN Exists(s)' ELSE proposals'[s] = NoProposal
  <2>1. s < nextSlashId' <=> s < nextSlashId \/ s = nextSlashId
    BY <1>3 DEF SlashIds
  <2>2. s # nextSlashId => proposals'[s] = proposals[s]
    BY <1>1 DEF QueueTypeOK
  <2> QED
    BY <1>4, <2>1, <2>2 DEF QueueTypeOK, Exists
<1>6. activeProposals' \in [Operators -> Nat]
  BY DEF ProposeSlash, QueueTypeOK
<1>7. proposedAt' \in [SlashIds -> Nat]
  BY DEF ProposeSlash, QueueTypeOK
<1> QED
  BY <1>2, <1>3, <1>5, <1>6, <1>7, NumbersAssumption
     DEF ProposeSlash, QueueTypeOK, SlashIds, Exists

LEMMA DisputeType ==
  ASSUME QueueTypeOK, NEW s \in SlashIds, NEW a \in Disputers, DisputeSlash(a, s)
  PROVE  QueueTypeOK'
<1>1. PICK bond \in Nat :
        proposals' = [proposals EXCEPT ![s].status = "Disputed",
                                       ![s].disputer = a,
                                       ![s].bond = bond,
                                       ![s].deadline = now + config.deadline]
  <2>1. \A origin : RequiredBond(a, s, origin) \in Nat
    BY DEF RequiredBond, QueueTypeOK, SlashConfig
  <2> QED
    BY <2>1 DEF DisputeSlash
<1>2. proposals' \in [SlashIds -> SlashProposal]
  <2>1. proposals[s] \in SlashProposal /\ now + config.deadline \in Nat
    BY DEF QueueTypeOK, SlashConfig
  <2>2. [proposals[s] EXCEPT !.status = "Disputed", !.disputer = a, !.bond = bond,
                             !.deadline = now + config.deadline] \in SlashProposal
    BY <2>1 DEF SlashProposal, Statuses
  <2> QED
    BY <1>1, <2>2 DEF QueueTypeOK
<1>3. \A t \in SlashIds : IF t < nextSlashId THEN Exists(t)'
                                           ELSE proposals'[t] = NoProposal
  BY <1>1 DEF DisputeSlash, IsDisputable, QueueTypeOK, Exists, SlashProposal, NoProposal
<1> QED
  BY <1>2, <1>3 DEF DisputeSlash, QueueTypeOK

LEMMA ExecuteType ==
  ASSUME QueueTypeOK, NEW ids \in SUBSET SlashIds, Execute(ids)
  PROVE  QueueTypeOK'
<1>1. ASSUME NEW s \in SlashIds
      PROVE  [Settled(proposals[s]) EXCEPT !.status = "Executed", !.commit = 0]
               \in SlashProposal
  <2>1. Settled(proposals[s]) \in SlashProposal
    BY SettledType DEF QueueTypeOK
  <2> QED
    BY <2>1 DEF SlashProposal, Statuses
<1>2. proposals' \in [SlashIds -> SlashProposal]
  BY <1>1 DEF Execute, QueueTypeOK
<1>3. ASSUME NEW s \in SlashIds
      PROVE  proposals'[s].operator = proposals[s].operator
  <2>1. /\ Settled(proposals[s]) \in SlashProposal
        /\ Settled(proposals[s]).operator = proposals[s].operator
    BY SettledType DEF QueueTypeOK
  <2> QED
    BY <2>1 DEF Execute, SlashProposal
<1>4. \A s \in SlashIds : IF s < nextSlashId THEN Exists(s)'
                                           ELSE proposals'[s] = NoProposal
  <2>1. \A s \in SlashIds : Exists(s)' <=> Exists(s)
    BY <1>3 DEF Exists
  <2>2. \A s \in SlashIds : ~Exists(s) => proposals'[s] = proposals[s]
    BY DEF Execute
  <2> QED
    BY <2>1, <2>2 DEF QueueTypeOK, Exists, NoProposal
<1>5. \A o \in Operators : CountAgainst(o, ids) \in Nat
  BY IdsFinite, FS_CardinalityType DEF CountAgainst
<1>6. activeProposals' \in [Operators -> Nat]
  <2>1. activeProposals' =
          [o \in Operators |-> Minus(activeProposals[o], CountAgainst(o, ids))]
    BY DEF Execute
  <2>2. \A n, k \in Nat : Minus(n, k) \in Nat
    BY DEF Minus
  <2> QED
    BY <1>5, <2>1, <2>2 DEF QueueTypeOK
<1> QED
  BY <1>2, <1>4, <1>6 DEF Execute, QueueTypeOK

LEMMA CancelType ==
  ASSUME QueueTypeOK, NEW s \in SlashIds, CancelSlash(s)
  PROVE  QueueTypeOK'
<1>1. [Settled(proposals[s]) EXCEPT !.status = "Cancelled"] \in SlashProposal
  <2>1. Settled(proposals[s]) \in SlashProposal
    BY SettledType DEF QueueTypeOK
  <2> QED
    BY <2>1 DEF SlashProposal, Statuses
<1>2. proposals' \in [SlashIds -> SlashProposal]
  BY <1>1 DEF CancelSlash, QueueTypeOK
<1>3. ASSUME NEW t \in SlashIds
      PROVE  proposals'[t].operator = proposals[t].operator
  <2>1. /\ Settled(proposals[s]) \in SlashProposal
        /\ Settled(proposals[s]).operator = proposals[s].operator
    BY SettledType DEF QueueTypeOK
  <2> QED
    BY <2>1 DEF CancelSlash, QueueTypeOK, SlashProposal
<1>4. \A t \in SlashIds : IF t < nextSlashId THEN Exists(t)'
                                           ELSE proposals'[t] = NoProposal
  BY <1>3 DEF CancelSlash, Open, QueueTypeOK, Exists, NoProposal
<1>5. activeProposals' \in [Operators -> Nat]
  <2>1. activeProposals' =
          [activeProposals EXCEPT ![proposals[s].operator] = Minus(@, 1)]
    BY DEF CancelSlash
  <2>2. \A n \in Nat : Minus(n, 1) \in Nat
    BY DEF Minus
  <2> QED
    BY <2>1, <2>2 DEF QueueTypeOK
<1> QED
  BY <1>2, <1>4, <1>5 DEF CancelSlash, QueueTypeOK

\* Which proposals executeSlashBatch runs.
Matured(ids) == {s \in ids : IsExecutable(s)}

LEMMA TypeStep == QueueTypeOK /\ [QueueNext]_slashVars => QueueTypeOK'
<1> SUFFICES ASSUME QueueTypeOK, [QueueNext]_slashVars PROVE QueueTypeOK'
  OBVIOUS
<1>1. CASE Tick
  BY <1>1 DEF Tick, QueueTypeOK, Exists
<1>2. ASSUME NEW p \in Proposers, NEW o \in Operators, NEW b \in SlashBps,
             NEW e \in Exposures, NEW c \in Commitments, ProposeSlash(p, o, b, e, c)
      PROVE  QueueTypeOK'
  BY <1>2, ProposeType
<1>3. ASSUME NEW s \in SlashIds, NEW a \in Disputers, DisputeSlash(a, s)
      PROVE  QueueTypeOK'
  BY <1>3, DisputeType
<1>4. ASSUME NEW s \in SlashIds, ExecuteSlash(s) PROVE QueueTypeOK'
  BY <1>4, {s} \in SUBSET SlashIds, ExecuteType DEF ExecuteSlash
<1>5. ASSUME NEW ids \in SUBSET SlashIds, ExecuteSlashBatch(ids) PROVE QueueTypeOK'
  BY <1>5, Matured(ids) \in SUBSET SlashIds, ExecuteType DEF ExecuteSlashBatch, Matured
<1>6. ASSUME NEW s \in SlashIds, CancelSlash(s) PROVE QueueTypeOK'
  BY <1>6, CancelType
<1>7. ASSUME NEW a \in Accounts, ClaimDisputeBond(a) PROVE QueueTypeOK'
  BY <1>7 DEF ClaimDisputeBond, QueueTypeOK, Exists
<1>8. ASSUME NEW c \in Configs, SetSlashConfig(c) PROVE QueueTypeOK'
  BY <1>8, ConfigAssumption, NumbersAssumption
     DEF SetSlashConfig, ValidConfig, QueueTypeOK, Exists, SlashConfig
<1>9. ASSUME NEW t \in Treasuries, SetTreasury(t) PROVE QueueTypeOK'
  BY <1>9 DEF SetTreasury, QueueTypeOK, Exists
<1>10. CASE UNCHANGED slashVars
  BY <1>10 DEF slashVars, QueueTypeOK, Exists
<1> QED
  BY <1>1, <1>2, <1>3, <1>4, <1>5, <1>6, <1>7, <1>8, <1>9, <1>10 DEF QueueNext

\* The ids in use are exactly those below nextSlashId, and no change of
\* configuration leaves the bounds of updateConfig.
THEOREM QueueTypeCorrect == Spec => []QueueTypeOK
BY InitType, TypeStep, QueueRuns, PTL

-----------------------------------------------------------------------------
(* The counter of an operator counts its open proposals. *)

\* OpenSlashes depends on the operator and the status of the proposals only.
LEMMA SameOpen ==
  ASSUME NEW o,
         \A s \in SlashIds : /\ proposals'[s].operator = proposals[s].operator
                            /\ proposals'[s].status = proposals[s].status
  PROVE  OpenSlashes(o)' = OpenSlashes(o)
BY DEF OpenSlashes, Open, Exists

LEMMA ProposeCounts ==
  ASSUME QueueTypeOK, TrackerCountsOpen,
         NEW p \in Proposers, NEW o \in Operators, NEW b \in SlashBps,
         NEW e \in Exposures, NEW c \in Commitments, ProposeSlash(p, o, b, e, c)
  PROVE  TrackerCountsOpen'
<1>1. nextSlashId \in SlashIds /\ ~Exists(nextSlashId)
  BY NumbersAssumption DEF ProposeSlash, QueueTypeOK, SlashIds, Exists, NoProposal
<1>2. /\ proposals'[nextSlashId].operator = o
      /\ proposals'[nextSlashId].status = "Pending"
      /\ \A s \in SlashIds : s # nextSlashId => proposals'[s] = proposals[s]
  BY <1>1 DEF ProposeSlash, QueueTypeOK
<1>3. o # Nobody
  BY AccountsAssumption DEF Accounts, Disputers
<1>4. ASSUME NEW q \in Operators
      PROVE  activeProposals'[q] = Cardinality(OpenSlashes(q)')
  <2>1. nextSlashId \notin OpenSlashes(q)
    BY <1>1 DEF OpenSlashes, Open
  <2>2. IsFiniteSet(OpenSlashes(q))
    BY IdsFinite DEF OpenSlashes
  <2>3. CASE q = o
    <3>1. OpenSlashes(q)' = OpenSlashes(q) \cup {nextSlashId}
      BY <1>1, <1>2, <1>3, <2>3 DEF OpenSlashes, Open, Exists
    <3>2. activeProposals'[q] = activeProposals[q] + 1
      BY <2>3 DEF ProposeSlash, QueueTypeOK
    <3> QED
      BY <2>1, <2>2, <3>1, <3>2, FS_AddElement DEF TrackerCountsOpen
  <2>4. CASE q # o
    <3>1. OpenSlashes(q)' = OpenSlashes(q)
      BY <1>1, <1>2, <2>4 DEF OpenSlashes, Open, Exists
    <3>2. activeProposals'[q] = activeProposals[q]
      BY <2>4 DEF ProposeSlash, QueueTypeOK
    <3> QED
      BY <3>1, <3>2 DEF TrackerCountsOpen
  <2> QED
    BY <2>3, <2>4
<1> QED
  BY <1>4 DEF TrackerCountsOpen

LEMMA DisputeCounts ==
  ASSUME QueueTypeOK, TrackerCountsOpen,
         NEW s \in SlashIds, NEW a \in Disputers, DisputeSlash(a, s)
  PROVE  TrackerCountsOpen'
<1>1. PICK bond :
        proposals' = [proposals EXCEPT ![s].status = "Disputed",
                                       ![s].disputer = a,
                                       ![s].bond = bond,
                                       ![s].deadline = now + config.deadline]
  BY DEF DisputeSlash
<1>2. /\ \A t \in SlashIds : proposals'[t].operator = proposals[t].operator
      /\ \A t \in SlashIds : t # s => proposals'[t].status = proposals[t].status
      /\ proposals'[s].status = "Disputed"
  BY <1>1 DEF QueueTypeOK, SlashProposal
<1>3. proposals[s].status = "Pending"
  BY DEF DisputeSlash, IsDisputable
<1>4. \A q \in Operators : OpenSlashes(q)' = OpenSlashes(q)
  BY <1>2, <1>3 DEF OpenSlashes, Open, Exists
<1> QED
  BY <1>4 DEF TrackerCountsOpen, DisputeSlash

LEMMA ExecuteCounts ==
  ASSUME QueueTypeOK, TrackerCountsOpen, NEW ids \in SUBSET SlashIds, Execute(ids)
  PROVE  TrackerCountsOpen'
<1>1. ASSUME NEW s \in SlashIds
      PROVE  /\ proposals'[s].operator = proposals[s].operator
             /\ s \in ids => proposals'[s].status = "Executed"
             /\ s \notin ids => proposals'[s].status = proposals[s].status
  <2>1. /\ Settled(proposals[s]) \in SlashProposal
        /\ Settled(proposals[s]).operator = proposals[s].operator
    BY SettledType DEF QueueTypeOK
  <2> QED
    BY <2>1 DEF Execute, SlashProposal
<1>2. ASSUME NEW q \in Operators
      PROVE  activeProposals'[q] = Cardinality(OpenSlashes(q)')
  <2> DEFINE hers == {s \in ids : proposals[s].operator = q}
  <2>1. OpenSlashes(q)' = OpenSlashes(q) \ hers
    BY <1>1 DEF OpenSlashes, Open, Exists
  <2>2. OpenSlashes(q) \cap hers = hers
    BY DEF OpenSlashes, Open, Execute, IsExecutable
  <2>3. IsFiniteSet(OpenSlashes(q)) /\ IsFiniteSet(hers)
    BY IdsFinite DEF OpenSlashes
  <2>4. /\ Cardinality(OpenSlashes(q)) \in Nat /\ Cardinality(hers) \in Nat
        /\ Cardinality(hers) <= Cardinality(OpenSlashes(q))
    BY <2>2, <2>3, FS_CardinalityType, FS_Subset
  <2>5. Cardinality(OpenSlashes(q) \ hers)
          = Cardinality(OpenSlashes(q)) - Cardinality(hers)
    BY <2>2, <2>3, FS_Difference
  <2>6. activeProposals'[q] = Minus(activeProposals[q], Cardinality(hers))
    BY DEF Execute, CountAgainst
  <2> QED
    BY <2>1, <2>4, <2>5, <2>6 DEF Minus, TrackerCountsOpen
<1> QED
  BY <1>2 DEF TrackerCountsOpen

LEMMA CancelCounts ==
  ASSUME QueueTypeOK, TrackerCountsOpen, NEW s \in SlashIds, CancelSlash(s)
  PROVE  TrackerCountsOpen'
<1>1. /\ \A t \in SlashIds : proposals'[t].operator = proposals[t].operator
      /\ \A t \in SlashIds : t # s => proposals'[t].status = proposals[t].status
      /\ proposals'[s].status = "Cancelled"
  <2>1. /\ Settled(proposals[s]) \in SlashProposal
        /\ Settled(proposals[s]).operator = proposals[s].operator
    BY SettledType DEF QueueTypeOK
  <2> QED
    BY <2>1 DEF CancelSlash, QueueTypeOK, SlashProposal
<1>2. Open(s)
  BY DEF CancelSlash
<1>3. activeProposals' =
        [activeProposals EXCEPT ![proposals[s].operator] = Minus(@, 1)]
  BY DEF CancelSlash
<1>4. ASSUME NEW q \in Operators
      PROVE  activeProposals'[q] = Cardinality(OpenSlashes(q)')
  <2>1. IsFiniteSet(OpenSlashes(q)) /\ Cardinality(OpenSlashes(q)) \in Nat
    BY IdsFinite, FS_CardinalityType DEF OpenSlashes
  <2>2. CASE q = proposals[s].operator
    <3>1. OpenSlashes(q)' = OpenSlashes(q) \ {s} /\ s \in OpenSlashes(q)
      BY <1>1, <1>2, <2>2 DEF OpenSlashes, Open, Exists
    <3>2. activeProposals'[q] = Minus(activeProposals[q], 1)
      BY <1>3, <2>2 DEF QueueTypeOK
    <3>3. Cardinality(OpenSlashes(q)) # 0
      BY <2>1, <3>1, FS_EmptySet
    <3>4. Cardinality(OpenSlashes(q)') = Cardinality(OpenSlashes(q)) - 1
      BY <2>1, <3>1, FS_RemoveElement
    <3> QED
      BY <2>1, <3>2, <3>3, <3>4 DEF Minus, TrackerCountsOpen
  <2>3. CASE q # proposals[s].operator
    <3>1. OpenSlashes(q)' = OpenSlashes(q)
      BY <1>1, <2>3 DEF OpenSlashes, Open, Exists
    <3>2. activeProposals'[q] = activeProposals[q]
      BY <1>3, <2>3 DEF QueueTypeOK
    <3> QED
      BY <3>1, <3>2 DEF TrackerCountsOpen
  <2> QED
    BY <2>2, <2>3
<1> QED
  BY <1>4 DEF TrackerCountsOpen

\* The actions that leave the queue and its counters alone.
LEMMA OthersCount ==
  ASSUME TrackerCountsOpen, UNCHANGED <<proposals, activeProposals>>
  PROVE  TrackerCountsOpen'
BY SameOpen DEF TrackerCountsOpen

LEMMA CountsInit == Init => TrackerCountsOpen
<1> SUFFICES ASSUME Init, NEW o \in Operators
             PROVE  activeProposals[o] = Cardinality(OpenSlashes(o))
  BY DEF TrackerCountsOpen
<1>1. OpenSlashes(o) = {}
  BY DEF Init, OpenSlashes, Open, Exists, NoProposal
<1> QED
  BY <1>1, FS_EmptySet DEF Init

LEMMA CountsStep ==
  QueueTypeOK /\ TrackerCountsOpen /\ [QueueNext]_slashVars => TrackerCountsOpen'
<1> SUFFICES ASSUME QueueTypeOK, TrackerCountsOpen, [QueueNext]_slashVars
             PROVE  TrackerCountsOpen'
  OBVIOUS
<1>1. ASSUME NEW p \in Proposers, NEW o \in Operators, NEW b \in SlashBps,
             NEW e \in Exposures, NEW c \in Commitments, ProposeSlash(p, o, b, e, c)
      PROVE  TrackerCountsOpen'
  BY <1>1, ProposeCounts
<1>2. ASSUME NEW s \in SlashIds, NEW a \in Disputers, DisputeSlash(a, s)
      PROVE  TrackerCountsOpen'
  BY <1>2, DisputeCounts
<1>3. ASSUME NEW s \in SlashIds, ExecuteSlash(s) PROVE TrackerCountsOpen'
  BY <1>3, {s} \in SUBSET SlashIds, ExecuteCounts DEF ExecuteSlash
<1>4. ASSUME NEW ids \in SUBSET SlashIds, ExecuteSlashBatch(ids)
      PROVE  TrackerCountsOpen'
  BY <1>4, Matured(ids) \in SUBSET SlashIds, ExecuteCounts
     DEF ExecuteSlashBatch, Matured
<1>5. ASSUME NEW s \in SlashIds, CancelSlash(s) PROVE TrackerCountsOpen'
  BY <1>5, CancelCounts
<1>6. CASE Tick
  BY <1>6, OthersCount DEF Tick
<1>7. ASSUME NEW a \in Accounts, ClaimDisputeBond(a) PROVE TrackerCountsOpen'
  BY <1>7, OthersCount DEF ClaimDisputeBond
<1>8. ASSUME NEW c \in Configs, SetSlashConfig(c) PROVE TrackerCountsOpen'
  BY <1>8, OthersCount DEF SetSlashConfig
<1>9. ASSUME NEW t \in Treasuries, SetTreasury(t) PROVE TrackerCountsOpen'
  BY <1>9, OthersCount DEF SetTreasury
<1>10. CASE UNCHANGED slashVars
  BY <1>10, OthersCount DEF slashVars
<1> QED
  BY <1>1, <1>2, <1>3, <1>4, <1>5, <1>6, <1>7, <1>8, <1>9, <1>10 DEF QueueNext

\* The concurrency counter never leaks and never underflows: it is the number of
\* open proposals against the operator, whatever is proposed, disputed, executed
\* singly or in batches, and cancelled.
THEOREM TrackerCorrect == Spec => []TrackerCountsOpen
<1>1. QueueTypeOK /\ TrackerCountsOpen /\ [QueueNext]_slashVars
        => (QueueTypeOK /\ TrackerCountsOpen)'
  BY TypeStep, CountsStep
<1>2. Init => QueueTypeOK /\ TrackerCountsOpen
  BY InitType, CountsInit
<1> QED
  BY <1>1, <1>2, QueueRuns, PTL

-----------------------------------------------------------------------------
(* The review time. *)

\* Neither date a proposal is judged by comes earlier than MinWindow after it was
\* made.
ReviewDates ==
  \A s \in SlashIds :
    Exists(s) =>
      /\ now >= proposedAt[s]
      /\ proposals[s].executeAfter >= proposedAt[s] + MinWindow
      /\ proposals[s].status = "Disputed" =>
           proposals[s].deadline >= proposedAt[s] + MinWindow

\* What ReviewTimeGuaranteed says of a step.
Reviewed ==
  \A s \in SlashIds :
    Open(s) /\ proposals'[s].status = "Executed" =>
      now >= proposedAt[s] + MinWindow + Buffer

\* A step that leaves the proposals and their dates alone, while time does not go
\* back.
LEMMA OthersReview ==
  ASSUME QueueTypeOK, ReviewDates, now' \in Nat, now' >= now,
         UNCHANGED <<proposals, proposedAt>>
  PROVE  Reviewed /\ ReviewDates'
<1>1. ReviewDates'
  BY NumbersAssumption DEF ReviewDates, QueueTypeOK, Exists
<1>2. Reviewed
  BY DEF Reviewed, Open
<1> QED
  BY <1>1, <1>2

LEMMA ProposeReview ==
  ASSUME QueueTypeOK, ReviewDates,
         NEW p \in Proposers, NEW o \in Operators, NEW b \in SlashBps,
         NEW e \in Exposures, NEW c \in Commitments, ProposeSlash(p, o, b, e, c)
  PROVE  Reviewed /\ ReviewDates'
<1>1. nextSlashId \in SlashIds
  BY NumbersAssumption DEF ProposeSlash, QueueTypeOK, SlashIds
<1>2. PICK w \in DisputeWindows :
        proposals'[nextSlashId].executeAfter = now + w
  BY <1>1 DEF ProposeSlash, QueueTypeOK
<1>3. proposals'[nextSlashId].status = "Pending"
  BY <1>1 DEF ProposeSlash, QueueTypeOK
<1>4. proposedAt'[nextSlashId] = now /\ now' = now
  BY <1>1 DEF ProposeSlash, QueueTypeOK
<1>5. \A s \in SlashIds : s # nextSlashId =>
        proposals'[s] = proposals[s] /\ proposedAt'[s] = proposedAt[s]
  BY DEF ProposeSlash, QueueTypeOK
<1>6. w \in Nat /\ w >= MinWindow
  BY WindowBounds
<1>7. now \in Nat /\ MinWindow \in Nat
  BY NumbersAssumption DEF QueueTypeOK
<1>8. now + w >= now + MinWindow
  BY <1>6, <1>7
<1>9. ReviewDates'
  BY <1>2, <1>3, <1>4, <1>5, <1>7, <1>8 DEF ReviewDates, Exists
<1>10. Reviewed
  BY <1>3, <1>5 DEF Reviewed, Open
<1> QED
  BY <1>9, <1>10

LEMMA DisputeReview ==
  ASSUME QueueTypeOK, ReviewDates,
         NEW s \in SlashIds, NEW a \in Disputers, DisputeSlash(a, s)
  PROVE  Reviewed /\ ReviewDates'
<1>1. PICK bond :
        proposals' = [proposals EXCEPT ![s].status = "Disputed",
                                       ![s].disputer = a,
                                       ![s].bond = bond,
                                       ![s].deadline = now + config.deadline]
  BY DEF DisputeSlash
<1>2. /\ proposals'[s].operator = proposals[s].operator
      /\ proposals'[s].executeAfter = proposals[s].executeAfter
      /\ proposals'[s].deadline = now + config.deadline
      /\ proposals'[s].status = "Disputed"
      /\ \A t \in SlashIds : t # s => proposals'[t] = proposals[t]
  BY <1>1 DEF QueueTypeOK, SlashProposal
<1>3. Exists(s)
  BY DEF DisputeSlash, IsDisputable
<1>4. now + config.deadline >= proposedAt[s] + MinWindow
  BY <1>3, NumbersAssumption DEF ReviewDates, QueueTypeOK, SlashConfig
<1>5. ReviewDates'
  BY <1>2, <1>3, <1>4 DEF DisputeSlash, ReviewDates, Exists
<1>6. Reviewed
  BY <1>2 DEF Reviewed, Open
<1> QED
  BY <1>5, <1>6

LEMMA ExecuteReview ==
  ASSUME QueueTypeOK, ReviewDates, NEW ids \in SUBSET SlashIds, Execute(ids)
  PROVE  Reviewed /\ ReviewDates'
<1>1. now' = now /\ proposedAt' = proposedAt
  BY DEF Execute
<1>2. ASSUME NEW s \in ids
      PROVE  /\ proposals'[s].status = "Executed"
             /\ proposals'[s].executeAfter = proposals[s].executeAfter
             /\ now >= proposedAt[s] + MinWindow + Buffer
             /\ Exists(s)
  <2>1. /\ Settled(proposals[s]) \in SlashProposal
        /\ Settled(proposals[s]).executeAfter = proposals[s].executeAfter
    BY SettledType DEF QueueTypeOK
  <2>2. /\ proposals'[s].status = "Executed"
        /\ proposals'[s].executeAfter = proposals[s].executeAfter
    BY <2>1 DEF Execute, SlashProposal
  <2>3. Exists(s) /\ IsExecutable(s)
    BY DEF Execute
  <2>4. now >= ExecutableFrom(s)
    BY <2>3 DEF IsExecutable
  <2>5. ExecutableFrom(s) >= proposedAt[s] + MinWindow + Buffer
    BY <2>3, NumbersAssumption
       DEF ExecutableFrom, ReviewDates, QueueTypeOK, SlashProposal
  <2>6. /\ now \in Nat /\ ExecutableFrom(s) \in Nat
        /\ proposedAt[s] + MinWindow + Buffer \in Nat
    BY NumbersAssumption DEF ExecutableFrom, QueueTypeOK, SlashProposal
  <2> QED
    BY <2>2, <2>3, <2>4, <2>5, <2>6
<1>3. ASSUME NEW s \in SlashIds, s \notin ids
      PROVE  proposals'[s] = proposals[s]
  BY <1>3 DEF Execute
<1>4. ReviewDates'
  BY <1>1, <1>2, <1>3 DEF ReviewDates, Exists
<1>5. Reviewed
  BY <1>2, <1>3 DEF Reviewed, Open
<1> QED
  BY <1>4, <1>5

LEMMA CancelReview ==
  ASSUME QueueTypeOK, ReviewDates, NEW s \in SlashIds, CancelSlash(s)
  PROVE  Reviewed /\ ReviewDates'
<1>1. /\ proposals'[s].status = "Cancelled"
      /\ proposals'[s].executeAfter = proposals[s].executeAfter
      /\ \A t \in SlashIds : t # s => proposals'[t] = proposals[t]
  <2>1. /\ Settled(proposals[s]) \in SlashProposal
        /\ Settled(proposals[s]).executeAfter = proposals[s].executeAfter
    BY SettledType DEF QueueTypeOK
  <2> QED
    BY <2>1 DEF CancelSlash, QueueTypeOK, SlashProposal
<1>2. Exists(s)
  BY DEF CancelSlash, Open
<1>3. ReviewDates'
  BY <1>1, <1>2 DEF CancelSlash, ReviewDates, Exists
<1>4. Reviewed
  BY <1>1 DEF Reviewed, Open
<1> QED
  BY <1>3, <1>4

LEMMA ReviewInit == Init => ReviewDates
BY DEF Init, ReviewDates, Exists, NoProposal

LEMMA ReviewStep ==
  QueueTypeOK /\ ReviewDates /\ [QueueNext]_slashVars => Reviewed /\ ReviewDates'
<1> SUFFICES ASSUME QueueTypeOK, ReviewDates, [QueueNext]_slashVars
             PROVE  Reviewed /\ ReviewDates'
  OBVIOUS
<1>1. ASSUME NEW p \in Proposers, NEW o \in Operators, NEW b \in SlashBps,
             NEW e \in Exposures, NEW c \in Commitments, ProposeSlash(p, o, b, e, c)
      PROVE  Reviewed /\ ReviewDates'
  BY <1>1, ProposeReview
<1>2. ASSUME NEW s \in SlashIds, NEW a \in Disputers, DisputeSlash(a, s)
      PROVE  Reviewed /\ ReviewDates'
  BY <1>2, DisputeReview
<1>3. ASSUME NEW s \in SlashIds, ExecuteSlash(s) PROVE Reviewed /\ ReviewDates'
  BY <1>3, {s} \in SUBSET SlashIds, ExecuteReview DEF ExecuteSlash
<1>4. ASSUME NEW ids \in SUBSET SlashIds, ExecuteSlashBatch(ids)
      PROVE  Reviewed /\ ReviewDates'
  BY <1>4, Matured(ids) \in SUBSET SlashIds, ExecuteReview
     DEF ExecuteSlashBatch, Matured
<1>5. ASSUME NEW s \in SlashIds, CancelSlash(s) PROVE Reviewed /\ ReviewDates'
  BY <1>5, CancelReview
<1>6. now \in Nat
  BY DEF QueueTypeOK
<1>7. CASE Tick
  BY <1>6, <1>7, OthersReview DEF Tick
<1>8. ASSUME NEW a \in Accounts, ClaimDisputeBond(a) PROVE Reviewed /\ ReviewDates'
  BY <1>6, <1>8, OthersReview DEF ClaimDisputeBond
<1>9. ASSUME NEW c \in Configs, SetSlashConfig(c) PROVE Reviewed /\ ReviewDates'
  BY <1>6, <1>9, OthersReview DEF SetSlashConfig
<1>10. ASSUME NEW t \in Treasuries, SetTreasury(t) PROVE Reviewed /\ ReviewDates'
  BY <1>6, <1>10, OthersReview DEF SetTreasury
<1>11. CASE UNCHANGED slashVars
  BY <1>6, <1>11, OthersReview DEF slashVars
<1> QED
  BY <1>1, <1>2, <1>3, <1>4, <1>5, <1>7, <1>8, <1>9, <1>10, <1>11 DEF QueueNext

\* No slash is executed before MIN_DISPUTE_WINDOW and the timestamp buffer have
\* passed since it was proposed, whatever window the manager names and however
\* the configuration changes before or after a dispute.
THEOREM ReviewTimeCorrect == Spec => ReviewTimeGuaranteed
<1>1. QueueTypeOK /\ ReviewDates /\ [QueueNext]_slashVars
        => [Reviewed]_slashVars /\ ReviewDates'
  BY ReviewStep
<1> QED
  BY <1>1, ReviewInit, QueueRuns, QueueTypeCorrect, PTL
     DEF ReviewTimeGuaranteed, Reviewed

-----------------------------------------------------------------------------
(* Refinement of SlashLifecycle. *)

\* The counters tell exactly which operators an unresolved proposal is against.
LEMMA FrozenIsOpen ==
  QueueTypeOK /\ TrackerCountsOpen => Frozen = Lifecycle!FrozenBy(Stage, Target)
<1> SUFFICES ASSUME QueueTypeOK, TrackerCountsOpen
             PROVE  Frozen = Lifecycle!FrozenBy(Stage, Target)
  OBVIOUS
<1>1. ASSUME NEW o \in Operators
      PROVE  activeProposals[o] > 0 <=> OpenSlashes(o) # {}
  <2>1. IsFiniteSet(OpenSlashes(o))
    BY IdsFinite DEF OpenSlashes
  <2>2. Cardinality(OpenSlashes(o)) \in Nat
    BY <2>1, FS_CardinalityType
  <2>3. Cardinality(OpenSlashes(o)) = 0 <=> OpenSlashes(o) = {}
    BY <2>1, FS_EmptySet
  <2> QED
    BY <2>2, <2>3 DEF TrackerCountsOpen
<1>2. ASSUME NEW o \in Operators
      PROVE  OpenSlashes(o) # {} <=>
               \E s \in SlashIds : Stage[s] \in Lifecycle!Unresolved /\ Target[s] = o
  BY DEF OpenSlashes, Open, Stage, Target, Lifecycle!Unresolved
<1> QED
  BY <1>1, <1>2 DEF Frozen, Lifecycle!FrozenBy

LEMMA AbstractInit == Init => Lifecycle!Init
BY DEF Init, Lifecycle!Init, Stage, Target, Frozen, Exists, NoProposal

LEMMA AbstractPropose ==
  ASSUME QueueTypeOK, NEW p \in Proposers, NEW o \in Operators, NEW b \in SlashBps,
         NEW e \in Exposures, NEW c \in Commitments, ProposeSlash(p, o, b, e, c)
  PROVE  Lifecycle!Open(nextSlashId, o) /\ nextSlashId \in SlashIds
<1>1. nextSlashId \in SlashIds /\ ~Exists(nextSlashId)
  BY NumbersAssumption DEF ProposeSlash, QueueTypeOK, SlashIds, Exists, NoProposal
<1>2. /\ proposals'[nextSlashId].operator = o
      /\ proposals'[nextSlashId].status = "Pending"
      /\ \A s \in SlashIds : s # nextSlashId => proposals'[s] = proposals[s]
  BY <1>1 DEF ProposeSlash, QueueTypeOK
<1>3. o # Nobody
  BY AccountsAssumption DEF Accounts, Disputers
<1>4. Stage' = [Stage EXCEPT ![nextSlashId] = "Pending"]
  BY <1>1, <1>2, <1>3 DEF Stage, Exists
<1>5. Target' = [Target EXCEPT ![nextSlashId] = o]
  BY <1>1, <1>2 DEF Target
<1>6. Frozen' = Frozen \cup {o}
  <2>1. /\ activeProposals'[o] = activeProposals[o] + 1
        /\ \A q \in Operators : q # o => activeProposals'[q] = activeProposals[q]
    BY DEF ProposeSlash, QueueTypeOK
  <2>2. activeProposals[o] \in Nat
    BY DEF QueueTypeOK
  <2> QED
    BY <2>1, <2>2 DEF Frozen
<1> QED
  BY <1>1, <1>4, <1>5, <1>6 DEF Lifecycle!Open, Stage

LEMMA AbstractDispute ==
  ASSUME QueueTypeOK, NEW s \in SlashIds, NEW a \in Disputers, DisputeSlash(a, s)
  PROVE  Lifecycle!Contest(s)
<1>1. PICK bond :
        proposals' = [proposals EXCEPT ![s].status = "Disputed",
                                       ![s].disputer = a,
                                       ![s].bond = bond,
                                       ![s].deadline = now + config.deadline]
  BY DEF DisputeSlash
<1>2. /\ \A t \in SlashIds : proposals'[t].operator = proposals[t].operator
      /\ \A t \in SlashIds : t # s => proposals'[t].status = proposals[t].status
      /\ proposals'[s].status = "Disputed"
  BY <1>1 DEF QueueTypeOK, SlashProposal
<1>3. Exists(s) /\ proposals[s].status = "Pending"
  BY DEF DisputeSlash, IsDisputable
<1>4. Stage' = [Stage EXCEPT ![s] = "Disputed"]
  BY <1>2, <1>3 DEF Stage, Exists
<1>5. Target' = Target /\ Frozen' = Frozen
  BY <1>2 DEF Target, Frozen, DisputeSlash
<1> QED
  BY <1>3, <1>4, <1>5 DEF Lifecycle!Contest, Stage

LEMMA AbstractExecute ==
  ASSUME QueueTypeOK, TrackerCountsOpen, QueueTypeOK', TrackerCountsOpen',
         NEW ids \in SUBSET SlashIds, Execute(ids)
  PROVE  Lifecycle!Close(ids, "Executed")
<1>1. ASSUME NEW s \in SlashIds
      PROVE  /\ proposals'[s].operator = proposals[s].operator
             /\ s \in ids => proposals'[s].status = "Executed"
             /\ s \notin ids => proposals'[s].status = proposals[s].status
  <2>1. /\ Settled(proposals[s]) \in SlashProposal
        /\ Settled(proposals[s]).operator = proposals[s].operator
    BY SettledType DEF QueueTypeOK
  <2> QED
    BY <2>1 DEF Execute, SlashProposal
<1>2. \A s \in ids : Exists(s) /\ proposals[s].status \in {"Pending", "Disputed"}
  BY DEF Execute, IsExecutable
<1>3. Stage' = [s \in SlashIds |-> IF s \in ids THEN "Executed" ELSE Stage[s]]
  BY <1>1, <1>2 DEF Stage, Exists
<1>4. Target' = Target
  BY <1>1 DEF Target
<1>5. Frozen' = Lifecycle!FrozenBy(Stage', Target)
  <2>1. (QueueTypeOK /\ TrackerCountsOpen
           => Frozen = Lifecycle!FrozenBy(Stage, Target))'
    BY FrozenIsOpen, PTL
  <2>2. Lifecycle!FrozenBy(Stage, Target)' = Lifecycle!FrozenBy(Stage', Target)
    BY <1>4 DEF Lifecycle!FrozenBy
  <2> QED
    BY <2>1, <2>2
<1> QED
  BY <1>2, <1>3, <1>4, <1>5 DEF Lifecycle!Close, Lifecycle!Unresolved, Stage

LEMMA AbstractCancel ==
  ASSUME QueueTypeOK, TrackerCountsOpen, QueueTypeOK', TrackerCountsOpen',
         NEW s \in SlashIds, CancelSlash(s)
  PROVE  Lifecycle!Close({s}, "Cancelled")
<1>1. /\ \A t \in SlashIds : proposals'[t].operator = proposals[t].operator
      /\ \A t \in SlashIds : t # s => proposals'[t].status = proposals[t].status
      /\ proposals'[s].status = "Cancelled"
  <2>1. /\ Settled(proposals[s]) \in SlashProposal
        /\ Settled(proposals[s]).operator = proposals[s].operator
    BY SettledType DEF QueueTypeOK
  <2> QED
    BY <2>1 DEF CancelSlash, QueueTypeOK, SlashProposal
<1>2. Exists(s) /\ proposals[s].status \in {"Pending", "Disputed"}
  BY DEF CancelSlash, Open
<1>3. Stage' = [t \in SlashIds |-> IF t \in {s} THEN "Cancelled" ELSE Stage[t]]
  BY <1>1, <1>2 DEF Stage, Exists
<1>4. Target' = Target
  BY <1>1 DEF Target
<1>5. Frozen' = Lifecycle!FrozenBy(Stage', Target)
  <2>1. (QueueTypeOK /\ TrackerCountsOpen
           => Frozen = Lifecycle!FrozenBy(Stage, Target))'
    BY FrozenIsOpen, PTL
  <2>2. Lifecycle!FrozenBy(Stage, Target)' = Lifecycle!FrozenBy(Stage', Target)
    BY <1>4 DEF Lifecycle!FrozenBy
  <2> QED
    BY <2>1, <2>2
<1> QED
  BY <1>2, <1>3, <1>4, <1>5 DEF Lifecycle!Close, Lifecycle!Unresolved, Stage

LEMMA AbstractOthers ==
  ASSUME UNCHANGED <<proposals, activeProposals>>
  PROVE  UNCHANGED Lifecycle!lifecycleVars
BY DEF Lifecycle!lifecycleVars, Stage, Target, Frozen, Exists

LEMMA AbstractStep ==
  /\ QueueTypeOK /\ TrackerCountsOpen /\ QueueTypeOK' /\ TrackerCountsOpen'
  /\ [QueueNext]_slashVars
  => [Lifecycle!Next]_(Lifecycle!lifecycleVars)
<1> SUFFICES ASSUME QueueTypeOK, TrackerCountsOpen, QueueTypeOK', TrackerCountsOpen',
                    [QueueNext]_slashVars
             PROVE  Lifecycle!Next \/ UNCHANGED Lifecycle!lifecycleVars
  OBVIOUS
<1> USE DEF Lifecycle!Next, Lifecycle!Resolved
<1>1. ASSUME NEW p \in Proposers, NEW o \in Operators, NEW b \in SlashBps,
             NEW e \in Exposures, NEW c \in Commitments, ProposeSlash(p, o, b, e, c)
      PROVE  Lifecycle!Next
  BY <1>1, AbstractPropose
<1>2. ASSUME NEW s \in SlashIds, NEW a \in Disputers, DisputeSlash(a, s)
      PROVE  Lifecycle!Next
  BY <1>2, AbstractDispute
<1>3. ASSUME NEW s \in SlashIds, ExecuteSlash(s) PROVE Lifecycle!Next
  BY <1>3, {s} \in SUBSET SlashIds, AbstractExecute DEF ExecuteSlash
<1>4. ASSUME NEW ids \in SUBSET SlashIds, ExecuteSlashBatch(ids)
      PROVE  Lifecycle!Next
  BY <1>4, Matured(ids) \in SUBSET SlashIds, AbstractExecute
     DEF ExecuteSlashBatch, Matured
<1>5. ASSUME NEW s \in SlashIds, CancelSlash(s) PROVE Lifecycle!Next
  BY <1>5, {s} \in SUBSET SlashIds, AbstractCancel
<1>6. CASE Tick
  BY <1>6, AbstractOthers DEF Tick
<1>7. ASSUME NEW a \in Accounts, ClaimDisputeBond(a)
      PROVE  UNCHANGED Lifecycle!lifecycleVars
  BY <1>7, AbstractOthers DEF ClaimDisputeBond
<1>8. ASSUME NEW c \in Configs, SetSlashConfig(c)
      PROVE  UNCHANGED Lifecycle!lifecycleVars
  BY <1>8, AbstractOthers DEF SetSlashConfig
<1>9. ASSUME NEW t \in Treasuries, SetTreasury(t)
      PROVE  UNCHANGED Lifecycle!lifecycleVars
  BY <1>9, AbstractOthers DEF SetTreasury
<1>10. CASE UNCHANGED slashVars
  BY <1>10, AbstractOthers DEF slashVars
<1> HIDE DEF Lifecycle!Next
<1> QED
  BY <1>1, <1>2, <1>3, <1>4, <1>5, <1>6, <1>7, <1>8, <1>9, <1>10 DEF QueueNext

\* The queue implements the abstract life cycle: every transaction opens, contests
\* or closes proposals as the abstract specification allows, or is invisible there.
THEOREM QueueImplementsLifecycle == Spec => ImplementsLifecycle
<1>1. Init => Lifecycle!Init
  BY AbstractInit
<1>2. /\ QueueTypeOK /\ TrackerCountsOpen /\ QueueTypeOK' /\ TrackerCountsOpen'
      /\ [QueueNext]_slashVars
      => [Lifecycle!Next]_(Lifecycle!lifecycleVars)
  BY AbstractStep
<1> QED
  BY <1>1, <1>2, QueueRuns, QueueTypeCorrect, TrackerCorrect, PTL
     DEF ImplementsLifecycle, Lifecycle!Spec

-----------------------------------------------------------------------------
(* The dates of an open proposal. *)

\* No change of configuration and no other proposal's fate moves the time at which
\* an open proposal becomes executable.
THEOREM DeadlinesFixed == Spec => OnlyDisputeMovesDeadline
<1> DEFINE Moved(s) == /\ ExecutableFrom(s)' # ExecutableFrom(s)
                       /\ ~(proposals[s].status = "Pending"
                             /\ proposals'[s].status = "Disputed")
<1>1. QueueTypeOK /\ [QueueNext]_slashVars =>
        [\A s \in SlashIds :
           Open(s) /\ Open(s)' =>
             \/ ExecutableFrom(s)' = ExecutableFrom(s)
             \/ proposals[s].status = "Pending" /\ proposals'[s].status = "Disputed"]_slashVars
  <2> SUFFICES ASSUME QueueTypeOK, [QueueNext]_slashVars,
                      NEW s \in SlashIds, Open(s), Open(s)', Moved(s)
               PROVE  FALSE
    OBVIOUS
  <2>1. proposals'[s] # proposals[s]
    BY DEF ExecutableFrom
  <2>2. ASSUME NEW p \in Proposers, NEW o \in Operators, NEW b \in SlashBps,
               NEW e \in Exposures, NEW c \in Commitments,
               ProposeSlash(p, o, b, e, c)
        PROVE  FALSE
    <3>0. nextSlashId < MaxSlashes
      BY <2>2 DEF ProposeSlash
    <3>1. nextSlashId \in SlashIds /\ ~Exists(nextSlashId)
      BY <3>0, NumbersAssumption DEF QueueTypeOK, SlashIds, Exists, NoProposal
    <3>2. \A t \in SlashIds : t # nextSlashId => proposals'[t] = proposals[t]
      BY <2>2 DEF ProposeSlash, QueueTypeOK
    <3> QED
      BY <2>1, <3>1, <3>2 DEF Open
  <2>3. ASSUME NEW t \in SlashIds, NEW a \in Disputers, DisputeSlash(a, t)
        PROVE  FALSE
    <3>1. /\ \A r \in SlashIds : r # t => proposals'[r] = proposals[r]
          /\ proposals'[t].status = "Disputed"
      BY <2>3 DEF DisputeSlash, QueueTypeOK, SlashProposal
    <3>2. proposals[t].status = "Pending"
      BY <2>3 DEF DisputeSlash, IsDisputable
    <3> QED
      BY <2>1, <3>1, <3>2
  <2>4. ASSUME NEW ids \in SUBSET SlashIds, Execute(ids) PROVE FALSE
    <3>1. s \notin ids => proposals'[s] = proposals[s]
      BY <2>4 DEF Execute
    <3>2. s \in ids => proposals'[s].status = "Executed"
      <4>1. Settled(proposals[s]) \in SlashProposal
        BY SettledType DEF QueueTypeOK
      <4> QED
        BY <2>4, <4>1 DEF Execute, SlashProposal
    <3> QED
      BY <2>1, <3>1, <3>2 DEF Open
  <2>5. ASSUME NEW t \in SlashIds, ExecuteSlash(t) PROVE FALSE
    BY <2>4, <2>5, {t} \in SUBSET SlashIds DEF ExecuteSlash
  <2>6. ASSUME NEW ids \in SUBSET SlashIds, ExecuteSlashBatch(ids) PROVE FALSE
    BY <2>4, <2>6, Matured(ids) \in SUBSET SlashIds DEF ExecuteSlashBatch, Matured
  <2>7. ASSUME NEW t \in SlashIds, CancelSlash(t) PROVE FALSE
    <3>1. /\ \A r \in SlashIds : r # t => proposals'[r] = proposals[r]
          /\ proposals'[t].status = "Cancelled"
      <4>1. Settled(proposals[t]) \in SlashProposal
        BY SettledType DEF QueueTypeOK
      <4> QED
        BY <2>7, <4>1 DEF CancelSlash, QueueTypeOK, SlashProposal
    <3> QED
      BY <2>1, <3>1 DEF Open
  <2>8. UNCHANGED proposals => FALSE
    BY <2>1
  <2> QED
    BY <2>2, <2>3, <2>5, <2>6, <2>7, <2>8
       DEF QueueNext, Tick, ClaimDisputeBond, SetSlashConfig, SetTreasury, slashVars
<1> QED
  BY <1>1, QueueTypeCorrect, QueueRuns, PTL DEF OnlyDisputeMovesDeadline

-----------------------------------------------------------------------------
(* Who may freeze an operator for free. *)

\* What NoFreeFreeze says of a step.
NotFrozenFree ==
  \A s \in SlashIds :
    LET p == proposals[s]
        d == proposals'[s].disputer
    IN /\ p.status = "Pending" /\ proposals'[s].status = "Disputed"
       /\ proposals'[s].bond = 0 /\ config.bond > 0
       => /\ d # p.proposer
          /\ \/ d \in Admins
             \/ d # p.operator /\ p.proposer \notin {BpOwner, slashingOrigin}

\* A step that disputes nothing.
LEMMA NothingDisputed ==
  ASSUME \A s \in SlashIds :
           proposals'[s] = proposals[s] \/ proposals'[s].status # "Disputed"
  PROVE  NotFrozenFree
BY DEF NotFrozenFree

LEMMA FreezeDispute ==
  ASSUME QueueTypeOK, NEW s \in SlashIds, NEW a \in Disputers, DisputeSlash(a, s)
  PROVE  NotFrozenFree
<1>1. PICK origin \in {slashingOrigin, "failed"} :
        proposals' = [proposals EXCEPT ![s].status = "Disputed",
                                       ![s].disputer = a,
                                       ![s].bond = RequiredBond(a, s, origin),
                                       ![s].deadline = now + config.deadline]
  BY DEF DisputeSlash
<1>2. /\ \A t \in SlashIds : t # s => proposals'[t] = proposals[t]
      /\ proposals'[s].disputer = a
      /\ proposals'[s].bond = RequiredBond(a, s, origin)
  BY <1>1 DEF QueueTypeOK, SlashProposal
<1>3. MayDispute(a, s)
  BY DEF DisputeSlash
<1>4. ASSUME RequiredBond(a, s, origin) = 0, config.bond > 0
      PROVE  /\ a # proposals[s].proposer
             /\ \/ a \in Admins
                \/ /\ a # proposals[s].operator
                   /\ proposals[s].proposer \notin {BpOwner, slashingOrigin}
  <2>1. \/ a \in Admins
        \/ /\ IsDisputeOrigin(a, s)
           /\ ~ProposerIsBlueprintControlled(proposals[s].proposer, origin)
    BY <1>4 DEF RequiredBond
  <2>2. a # proposals[s].proposer
    BY <1>3, <2>1 DEF MayDispute
  <2>3. \/ a \in Admins
        \/ /\ a # proposals[s].operator
           /\ proposals[s].proposer \notin {BpOwner, slashingOrigin}
    BY <1>1, <2>1 DEF IsDisputeOrigin, ProposerIsBlueprintControlled
  <2> QED
    BY <2>2, <2>3
<1> QED
  BY <1>2, <1>4 DEF NotFrozenFree

LEMMA FreezeStep == QueueTypeOK /\ [QueueNext]_slashVars => NotFrozenFree
<1> SUFFICES ASSUME QueueTypeOK, [QueueNext]_slashVars PROVE NotFrozenFree
  OBVIOUS
<1>1. ASSUME NEW p \in Proposers, NEW o \in Operators, NEW b \in SlashBps,
             NEW e \in Exposures, NEW c \in Commitments, ProposeSlash(p, o, b, e, c)
      PROVE  NotFrozenFree
  <2>1. \A s \in SlashIds :
          proposals'[s] = proposals[s] \/ proposals'[s].status = "Pending"
    BY <1>1 DEF ProposeSlash, QueueTypeOK
  <2> QED
    BY <2>1, NothingDisputed
<1>2. ASSUME NEW s \in SlashIds, NEW a \in Disputers, DisputeSlash(a, s)
      PROVE  NotFrozenFree
  BY <1>2, FreezeDispute
<1>3. ASSUME NEW ids \in SUBSET SlashIds, Execute(ids) PROVE NotFrozenFree
  <2>1. ASSUME NEW s \in SlashIds
        PROVE  proposals'[s] = proposals[s] \/ proposals'[s].status = "Executed"
    <3>1. Settled(proposals[s]) \in SlashProposal
      BY SettledType DEF QueueTypeOK
    <3> QED
      BY <1>3, <3>1 DEF Execute, SlashProposal
  <2> QED
    BY <2>1, NothingDisputed
<1>4. ASSUME NEW s \in SlashIds, ExecuteSlash(s) PROVE NotFrozenFree
  BY <1>3, <1>4, {s} \in SUBSET SlashIds DEF ExecuteSlash
<1>5. ASSUME NEW ids \in SUBSET SlashIds, ExecuteSlashBatch(ids) PROVE NotFrozenFree
  BY <1>3, <1>5, Matured(ids) \in SUBSET SlashIds DEF ExecuteSlashBatch, Matured
<1>6. ASSUME NEW t \in SlashIds, CancelSlash(t) PROVE NotFrozenFree
  <2>1. /\ \A s \in SlashIds : s # t => proposals'[s] = proposals[s]
        /\ proposals'[t].status = "Cancelled"
    <3>1. Settled(proposals[t]) \in SlashProposal
      BY SettledType DEF QueueTypeOK
    <3> QED
      BY <1>6, <3>1 DEF CancelSlash, QueueTypeOK, SlashProposal
  <2> QED
    BY <2>1, NothingDisputed
<1>7. ASSUME UNCHANGED proposals PROVE NotFrozenFree
  BY <1>7, NothingDisputed
<1> QED
  BY <1>1, <1>2, <1>4, <1>5, <1>6, <1>7
     DEF QueueNext, Tick, ClaimDisputeBond, SetSlashConfig, SetTreasury, slashVars

\* Whenever the configuration charges a bond, an operator's freeze is never extended
\* without one by the proposer, by the operator, or by the blueprint's own resolver
\* against a slash of its owner or of the slashing origin of that moment.
THEOREM FreezeCharged == Spec => NoFreeFreeze
<1>1. QueueTypeOK /\ [QueueNext]_slashVars => [NotFrozenFree]_slashVars
  BY FreezeStep
<1> QED
  BY <1>1, QueueRuns, QueueTypeCorrect, PTL DEF NoFreeFreeze, NotFrozenFree

-----------------------------------------------------------------------------
(* The bonds.  The bonds of the proposals are a function of the ids, and   *)
(* every step changes that function and the refunds by what it adds to, or *)
(* takes from, the ETH the core holds.                                     *)

Bond == [s \in SlashIds |-> proposals[s].bond]

\* Only a disputed proposal has a bond, and its disputer is known.
BondsNamed ==
  \A s \in SlashIds :
    proposals[s].bond # 0 =>
      proposals[s].status = "Disputed" /\ proposals[s].disputer \in Accounts

BondsInv == LedgerTypeOK /\ BondsNamed /\ BondsBacked

\* What the core must hold, as a sum over the ids and one over the accounts.
Backed == bondEth = SumFunctionOnSet(Bond, SlashIds) + SumFunctionOnSet(refunds, DOMAIN refunds)

LEMMA BondsForm ==
  /\ BondsBacked <=> Backed
  /\ \A ids \in SUBSET SlashIds : SumOfBonds(ids) = SumFunctionOnSet(Bond, ids)
<1>1. ASSUME NEW ids \in SUBSET SlashIds
      PROVE  SumOfBonds(ids) = SumFunctionOnSet(Bond, ids)
  <2>1. SumOfBonds(ids) = SumFunctionOnSet([s \in ids |-> proposals[s].bond], ids)
    BY DEF SumOfBonds, SumFunction
  <2>2. \A s \in ids : [t \in ids |-> proposals[t].bond][s] = Bond[s]
    BY DEF Bond
  <2> QED
    BY <2>1, <2>2, IdsFinite, SumSame
<1>2. SumOfBonds(SlashIds) = SumFunctionOnSet(Bond, SlashIds)
  BY <1>1
<1> QED
  BY <1>1, <1>2 DEF BondsBacked, Backed, SumFunction

\* The same in the next state, when the refunds keep their domain.
LEMMA BackedNext ==
  (bondEth' = SumFunctionOnSet(Bond', SlashIds) + SumFunctionOnSet(refunds', DOMAIN refunds'))
    => BondsBacked'
<1>1. (BondsBacked <=> Backed)'
  BY BondsForm, PTL
<1> QED
  BY <1>1 DEF Backed

\* The values that are summed.
LEMMA BondsNat ==
  ASSUME QueueTypeOK
  PROVE  /\ \A s \in SlashIds : Bond[s] \in Nat
         /\ \A ids \in SUBSET SlashIds : SumFunctionOnSet(Bond, ids) \in Nat
<1>1. \A s \in SlashIds : Bond[s] \in Nat
  BY DEF Bond, QueueTypeOK, SlashProposal
<1> QED
  BY <1>1, IdsFinite, SumTypeNat

LEMMA RefundsNat ==
  ASSUME LedgerTypeOK
  PROVE  /\ DOMAIN refunds = Accounts
         /\ \A a \in Accounts : refunds[a] \in Nat
         /\ SumFunctionOnSet(refunds, Accounts) \in Nat
<1>1. DOMAIN refunds = Accounts /\ \A a \in Accounts : refunds[a] \in Nat
  BY DEF LedgerTypeOK
<1> QED
  BY <1>1, AccountsAssumption, SumTypeNat

\* An account is credited some amount.
LEMMA RefundsCredited ==
  ASSUME LedgerTypeOK, NEW a \in Accounts, NEW n \in Int, refunds[a] + n \in Nat,
         refunds' = [refunds EXCEPT ![a] = @ + n]
  PROVE  /\ refunds' \in [Accounts -> Nat]
         /\ SumFunctionOnSet(refunds', Accounts) = SumFunctionOnSet(refunds, Accounts) + n
<1>1. refunds' \in [Accounts -> Nat] /\ refunds'[a] = refunds[a] + n
  BY DEF LedgerTypeOK
<1>2. \A x \in Accounts \ {a} : refunds[x] = refunds'[x]
  BY DEF LedgerTypeOK
<1>3. \A x \in Accounts : refunds[x] \in Int /\ refunds'[x] \in Int
  BY <1>1 DEF LedgerTypeOK
<1>4. SumFunctionOnSet(refunds', Accounts)
        = (SumFunctionOnSet(refunds, Accounts) + refunds'[a]) - refunds[a]
  <2> DEFINE f == refunds
             g == refunds'
             S == Accounts
  <2>1. /\ IsFiniteSet(S) /\ a \in S
        /\ \A x \in S : f[x] \in Int /\ g[x] \in Int
        /\ \A x \in S \ {a} : f[x] = g[x]
    BY <1>2, <1>3, AccountsAssumption
  <2> HIDE DEF f, g, S
  <2>2. SumFunctionOnSet(g, S) = (SumFunctionOnSet(f, S) + g[a]) - f[a]
    BY <2>1, SumOneChanges
  <2> QED
    BY <2>2 DEF f, g, S
<1>5. SumFunctionOnSet(refunds, Accounts) \in Int /\ refunds[a] \in Int
  BY RefundsNat
<1> QED
  BY <1>1, <1>4, <1>5

\* The bond of one proposal changes.
LEMMA BondChanges ==
  ASSUME QueueTypeOK, QueueTypeOK', NEW s \in SlashIds,
         \A t \in SlashIds \ {s} : proposals'[t] = proposals[t]
  PROVE  SumFunctionOnSet(Bond', SlashIds)
           = (SumFunctionOnSet(Bond, SlashIds) + proposals'[s].bond) - proposals[s].bond
<1>1. \A t \in SlashIds : Bond[t] \in Int /\ Bond'[t] \in Int
  BY DEF Bond, QueueTypeOK, SlashProposal
<1>2. \A t \in SlashIds \ {s} : Bond[t] = Bond'[t]
  BY DEF Bond
<1>3. Bond[s] = proposals[s].bond /\ Bond'[s] = proposals'[s].bond
  BY DEF Bond
<1> DEFINE f == Bond
           g == Bond'
<1>4. IsFiniteSet(SlashIds)
  BY IdsFinite
<1>5. \A t \in SlashIds : f[t] \in Int /\ g[t] \in Int
  BY <1>1
<1>6. \A t \in SlashIds \ {s} : f[t] = g[t]
  BY <1>2
<1>7. f[s] = proposals[s].bond /\ g[s] = proposals'[s].bond
  BY <1>3
<1> HIDE DEF f, g
<1>8. SumFunctionOnSet(g, SlashIds) = (SumFunctionOnSet(f, SlashIds) + g[s]) - f[s]
  BY <1>4, <1>5, <1>6, SumOneChanges
<1> QED
  BY <1>7, <1>8 DEF f, g

\* Settling clears the bond.
LEMMA SettledBond ==
  ASSUME NEW p \in SlashProposal PROVE Settled(p).bond = 0
BY DEF Settled, SlashProposal

LEMMA BondsInit == Init => BondsInv
<1> SUFFICES ASSUME Init PROVE BondsInv
  OBVIOUS
<1>1. LedgerTypeOK /\ BondsNamed
  BY DEF Init, LedgerTypeOK, BondsNamed, NoProposal
<1>2. \A s \in SlashIds : Bond[s] = 0
  BY DEF Init, Bond, NoProposal
<1>3. SumFunctionOnSet(Bond, SlashIds) = 0
  BY <1>2, IdsFinite, SumAllZero
<1>4. DOMAIN refunds = Accounts /\ \A a \in Accounts : refunds[a] = 0
  BY DEF Init
<1>5. SumFunctionOnSet(refunds, Accounts) = 0
  BY <1>4, AccountsAssumption, SumAllZero
<1>6. bondEth = 0
  BY DEF Init
<1> QED
  BY <1>1, <1>3, <1>4, <1>5, <1>6, BondsForm DEF BondsInv, Backed

\* A new proposal has no bond yet.
LEMMA ProposeBonds ==
  ASSUME QueueTypeOK, QueueTypeOK', BondsInv,
         NEW p \in Proposers, NEW o \in Operators, NEW b \in SlashBps,
         NEW e \in Exposures, NEW c \in Commitments, ProposeSlash(p, o, b, e, c)
  PROVE  BondsInv'
<1> DEFINE n == nextSlashId
<1>1. /\ n \in SlashIds /\ proposals[n].bond = 0 /\ proposals'[n].bond = 0
      /\ \A t \in SlashIds \ {n} : proposals'[t] = proposals[t]
  BY NumbersAssumption DEF ProposeSlash, QueueTypeOK, SlashIds, NoProposal
<1>2. /\ refunds' = refunds /\ bondEth' = bondEth /\ treasury' = treasury
  BY DEF ProposeSlash
<1>3. SumFunctionOnSet(Bond', SlashIds) = SumFunctionOnSet(Bond, SlashIds)
  BY <1>1, BondChanges, BondsNat
<1>4. BondsBacked'
  BY <1>2, <1>3, BondsForm, BackedNext DEF BondsInv, Backed
<1>5. BondsNamed'
  BY <1>1 DEF BondsInv, BondsNamed
<1> QED
  BY <1>2, <1>4, <1>5 DEF BondsInv, LedgerTypeOK

\* A dispute of a pending proposal posts the bond it records.
LEMMA DisputeBonds ==
  ASSUME QueueTypeOK, QueueTypeOK', BondsInv,
         NEW s \in SlashIds, NEW a \in Disputers, DisputeSlash(a, s)
  PROVE  BondsInv'
<1>1. PICK bond : /\ proposals' = [proposals EXCEPT ![s].status = "Disputed",
                                                    ![s].disputer = a, ![s].bond = bond,
                                                    ![s].deadline = now + config.deadline]
                  /\ bondEth' = bondEth + bond
  BY DEF DisputeSlash
<1>2. proposals \in [SlashIds -> SlashProposal] /\ proposals' \in [SlashIds -> SlashProposal]
  BY DEF QueueTypeOK
<1>3. proposals[s].status = "Pending" /\ refunds' = refunds /\ treasury' = treasury
  BY DEF DisputeSlash, IsDisputable
<1>4. proposals[s].bond = 0
  BY <1>3 DEF BondsInv, BondsNamed
<1>5. /\ proposals'[s].bond = bond /\ proposals'[s].status = "Disputed"
      /\ proposals'[s].disputer = a
      /\ \A t \in SlashIds \ {s} : proposals'[t] = proposals[t]
  BY <1>1, <1>2 DEF SlashProposal
<1>6. bond \in Nat
  BY <1>2, <1>5 DEF SlashProposal
<1>7. SumFunctionOnSet(Bond', SlashIds) = SumFunctionOnSet(Bond, SlashIds) + bond
  BY <1>4, <1>5, <1>6, BondChanges, BondsNat
<1>8. BondsBacked'
  <2>1. bondEth = SumFunctionOnSet(Bond, SlashIds) + SumFunctionOnSet(refunds, Accounts)
    BY BondsForm, RefundsNat DEF BondsInv, Backed
  <2>2. /\ SumFunctionOnSet(Bond, SlashIds) \in Nat
        /\ SumFunctionOnSet(refunds, Accounts) \in Nat /\ DOMAIN refunds = Accounts
    BY BondsNat, RefundsNat DEF BondsInv
  <2> QED
    BY <1>1, <1>3, <1>6, <1>7, <2>1, <2>2, BackedNext
<1>9. BondsNamed'
  BY <1>5 DEF BondsInv, BondsNamed, Accounts
<1>10. LedgerTypeOK'
  BY <1>1, <1>3, <1>6 DEF BondsInv, LedgerTypeOK
<1> QED
  BY <1>8, <1>9, <1>10 DEF BondsInv

\* An execution pays out or credits all the bonds of the executed proposals.
LEMMA ExecuteBonds ==
  ASSUME QueueTypeOK, QueueTypeOK', BondsInv, NEW ids \in SUBSET SlashIds, Execute(ids)
  PROVE  BondsInv'
<1> DEFINE Sum(b, S) == SumFunctionOnSet(b, S)
           rest == SlashIds \ ids
<1>1. PICK pushed \in SUBSET ids :
        /\ bondEth' = bondEth - SumOfBonds(pushed)
        /\ refunds' = [refunds EXCEPT ![treasury] = @ + SumOfBonds(ids \ pushed)]
  BY DEF Execute, ForfeitBonds
<1>2. treasury' = treasury /\ treasury \in Accounts /\ LedgerTypeOK
  BY DEF Execute, BondsInv, LedgerTypeOK, Accounts
<1>3. /\ \A t \in rest : proposals'[t] = proposals[t]
      /\ \A t \in ids : proposals'[t].bond = 0
  <2>1. \A t \in ids : /\ Settled(proposals[t]) \in SlashProposal
                       /\ Settled(proposals[t]).bond = 0
    BY SettledType, SettledBond DEF QueueTypeOK
  <2> QED
    BY <2>1 DEF Execute, SlashProposal
<1>4. /\ IsFiniteSet(ids) /\ IsFiniteSet(rest) /\ IsFiniteSet(pushed)
      /\ IsFiniteSet(ids \ pushed)
  BY IdsFinite
<1>5. /\ Sum(Bond, pushed) \in Nat /\ Sum(Bond, ids \ pushed) \in Nat
      /\ Sum(Bond, rest) \in Nat /\ Sum(Bond, ids) \in Nat
  BY BondsNat
<1>6. Sum(Bond, ids) = Sum(Bond, pushed) + Sum(Bond, ids \ pushed)
  <2>1. ids = pushed \union (ids \ pushed) /\ pushed \cap (ids \ pushed) = {}
    OBVIOUS
  <2>2. \A t \in pushed \union (ids \ pushed) : Bond[t] \in Int
    BY BondsNat
  <2>3. Sum(Bond, pushed \union (ids \ pushed)) = Sum(Bond, pushed) + Sum(Bond, ids \ pushed)
    BY <1>4, <2>1, <2>2, SumOfUnion
  <2> QED
    BY <2>1, <2>3
<1>7. Sum(Bond, SlashIds) = Sum(Bond, ids) + Sum(Bond, rest)
  <2>1. SlashIds = ids \union rest /\ ids \cap rest = {}
    OBVIOUS
  <2>2. \A t \in ids \union rest : Bond[t] \in Int
    BY BondsNat
  <2>3. Sum(Bond, ids \union rest) = Sum(Bond, ids) + Sum(Bond, rest)
    BY <1>4, <2>1, <2>2, SumOfUnion
  <2> QED
    BY <2>1, <2>3
<1>8. Sum(Bond', SlashIds) = Sum(Bond, rest)
  <2>1. \A t \in SlashIds : Bond'[t] \in Int
    BY DEF Bond, QueueTypeOK, SlashProposal
  <2>2. \A t \in SlashIds \ rest : Bond'[t] = 0
    BY <1>3 DEF Bond
  <2>3. \A t \in rest : Bond'[t] = Bond[t]
    BY <1>3 DEF Bond
  <2> DEFINE f == Bond
             g == Bond'
  <2>4. Sum(g, SlashIds) = Sum(g, rest)
    <3>1. IsFiniteSet(SlashIds) /\ rest \in SUBSET SlashIds
      BY IdsFinite
    <3>2. (\A t \in SlashIds : g[t] \in Int) /\ (\A t \in SlashIds \ rest : g[t] = 0)
      BY <2>1, <2>2
    <3> HIDE DEF g, rest
    <3> QED
      BY <3>1, <3>2, SumOverSupport
  <2>5. Sum(g, rest) = Sum(f, rest)
    <3>1. \A t \in rest : g[t] = f[t]
      BY <2>3
    <3> HIDE DEF f, g, rest
    <3> QED
      BY <1>4, <3>1, SumSame
  <2> QED
    BY <2>4, <2>5
<1>9. /\ SumOfBonds(pushed) = Sum(Bond, pushed)
      /\ SumOfBonds(ids \ pushed) = Sum(Bond, ids \ pushed)
  BY BondsForm
<1>10. /\ refunds' \in [Accounts -> Nat]
       /\ Sum(refunds', Accounts) = Sum(refunds, Accounts) + Sum(Bond, ids \ pushed)
  <2> DEFINE n == Sum(Bond, ids \ pushed)
  <2>1. refunds' = [refunds EXCEPT ![treasury] = @ + n] /\ n \in Nat
    BY <1>1, <1>5, <1>9
  <2> HIDE DEF n
  <2>2. refunds[treasury] + n \in Nat /\ n \in Int
    BY <1>2, <2>1 DEF LedgerTypeOK
  <2>3. /\ refunds' \in [Accounts -> Nat]
        /\ Sum(refunds', Accounts) = Sum(refunds, Accounts) + n
    BY <1>2, <2>1, <2>2, RefundsCredited, Zenon
  <2> QED
    BY <2>3 DEF n
<1>11. bondEth = Sum(Bond, SlashIds) + Sum(refunds, Accounts) /\ Sum(refunds, Accounts) \in Nat
  BY <1>2, BondsForm, RefundsNat DEF BondsInv, Backed
<1>12. DOMAIN refunds' = Accounts /\ bondEth' = bondEth - Sum(Bond, pushed)
  BY <1>1, <1>9, <1>10
<1>13. bondEth' = Sum(Bond', SlashIds) + Sum(refunds', Accounts)
  <2> HIDE DEF Sum
  <2> QED
    BY <1>5, <1>6, <1>7, <1>8, <1>10, <1>11, <1>12
<1>14. BondsBacked'
  BY <1>12, <1>13, BackedNext
<1>15. BondsNamed'
  BY <1>3 DEF BondsInv, BondsNamed
<1>16. LedgerTypeOK'
  BY <1>2, <1>5, <1>10, <1>12 DEF LedgerTypeOK
<1> QED
  BY <1>14, <1>15, <1>16 DEF BondsInv

\* A cancellation credits the bond to the account that disputed.
LEMMA CancelBonds ==
  ASSUME QueueTypeOK, QueueTypeOK', BondsInv, NEW s \in SlashIds, CancelSlash(s)
  PROVE  BondsInv'
<1> DEFINE p == proposals[s]
<1>1. p \in SlashProposal /\ Settled(p) \in SlashProposal /\ Settled(p).bond = 0
  BY SettledType, SettledBond DEF QueueTypeOK
<1>2. /\ proposals'[s].bond = 0
      /\ \A t \in SlashIds \ {s} : proposals'[t] = proposals[t]
  BY <1>1 DEF CancelSlash, QueueTypeOK, SlashProposal
<1>3. /\ refunds' = Refunded(p.disputer, p.bond) /\ bondEth' = bondEth /\ treasury' = treasury
  BY DEF CancelSlash
<1> DEFINE a == p.disputer
           n == p.bond
<1>4. n \in Nat /\ (n # 0 => a \in Accounts) /\ LedgerTypeOK
  BY <1>1 DEF SlashProposal, BondsInv, BondsNamed
<1>5. /\ SumFunctionOnSet(Bond', SlashIds) = (SumFunctionOnSet(Bond, SlashIds) + 0) - n
      /\ SumFunctionOnSet(Bond, SlashIds) \in Nat
  BY <1>2, BondChanges, BondsNat
<1> HIDE DEF a, n
<1>6. /\ refunds' \in [Accounts -> Nat]
      /\ SumFunctionOnSet(refunds', Accounts) = SumFunctionOnSet(refunds, Accounts) + n
  <2>1. CASE n = 0
    <3>1. refunds' = refunds
      BY <1>3, <2>1 DEF Refunded, n
    <3>2. SumFunctionOnSet(refunds, Accounts) \in Nat
      BY <1>4, RefundsNat
    <3> QED
      BY <1>4, <2>1, <3>1, <3>2 DEF LedgerTypeOK
  <2>2. CASE n # 0
    <3>1. refunds' = [refunds EXCEPT ![a] = @ + n] /\ a \in Accounts
      BY <1>3, <1>4, <2>2 DEF Refunded, a, n
    <3>2. refunds[a] + n \in Nat /\ n \in Int
      BY <1>4, <3>1 DEF LedgerTypeOK
    <3> QED
      BY <1>4, <3>1, <3>2, RefundsCredited, Zenon
  <2> QED
    BY <2>1, <2>2
<1>7. BondsBacked'
  <2>1. bondEth = SumFunctionOnSet(Bond, SlashIds) + SumFunctionOnSet(refunds, Accounts)
    BY <1>4, BondsForm, RefundsNat DEF BondsInv, Backed
  <2>2. SumFunctionOnSet(refunds, Accounts) \in Nat /\ DOMAIN refunds' = Accounts
    BY <1>4, <1>6, RefundsNat
  <2> QED
    BY <1>3, <1>4, <1>5, <1>6, <2>1, <2>2, BackedNext
<1>8. BondsNamed'
  BY <1>2 DEF BondsInv, BondsNamed
<1>9. LedgerTypeOK'
  BY <1>3, <1>4, <1>6 DEF LedgerTypeOK
<1> QED
  BY <1>7, <1>8, <1>9 DEF BondsInv

\* A claim pays out what the account was credited.
LEMMA ClaimBonds ==
  ASSUME QueueTypeOK, BondsInv, NEW a \in Accounts, ClaimDisputeBond(a)
  PROVE  BondsInv'
<1> DEFINE n == refunds[a]
<1>1. LedgerTypeOK /\ n \in Nat
  BY DEF BondsInv, LedgerTypeOK
<1>2. /\ refunds' = [refunds EXCEPT ![a] = 0] /\ bondEth' = bondEth - n
      /\ treasury' = treasury /\ proposals' = proposals /\ Bond' = Bond
  BY DEF ClaimDisputeBond, Bond
<1>3. /\ refunds' \in [Accounts -> Nat]
      /\ SumFunctionOnSet(refunds', Accounts) = SumFunctionOnSet(refunds, Accounts) + (0 - n)
  <2>0. refunds[a] + (0 - n) = 0
    BY <1>1
  <2>1. refunds' = [refunds EXCEPT ![a] = @ + (0 - n)]
    BY <2>0, <1>2, Zenon
  <2>2. refunds[a] + (0 - n) \in Nat /\ (0 - n) \in Int
    BY <1>1
  <2> HIDE DEF n
  <2> QED
    BY <1>1, <2>1, <2>2, RefundsCredited, Zenon
<1>4. BondsBacked'
  <2>1. bondEth = SumFunctionOnSet(Bond, SlashIds) + SumFunctionOnSet(refunds, Accounts)
    BY <1>1, BondsForm, RefundsNat DEF BondsInv, Backed
  <2>2. /\ SumFunctionOnSet(refunds, Accounts) \in Nat /\ DOMAIN refunds' = Accounts
        /\ SumFunctionOnSet(Bond, SlashIds) \in Nat
    BY <1>1, <1>3, RefundsNat, BondsNat
  <2> HIDE DEF n
  <2> QED
    BY <1>1, <1>2, <1>3, <2>1, <2>2, BackedNext
<1>5. BondsNamed'
  BY <1>2 DEF BondsInv, BondsNamed
<1>6. LedgerTypeOK'
  BY <1>1, <1>2, <1>3 DEF LedgerTypeOK
<1> QED
  BY <1>4, <1>5, <1>6 DEF BondsInv

LEMMA OthersBonds ==
  ASSUME BondsInv, UNCHANGED <<proposals, refunds, bondEth>>, treasury' \in Treasuries
  PROVE  BondsInv'
<1>1. Bond' = Bond
  BY DEF Bond
<1>2. BondsBacked'
  BY <1>1, BondsForm, BackedNext DEF BondsInv, Backed
<1> QED
  BY <1>2 DEF BondsInv, BondsNamed, LedgerTypeOK

LEMMA BondsStep ==
  QueueTypeOK /\ QueueTypeOK' /\ BondsInv /\ [QueueNext]_slashVars => BondsInv'
<1> SUFFICES ASSUME QueueTypeOK, QueueTypeOK', BondsInv, [QueueNext]_slashVars
             PROVE  BondsInv'
  OBVIOUS
<1>1. ASSUME NEW p \in Proposers, NEW o \in Operators, NEW b \in SlashBps,
             NEW e \in Exposures, NEW c \in Commitments, ProposeSlash(p, o, b, e, c)
      PROVE  BondsInv'
  BY <1>1, ProposeBonds
<1>2. ASSUME NEW s \in SlashIds, NEW a \in Disputers, DisputeSlash(a, s) PROVE BondsInv'
  BY <1>2, DisputeBonds
<1>3. ASSUME NEW s \in SlashIds, ExecuteSlash(s) PROVE BondsInv'
  BY <1>3, {s} \in SUBSET SlashIds, ExecuteBonds DEF ExecuteSlash
<1>4. ASSUME NEW ids \in SUBSET SlashIds, ExecuteSlashBatch(ids) PROVE BondsInv'
  BY <1>4, Matured(ids) \in SUBSET SlashIds, ExecuteBonds DEF ExecuteSlashBatch, Matured
<1>5. ASSUME NEW s \in SlashIds, CancelSlash(s) PROVE BondsInv'
  BY <1>5, CancelBonds
<1>6. ASSUME NEW a \in Accounts, ClaimDisputeBond(a) PROVE BondsInv'
  BY <1>6, ClaimBonds
<1>7. treasury \in Treasuries
  BY DEF BondsInv, LedgerTypeOK
<1>8. CASE Tick
  BY <1>7, <1>8, OthersBonds DEF Tick
<1>9. ASSUME NEW c \in Configs, SetSlashConfig(c) PROVE BondsInv'
  BY <1>7, <1>9, OthersBonds DEF SetSlashConfig
<1>10. ASSUME NEW t \in Treasuries, SetTreasury(t) PROVE BondsInv'
  BY <1>10, OthersBonds DEF SetTreasury
<1>11. CASE UNCHANGED slashVars
  BY <1>7, <1>11, OthersBonds DEF slashVars
<1> QED
  BY <1>1, <1>2, <1>3, <1>4, <1>5, <1>6, <1>8, <1>9, <1>10, <1>11 DEF QueueNext

\* The core holds the ETH of every bond that is posted or owed, to the last wei: no
\* settlement, pushed or credited, of one proposal or of a batch, pays a bond twice or
\* strands one.
THEOREM BondsBackedCorrect == Spec => []BondsBacked
<1>1. QueueTypeOK /\ BondsInv /\ [QueueNext]_slashVars => (QueueTypeOK /\ BondsInv)'
  BY TypeStep, BondsStep
<1>2. Init => QueueTypeOK /\ BondsInv
  BY InitType, BondsInit
<1>3. BondsInv => BondsBacked
  BY DEF BondsInv
<1> QED
  BY <1>1, <1>2, <1>3, QueueRuns, PTL

-----------------------------------------------------------------------------
\* What a proposer's snapshot reads: an operator that served has committed one of
\* the possible fractions.
ServiceOK ==
  /\ served \subseteq Operators
  /\ liveCommitment \in [Operators -> Nat]
  /\ \A o \in served : liveCommitment[o] \in Commitments

\* The counter in the staking layer is the counter in the core.
InStep == pendingSlashes = activeProposals

LEMMA ServiceInit == ProtocolInit => ServiceOK
BY DEF ProtocolInit, ServiceOK

LEMMA ServiceStep == ServiceOK /\ [ProtocolNext]_vars => ServiceOK'
<1> SUFFICES ASSUME ServiceOK, [ProtocolNext]_vars PROVE ServiceOK'
  OBVIOUS
<1>1. CASE UNCHANGED serviceVars
  BY <1>1 DEF ServiceOK, serviceVars
<1>2. ASSUME NEW o \in Operators, NEW c \in Commitments, EnterService(o, c)
      PROVE  ServiceOK'
  BY <1>2, NumbersAssumption DEF ServiceOK, EnterService
<1>3. ASSUME NEW o \in Operators, QuitService(o)
      PROVE  ServiceOK'
  BY <1>3 DEF ServiceOK, QuitService
<1>4. ASSUME NEW p \in Proposers, NEW o \in Operators, NEW b \in SlashBps,
             NEW e \in Exposures, Propose(p, o, b, e)
      PROVE  UNCHANGED serviceVars
  BY <1>4 DEF Propose
<1>5. ASSUME NEW s \in SlashIds, Cancel(s)
      PROVE  UNCHANGED serviceVars
  BY <1>5 DEF Cancel
<1>6. ASSUME NEW s \in SlashIds, ExecuteOne(s)
      PROVE  UNCHANGED serviceVars
  BY <1>6 DEF ExecuteOne
<1>7. ASSUME NEW ids \in SUBSET SlashIds, ExecuteBatch(ids)
      PROVE  UNCHANGED serviceVars
  BY <1>7 DEF ExecuteBatch
<1>8. QueueStep => UNCHANGED serviceVars
  BY DEF QueueStep
<1>9. BondStep => UNCHANGED serviceVars
  BY DEF BondStep
<1>10. ManagerStep => ServiceOK'
  BY DEF ManagerStep, ServiceOK
<1>11. UNCHANGED vars => UNCHANGED serviceVars
  BY DEF vars
<1> QED
  BY <1>1, <1>2, <1>3, <1>4, <1>5, <1>6, <1>7, <1>8, <1>9, <1>10, <1>11 DEF ProtocolNext

-----------------------------------------------------------------------------
\* What happens in the staking layer is, to the queue, that operators register and
\* leave.
LEMMA BondStepIsEnvironment ==
  BondStep => UNCHANGED slashVars /\ (EnvironmentNext \/ UNCHANGED environment)
<1> SUFFICES ASSUME BondStep
             PROVE  UNCHANGED slashVars /\ (EnvironmentNext \/ UNCHANGED environment)
  OBVIOUS
<1>1. UNCHANGED slashVars /\ UNCHANGED slashingOrigin
  BY DEF BondStep, serviceVars
<1>2. ASSUME NEW o \in Operators, NEW n, Bonds!OperatorStep(o, n)
      PROVE  EnvironmentNext \/ UNCHANGED registered
  <2>1. ASSUME NEW amount, Bonds!RegisterOperator(o, amount)
        PROVE  EnvironmentNext
    BY <1>1, <2>1 DEF Bonds!RegisterOperator, EnvironmentNext, Register
  <2>2. ASSUME Bonds!CompleteLeaving(o)
        PROVE  EnvironmentNext \/ UNCHANGED registered
    <3>1. registered' = registered \ {o}
      BY <2>2 DEF Bonds!CompleteLeaving
    <3>2. CASE o \in registered
      BY <1>1, <3>1, <3>2 DEF EnvironmentNext, Deregister
    <3>3. CASE o \notin registered
      BY <3>1, <3>3
    <3> QED
      BY <3>2, <3>3
  <2> QED
    BY <1>2, <2>1, <2>2
       DEF Bonds!OperatorStep, Bonds!IncreaseStake, Bonds!ScheduleUnstake,
           Bonds!ExecuteUnstake, Bonds!StartLeaving
<1>3. Bonds!AdvanceRound => UNCHANGED registered
  BY DEF Bonds!AdvanceRound
<1>4. ASSUME NEW d, Bonds!SetDelays(d) PROVE UNCHANGED registered
  BY <1>4 DEF Bonds!SetDelays
<1>5. EnvironmentNext \/ UNCHANGED registered
  BY <1>2, <1>3, <1>4 DEF BondStep
<1> QED
  BY <1>1, <1>5 DEF environment

\* Every step of the protocol is one of the queue or of its environment, or leaves
\* both alone.
LEMMA QueueStepOfProtocol ==
  ServiceOK /\ [ProtocolNext]_vars => [Next]_<<slashVars, environment>>
<1> SUFFICES ASSUME ServiceOK, [ProtocolNext]_vars
             PROVE  Next \/ UNCHANGED <<slashVars, environment>>
  OBVIOUS
<1>0. UNCHANGED bondVars /\ UNCHANGED serviceVars => UNCHANGED environment
  BY DEF bondVars, serviceVars, environment
<1>1. QueueStep => QueueNext /\ UNCHANGED environment
  <2>1. QueueStep => QueueNext
    BY DEF QueueStep, QueueNext
  <2>2. QueueStep => UNCHANGED bondVars /\ UNCHANGED serviceVars
    BY DEF QueueStep
  <2> QED
    BY <1>0, <2>1, <2>2
<1>2. BondStep => UNCHANGED slashVars /\ (EnvironmentNext \/ UNCHANGED environment)
  BY BondStepIsEnvironment
<1>3. ManagerStep => UNCHANGED slashVars /\ EnvironmentNext
  BY DEF ManagerStep, EnvironmentNext
<1>4. ASSUME NEW o \in Operators, NEW c \in Commitments, EnterService(o, c)
      PROVE  UNCHANGED slashVars /\ UNCHANGED environment
  BY <1>4 DEF EnterService, bondVars, environment
<1>5. ASSUME NEW o \in Operators, QuitService(o)
      PROVE  UNCHANGED slashVars /\ UNCHANGED environment
  BY <1>5 DEF QuitService, bondVars, environment
<1>6. ASSUME NEW p \in Proposers, NEW o \in Operators, NEW b \in SlashBps,
             NEW e \in Exposures, Propose(p, o, b, e)
      PROVE  QueueNext /\ UNCHANGED environment
  <2>1. liveCommitment[o] \in Commitments
    BY <1>6 DEF Propose, ServiceOK
  <2>2. ProposeSlash(p, o, b, e, liveCommitment[o])
    BY <1>6 DEF Propose
  <2>3. UNCHANGED registered /\ UNCHANGED slashingOrigin
    BY <1>6 DEF Propose, Bonds!IncrementPendingSlash, serviceVars
  <2> QED
    BY <2>1, <2>2, <2>3 DEF QueueNext, environment
<1>7. ASSUME NEW s \in SlashIds, Cancel(s)
      PROVE  QueueNext /\ UNCHANGED environment
  <2>1. UNCHANGED registered /\ UNCHANGED slashingOrigin
    BY <1>7 DEF Cancel, Bonds!DecrementPendingSlash, serviceVars
  <2> QED
    BY <1>7, <2>1 DEF Cancel, QueueNext, environment
<1>8. ASSUME NEW s \in SlashIds, ExecuteOne(s)
      PROVE  QueueNext /\ UNCHANGED environment
  <2>1. UNCHANGED registered /\ UNCHANGED slashingOrigin
    BY <1>8 DEF ExecuteOne, SlashBonds, serviceVars
  <2> QED
    BY <1>8, <2>1 DEF ExecuteOne, QueueNext, environment
<1>9. ASSUME NEW ids \in SUBSET SlashIds, ExecuteBatch(ids)
      PROVE  QueueNext /\ UNCHANGED environment
  <2>1. UNCHANGED registered /\ UNCHANGED slashingOrigin
    BY <1>9 DEF ExecuteBatch, SlashBonds, serviceVars
  <2> QED
    BY <1>9, <2>1 DEF ExecuteBatch, QueueNext, environment
<1>10. UNCHANGED vars => UNCHANGED slashVars /\ UNCHANGED environment
  BY <1>0 DEF vars
<1>11. \/ QueueNext /\ UNCHANGED environment
       \/ EnvironmentNext /\ UNCHANGED slashVars
       \/ UNCHANGED slashVars /\ UNCHANGED environment
  BY <1>1, <1>2, <1>3, <1>4, <1>5, <1>6, <1>7, <1>8, <1>9, <1>10 DEF ProtocolNext
<1> QED
  BY <1>11 DEF Next

\* The protocol's queue behaves as SlashProposals says: every theorem about Spec is
\* one about ProtocolSpec.
THEOREM ProtocolRunsTheQueue == ProtocolSpec => Spec
<1>1. ProtocolInit => Init /\ ServiceOK
  BY ServiceInit DEF ProtocolInit
<1>2. ServiceOK /\ [ProtocolNext]_vars => [Next]_<<slashVars, environment>> /\ ServiceOK'
  BY ServiceStep, QueueStepOfProtocol
<1> QED
  BY <1>1, <1>2, PTL DEF ProtocolSpec, Spec

-----------------------------------------------------------------------------
LEMMA InStepInit == ProtocolInit => InStep
BY DEF ProtocolInit, Init, Bonds!Init, InStep

\* Both contracts count the slashes of ids in the same way.
LEMMA ExecuteInStep ==
  ASSUME QueueTypeOK, InStep, NEW ids \in SUBSET SlashIds, NEW order,
         Execute(ids), SlashBonds(ids, order)
  PROVE  InStep'
<1>1. activeProposals' =
        [o \in Operators |-> Minus(activeProposals[o], CountAgainst(o, ids))]
  BY DEF Execute
<1>2. pendingSlashes' =
        [o \in Operators |-> Minus(pendingSlashes[o], CountAgainst(o, ids))]
  BY DEF SlashBonds, PendingAfter
<1> QED
  BY <1>1, <1>2 DEF InStep

LEMMA CancelInStep ==
  ASSUME QueueTypeOK, InStep, NEW s \in SlashIds, Cancel(s)
  PROVE  InStep'
<1> DEFINE o == proposals[s].operator
<1>1. /\ activeProposals' = [activeProposals EXCEPT ![o] = Minus(@, 1)]
      /\ pendingSlashes' = [pendingSlashes EXCEPT ![o] = IF @ > 0 THEN @ - 1 ELSE 0]
  BY DEF Cancel, CancelSlash, Bonds!DecrementPendingSlash
<1>2. Open(s)
  BY DEF Cancel, CancelSlash
<1>3. o \in Operators
  BY <1>2 DEF Open, Exists, QueueTypeOK, SlashProposal
<1>4. activeProposals \in [Operators -> Nat]
  BY DEF QueueTypeOK
<1>5. Minus(activeProposals[o], 1)
        = IF activeProposals[o] > 0 THEN activeProposals[o] - 1 ELSE 0
  BY <1>3, <1>4 DEF Minus
<1> HIDE DEF o
<1> QED
  BY <1>1, <1>3, <1>4, <1>5 DEF InStep

LEMMA ProposeInStep ==
  ASSUME InStep, NEW p, NEW o, NEW b, NEW e, Propose(p, o, b, e)
  PROVE  InStep'
<1>1. /\ activeProposals' = [activeProposals EXCEPT ![o] = @ + 1]
      /\ pendingSlashes' = [pendingSlashes EXCEPT ![o] = @ + 1]
  BY DEF Propose, ProposeSlash, Bonds!IncrementPendingSlash
<1> QED
  BY <1>1 DEF InStep

\* What an operator, the rounds or the admin's delays do leaves the counter alone.
LEMMA BondStepKeepsCounter == BondStep => UNCHANGED <<pendingSlashes, activeProposals>>
<1> SUFFICES ASSUME BondStep PROVE UNCHANGED <<pendingSlashes, activeProposals>>
  OBVIOUS
<1>1. UNCHANGED activeProposals
  BY DEF BondStep, slashVars
<1>2. ASSUME NEW o, NEW n, Bonds!OperatorStep(o, n)
      PROVE  UNCHANGED pendingSlashes
  BY <1>2 DEF Bonds!OperatorStep, Bonds!RegisterOperator, Bonds!IncreaseStake,
              Bonds!ScheduleUnstake, Bonds!ExecuteUnstake, Bonds!StartLeaving,
              Bonds!CompleteLeaving
<1>3. Bonds!AdvanceRound => UNCHANGED pendingSlashes
  BY DEF Bonds!AdvanceRound
<1>4. ASSUME NEW d, Bonds!SetDelays(d)
      PROVE  UNCHANGED pendingSlashes
  BY <1>4 DEF Bonds!SetDelays
<1> QED
  BY <1>1, <1>2, <1>3, <1>4 DEF BondStep

LEMMA QueueStepKeepsCounters == QueueStep => UNCHANGED <<pendingSlashes, activeProposals>>
<1> SUFFICES ASSUME QueueStep PROVE UNCHANGED <<pendingSlashes, activeProposals>>
  OBVIOUS
<1>1. UNCHANGED pendingSlashes
  BY DEF QueueStep, bondVars
<1>2. Tick => UNCHANGED activeProposals
  BY DEF Tick
<1>3. ASSUME NEW s, NEW a, DisputeSlash(a, s) PROVE UNCHANGED activeProposals
  BY <1>3 DEF DisputeSlash
<1>4. ASSUME NEW a, ClaimDisputeBond(a) PROVE UNCHANGED activeProposals
  BY <1>4 DEF ClaimDisputeBond
<1>5. ASSUME NEW c, SetSlashConfig(c) PROVE UNCHANGED activeProposals
  BY <1>5 DEF SetSlashConfig
<1>6. ASSUME NEW t, SetTreasury(t) PROVE UNCHANGED activeProposals
  BY <1>6 DEF SetTreasury
<1> QED
  BY <1>1, <1>2, <1>3, <1>4, <1>5, <1>6 DEF QueueStep

LEMMA InStepStep == QueueTypeOK /\ InStep /\ [ProtocolNext]_vars => InStep'
<1> SUFFICES ASSUME QueueTypeOK, InStep, [ProtocolNext]_vars PROVE InStep'
  OBVIOUS
<1>1. UNCHANGED <<pendingSlashes, activeProposals>> => InStep'
  BY DEF InStep
<1>2. ASSUME NEW o, NEW c, EnterService(o, c)
      PROVE  UNCHANGED <<pendingSlashes, activeProposals>>
  BY <1>2 DEF EnterService, bondVars, slashVars
<1>3. ASSUME NEW o, QuitService(o)
      PROVE  UNCHANGED <<pendingSlashes, activeProposals>>
  BY <1>3 DEF QuitService, bondVars, slashVars
<1>4. ASSUME NEW s \in SlashIds, ExecuteOne(s)
      PROVE  InStep'
  <2>1. Execute({s}) /\ SlashBonds({s}, <<s>>)
    BY <1>4 DEF ExecuteOne, ExecuteSlash
  <2> QED
    BY <2>1, ExecuteInStep
<1>5. ASSUME NEW ids \in SUBSET SlashIds, ExecuteBatch(ids)
      PROVE  InStep'
  <2> DEFINE executable == {s \in ids : IsExecutable(s)}
  <2>1. PICK order : SlashBonds(executable, order)
    BY <1>5 DEF ExecuteBatch
  <2>2. Execute(executable)
    BY <1>5 DEF ExecuteBatch, ExecuteSlashBatch
  <2>3. executable \in SUBSET SlashIds
    OBVIOUS
  <2> HIDE DEF executable
  <2> QED
    BY <2>1, <2>2, <2>3, ExecuteInStep
<1>6. ManagerStep => UNCHANGED <<pendingSlashes, activeProposals>>
  BY DEF ManagerStep, bondVars, slashVars
<1>7. UNCHANGED vars => UNCHANGED <<pendingSlashes, activeProposals>>
  BY DEF vars, bondVars, slashVars
<1> QED
  BY <1>1, <1>2, <1>3, <1>4, <1>5, <1>6, <1>7, CancelInStep, ProposeInStep,
     BondStepKeepsCounter, QueueStepKeepsCounters DEF ProtocolNext

\* The withdrawal freeze, the proposal cap and the queue never drift apart: the
\* number of open proposals, the core's counter and the staking layer's counter are
\* one number for every operator.
THEOREM CountersInStepCorrect == ProtocolSpec => []CountersInStep
<1>1. QueueTypeOK /\ TrackerCountsOpen /\ InStep => CountersInStep
  BY DEF InStep, TrackerCountsOpen, CountersInStep
<1>2. QueueTypeOK /\ InStep /\ [ProtocolNext]_vars => InStep'
  BY InStepStep
<1>3. ProtocolInit => InStep
  BY InStepInit
<1> QED
  BY <1>1, <1>2, <1>3, ProtocolRunsTheQueue, QueueTypeCorrect, TrackerCorrect, PTL
     DEF ProtocolSpec

-----------------------------------------------------------------------------
\* paidOut is a function on the operators: a payment to one is none to another.
PaidOutDefined == paidOut = [o \in Operators |-> paidOut[o]]

\* What a payment out of a bond requires.
PaidThawed ==
  \A o \in Operators :
    OpenSlashes(o) # {} /\ paidOut'[o] # paidOut[o] => status[o] = "Leaving"

\* An open proposal shows in the staking layer's counter.
LEMMA OpenMeansPending ==
  ASSUME TrackerCountsOpen, InStep, NEW o \in Operators, OpenSlashes(o) # {}
  PROVE  pendingSlashes[o] # 0
<1>1. OpenSlashes(o) \in SUBSET SlashIds
  BY DEF OpenSlashes
<1>2. Cardinality(OpenSlashes(o)) # 0
  BY <1>1, IdsFinite, FS_EmptySet
<1> QED
  BY <1>2 DEF TrackerCountsOpen, InStep

LEMMA UnstakeThawed ==
  ASSUME TrackerCountsOpen, InStep, PaidOutDefined, NEW p \in Operators,
         Bonds!ExecuteUnstake(p)
  PROVE  PaidThawed /\ PaidOutDefined'
<1>1. pendingSlashes[p] = 0
  BY DEF Bonds!ExecuteUnstake, Bonds!Unlocked
<1>2. PICK v : paidOut' = [paidOut EXCEPT ![p] = v]
  BY DEF Bonds!ExecuteUnstake
<1>3. \A o \in Operators : o # p => paidOut'[o] = paidOut[o]
  BY <1>2 DEF PaidOutDefined
<1> QED
  BY <1>1, <1>2, <1>3, OpenMeansPending DEF PaidThawed, PaidOutDefined

LEMMA ExitThawed ==
  ASSUME PaidOutDefined, NEW p \in Operators, Bonds!CompleteLeaving(p)
  PROVE  PaidThawed /\ PaidOutDefined'
<1>1. status[p] = "Leaving"
  BY DEF Bonds!CompleteLeaving
<1>2. PICK v : paidOut' = [paidOut EXCEPT ![p] = v]
  BY DEF Bonds!CompleteLeaving
<1> QED
  BY <1>1, <1>2 DEF PaidThawed, PaidOutDefined

LEMMA PaidOutInit == ProtocolInit => PaidOutDefined
BY DEF ProtocolInit, Bonds!Init, PaidOutDefined

LEMMA PaidOutStep ==
  TrackerCountsOpen /\ InStep /\ PaidOutDefined /\ [ProtocolNext]_vars
    => PaidThawed /\ PaidOutDefined'
<1> SUFFICES ASSUME TrackerCountsOpen, InStep, PaidOutDefined, [ProtocolNext]_vars
             PROVE  PaidThawed /\ PaidOutDefined'
  OBVIOUS
<1>1. UNCHANGED paidOut => PaidThawed /\ PaidOutDefined'
  BY DEF PaidThawed, PaidOutDefined
<1>2. QueueStep => UNCHANGED paidOut
  BY DEF QueueStep, bondVars
<1>3. ASSUME NEW o \in Operators, NEW n, Bonds!OperatorStep(o, n)
      PROVE  PaidThawed /\ PaidOutDefined'
  <2>1. \/ Bonds!ExecuteUnstake(o)
        \/ Bonds!CompleteLeaving(o)
        \/ UNCHANGED paidOut
    BY <1>3 DEF Bonds!OperatorStep, Bonds!RegisterOperator, Bonds!IncreaseStake,
                Bonds!ScheduleUnstake, Bonds!StartLeaving
  <2> QED
    BY <1>1, <2>1, UnstakeThawed, ExitThawed
<1>4. Bonds!AdvanceRound => UNCHANGED paidOut
  BY DEF Bonds!AdvanceRound
<1>5. ASSUME NEW d, Bonds!SetDelays(d) PROVE UNCHANGED paidOut
  BY <1>5 DEF Bonds!SetDelays
<1>6. BondStep => PaidThawed /\ PaidOutDefined'
  BY <1>1, <1>3, <1>4, <1>5 DEF BondStep
<1>7. ASSUME NEW o, NEW c, EnterService(o, c) PROVE UNCHANGED paidOut
  BY <1>7 DEF EnterService, bondVars
<1>8. ASSUME NEW o, QuitService(o) PROVE UNCHANGED paidOut
  BY <1>8 DEF QuitService, bondVars
<1>9. ASSUME NEW p, NEW o, NEW b, NEW e, Propose(p, o, b, e) PROVE UNCHANGED paidOut
  BY <1>9 DEF Propose, Bonds!IncrementPendingSlash
<1>10. ASSUME NEW s, Cancel(s) PROVE UNCHANGED paidOut
  BY <1>10 DEF Cancel, Bonds!DecrementPendingSlash
<1>11. ASSUME NEW s, ExecuteOne(s) PROVE UNCHANGED paidOut
  BY <1>11 DEF ExecuteOne, SlashBonds
<1>12. ASSUME NEW ids, ExecuteBatch(ids) PROVE UNCHANGED paidOut
  BY <1>12 DEF ExecuteBatch, SlashBonds
<1>13. ManagerStep => UNCHANGED paidOut
  BY DEF ManagerStep, bondVars
<1>14. UNCHANGED vars => UNCHANGED paidOut
  BY DEF vars, bondVars
<1> QED
  BY <1>1, <1>2, <1>6, <1>7, <1>8, <1>9, <1>10, <1>11, <1>12, <1>13, <1>14
     DEF ProtocolNext

\* While a proposal against an operator is open, and unless it was already leaving,
\* nothing is paid out of its bond: the two contracts together freeze the bond for
\* the whole life of the slash.
THEOREM BondFrozenCorrect == ProtocolSpec => BondFrozen
<1>1. TrackerCountsOpen /\ InStep /\ PaidOutDefined /\ [ProtocolNext]_vars
        => [PaidThawed]_vars /\ PaidOutDefined'
  BY PaidOutStep
<1>2. ProtocolInit => InStep /\ PaidOutDefined
  BY InStepInit, PaidOutInit
<1>3. QueueTypeOK /\ InStep /\ [ProtocolNext]_vars => InStep'
  BY InStepStep
<1> QED
  BY <1>1, <1>2, <1>3, ProtocolRunsTheQueue, QueueTypeCorrect, TrackerCorrect, PTL
     DEF ProtocolSpec, BondFrozen, PaidThawed
-----------------------------------------------------------------------------
(* What is left of a bond after an order of slashes: the fold of BondAfter *)
(* is a recursive function on the sets of indices, which takes away the    *)
(* largest index first.                                                    *)

\* The largest index is a member.
LEMMA MaxMember ==
  ASSUME NEW n \in Nat, NEW s \in SUBSET (1 .. n), s # {}
  PROVE  Max(s) \in s /\ s \ {Max(s)} \in SUBSET s /\ s \ {Max(s)} # s
<1>1. Largest(s) \in s
  BY LargestMember
<1>2. Max(s) = Largest(s)
  BY DEF Max, Largest
<1> QED
  BY <1>1, <1>2

\* What is left of a bond of o after slash t.
AfterCut(o, t, bond) ==
  IF proposals[t].operator = o THEN bond - (bond * RateOf(t)) \div BPS ELSE bond

Remainder(f, o, order, s) ==
  IF s = {} THEN stake[o]
  ELSE AfterCut(o, order[Max(s)], f[s \ {Max(s)}])

Cuts(f, o, order, S) == f = [s \in SUBSET S |-> Remainder(f, o, order, s)]

LEMMA BondAfterIsRecursive ==
  ASSUME NEW o, NEW order
  PROVE  BondAfter(o, order)
           = (CHOOSE f : Cuts(f, o, order, DOMAIN order))[DOMAIN order]
BY Zenon DEF BondAfter, FoldLeft, MapThenFoldSet, Cuts, Remainder, AfterCut

LEMMA CutsValue ==
  ASSUME NEW f, NEW o, NEW order, NEW S, Cuts(f, o, order, S), NEW s \in SUBSET S
  PROVE  f[s] = Remainder(f, o, order, s)
<1> DEFINE h == [u \in SUBSET S |-> Remainder(f, o, order, u)]
<1>1. f = h
  BY DEF Cuts
<1>2. h[s] = Remainder(f, o, order, s)
  OBVIOUS
<1> HIDE DEF h
<1> QED
  BY <1>1, <1>2

\* Two such functions agree wherever both are defined.
LEMMA CutsAgree ==
  ASSUME NEW o, NEW order, NEW S, Indexes(S), NEW T, T \subseteq S,
         NEW f, NEW h, Cuts(f, o, order, S), Cuts(h, o, order, T)
  PROVE  f[T] = h[T]
<1> PICK n \in Nat : S \in SUBSET (1 .. n)
  BY DEF Indexes
<1> DEFINE F == {s \in SUBSET T : f[s] # h[s]}
<1> SUFFICES ASSUME f[T] # h[T] PROVE FALSE
  OBVIOUS
<1>0. F \subseteq SUBSET S /\ IsFiniteSet(S)
  <2>1. F \subseteq SUBSET S
    OBVIOUS
  <2> QED
    BY <2>1, IndicesFinite
<1>1. PICK s \in F : \A u \in F : u \subseteq s => u = s
  <2>1. F # {}
    OBVIOUS
  <2> DEFINE R == S
  <2>2. F \subseteq SUBSET R
    BY <1>0
  <2>3. IsFiniteSet(R)
    BY <1>0
  <2> HIDE DEF F, R
  <2> QED
    BY ONLY <2>1, <2>2, <2>3, SmallestMember
<1>2. s \in SUBSET S /\ s \in SUBSET T /\ s \in SUBSET (1 .. n)
  OBVIOUS
<1>3. f[s] = Remainder(f, o, order, s) /\ h[s] = Remainder(h, o, order, s)
  BY <1>2, CutsValue
<1>4. CASE s = {}
  BY <1>3, <1>4 DEF Remainder
<1>5. CASE s # {}
  <2>1. Max(s) \in s /\ s \ {Max(s)} \in SUBSET s /\ s \ {Max(s)} # s
    BY <1>2, <1>5, MaxMember
  <2>2. s \ {Max(s)} \notin F
    BY <1>1, <2>1
  <2>3. f[s \ {Max(s)}] = h[s \ {Max(s)}]
    BY <2>1, <2>2
  <2> QED
    BY <1>3, <1>5, <2>3 DEF Remainder
<1> QED
  BY <1>4, <1>5

LEMMA CutsExist ==
  ASSUME NEW o, NEW order, NEW n \in Nat, NEW S \in SUBSET (1 .. n)
  PROVE  \A T \in SUBSET S : \E f : Cuts(f, o, order, T)
<1> DEFINE F == {T \in SUBSET S : ~ \E f : Cuts(f, o, order, T)}
           V(u) == (CHOOSE f : Cuts(f, o, order, u))[u]
           W(u) == IF u = {} THEN stake[o]
                   ELSE AfterCut(o, order[Max(u)], V(u \ {Max(u)}))
<1> SUFFICES ASSUME F # {} PROVE FALSE
  OBVIOUS
<1>0. F \subseteq SUBSET S /\ IsFiniteSet(S)
  BY IndicesFinite
<1>1. PICK T \in F : \A U \in F : U \subseteq T => U = T
  <2>1. F # {}
    OBVIOUS
  <2> DEFINE R == S
  <2>2. F \subseteq SUBSET R
    BY <1>0
  <2>3. IsFiniteSet(R)
    BY <1>0
  <2> HIDE DEF F, R
  <2> QED
    BY ONLY <2>1, <2>2, <2>3, SmallestMember
<1>2. ASSUME NEW v \in SUBSET T, v # T PROVE V(v) = W(v)
  <2> DEFINE f == CHOOSE f : Cuts(f, o, order, v)
             w == v \ {Max(v)}
  <2>1. Cuts(f, o, order, v)
    BY <1>1, <1>2
  <2>2. f[v] = Remainder(f, o, order, v)
    <3>1. v \in SUBSET v
      OBVIOUS
    <3> QED
      BY <2>1, <3>1, CutsValue
  <2>3. CASE v = {}
    BY <2>2, <2>3 DEF Remainder
  <2>4. CASE v # {}
    <3>0. v \in SUBSET (1 .. n)
      OBVIOUS
    <3>1. w \in SUBSET v /\ w # v
      BY <2>4, <3>0, MaxMember
    <3>2. w \in SUBSET T /\ w # T
      BY <3>1, <1>2
    <3>3. Cuts(CHOOSE h : Cuts(h, o, order, w), o, order, w)
      BY <1>1, <3>2
    <3>4. f[w] = V(w)
      <4> DEFINE h == CHOOSE h : Cuts(h, o, order, w)
      <4>1. Cuts(h, o, order, w)
        BY <3>3
      <4> HIDE DEF f, h, w
      <4>3. f[w] = h[w]
        <5> DEFINE q == v
        <5>1. w \subseteq q
          BY <3>1
        <5>2. Indexes(q)
          BY <3>0 DEF Indexes
        <5>3. Cuts(f, o, order, q)
          BY <2>1
        <5> HIDE DEF q
        <5> QED
          BY ONLY <4>1, <5>1, <5>2, <5>3, CutsAgree
      <4> QED
        BY <4>3 DEF h
    <3>5. f[v] = AfterCut(o, order[Max(v)], f[w])
      BY <2>2, <2>4 DEF Remainder
    <3>6. W(v) = AfterCut(o, order[Max(v)], V(w))
      BY <2>4
    <3>7. V(v) = f[v]
      OBVIOUS
    <3> HIDE DEF V, W, f, w
    <3> QED
      BY <3>4, <3>5, <3>6, <3>7
  <2> QED
    BY <2>3, <2>4
<1>3. Cuts([u \in SUBSET T |-> W(u)], o, order, T)
  <2> DEFINE f == [u \in SUBSET T |-> W(u)]
             E(u) == Remainder(f, o, order, u)
  <2> SUFFICES ASSUME NEW u \in SUBSET T PROVE W(u) = E(u)
    <3>1. [u \in SUBSET T |-> W(u)] = [u \in SUBSET T |-> E(u)]
      <4> HIDE DEF W, E
      <4> QED
        OBVIOUS
    <3> QED
      BY <3>1 DEF Cuts
  <2>1. CASE u = {}
    BY <2>1 DEF Remainder
  <2>2. CASE u # {}
    <3>0. u \in SUBSET (1 .. n)
      OBVIOUS
    <3>1. u \ {Max(u)} \in SUBSET T /\ u \ {Max(u)} # T
      BY <2>2, <3>0, MaxMember
    <3>2. f[u \ {Max(u)}] = V(u \ {Max(u)})
      BY <3>1, <1>2
    <3> QED
      BY <2>2, <3>2 DEF Remainder
  <2> QED
    BY <2>1, <2>2
<1> QED
  BY <1>1, <1>3

-----------------------------------------------------------------------------
\* The bonds are integers, and what an open slash carries is what was owed when it
\* was proposed.
BondInts ==
  /\ stake \in [Operators -> Int]
  /\ slashed \in [Operators -> Int]
  /\ unstakeReq \in [Operators -> [amount : Int, round : Int]]
  /\ currentRound \in Int

Snapshots ==
  /\ owedAt \in [SlashIds -> Nat]
  /\ \A s \in SlashIds : Open(s) => proposals[s].commit = owedAt[s]

LEMMA QuotientNat ==
  ASSUME NEW n \in Nat, NEW d \in Nat \ {0}
  PROVE  n \div d \in Nat
OBVIOUS

LEMMA QuotientInt ==
  ASSUME NEW n \in Int, NEW d \in Nat \ {0}
  PROVE  n \div d \in Int
OBVIOUS

LEMMA ProductNat ==
  ASSUME NEW m \in Nat, NEW n \in Nat
  PROVE  m * n \in Nat
OBVIOUS

LEMMA ProductInt ==
  ASSUME NEW m \in Int, NEW n \in Int
  PROVE  m * n \in Int
OBVIOUS

LEMMA RateType ==
  ASSUME QueueTypeOK, NEW s \in SlashIds
  PROVE  RateOf(s) \in Nat
<1> DEFINE b == proposals[s].bps
           c == proposals[s].commit
<1>1. b \in Nat /\ c \in Nat
  BY DEF QueueTypeOK, SlashProposal
<1> HIDE DEF b, c
<1>2. (b * c) \div BPS \in Nat
  BY <1>1, ProductNat, QuotientNat, NumbersAssumption
<1>3. Rate(b, c) \in Nat
  BY <1>2 DEF Rate
<1> QED
  BY <1>3 DEF RateOf, b, c

LEMMA CutType ==
  ASSUME QueueTypeOK, NEW s \in SlashIds, NEW o, NEW bond \in Int
  PROVE  /\ (bond * RateOf(s)) \div BPS \in Int
         /\ AfterCut(o, s, bond) \in Int
<1> DEFINE r == RateOf(s)
<1>1. r \in Int
  BY RateType
<1> HIDE DEF r
<1>2. bond * r \in Int
  BY <1>1, ProductInt
<1> DEFINE q == bond * r
<1>3. q \in Int
  BY <1>2
<1> HIDE DEF q
<1>4. q \div BPS \in Int
  BY <1>3, QuotientInt, NumbersAssumption
<1>5. (bond * RateOf(s)) \div BPS \in Int
  BY <1>4 DEF q, r
<1> DEFINE x == (bond * RateOf(s)) \div BPS
<1>6. AfterCut(o, s, bond) = IF proposals[s].operator = o THEN bond - x ELSE bond
  BY DEF AfterCut
<1>7. x \in Int
  BY <1>5
<1> HIDE DEF x
<1>8. AfterCut(o, s, bond) \in Int
  BY <1>6, <1>7
<1> QED
  BY <1>5, <1>8

\* Whatever the order, what is left of a bond is an integer.
LEMMA BondAfterType ==
  ASSUME QueueTypeOK, BondInts, NEW o \in Operators, NEW n \in Nat, NEW order,
         DOMAIN order = 1 .. n, \A k \in 1 .. n : order[k] \in SlashIds
  PROVE  BondAfter(o, order) \in Int
<1> DEFINE D == 1 .. n
           f == CHOOSE f : Cuts(f, o, order, D)
           F == {T \in SUBSET D : f[T] \notin Int}
<1>1. BondAfter(o, order) = f[D]
  BY BondAfterIsRecursive
<1>2. Cuts(f, o, order, D)
  <2>1. D \in SUBSET (1 .. n) /\ D \in SUBSET D
    OBVIOUS
  <2>2. \E h : Cuts(h, o, order, D)
    BY <2>1, CutsExist
  <2> QED
    BY <2>2
<1> HIDE DEF f
<1>3. F = {}
  <2> SUFFICES ASSUME F # {} PROVE FALSE
    OBVIOUS
  <2>1. F \subseteq SUBSET D /\ IsFiniteSet(D)
    BY IndicesFinite
  <2>2. PICK T \in F : \A U \in F : U \subseteq T => U = T
    <3> HIDE DEF F, D
    <3> QED
      BY <2>1, SmallestMember
  <2>3. T \in SUBSET D /\ f[T] \notin Int
    OBVIOUS
  <2>4. f[T] = Remainder(f, o, order, T)
    <3> HIDE DEF D
    <3> QED
      BY <1>2, <2>3, CutsValue
  <2>5. CASE T = {}
    BY <2>3, <2>4, <2>5 DEF Remainder, BondInts
  <2>6. CASE T # {}
    <3> DEFINE m == Max(T)
               t == order[m]
               bond == f[T \ {m}]
    <3>1. m \in T /\ T \ {m} \in SUBSET T /\ T \ {m} # T
      BY <2>3, <2>6, MaxMember
    <3>2. bond \in Int
      BY <2>2, <2>3, <3>1
    <3>3. t \in SlashIds
      BY <2>3, <3>1
    <3>4. f[T] = AfterCut(o, t, bond)
      BY <2>4, <2>6 DEF Remainder
    <3> HIDE DEF t, bond
    <3> QED
      BY <2>3, <3>2, <3>3, <3>4, CutType
  <2> QED
    BY <2>5, <2>6
<1>4. D \in SUBSET D
  OBVIOUS
<1> QED
  BY <1>1, <1>3, <1>4

\* One slash on its own takes its rate of the bond.
LEMMA BondAfterOne ==
  ASSUME NEW s \in SlashIds, NEW order, DOMAIN order = 1 .. 1, order[1] = s
  PROVE  BondAfter(proposals[s].operator, order)
           = stake[proposals[s].operator]
             - (stake[proposals[s].operator] * RateOf(s)) \div BPS
<1> DEFINE o == proposals[s].operator
           D == 1 .. 1
           f == CHOOSE f : Cuts(f, o, order, D)
<1>1. BondAfter(o, order) = f[D]
  BY BondAfterIsRecursive
<1>2. D = {1} /\ D # {} /\ {} \in SUBSET D /\ D \in SUBSET D
  OBVIOUS
<1>3. Max(D) = 1
  <2>1. D \in SUBSET (1 .. 1) /\ 1 \in Nat
    OBVIOUS
  <2>2. Max(D) \in D
    BY <1>2, <2>1, MaxMember
  <2> QED
    BY <1>2, <2>2
<1>4. Cuts(f, o, order, D)
  <2>1. D \in SUBSET (1 .. 1) /\ 1 \in Nat
    OBVIOUS
  <2>2. \E h : Cuts(h, o, order, D)
    BY <1>2, <2>1, CutsExist
  <2> QED
    BY <2>2
<1>5. D \ {Max(D)} = {}
  BY <1>2, <1>3
<1> HIDE DEF f, D
<1>6. f[D] = Remainder(f, o, order, D) /\ f[{}] = Remainder(f, o, order, {})
  BY <1>2, <1>4, CutsValue
<1>7. f[{}] = stake[o]
  BY <1>6 DEF Remainder
<1>8. f[D] = AfterCut(o, order[1], f[{}])
  BY <1>2, <1>3, <1>5, <1>6 DEF Remainder
<1>9. AfterCut(o, s, stake[o]) = stake[o] - (stake[o] * RateOf(s)) \div BPS
  BY DEF AfterCut
<1> QED
  BY <1>1, <1>7, <1>8, <1>9

-----------------------------------------------------------------------------
\* The slashes this step executes, and what SlashTakesWhatWasOwed says of a step.
NewlyExecuted == {t \in SlashIds : /\ proposals[t].status # "Executed"
                                   /\ proposals'[t].status = "Executed"}

TakenAsOwed ==
  \A s \in SlashIds :
    NewlyExecuted = {s} =>
      slashed'[proposals[s].operator] - slashed[proposals[s].operator]
        = (stake[proposals[s].operator] * Rate(proposals[s].bps, owedAt[s])) \div BPS

\* What an execution of ids in some order does to the bonds: each order is a
\* sequence of members of ids.
LEMMA OrderOfSet ==
  ASSUME NEW ids \in SUBSET SlashIds, NEW order \in SetToSeqs(ids)
  PROVE  /\ \E n \in Nat : DOMAIN order = 1 .. n /\ \A k \in 1 .. n : order[k] \in SlashIds
         /\ \A s \in ids : ids = {s} => DOMAIN order = 1 .. 1 /\ order[1] = s
<1> DEFINE n == Cardinality(ids)
<1>1. n \in Nat
  BY IdsFinite, FS_CardinalityType
<1>2. order \in [1 .. n -> ids]
  BY DEF SetToSeqs
<1>3. \A s : Cardinality({s}) = 1
  BY FS_Singleton
<1> HIDE DEF n
<1>4. \A k \in 1 .. n : order[k] \in SlashIds
  BY <1>2
<1>5. \E m \in Nat : DOMAIN order = 1 .. m /\ \A k \in 1 .. m : order[k] \in SlashIds
  BY <1>1, <1>2, <1>4
<1>6. ASSUME NEW s \in ids, ids = {s} PROVE DOMAIN order = 1 .. 1 /\ order[1] = s
  <2>1. n = 1
    BY <1>3, <1>6 DEF n
  <2> QED
    BY <1>2, <1>6, <2>1
<1> QED
  BY <1>5, <1>6

LEMMA ExecuteInts ==
  ASSUME QueueTypeOK, BondInts, NEW ids, NEW order, SlashBonds(ids, order),
         NEW n \in Nat, DOMAIN order = 1 .. n, \A k \in 1 .. n : order[k] \in SlashIds
  PROVE  BondInts'
<1>1. \A o \in Operators : BondAfter(o, order) \in Int
  BY BondAfterType
<1>2. stake' = [o \in Operators |-> BondAfter(o, order)]
  BY DEF SlashBonds
<1>3. slashed' = [o \in Operators |-> slashed[o] + stake[o] - BondAfter(o, order)]
  BY DEF SlashBonds
<1>4. stake' \in [Operators -> Int]
  BY <1>1, <1>2
<1>5. \A o \in Operators : slashed[o] + stake[o] - BondAfter(o, order) \in Int
  BY <1>1 DEF BondInts
<1>6. slashed' \in [Operators -> Int]
  BY <1>3, <1>5
<1>7. UNCHANGED <<unstakeReq, currentRound>>
  BY DEF SlashBonds
<1> QED
  BY <1>4, <1>6, <1>7 DEF BondInts

\* What an execution does to each slash.
LEMMA ExecutedEach ==
  ASSUME QueueTypeOK, NEW ids \in SUBSET SlashIds, Execute(ids)
  PROVE  \A s \in SlashIds :
           /\ s \in ids => Open(s) /\ proposals'[s].status = "Executed"
           /\ s \notin ids => proposals'[s] = proposals[s]
<1>1. ASSUME NEW s \in SlashIds
      PROVE  /\ s \in ids => proposals'[s].status = "Executed"
             /\ s \notin ids => proposals'[s] = proposals[s]
  <2>1. /\ Settled(proposals[s]) \in SlashProposal
        /\ Settled(proposals[s]).operator = proposals[s].operator
    BY SettledType DEF QueueTypeOK
  <2> DEFINE done == [Settled(proposals[s]) EXCEPT !.status = "Executed", !.commit = 0]
  <2>2. proposals' = [x \in SlashIds |->
          IF x \in ids
          THEN [Settled(proposals[x]) EXCEPT !.status = "Executed", !.commit = 0]
          ELSE proposals[x]]
    BY Zenon DEF Execute
  <2>3. proposals'[s] = IF s \in ids THEN done ELSE proposals[s]
    BY Zenon, <2>2
  <2>4. done.status = "Executed"
    BY <2>1 DEF SlashProposal
  <2> HIDE DEF done
  <2> QED
    BY <2>3, <2>4
<1>2. \A s \in ids : IsExecutable(s) /\ Exists(s)
  BY Zenon DEF Execute
<1>3. \A s \in ids : Open(s)
  BY <1>2 DEF IsExecutable, Open
<1> QED
  BY <1>1, <1>3

\* The slashes of ids are executed, and no other.
LEMMA ExecutedAre ==
  ASSUME QueueTypeOK, NEW ids \in SUBSET SlashIds, Execute(ids)
  PROVE  NewlyExecuted = ids
<1>1. \A s \in SlashIds : s \in NewlyExecuted <=> s \in ids
  BY ExecutedEach DEF NewlyExecuted, Open
<1> QED
  BY <1>1 DEF NewlyExecuted

LEMMA ExecuteTakes ==
  ASSUME QueueTypeOK, BondInts, Snapshots, NEW ids \in SUBSET SlashIds, NEW order,
         Execute(ids), SlashBonds(ids, order),
         \A s \in ids : ids = {s} => DOMAIN order = 1 .. 1 /\ order[1] = s
  PROVE  TakenAsOwed
<1> SUFFICES ASSUME NEW s \in SlashIds, NewlyExecuted = {s}
             PROVE  slashed'[proposals[s].operator] - slashed[proposals[s].operator]
                      = (stake[proposals[s].operator]
                           * Rate(proposals[s].bps, owedAt[s])) \div BPS
  BY DEF TakenAsOwed
<1>1. ids = {s}
  BY ExecutedAre
<1>2. DOMAIN order = 1 .. 1 /\ order[1] = s
  BY <1>1
<1>3. Open(s)
  BY <1>1, ExecutedEach
<1> DEFINE o == proposals[s].operator
           x == (stake[o] * RateOf(s)) \div BPS
           left == BondAfter(o, order)
<1>4. o \in Operators
  BY <1>3 DEF Open, Exists, QueueTypeOK, SlashProposal
<1>5. stake[o] \in Int /\ slashed[o] \in Int
  BY <1>4 DEF BondInts
<1>6. x \in Int
  BY <1>5, CutType
<1>7. left = stake[o] - x
  BY <1>2, BondAfterOne
<1>8. slashed'[o] = slashed[o] + stake[o] - left
  BY <1>4 DEF SlashBonds
<1>9. x = (stake[o] * Rate(proposals[s].bps, owedAt[s])) \div BPS
  BY <1>3 DEF Snapshots, RateOf
<1> HIDE DEF x, left
<1>10. slashed'[o] - slashed[o] = x
  BY <1>5, <1>6, <1>7, <1>8
<1> QED
  BY <1>9, <1>10

\* An execution leaves the snapshots of the other slashes alone.
LEMMA ExecuteSnapshots ==
  ASSUME Snapshots, QueueTypeOK, NEW ids \in SUBSET SlashIds, Execute(ids), owedAt' = owedAt
  PROVE  Snapshots'
<1>1. ASSUME NEW s \in SlashIds, Open(s)'
      PROVE  proposals'[s] = proposals[s]
  <2>1. s \in ids => s \in NewlyExecuted
    BY ExecutedAre
  <2>2. s \notin ids
    BY <1>1, <2>1 DEF Open, NewlyExecuted
  <2> QED
    BY <2>2, ExecutedEach
<1>2. \A s \in SlashIds : Open(s)' => Open(s)
  BY <1>1 DEF Open, Exists
<1> QED
  BY <1>1, <1>2 DEF Snapshots

LEMMA ProposeSnapshots ==
  ASSUME Snapshots, QueueTypeOK, ServiceOK, NEW p, NEW o, NEW b, NEW e, Propose(p, o, b, e)
  PROVE  Snapshots'
<1> DEFINE c == liveCommitment[o]
<1>1. c \in Nat
  BY DEF Propose, ServiceOK
<1>2. owedAt' = [owedAt EXCEPT ![nextSlashId] = c]
  BY DEF Propose
<1>3. nextSlashId \in SlashIds
  BY NumbersAssumption DEF Propose, ProposeSlash, QueueTypeOK, SlashIds
<1>4. /\ proposals'[nextSlashId].commit = c
      /\ \A s \in SlashIds : s # nextSlashId => proposals'[s] = proposals[s]
  BY <1>3 DEF Propose, ProposeSlash, QueueTypeOK
<1> HIDE DEF c
<1>5. owedAt' \in [SlashIds -> Nat]
  BY <1>1, <1>2 DEF Snapshots
<1>6. ASSUME NEW s \in SlashIds, Open(s)' PROVE proposals'[s].commit = owedAt'[s]
  <2>1. CASE s = nextSlashId
    BY <1>2, <1>3, <1>4, <2>1 DEF Snapshots
  <2>2. CASE s # nextSlashId
    <3>1. proposals'[s] = proposals[s] /\ owedAt'[s] = owedAt[s]
      BY <1>2, <1>4, <2>2 DEF Snapshots
    <3>2. Open(s)
      BY <1>6, <3>1 DEF Open, Exists
    <3> QED
      BY <3>1, <3>2 DEF Snapshots
  <2> QED
    BY <2>1, <2>2
<1> QED
  BY <1>5, <1>6 DEF Snapshots

LEMMA ProposeExecutesNone ==
  ASSUME QueueTypeOK, NEW p, NEW o, NEW b, NEW e, Propose(p, o, b, e)
  PROVE  NewlyExecuted = {}
<1>1. nextSlashId \in SlashIds
  BY NumbersAssumption DEF Propose, ProposeSlash, QueueTypeOK, SlashIds
<1>2. /\ proposals'[nextSlashId].status = "Pending"
      /\ \A s \in SlashIds : s # nextSlashId => proposals'[s] = proposals[s]
  BY <1>1 DEF Propose, ProposeSlash, QueueTypeOK
<1> QED
  BY <1>2 DEF NewlyExecuted

\* A step that opens, executes and re-commits nothing.
NothingExecuted ==
  \A t \in SlashIds :
    /\ proposals'[t].commit = proposals[t].commit
    /\ proposals'[t] = proposals[t] \/ proposals'[t].status # "Executed"
    /\ Open(t)' => Open(t)

LEMMA DisputedEach ==
  ASSUME QueueTypeOK, NEW s \in SlashIds, NEW a \in Disputers, DisputeSlash(a, s)
  PROVE  NothingExecuted
<1>1. PICK bond :
        proposals' = [proposals EXCEPT ![s].status = "Disputed",
                                       ![s].disputer = a,
                                       ![s].bond = bond,
                                       ![s].deadline = now + config.deadline]
  BY DEF DisputeSlash
<1>2. \A t \in SlashIds : /\ proposals'[t].commit = proposals[t].commit
                          /\ proposals'[t].operator = proposals[t].operator
                          /\ t # s => proposals'[t] = proposals[t]
  BY <1>1 DEF QueueTypeOK, SlashProposal
<1>3. proposals'[s].status = "Disputed"
  BY <1>1 DEF QueueTypeOK, SlashProposal
<1>4. proposals[s].status = "Pending" /\ Exists(s)
  BY DEF DisputeSlash, IsDisputable
<1> QED
  BY <1>2, <1>3, <1>4 DEF NothingExecuted, Open, Exists

LEMMA DisputeSnapshots ==
  ASSUME QueueTypeOK, Snapshots, owedAt' = owedAt,
         NEW s \in SlashIds, NEW a \in Disputers, DisputeSlash(a, s)
  PROVE  Snapshots' /\ NewlyExecuted = {}
<1>1. NothingExecuted
  BY DisputedEach
<1>2. Snapshots'
  BY <1>1 DEF NothingExecuted, Snapshots
<1>3. NewlyExecuted = {}
  BY <1>1 DEF NothingExecuted, NewlyExecuted
<1> QED
  BY <1>2, <1>3

LEMMA CancelSnapshots ==
  ASSUME QueueTypeOK, Snapshots, owedAt' = owedAt, NEW s \in SlashIds, CancelSlash(s)
  PROVE  Snapshots' /\ NewlyExecuted = {}
<1>1. Settled(proposals[s]) \in SlashProposal
  BY SettledType DEF QueueTypeOK
<1>2. proposals'[s].status = "Cancelled"
  BY <1>1 DEF CancelSlash, QueueTypeOK, SlashProposal
<1>3. \A t \in SlashIds : t # s => proposals'[t] = proposals[t]
  BY DEF CancelSlash, QueueTypeOK
<1>4. \A t \in SlashIds : Open(t)' => t # s /\ Open(t)
  BY <1>2, <1>3 DEF Open, Exists
<1> QED
  BY <1>2, <1>3, <1>4 DEF Snapshots, NewlyExecuted

\* What an operator does with its bond keeps the amounts integers.
LEMMA OperatorInts ==
  ASSUME BondInts, NEW o \in Operators, NEW n, Bonds!OperatorStep(o, n)
  PROVE  BondInts'
<1> USE AmountsAssumption
<1>1. ASSUME NEW a \in Amounts, Bonds!RegisterOperator(o, a) PROVE BondInts'
  BY <1>1 DEF Bonds!RegisterOperator, BondInts
<1>2. ASSUME NEW a \in Amounts, Bonds!IncreaseStake(o, a) PROVE BondInts'
  BY <1>2 DEF Bonds!IncreaseStake, BondInts
<1>3. ASSUME NEW a \in Amounts, Bonds!ScheduleUnstake(o, a) PROVE BondInts'
  <2>1. unstakeReq' = [unstakeReq EXCEPT
          ![o] = [amount |-> unstakeReq[o].amount + a, round |-> currentRound]]
    BY <1>3 DEF Bonds!ScheduleUnstake, BondInts
  <2>2. unstakeReq[o].amount + a \in Int
    BY DEF BondInts
  <2>3. UNCHANGED <<stake, slashed, currentRound>>
    BY <1>3 DEF Bonds!ScheduleUnstake
  <2> QED
    BY <2>1, <2>2, <2>3 DEF BondInts
<1>4. CASE Bonds!ExecuteUnstake(o)
  <2>1. stake' = [stake EXCEPT ![o] = stake[o] - unstakeReq[o].amount]
    BY <1>4 DEF Bonds!ExecuteUnstake, BondInts
  <2>2. stake[o] - unstakeReq[o].amount \in Int
    BY DEF BondInts
  <2>3. unstakeReq' = [unstakeReq EXCEPT ![o] = [amount |-> 0, round |-> 0]]
    BY <1>4 DEF Bonds!ExecuteUnstake, Bonds!NoRequest
  <2>4. UNCHANGED <<slashed, currentRound>>
    BY <1>4 DEF Bonds!ExecuteUnstake
  <2> QED
    BY <2>1, <2>2, <2>3, <2>4 DEF BondInts
<1>5. CASE Bonds!StartLeaving(o, n)
  BY <1>5 DEF Bonds!StartLeaving, BondInts
<1>6. CASE Bonds!CompleteLeaving(o)
  BY <1>6 DEF Bonds!CompleteLeaving, Bonds!StakeAfterExit, Bonds!RequestsAfterExit,
              Bonds!NoRequest, BondInts
<1> QED
  BY <1>1, <1>2, <1>3, <1>4, <1>5, <1>6 DEF Bonds!OperatorStep

\* The steps that execute something.
LEMMA ExecutionsAsOwed ==
  ASSUME QueueTypeOK, BondInts, Snapshots,
         \/ \E s \in SlashIds : ExecuteOne(s)
         \/ \E ids \in SUBSET SlashIds : ExecuteBatch(ids)
  PROVE  TakenAsOwed /\ BondInts' /\ Snapshots'
<1>1. ASSUME NEW s \in SlashIds, ExecuteOne(s)
      PROVE  TakenAsOwed /\ BondInts' /\ Snapshots'
  <2> DEFINE ids == {s}
             order == <<s>>
  <2>1. Execute(ids) /\ SlashBonds(ids, order) /\ owedAt' = owedAt
    BY <1>1 DEF ExecuteOne, ExecuteSlash
  <2>2. ids \in SUBSET SlashIds
    OBVIOUS
  <2>3. DOMAIN order = 1 .. 1 /\ order[1] = s /\ 1 \in Nat
    OBVIOUS
  <2>4. \A k \in 1 .. 1 : order[k] \in SlashIds
    BY <2>3
  <2>5. \A t \in ids : ids = {t} => DOMAIN order = 1 .. 1 /\ order[1] = t
    BY <2>3
  <2> HIDE DEF ids, order
  <2>6. TakenAsOwed
    BY <2>1, <2>2, <2>5, ExecuteTakes
  <2>7. BondInts'
    BY <2>1, <2>3, <2>4, ExecuteInts
  <2>8. Snapshots'
    BY <2>1, <2>2, ExecuteSnapshots
  <2> QED
    BY <2>6, <2>7, <2>8
<1>2. ASSUME NEW ids0 \in SUBSET SlashIds, ExecuteBatch(ids0)
      PROVE  TakenAsOwed /\ BondInts' /\ Snapshots'
  <2> DEFINE ids == {s \in ids0 : IsExecutable(s)}
  <2>1. PICK order \in SetToSeqs(ids) : SlashBonds(ids, order)
    BY <1>2 DEF ExecuteBatch
  <2>2. Execute(ids) /\ owedAt' = owedAt
    BY <1>2 DEF ExecuteBatch, ExecuteSlashBatch
  <2>3. ids \in SUBSET SlashIds
    OBVIOUS
  <2> HIDE DEF ids
  <2>4. PICK n \in Nat : DOMAIN order = 1 .. n /\ \A k \in 1 .. n : order[k] \in SlashIds
    BY <2>3, OrderOfSet
  <2>5. \A s \in ids : ids = {s} => DOMAIN order = 1 .. 1 /\ order[1] = s
    BY <2>3, OrderOfSet
  <2>6. TakenAsOwed
    BY <2>1, <2>2, <2>3, <2>5, ExecuteTakes
  <2>7. BondInts'
    BY <2>1, <2>4, ExecuteInts
  <2>8. Snapshots'
    BY <2>2, <2>3, ExecuteSnapshots
  <2> QED
    BY <2>6, <2>7, <2>8
<1> QED
  BY <1>1, <1>2

\* What leaves the proposals and what was owed alone executes nothing.
LEMMA SameProposals ==
  ASSUME Snapshots, UNCHANGED <<proposals, owedAt>>
  PROVE  Snapshots' /\ NewlyExecuted = {}
BY DEF Snapshots, NewlyExecuted, Open, Exists

LEMMA OwedInit == ProtocolInit => BondInts /\ Snapshots
BY DEF ProtocolInit, Init, Bonds!Init, Bonds!NoRequest, BondInts, Snapshots, Open,
       Exists, NoProposal

LEMMA OwedStep ==
  QueueTypeOK /\ ServiceOK /\ BondInts /\ Snapshots /\ [ProtocolNext]_vars
    => TakenAsOwed /\ BondInts' /\ Snapshots'
<1> SUFFICES ASSUME QueueTypeOK, ServiceOK, BondInts, Snapshots, [ProtocolNext]_vars
             PROVE  TakenAsOwed /\ BondInts' /\ Snapshots'
  OBVIOUS
<1>0. NewlyExecuted = {} => TakenAsOwed
  <2>1. \A s \in SlashIds : {} # {s}
    OBVIOUS
  <2> QED
    BY <2>1 DEF TakenAsOwed
<1>1. UNCHANGED bondVars => BondInts'
  BY DEF bondVars, BondInts
<1>2. UNCHANGED <<proposals, owedAt>> => TakenAsOwed /\ Snapshots'
  BY <1>0, SameProposals
<1>3. QueueStep => TakenAsOwed /\ BondInts' /\ Snapshots'
  <2> SUFFICES ASSUME QueueStep PROVE TakenAsOwed /\ BondInts' /\ Snapshots'
    OBVIOUS
  <2>1. owedAt' = owedAt /\ BondInts'
    BY <1>1 DEF QueueStep
  <2>2. ASSUME NEW s \in SlashIds, NEW a \in Disputers, DisputeSlash(a, s)
        PROVE  Snapshots' /\ NewlyExecuted = {}
    BY <2>1, <2>2, DisputeSnapshots
  <2>3. \/ \E s \in SlashIds, a \in Disputers : DisputeSlash(a, s)
        \/ UNCHANGED proposals
    BY DEF QueueStep, Tick, ClaimDisputeBond, SetSlashConfig, SetTreasury
  <2> QED
    BY <1>0, <1>2, <2>1, <2>2, <2>3
<1>4. BondStep => TakenAsOwed /\ BondInts' /\ Snapshots'
  <2> SUFFICES ASSUME BondStep PROVE TakenAsOwed /\ BondInts' /\ Snapshots'
    OBVIOUS
  <2>1. UNCHANGED <<proposals, owedAt>>
    BY DEF BondStep, slashVars
  <2>2. Bonds!AdvanceRound => BondInts'
    BY DEF Bonds!AdvanceRound, BondInts
  <2>3. ASSUME NEW d, Bonds!SetDelays(d) PROVE BondInts'
    BY <2>3 DEF Bonds!SetDelays, BondInts
  <2> QED
    BY <1>2, <2>1, <2>2, <2>3, OperatorInts DEF BondStep
<1>5. ASSUME NEW o \in Operators, NEW c \in Commitments, EnterService(o, c)
      PROVE  TakenAsOwed /\ BondInts' /\ Snapshots'
  <2>1. UNCHANGED bondVars /\ UNCHANGED <<proposals, owedAt>>
    BY <1>5 DEF EnterService, slashVars
  <2> QED
    BY <1>1, <1>2, <2>1
<1>6. ASSUME NEW o \in Operators, QuitService(o)
      PROVE  TakenAsOwed /\ BondInts' /\ Snapshots'
  <2>1. UNCHANGED bondVars /\ UNCHANGED <<proposals, owedAt>>
    BY <1>6 DEF QuitService, slashVars
  <2> QED
    BY <1>1, <1>2, <2>1
<1>7. ASSUME NEW p \in Proposers, NEW o \in Operators, NEW b \in SlashBps,
             NEW e \in Exposures, Propose(p, o, b, e)
      PROVE  TakenAsOwed /\ BondInts' /\ Snapshots'
  <2>1. BondInts'
    BY <1>7 DEF Propose, Bonds!IncrementPendingSlash, BondInts
  <2> QED
    BY <1>0, <1>7, <2>1, ProposeSnapshots, ProposeExecutesNone
<1>8. ASSUME NEW s \in SlashIds, Cancel(s)
      PROVE  TakenAsOwed /\ BondInts' /\ Snapshots'
  <2>1. BondInts'
    BY <1>8 DEF Cancel, Bonds!DecrementPendingSlash, BondInts
  <2>2. CancelSlash(s) /\ owedAt' = owedAt
    BY <1>8 DEF Cancel
  <2> QED
    BY <1>0, <2>1, <2>2, CancelSnapshots
<1>9. ASSUME \/ \E s \in SlashIds : ExecuteOne(s)
             \/ \E ids \in SUBSET SlashIds : ExecuteBatch(ids)
      PROVE  TakenAsOwed /\ BondInts' /\ Snapshots'
  BY <1>9, ExecutionsAsOwed
<1>10. ManagerStep \/ UNCHANGED vars => TakenAsOwed /\ BondInts' /\ Snapshots'
  <2>1. ManagerStep \/ UNCHANGED vars
          => UNCHANGED bondVars /\ UNCHANGED <<proposals, owedAt>>
    BY DEF ManagerStep, vars, slashVars
  <2> QED
    BY <1>1, <1>2, <2>1
<1> QED
  BY <1>3, <1>4, <1>5, <1>6, <1>7, <1>8, <1>9, <1>10 DEF ProtocolNext

\* A step that executes one slash, on its own or as the only mature one of a batch,
\* takes from the bond the fraction of what was committed when it was proposed,
\* whatever the operator committed, disputed or was slashed for since.
THEOREM SlashTakesWhatWasOwedCorrect == ProtocolSpec => SlashTakesWhatWasOwed
<1>1. QueueTypeOK /\ ServiceOK /\ BondInts /\ Snapshots /\ [ProtocolNext]_vars
        => [TakenAsOwed]_vars /\ BondInts' /\ Snapshots'
  BY OwedStep
<1>2. ProtocolInit => ServiceOK /\ BondInts /\ Snapshots
  BY ServiceInit, OwedInit
<1>3. ServiceOK /\ [ProtocolNext]_vars => ServiceOK'
  BY ServiceStep
<1> QED
  BY <1>1, <1>2, <1>3, ProtocolRunsTheQueue, QueueTypeCorrect, PTL
     DEF ProtocolSpec, SlashTakesWhatWasOwed, TakenAsOwed, NewlyExecuted

=============================================================================
