------------------------- MODULE OperatorBonds_proofs -------------------------
(***************************************************************************)
(* Proofs about OperatorBonds, for any operators, amounts, delays and      *)
(* bounds.  The type invariant and the solvency of each bond are inductive *)
(* together: that no subtraction underflows is part of the first.          *)
(***************************************************************************)
EXTENDS OperatorBonds, TLAPS

-----------------------------------------------------------------------------
\* A fraction of at most BPS of a bond is at most the bond.
LEMMA CutBounded ==
  ASSUME NEW bond \in Nat, NEW bps \in 0 .. BPS
  PROVE  (bond * bps) \div BPS \in 0 .. bond
<1> DEFINE product == bond * bps
           cut     == product \div BPS
<1>1. BPS \in Nat /\ BPS > 0
  BY BondAssumption
<1>2. product \in Nat /\ product <= bond * BPS
  BY <1>1
<1>3. bond * BPS \in Nat
  BY <1>1
<1> HIDE DEF product
<1>4. cut \in Nat /\ cut * BPS <= product
  BY <1>1, <1>2
<1> HIDE DEF cut
<1>5. cut <= bond
  <2> SUFFICES ASSUME cut >= bond + 1 PROVE FALSE
    BY <1>4
  <2>1. cut * BPS >= (bond + 1) * BPS
    BY <1>1, <1>4
  <2>2. (bond + 1) * BPS = bond * BPS + BPS
    BY <1>1
  <2>3. cut * BPS \in Nat
    BY <1>1, <1>4
  <2> QED
    BY <1>1, <1>2, <1>3, <1>4, <2>1, <2>2, <2>3
<1> QED
  BY <1>4, <1>5 DEF cut, product

-----------------------------------------------------------------------------
LEMMA TypeInit == Init => TypeOK
BY BondAssumption DEF Init, TypeOK, OperatorStatus, NoRequest

LEMMA TypeStep == TypeOK /\ [Next]_bondVars => TypeOK'
<1> SUFFICES ASSUME TypeOK, [Next]_bondVars PROVE TypeOK'
  OBVIOUS
<1>1. ASSUME NEW o \in Operators, NEW a \in Amounts, RegisterOperator(o, a)
      PROVE  TypeOK'
  BY <1>1, BondAssumption DEF RegisterOperator, TypeOK, OperatorStatus, NoRequest
<1>2. ASSUME NEW o \in Operators, NEW a \in Amounts, IncreaseStake(o, a)
      PROVE  TypeOK'
  BY <1>2, BondAssumption DEF IncreaseStake, TypeOK, OperatorStatus, NoRequest
<1>3. ASSUME NEW o \in Operators, NEW a \in Amounts, ScheduleUnstake(o, a)
      PROVE  TypeOK'
  BY <1>3, BondAssumption DEF ScheduleUnstake, TypeOK, OperatorStatus, NoRequest
<1>4. ASSUME NEW o \in Operators, ExecuteUnstake(o)
      PROVE  TypeOK'
  BY <1>4, BondAssumption DEF ExecuteUnstake, Covered, TypeOK, OperatorStatus, NoRequest
<1>5. ASSUME NEW o \in Operators, StartLeaving(o, 0)
      PROVE  TypeOK'
  BY <1>5, BondAssumption DEF StartLeaving, TypeOK, OperatorStatus, NoRequest
<1>6. ASSUME NEW o \in Operators, CompleteLeaving(o)
      PROVE  TypeOK'
  BY <1>6, BondAssumption DEF CompleteLeaving, StakeAfterExit, RequestsAfterExit, TypeOK, OperatorStatus, NoRequest
<1>7. ASSUME NEW o \in Operators, NEW b \in BondBps, NEW poolCut \in BOOLEAN, SlashBond(o, b, poolCut)
      PROVE  TypeOK'
  <2>1. b \in 0 .. BPS /\ stake[o] \in Nat
    BY <1>7, BondAssumption DEF SlashBond, TypeOK
  <2>2. BondCut(o, b) \in 0 .. stake[o]
    BY <2>1, CutBounded DEF BondCut
  <2> QED
    BY <1>7, <2>2 DEF SlashBond, TypeOK, OperatorStatus
<1>8. ASSUME NEW o \in Operators, IncrementPendingSlash(o)
      PROVE  TypeOK'
  BY <1>8, BondAssumption DEF IncrementPendingSlash, TypeOK, OperatorStatus, NoRequest
<1>9. ASSUME NEW o \in Operators, DecrementPendingSlash(o)
      PROVE  TypeOK'
  BY <1>9, BondAssumption DEF DecrementPendingSlash, TypeOK, OperatorStatus, NoRequest
<1>10. ASSUME NEW o \in Operators, NEW n \in 0 .. MaxPending, ResetPendingSlashCount(o, n)
      PROVE  TypeOK'
  BY <1>10, BondAssumption DEF ResetPendingSlashCount, TypeOK, OperatorStatus, NoRequest
<1>11. ASSUME NEW d \in [unstake : Delays, leave : Delays], SetDelays(d)
      PROVE  TypeOK'
  BY <1>11, BondAssumption DEF SetDelays, TypeOK, OperatorStatus, NoRequest
<1>12. AdvanceRound => TypeOK'
  BY BondAssumption DEF AdvanceRound, TypeOK, OperatorStatus, NoRequest
<1>13. UNCHANGED bondVars => TypeOK'
  BY DEF bondVars, TypeOK, OperatorStatus, NoRequest
<1> QED
  BY <1>1, <1>2, <1>3, <1>4, <1>5, <1>6, <1>7, <1>8, <1>9, <1>10, <1>11, <1>12, <1>13
     DEF Next, OperatorStep, SlasherStep, AdminStep

\* Every variable of the bonds stays in its range: no unstake, slash or decrement
\* ever underflows.
THEOREM BondTypeCorrect == Spec => []TypeOK
BY TypeInit, TypeStep, PTL DEF Spec

-----------------------------------------------------------------------------
LEMMA SolventInit == Init => BondSolvent
<1> SUFFICES ASSUME Init, NEW o \in Operators
             PROVE  stake[o] + paidOut[o] + slashed[o] <= paidIn[o]
  BY DEF BondSolvent
<1>1. stake[o] = 0 /\ paidOut[o] = 0 /\ slashed[o] = 0 /\ paidIn[o] = 0
  BY DEF Init
<1> QED
  BY <1>1

LEMMA SolventStep == TypeOK /\ BondSolvent /\ [Next]_bondVars => BondSolvent'
<1> SUFFICES ASSUME TypeOK, BondSolvent, [Next]_bondVars PROVE BondSolvent'
  OBVIOUS
<1>1. ASSUME NEW o \in Operators, NEW a \in Amounts, RegisterOperator(o, a)
      PROVE  BondSolvent'
  BY <1>1, BondAssumption DEF RegisterOperator, TypeOK, BondSolvent
<1>2. ASSUME NEW o \in Operators, NEW a \in Amounts, IncreaseStake(o, a)
      PROVE  BondSolvent'
  BY <1>2, BondAssumption DEF IncreaseStake, TypeOK, BondSolvent
<1>3. ASSUME NEW o \in Operators, NEW a \in Amounts, ScheduleUnstake(o, a)
      PROVE  BondSolvent'
  BY <1>3, BondAssumption DEF ScheduleUnstake, TypeOK, BondSolvent
<1>4. ASSUME NEW o \in Operators, ExecuteUnstake(o)
      PROVE  BondSolvent'
  BY <1>4, BondAssumption DEF ExecuteUnstake, Covered, TypeOK, BondSolvent
<1>5. ASSUME NEW o \in Operators, StartLeaving(o, 0)
      PROVE  BondSolvent'
  BY <1>5, BondAssumption DEF StartLeaving, TypeOK, BondSolvent
<1>6. ASSUME NEW o \in Operators, CompleteLeaving(o)
      PROVE  BondSolvent'
  BY <1>6, BondAssumption DEF CompleteLeaving, StakeAfterExit, RequestsAfterExit, TypeOK, BondSolvent
<1>7. ASSUME NEW o \in Operators, NEW b \in BondBps, NEW poolCut \in BOOLEAN, SlashBond(o, b, poolCut)
      PROVE  BondSolvent'
  <2>1. b \in 0 .. BPS /\ stake[o] \in Nat
    BY <1>7, BondAssumption DEF SlashBond, TypeOK
  <2>2. BondCut(o, b) \in 0 .. stake[o]
    BY <2>1, CutBounded DEF BondCut
  <2> QED
    BY <1>7, <2>2 DEF SlashBond, TypeOK, BondSolvent
<1>8. ASSUME NEW o \in Operators, IncrementPendingSlash(o)
      PROVE  BondSolvent'
  BY <1>8, BondAssumption DEF IncrementPendingSlash, TypeOK, BondSolvent
<1>9. ASSUME NEW o \in Operators, DecrementPendingSlash(o)
      PROVE  BondSolvent'
  BY <1>9, BondAssumption DEF DecrementPendingSlash, TypeOK, BondSolvent
<1>10. ASSUME NEW o \in Operators, NEW n \in 0 .. MaxPending, ResetPendingSlashCount(o, n)
      PROVE  BondSolvent'
  BY <1>10, BondAssumption DEF ResetPendingSlashCount, TypeOK, BondSolvent
<1>11. ASSUME NEW d \in [unstake : Delays, leave : Delays], SetDelays(d)
      PROVE  BondSolvent'
  BY <1>11, BondAssumption DEF SetDelays, TypeOK, BondSolvent
<1>12. AdvanceRound => BondSolvent'
  BY BondAssumption DEF AdvanceRound, TypeOK, BondSolvent
<1>13. UNCHANGED bondVars => BondSolvent'
  BY DEF bondVars, TypeOK, BondSolvent
<1> QED
  BY <1>1, <1>2, <1>3, <1>4, <1>5, <1>6, <1>7, <1>8, <1>9, <1>10, <1>11, <1>12, <1>13
     DEF Next, OperatorStep, SlasherStep, AdminStep

\* No sequence of registrations, top-ups, unstakes, exits and slashes ever gives an
\* operator more than it paid in.
THEOREM BondSolventCorrect == Spec => []BondSolvent
<1>1. Init => TypeOK /\ BondSolvent
  BY TypeInit, SolventInit
<1>2. TypeOK /\ BondSolvent /\ [Next]_bondVars => (TypeOK /\ BondSolvent)'
  BY TypeStep, SolventStep
<1> QED
  BY <1>1, <1>2, PTL DEF Spec

-----------------------------------------------------------------------------
LEMMA CleanInit == Init => NoInheritedRequest
BY DEF Init, NoInheritedRequest

LEMMA CleanStep == TypeOK /\ NoInheritedRequest /\ [Next]_bondVars => NoInheritedRequest'
<1> SUFFICES ASSUME TypeOK, NoInheritedRequest, [Next]_bondVars PROVE NoInheritedRequest'
  OBVIOUS
<1>1. ASSUME NEW o \in Operators, NEW a \in Amounts, RegisterOperator(o, a)
      PROVE  NoInheritedRequest'
  BY <1>1, BondAssumption DEF RegisterOperator, TypeOK, NoInheritedRequest
<1>2. ASSUME NEW o \in Operators, NEW a \in Amounts, IncreaseStake(o, a)
      PROVE  NoInheritedRequest'
  BY <1>2, BondAssumption DEF IncreaseStake, TypeOK, NoInheritedRequest
<1>3. ASSUME NEW o \in Operators, NEW a \in Amounts, ScheduleUnstake(o, a)
      PROVE  NoInheritedRequest'
  BY <1>3, BondAssumption DEF ScheduleUnstake, TypeOK, NoInheritedRequest
<1>4. ASSUME NEW o \in Operators, ExecuteUnstake(o)
      PROVE  NoInheritedRequest'
  BY <1>4, BondAssumption DEF ExecuteUnstake, Covered, TypeOK, NoInheritedRequest
<1>5. ASSUME NEW o \in Operators, StartLeaving(o, 0)
      PROVE  NoInheritedRequest'
  BY <1>5, BondAssumption DEF StartLeaving, TypeOK, NoInheritedRequest
<1>6. ASSUME NEW o \in Operators, CompleteLeaving(o)
      PROVE  NoInheritedRequest'
  BY <1>6, BondAssumption DEF CompleteLeaving, StakeAfterExit, RequestsAfterExit, TypeOK, NoInheritedRequest
<1>7. ASSUME NEW o \in Operators, NEW b \in BondBps, NEW poolCut \in BOOLEAN, SlashBond(o, b, poolCut)
      PROVE  NoInheritedRequest'
  BY <1>7, BondAssumption DEF SlashBond, TypeOK, NoInheritedRequest
<1>8. ASSUME NEW o \in Operators, IncrementPendingSlash(o)
      PROVE  NoInheritedRequest'
  BY <1>8, BondAssumption DEF IncrementPendingSlash, TypeOK, NoInheritedRequest
<1>9. ASSUME NEW o \in Operators, DecrementPendingSlash(o)
      PROVE  NoInheritedRequest'
  BY <1>9, BondAssumption DEF DecrementPendingSlash, TypeOK, NoInheritedRequest
<1>10. ASSUME NEW o \in Operators, NEW n \in 0 .. MaxPending, ResetPendingSlashCount(o, n)
      PROVE  NoInheritedRequest'
  BY <1>10, BondAssumption DEF ResetPendingSlashCount, TypeOK, NoInheritedRequest
<1>11. ASSUME NEW d \in [unstake : Delays, leave : Delays], SetDelays(d)
      PROVE  NoInheritedRequest'
  BY <1>11, BondAssumption DEF SetDelays, TypeOK, NoInheritedRequest
<1>12. AdvanceRound => NoInheritedRequest'
  BY BondAssumption DEF AdvanceRound, TypeOK, NoInheritedRequest
<1>13. UNCHANGED bondVars => NoInheritedRequest'
  BY DEF bondVars, TypeOK, NoInheritedRequest
<1> QED
  BY <1>1, <1>2, <1>3, <1>4, <1>5, <1>6, <1>7, <1>8, <1>9, <1>10, <1>11, <1>12, <1>13
     DEF Next, OperatorStep, SlasherStep, AdminStep

\* Whoever has completed leaving has no unstake request left to execute later.
THEOREM NoInheritedRequestCorrect == Spec => []NoInheritedRequest
<1>1. Init => TypeOK /\ NoInheritedRequest
  BY TypeInit, CleanInit
<1>2. TypeOK /\ NoInheritedRequest /\ [Next]_bondVars => (TypeOK /\ NoInheritedRequest)'
  BY TypeStep, CleanStep
<1> QED
  BY <1>1, <1>2, PTL DEF Spec

-----------------------------------------------------------------------------
\* What a payment out of a bond requires.
PaidUnlocked ==
  \A o \in Operators :
    pendingSlashes[o] > 0 /\ paidOut'[o] > paidOut[o] => status[o] = "Leaving"

LEMMA UnchangedPaysNothing ==
  TypeOK /\ UNCHANGED paidOut => PaidUnlocked
BY DEF TypeOK, PaidUnlocked

LEMMA PaymentStep == TypeOK /\ [Next]_bondVars => PaidUnlocked
<1> SUFFICES ASSUME TypeOK, [Next]_bondVars PROVE PaidUnlocked
  OBVIOUS
<1>1. ASSUME NEW o \in Operators, ExecuteUnstake(o)
      PROVE  PaidUnlocked
  BY <1>1 DEF ExecuteUnstake, Unlocked, PaidUnlocked, TypeOK
<1>2. ASSUME NEW o \in Operators, CompleteLeaving(o)
      PROVE  PaidUnlocked
  BY <1>2 DEF CompleteLeaving, PaidUnlocked, TypeOK
<1>3. ASSUME NEW o \in Operators, OperatorStep(o, 0), ~ExecuteUnstake(o),
             ~CompleteLeaving(o)
      PROVE  UNCHANGED paidOut
  BY <1>3 DEF OperatorStep, RegisterOperator, IncreaseStake, ScheduleUnstake, StartLeaving
<1>4. ASSUME NEW o \in Operators, SlasherStep(o)
      PROVE  UNCHANGED paidOut
  BY <1>4 DEF SlasherStep, SlashBond, IncrementPendingSlash, DecrementPendingSlash
<1>5. AdminStep \/ AdvanceRound \/ UNCHANGED bondVars => UNCHANGED paidOut
  BY DEF AdminStep, SetDelays, ResetPendingSlashCount, AdvanceRound, bondVars
<1> QED
  BY <1>1, <1>2, <1>3, <1>4, <1>5, UnchangedPaysNothing DEF Next

\* An unstake scheduled before a slash was proposed stays locked while it is pending.
THEOREM UnstakeBlockedCorrect == Spec => UnstakeBlockedByPending
<1>1. TypeOK /\ [Next]_bondVars => [PaidUnlocked]_bondVars
  BY PaymentStep
<1>2. Init => TypeOK
  BY TypeInit
<1>3. TypeOK /\ [Next]_bondVars => TypeOK'
  BY TypeStep
<1> QED
  BY <1>1, <1>2, <1>3, PTL DEF Spec, UnstakeBlockedByPending, PaidUnlocked
=============================================================================
