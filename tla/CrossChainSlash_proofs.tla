------------------------ MODULE CrossChainSlash_proofs ------------------------
(***************************************************************************)
(* Proofs about CrossChainSlash, for any pods, operators, connectors,      *)
(* messengers, stakes, delays and bounds: types, the naming of messages by *)
(* their nonces, the ledger of what was slashed and what is owed, the      *)
(* falling factors and the trust in senders.                               *)
(***************************************************************************)
EXTENDS CrossChainSlash, FunctionSums

-----------------------------------------------------------------------------
\* A fraction of a part, of at most the whole, is at most the part.
LEMMA FractionBounded ==
  ASSUME NEW part \in Nat, NEW n \in Nat, NEW d \in Nat \ {0}, n <= d
  PROVE  (part * n) \div d \in 0 .. part
<1> DEFINE product == part * n
           quotient == product \div d
<1>1. product \in Nat /\ product <= part * d
  OBVIOUS
<1>2. part * d \in Nat
  OBVIOUS
<1> HIDE DEF product
<1>3. quotient \in Nat /\ quotient * d <= product
  BY <1>1
<1> HIDE DEF quotient
<1>4. quotient <= part
  <2> SUFFICES ASSUME quotient >= part + 1 PROVE FALSE
    BY <1>3
  <2>1. quotient * d >= (part + 1) * d
    BY <1>3
  <2>2. (part + 1) * d = part * d + d
    OBVIOUS
  <2>3. quotient * d \in Nat
    BY <1>3
  <2> QED
    BY <1>1, <1>2, <1>3, <2>1, <2>2, <2>3
<1> QED
  BY <1>3, <1>4 DEF quotient, product

\* A share that is sent is one of 1 .. Full.
LEMMA ShareInRange ==
  ASSUME TypeOK, NEW c \in Connectors, NEW p \in Pods, NEW l \in L1Stakes,
         SlashBps(c, p, l) > 0
  PROVE  SlashBps(c, p, l) \in 1 .. Full
<1> DEFINE f == LastFactor(c, p)
           lost == ((f - factor[p]) * Scale) \div f
           amount == (principal[p] * lost) \div Scale
           bps == (amount * Full) \div l
<1>1. f \in Nat \ {0} /\ factor[p] \in Nat /\ principal[p] \in Nat
  BY CrossChainAssumption DEF LastFactor, TypeOK
<1>2. Scale \in Nat \ {0} /\ Full \in Nat \ {0} /\ l \in Nat
  BY CrossChainAssumption
<1>3. (f - factor[p]) * Scale \in Int
  BY <1>1, <1>2
<1>4. lost \in Int
  BY <1>1, <1>3
<1> HIDE DEF lost
<1>5. principal[p] * lost \in Int
  BY <1>1, <1>4
<1>6. amount \in Int
  BY <1>2, <1>5
<1> HIDE DEF amount
<1>7. amount * Full \in Int
  BY <1>2, <1>6
<1>8. l # 0 => bps \in Int
  BY <1>2, <1>7
<1>9. SlashBps(c, p, l) = IF l = 0 THEN 0 ELSE IF bps > Full THEN Full ELSE bps
  BY DEF SlashBps, lost, amount
<1> HIDE DEF bps
<1> QED
  BY <1>2, <1>8, <1>9

-----------------------------------------------------------------------------
LEMMA TypeInit == Init => TypeOK
<1> SUFFICES ASSUME Init PROVE TypeOK
  OBVIOUS
<1>1. now \in Nat /\ factor \in [Pods -> 0 .. Scale] /\ principal \in [Pods -> 0 .. MaxPrincipal]
  BY CrossChainAssumption DEF Init
<1>2. /\ podOperator \in [Connectors -> [Pods -> Operators \cup {None}]]
      /\ route \in [Connectors -> Messengers \cup {None}]
  BY DEF Init
<1>3. last \in [Connectors -> [Pods -> 0 .. Scale]] /\ nonce \in [Connectors -> Nat]
  BY CrossChainAssumption DEF Init
<1>4. /\ sent \subseteq Message /\ messenger \in Messengers /\ authorized \subseteq Connectors
      /\ processed \subseteq Connectors \X Nat
  BY DEF Init
<1>5. /\ pendingMessenger \in [next : Messengers \cup {None}, at : Nat]
      /\ pendingSender \in [Connectors -> Nat]
  BY DEF Init
<1>6. /\ deferred \in [Operators -> Nat] /\ total \in [Operators -> Nat]
      /\ stake \in [Operators -> Nat] /\ paused \in BOOLEAN /\ registered \subseteq Operators
  BY CrossChainAssumption DEF Init
<1>7. askedAt \in [Connectors -> {Never} \cup Nat]
  BY DEF Init
<1> QED
  BY <1>1, <1>2, <1>3, <1>4, <1>5, <1>6, <1>7 DEF TypeOK

LEMMA TypePods ==
  ASSUME TypeOK, NEW p \in Pods, PodStep(p)
  PROVE  TypeOK'
<1>1. CASE Restake(p)
  BY <1>1, CrossChainAssumption DEF Restake, TypeOK, connector, receiver, slasher
<1>2. ASSUME NEW left \in 0 .. MaxPrincipal, FinalizeCheckpoint(p, left)
      PROVE  TypeOK'
  <2>1. factor[p] \in Nat /\ left \in Nat /\ principal[p] \in Nat \ {0} /\ left <= principal[p]
    BY <1>2, CrossChainAssumption DEF FinalizeCheckpoint, TypeOK
  <2>2. (factor[p] * left) \div principal[p] \in 0 .. factor[p]
    BY <2>1, FractionBounded
  <2>3. factor[p] \in 0 .. Scale
    BY DEF TypeOK
  <2>4. (factor[p] * left) \div principal[p] \in 0 .. Scale
    BY <2>2, <2>3, CrossChainAssumption
  <2> QED
    BY <1>2, <2>4 DEF FinalizeCheckpoint, TypeOK, connector, receiver, slasher
<1> QED
  BY <1>1, <1>2 DEF PodStep

LEMMA TypeConnectors ==
  ASSUME TypeOK, NEW c \in Connectors, ConnectorStep(c)
  PROVE  TypeOK'
<1>1. ASSUME NEW p \in Pods, NEW o \in Operators, RegisterPodOperator(c, p, o)
      PROVE  TypeOK'
  BY <1>1 DEF RegisterPodOperator, TypeOK, pods, receiver, slasher
<1>2. ASSUME NEW m \in Messengers \cup {None}, SetRoute(c, m)
      PROVE  TypeOK'
  BY <1>2 DEF SetRoute, TypeOK, pods, receiver, slasher
<1>3. ASSUME NEW p \in Pods, NEW l \in L1Stakes, PropagateBeaconSlashing(c, p, l)
      PROVE  TypeOK'
  <2> DEFINE m == [from |-> c, via |-> route[c], nonce |-> nonce[c],
                   operator |-> podOperator[c][p], pod |-> p,
                   bps |-> SlashBps(c, p, l), factor |-> factor[p]]
  <2>1. SlashBps(c, p, l) \in 1 .. Full
    BY <1>3, ShareInRange DEF PropagateBeaconSlashing
  <2>2. /\ route[c] \in Messengers /\ nonce[c] \in Nat
        /\ podOperator[c][p] \in Operators /\ factor[p] \in 0 .. Scale
    BY <1>3 DEF PropagateBeaconSlashing, TypeOK
  <2>3. m \in Message
    BY <2>1, <2>2 DEF Message
  <2>4. sent' \subseteq Message
    BY <1>3, <2>3 DEF PropagateBeaconSlashing, TypeOK
  <2> QED
    BY <1>3, <2>2, <2>4 DEF PropagateBeaconSlashing, TypeOK, pods, receiver, slasher
<1> QED
  BY <1>1, <1>2, <1>3 DEF ConnectorStep

\* A slash of at most the whole leaves a stake.
LEMMA SlashedIsStake ==
  ASSUME TypeOK, NEW o \in Operators, NEW bps \in 0 .. Full
  PROVE  Slashed(o, bps) \in [Operators -> Nat]
<1>1. stake[o] \in Nat /\ bps \in Nat /\ bps <= Full /\ Full \in Nat \ {0}
  BY CrossChainAssumption DEF TypeOK
<1>2. (stake[o] * bps) \div Full \in 0 .. stake[o]
  BY <1>1, FractionBounded
<1> QED
  BY <1>1, <1>2 DEF Slashed, TypeOK

LEMMA TypeReceives ==
  ASSUME TypeOK, NEW m \in sent, ReceiveMessage(m)
  PROVE  TypeOK'
<1>1. m.operator \in Operators /\ m.bps \in 1 .. Full /\ Key(m) \in Connectors \X Nat
  BY DEF TypeOK, Message, Key
<1>2. m.bps \in 0 .. Full /\ m.bps \in Nat
  BY <1>1, CrossChainAssumption
<1>3. Slashed(m.operator, m.bps) \in [Operators -> Nat]
  BY <1>1, <1>2, SlashedIsStake
<1>4. stake' \in [Operators -> Nat]
  BY <1>3 DEF ReceiveMessage, TypeOK
<1>5. total' \in [Operators -> Nat] /\ deferred' \in [Operators -> Nat]
  <2> DEFINE o == m.operator
             b == m.bps
  <2>1. total \in [Operators -> Nat] /\ deferred \in [Operators -> Nat]
    BY DEF TypeOK
  <2>2. \/ total' = [total EXCEPT ![o] = @ + b] /\ deferred' = deferred
        \/ total' = total /\ deferred' = [deferred EXCEPT ![o] = @ + b]
    BY DEF ReceiveMessage
  <2>3. o \in Operators /\ b \in Nat
    BY <1>1, <1>2
  <2> HIDE DEF o, b
  <2>4. total[o] + b \in Nat /\ deferred[o] + b \in Nat
    BY <2>1, <2>3
  <2> QED
    BY <2>1, <2>2, <2>4
<1> QED
  BY <1>1, <1>4, <1>5 DEF ReceiveMessage, TypeOK, pods, connector

LEMMA TypeFlush ==
  ASSUME TypeOK, NEW o \in Operators, FlushDeferredSlash(o)
  PROVE  TypeOK'
<1>1. deferred[o] \in Nat /\ total[o] \in Nat /\ Full \in Nat
  BY CrossChainAssumption DEF TypeOK
<1>2. Collected(o) \in 0 .. Full /\ Collected(o) <= deferred[o]
  BY <1>1 DEF Collected
<1>3. Slashed(o, Collected(o)) \in [Operators -> Nat]
  BY <1>2, SlashedIsStake
<1>4. deferred[o] - Collected(o) \in Nat /\ total[o] + Collected(o) \in Nat
  BY <1>1, <1>2
<1> QED
  BY <1>3, <1>4 DEF FlushDeferredSlash, TypeOK, pods, connector

LEMMA TypeSenders ==
  ASSUME TypeOK, NEW c \in Connectors, SenderStep(c)
  PROVE  TypeOK'
<1>1. CASE ScheduleSender(c)
  BY <1>1, CrossChainAssumption DEF ScheduleSender, TypeOK, pods, connector, slasher
<1>2. CASE RevokeSender(c)
  BY <1>2 DEF RevokeSender, TypeOK, pods, connector, slasher
<1>3. CASE ActivateSender(c)
  BY <1>3 DEF ActivateSender, TypeOK, pods, connector, slasher
<1> QED
  BY <1>1, <1>2, <1>3 DEF SenderStep

LEMMA TypeStep == TypeOK /\ [Next]_vars => TypeOK'
<1> SUFFICES ASSUME TypeOK, [Next]_vars PROVE TypeOK'
  OBVIOUS
<1>1. CASE Tick
  BY <1>1 DEF Tick, TypeOK, pods, connector, receiver, slasher
<1>2. ASSUME NEW m \in Messengers, ScheduleMessenger(m) PROVE TypeOK'
  BY <1>2, CrossChainAssumption DEF ScheduleMessenger, TypeOK, pods, connector, slasher
<1>3. CASE ActivateMessenger
  BY <1>3 DEF ActivateMessenger, TypeOK, pods, connector, slasher
<1>4. CASE SlasherStep
  <2>1. CASE SetPaused
    BY <2>1 DEF SetPaused, TypeOK, pods, connector, receiver
  <2>2. ASSUME NEW o \in Operators, NEW n \in 0 .. MaxStake, SetStake(o, n)
        PROVE  TypeOK'
    BY <2>2, CrossChainAssumption DEF SetStake, TypeOK, pods, connector, receiver
  <2>3. ASSUME NEW o \in Operators, NEW n \in 0 .. MaxStake, Leave(o, n) \/ Join(o, n)
        PROVE  TypeOK'
    <3>1. registered' \subseteq Operators /\ stake' \in [Operators -> Nat]
      BY <2>3, CrossChainAssumption DEF Leave, Join, TypeOK
    <3> QED
      BY <2>3, <3>1 DEF Leave, Join, TypeOK, pods, connector, receiver
  <2> QED
    BY <1>4, <2>1, <2>2, <2>3 DEF SlasherStep
<1>5. CASE UNCHANGED vars
  BY <1>5 DEF vars, TypeOK, pods, connector, receiver, slasher
<1> QED
  BY <1>1, <1>2, <1>3, <1>4, <1>5, TypePods, TypeConnectors, TypeReceives, TypeFlush,
     TypeSenders DEF Next

\* Every variable stays in its range: no slash or collection takes more than there is,
\* and every message carries a share between 1 and all of the stake.
THEOREM CrossChainTypeCorrect == Spec => []TypeOK
BY TypeInit, TypeStep, PTL DEF Spec

-----------------------------------------------------------------------------
(* Messages: the nonces of a connector are used in order, and while it     *)
(* remembers a factor, that is the lowest it sent; it forgets only 0, and  *)
(* a pod's factor that is 0 stays 0.                                       *)

NonceInv ==
  /\ \A m \in sent : m.nonce < nonce[m.from]
  /\ NoncesDistinct

FactorInv ==
  /\ \A m \in sent : factor[m.pod] <= m.factor
  /\ \A m \in sent : m.factor > 0 =>
       /\ last[m.from][m.pod] <= m.factor
       /\ last[m.from][m.pod] = 0 => factor[m.pod] = 0
  /\ FactorsFall

LEMMA MessageStep ==
  ASSUME TypeOK, NonceInv, FactorInv, NEW c \in Connectors, NEW p \in Pods, NEW l \in L1Stakes,
         PropagateBeaconSlashing(c, p, l)
  PROVE  NonceInv' /\ FactorInv'
<1> DEFINE new == [from |-> c, via |-> route[c], nonce |-> nonce[c],
                   operator |-> podOperator[c][p], pod |-> p,
                   bps |-> SlashBps(c, p, l), factor |-> factor[p]]
<1>1. /\ new.from = c /\ new.pod = p /\ new.nonce = nonce[c] /\ new.factor = factor[p]
      /\ Key(new) = <<c, nonce[c]>>
  BY DEF Key
<1>2. sent' = sent \cup {new}
  BY DEF PropagateBeaconSlashing
<1> HIDE DEF new
<1>3. /\ nonce' = [nonce EXCEPT ![c] = @ + 1]
      /\ last' = [last EXCEPT ![c][p] = factor[p]]
      /\ factor' = factor /\ processed' = processed
      /\ factor[p] < LastFactor(c, p)
  BY DEF PropagateBeaconSlashing, pods, receiver
<1>4. /\ nonce \in [Connectors -> Nat] /\ last \in [Connectors -> [Pods -> 0 .. Scale]]
      /\ factor \in [Pods -> 0 .. Scale] /\ Scale \in Nat
  BY CrossChainAssumption DEF TypeOK
<1>5. \A m \in sent : /\ m.from \in Connectors /\ m.pod \in Pods /\ m.nonce \in Nat
                      /\ m.factor \in Nat
  BY CrossChainAssumption DEF TypeOK, Message
<1>6. \A m \in sent : m.nonce < nonce[m.from]
  BY DEF NonceInv
<1>7. \A m \in sent : m.from = c => m.nonce < new.nonce
  BY <1>1, <1>6
<1>8. \A m \in sent' : m.nonce < nonce'[m.from]
  BY <1>1, <1>2, <1>3, <1>4, <1>5, <1>6
<1>9. \A m, n \in sent' : Key(m) = Key(n) => m = n
  <2>1. \A m \in sent : Key(m) # Key(new)
    BY <1>1, <1>4, <1>5, <1>7 DEF Key
  <2>2. \A m, n \in sent : Key(m) = Key(n) => m = n
    BY DEF NonceInv, NoncesDistinct
  <2> QED
    BY <1>2, <2>1, <2>2
<1>10. processed' \subseteq {Key(m) : m \in sent'}
  BY <1>2, <1>3 DEF NonceInv, NoncesDistinct
<1>11. \A m \in sent : m.from = c /\ m.pod = p /\ m.factor > 0 => factor[p] < m.factor
  <2> SUFFICES ASSUME NEW m \in sent, m.from = c, m.pod = p, m.factor > 0
               PROVE  factor[p] < m.factor
    OBVIOUS
  <2>1. last[c][p] <= m.factor /\ (last[c][p] = 0 => factor[p] = 0)
    BY DEF FactorInv
  <2>2. CASE last[c][p] = 0
    BY <1>5, <2>1, <2>2
  <2>3. CASE last[c][p] # 0
    BY <1>3, <1>4, <1>5, <2>1, <2>3 DEF LastFactor
  <2> QED
    BY <2>2, <2>3
<1>12. \A m \in sent' : m.factor > 0 =>
         /\ last'[m.from][m.pod] <= m.factor
         /\ last'[m.from][m.pod] = 0 => factor'[m.pod] = 0
  <2> SUFFICES ASSUME NEW m \in sent', m.factor > 0
               PROVE  /\ last'[m.from][m.pod] <= m.factor
                      /\ last'[m.from][m.pod] = 0 => factor'[m.pod] = 0
    OBVIOUS
  <2>1. CASE m = new
    BY <1>1, <1>3, <1>4, <2>1
  <2>2. CASE m \in sent /\ m.from = c /\ m.pod = p
    <3>1. last'[c][p] = factor[p] /\ factor'[p] = factor[p]
      BY <1>3, <1>4
    <3> QED
      BY <1>4, <1>5, <1>11, <2>2, <3>1
  <2>3. CASE m \in sent /\ ~(m.from = c /\ m.pod = p)
    <3>1. last'[m.from][m.pod] = last[m.from][m.pod]
      BY <1>3, <1>4, <1>5, <2>3
    <3> QED
      BY <1>3, <2>3, <3>1 DEF FactorInv
  <2> QED
    BY <1>2, <2>1, <2>2, <2>3
<1>13. FactorsFall'
  <2> SUFFICES ASSUME NEW m \in sent', NEW n \in sent',
                      m.from = n.from, m.pod = n.pod, m.nonce < n.nonce
               PROVE  n.factor < m.factor \/ (m.factor = 0 /\ n.factor = 0)
    BY DEF FactorsFall
  <2>1. CASE m \in sent /\ n \in sent
    BY <2>1 DEF FactorInv, FactorsFall
  <2>2. CASE m \in sent /\ n = new /\ m.factor > 0
    BY <1>1, <1>11, <2>2
  <2>3. CASE m \in sent /\ n = new /\ m.factor = 0
    <3>1. factor[p] <= 0 /\ factor[p] \in Nat
      BY <1>1, <1>4, <2>3 DEF FactorInv
    <3> QED
      BY <1>1, <2>3, <3>1
  <2>4. CASE m = new
    BY <1>1, <1>2, <1>4, <1>5, <1>7, <2>4
  <2> QED
    BY <1>2, <1>5, <2>1, <2>2, <2>3, <2>4
<1>14. \A m \in sent' : factor'[m.pod] <= m.factor
  <2>1. factor'[new.pod] <= new.factor
    BY <1>1, <1>3, <1>4
  <2> QED
    BY <1>2, <1>3, <2>1 DEF FactorInv
<1> QED
  BY <1>8, <1>9, <1>10, <1>12, <1>13, <1>14 DEF NonceInv, NoncesDistinct, FactorInv

\* A pod's factor falls, and from 0 no further.
LEMMA FactorInvCheckpoint ==
  ASSUME TypeOK, FactorInv, NEW p \in Pods, NEW left \in 0 .. MaxPrincipal,
         FinalizeCheckpoint(p, left)
  PROVE  FactorInv'
<1> DEFINE newFactor == (factor[p] * left) \div principal[p]
<1>1. factor[p] \in Nat /\ left \in Nat /\ principal[p] \in Nat \ {0} /\ left <= principal[p]
  BY CrossChainAssumption DEF FinalizeCheckpoint, TypeOK
<1>2. newFactor \in 0 .. factor[p]
  BY <1>1, FractionBounded
<1>3. /\ sent' = sent /\ last' = last /\ factor' = [factor EXCEPT ![p] = newFactor]
  BY DEF FinalizeCheckpoint, connector
<1> HIDE DEF newFactor
<1>4. \A q \in Pods : factor[q] = 0 => factor'[q] = 0
  BY <1>1, <1>2, <1>3 DEF TypeOK
<1>5. \A m \in sent : m.pod \in Pods
  BY DEF TypeOK, Message
<1>6. \A q \in Pods : factor'[q] \in Nat /\ factor[q] \in Nat /\ factor'[q] <= factor[q]
  BY <1>1, <1>2, <1>3, CrossChainAssumption DEF TypeOK
<1>7. \A m \in sent : m.factor \in Nat
  BY CrossChainAssumption DEF TypeOK, Message
<1>8. \A m \in sent' : factor'[m.pod] <= m.factor
  BY <1>3, <1>5, <1>6, <1>7 DEF FactorInv
<1> QED
  BY <1>3, <1>4, <1>5, <1>8 DEF FactorInv, FactorsFall

LEMMA MessagesInit == Init => NonceInv /\ FactorInv
BY DEF Init, NonceInv, NoncesDistinct, FactorInv, FactorsFall

LEMMA MessagesStep ==
  TypeOK /\ NonceInv /\ FactorInv /\ [Next]_vars => NonceInv' /\ FactorInv'
<1> SUFFICES ASSUME TypeOK, NonceInv, FactorInv, [Next]_vars
             PROVE  NonceInv' /\ FactorInv'
  OBVIOUS
<1>1. ASSUME NEW m \in sent, ReceiveMessage(m) PROVE NonceInv' /\ FactorInv'
  BY <1>1 DEF ReceiveMessage, pods, connector, NonceInv, NoncesDistinct, FactorInv, FactorsFall
<1>2. CASE UNCHANGED <<factor, last, nonce, sent, processed>>
  BY <1>2 DEF NonceInv, NoncesDistinct, FactorInv, FactorsFall, Key
<1>3. ASSUME NEW p \in Pods, NEW left \in 0 .. MaxPrincipal, FinalizeCheckpoint(p, left)
      PROVE  NonceInv' /\ FactorInv'
  <2>1. sent' = sent /\ nonce' = nonce /\ processed' = processed
    BY <1>3 DEF FinalizeCheckpoint, connector, receiver
  <2>2. NonceInv'
    BY <2>1 DEF NonceInv, NoncesDistinct, Key
  <2> QED
    BY <1>3, <2>2, FactorInvCheckpoint
<1>4. CASE Tick \/ ActivateMessenger \/ \E m \in Messengers : ScheduleMessenger(m)
  BY <1>2, <1>4 DEF Tick, ActivateMessenger, ScheduleMessenger, pods, connector, receiver
<1>5. ASSUME NEW p \in Pods, Restake(p) PROVE NonceInv' /\ FactorInv'
  BY <1>2, <1>5 DEF Restake, connector, receiver
<1>6. ASSUME NEW c \in Connectors, ConnectorStep(c) PROVE NonceInv' /\ FactorInv'
  BY <1>2, <1>6, MessageStep DEF ConnectorStep, RegisterPodOperator, SetRoute, pods, receiver
<1>7. ASSUME NEW c \in Connectors, SenderStep(c) PROVE NonceInv' /\ FactorInv'
  BY <1>2, <1>7 DEF SenderStep, ScheduleSender, RevokeSender, ActivateSender, pods, connector
<1>8. ASSUME NEW o \in Operators, FlushDeferredSlash(o) PROVE NonceInv' /\ FactorInv'
  BY <1>2, <1>8 DEF FlushDeferredSlash, pods, connector
<1>9. CASE SlasherStep
  BY <1>2, <1>9 DEF SlasherStep, SetPaused, SetStake, Leave, Join, pods, connector, receiver
<1>10. CASE UNCHANGED vars
  BY <1>2, <1>10 DEF vars, pods, connector, receiver
<1> QED
  BY <1>1, <1>3, <1>4, <1>5, <1>6, <1>7, <1>8, <1>9, <1>10 DEF Next, PodStep

\* No nonce names two messages, and none is consumed that was not sent.
THEOREM NoncesDistinctCorrect == Spec => []NoncesDistinct
<1>1. NonceInv => NoncesDistinct
  BY DEF NonceInv
<1> QED
  BY <1>1, TypeInit, TypeStep, MessagesInit, MessagesStep, PTL DEF Spec

\* The factors a connector sends for a pod fall, and repeat only at 0: whatever is left
\* of a pod is a loss never sent before, while the loss of a pod that lost everything may
\* be sent again.
THEOREM FactorsFallCorrect == Spec => []FactorsFall
<1>1. FactorInv => FactorsFall
  BY DEF FactorInv
<1> QED
  BY <1>1, TypeInit, TypeStep, MessagesInit, MessagesStep, PTL DEF Spec

-----------------------------------------------------------------------------
(* The ledger: the shares of the consumed messages about an operator add   *)
(* up to what was slashed and what is owed.                                *)

Consumed(o) == {m \in sent : m.operator = o /\ Key(m) \in processed}
Share == [m \in sent |-> m.bps]
LedgerInv ==
  /\ IsFiniteSet(sent)
  /\ \A o \in Operators : total[o] + deferred[o] = SumFunctionOnSet(Share, Consumed(o))

LEMMA LedgerForm == IsFiniteSet(sent) => (LedgerExact <=> LedgerInv)
<1> SUFFICES ASSUME IsFiniteSet(sent), NEW o \in Operators
             PROVE  SumFunction([m \in Consumed(o) |-> m.bps]) = SumFunctionOnSet(Share, Consumed(o))
  BY DEF LedgerExact, LedgerInv, Consumed
<1>1. IsFiniteSet(Consumed(o)) /\ Consumed(o) \subseteq sent
  BY FS_Subset DEF Consumed
<1>2. SumFunctionOnSet([m \in Consumed(o) |-> m.bps], Consumed(o))
        = SumFunctionOnSet(Share, Consumed(o))
  BY <1>1, SumSame DEF Share
<1> QED
  BY <1>2 DEF SumFunction

LEMMA LedgerInit == Init => LedgerInv
<1> SUFFICES ASSUME Init PROVE LedgerInv
  OBVIOUS
<1>1. sent = {} /\ \A o \in Operators : Consumed(o) = {} /\ total[o] + deferred[o] = 0
  BY DEF Init, Consumed
<1> QED
  BY <1>1, FS_EmptySet, SumOfNone DEF LedgerInv

\* The ledger does not change when its variables do not.
LEMMA LedgerKept ==
  ASSUME LedgerInv, UNCHANGED <<sent, processed, total, deferred>>
  PROVE  LedgerInv'
<1>1. Share' = Share /\ \A o \in Operators : Consumed(o)' = Consumed(o)
  BY DEF Share, Consumed, Key
<1> QED
  BY <1>1 DEF LedgerInv

\* A new message has a nonce that was not consumed.
LEMMA LedgerSend ==
  ASSUME TypeOK, NonceInv, LedgerInv, NEW c \in Connectors, NEW p \in Pods, NEW l \in L1Stakes,
         PropagateBeaconSlashing(c, p, l)
  PROVE  LedgerInv'
<1> DEFINE new == [from |-> c, via |-> route[c], nonce |-> nonce[c],
                   operator |-> podOperator[c][p], pod |-> p,
                   bps |-> SlashBps(c, p, l), factor |-> factor[p]]
<1>1. sent' = sent \cup {new} /\ processed' = processed /\ total' = total /\ deferred' = deferred
  BY DEF PropagateBeaconSlashing, receiver
<1>2. Key(new) = <<c, nonce[c]>>
  BY DEF Key
<1>3. Key(new) \notin processed
  <2> SUFFICES ASSUME Key(new) \in processed PROVE FALSE
    OBVIOUS
  <2>1. PICK m \in sent : Key(m) = Key(new)
    BY DEF NonceInv, NoncesDistinct
  <2>2. m.from = c /\ m.nonce = nonce[c]
    BY <2>1, <1>2 DEF Key
  <2>3. nonce[c] \in Nat
    BY DEF TypeOK
  <2> QED
    BY <2>2, <2>3 DEF NonceInv
<1> HIDE DEF new
<1>4. IsFiniteSet(sent')
  BY <1>1, FS_AddElement DEF LedgerInv
<1>5. ASSUME NEW o \in Operators
      PROVE  SumFunctionOnSet(Share, Consumed(o))' = SumFunctionOnSet(Share, Consumed(o))
  <2>1. Consumed(o)' = Consumed(o) /\ Consumed(o) \subseteq sent
    BY <1>1, <1>3 DEF Consumed, Key
  <2>2. \A m \in Consumed(o) : Share'[m] = Share[m]
    BY <1>1, <2>1 DEF Share
  <2>3. IsFiniteSet(Consumed(o))
    BY <2>1, FS_Subset DEF LedgerInv
  <2> QED
    BY <2>1, <2>2, <2>3, SumSame
<1> QED
  BY <1>1, <1>4, <1>5 DEF LedgerInv

\* An acceptance consumes one message more and slashes or banks its share.
LEMMA LedgerReceive ==
  ASSUME TypeOK, NonceInv, LedgerInv, NEW m \in sent, ReceiveMessage(m)
  PROVE  LedgerInv'
<1>1. /\ sent' = sent /\ processed' = processed \cup {Key(m)} /\ Key(m) \notin processed
      /\ Share' = Share
  BY DEF ReceiveMessage, Accepts, connector, Share
<1>2. m.operator \in Operators /\ m.bps \in Nat /\ \A n \in sent : Share[n] \in Int
  BY CrossChainAssumption DEF TypeOK, Message, Share
<1>3. total \in [Operators -> Nat] /\ deferred \in [Operators -> Nat]
  BY DEF TypeOK
<1>4. \A n \in sent : Key(n) = Key(m) => n = m
  BY DEF NonceInv, NoncesDistinct
<1>5. ASSUME NEW o \in Operators, o # m.operator
      PROVE  /\ total'[o] + deferred'[o] = total[o] + deferred[o]
             /\ Consumed(o)' = Consumed(o)
  <2>1. Consumed(o)' = Consumed(o)
    BY <1>1, <1>4, <1>5 DEF Consumed, Key
  <2>2. total'[o] = total[o] /\ deferred'[o] = deferred[o]
    BY <1>2, <1>3, <1>5 DEF ReceiveMessage
  <2> QED
    BY <2>1, <2>2
<1>6. LET o == m.operator IN
        /\ total'[o] + deferred'[o] = (total[o] + deferred[o]) + m.bps
        /\ SumFunctionOnSet(Share, Consumed(o)') = SumFunctionOnSet(Share, Consumed(o)) + m.bps
  <2> DEFINE o == m.operator
  <2>1. Consumed(o)' = Consumed(o) \cup {m} /\ m \notin Consumed(o)
    BY <1>1, <1>4 DEF Consumed, Key
  <2>2. Consumed(o) \subseteq sent /\ IsFiniteSet(Consumed(o))
    BY FS_Subset DEF Consumed, LedgerInv
  <2>3. SumFunctionOnSet(Share, Consumed(o) \cup {m})
          = SumFunctionOnSet(Share, Consumed(o)) + Share[m]
    BY <1>2, <2>1, <2>2, SumAddOne
  <2>4. Share[m] = m.bps
    BY DEF Share
  <2>5. total'[o] + deferred'[o] = (total[o] + deferred[o]) + m.bps
    <3> DEFINE b == m.bps
    <3>1. \/ total' = [total EXCEPT ![o] = @ + b] /\ deferred' = deferred
          \/ total' = total /\ deferred' = [deferred EXCEPT ![o] = @ + b]
      BY DEF ReceiveMessage
    <3>2. o \in Operators /\ b \in Nat
      BY <1>2
    <3> HIDE DEF o, b
    <3>3. total'[o] + deferred'[o] = (total[o] + deferred[o]) + b
      BY <1>3, <3>1, <3>2
    <3> QED
      BY <3>3 DEF b
  <2> QED
    BY <2>1, <2>3, <2>4, <2>5
<1>7. IsFiniteSet(sent')
  BY <1>1 DEF LedgerInv
<1>8. ASSUME NEW o \in Operators
      PROVE  total'[o] + deferred'[o] = SumFunctionOnSet(Share, Consumed(o))'
  <2>1. total[o] + deferred[o] = SumFunctionOnSet(Share, Consumed(o))
    BY DEF LedgerInv
  <2>2. CASE o = m.operator
    BY <1>1, <1>6, <2>1, <2>2
  <2>3. CASE o # m.operator
    BY <1>1, <1>5, <2>1, <2>3
  <2> QED
    BY <2>2, <2>3
<1> QED
  BY <1>7, <1>8 DEF LedgerInv

\* A collection moves a share from the debt to what was slashed.
LEMMA LedgerFlush ==
  ASSUME TypeOK, LedgerInv, NEW o \in Operators, FlushDeferredSlash(o)
  PROVE  LedgerInv'
<1>1. /\ sent' = sent /\ Share' = Share /\ \A q \in Operators : Consumed(q)' = Consumed(q)
  BY DEF FlushDeferredSlash, connector, Share, Consumed, Key
<1> DEFINE b == Collected(o)
<1>2. /\ total' = [total EXCEPT ![o] = @ + b] /\ deferred' = [deferred EXCEPT ![o] = @ - b]
  BY DEF FlushDeferredSlash
<1>3. total \in [Operators -> Nat] /\ deferred \in [Operators -> Nat] /\ Full \in Nat
  BY CrossChainAssumption DEF TypeOK
<1>4. b \in Nat
  BY <1>3 DEF Collected
<1> HIDE DEF b
<1>5. \A q \in Operators : total'[q] + deferred'[q] = total[q] + deferred[q]
  BY <1>2, <1>3, <1>4
<1> QED
  BY <1>1, <1>5 DEF LedgerInv

LEMMA LedgerStep == TypeOK /\ NonceInv /\ LedgerInv /\ [Next]_vars => LedgerInv'
<1> SUFFICES ASSUME TypeOK, NonceInv, LedgerInv, [Next]_vars PROVE LedgerInv'
  OBVIOUS
<1>1. CASE Tick \/ ActivateMessenger \/ \E m \in Messengers : ScheduleMessenger(m)
  BY <1>1, LedgerKept DEF Tick, ActivateMessenger, ScheduleMessenger, connector, receiver
<1>2. ASSUME NEW p \in Pods, PodStep(p) PROVE LedgerInv'
  BY <1>2, LedgerKept DEF PodStep, Restake, FinalizeCheckpoint, receiver
<1>3. ASSUME NEW c \in Connectors, ConnectorStep(c) PROVE LedgerInv'
  BY <1>3, LedgerKept, LedgerSend DEF ConnectorStep, RegisterPodOperator, SetRoute, receiver
<1>4. ASSUME NEW c \in Connectors, SenderStep(c) PROVE LedgerInv'
  BY <1>4, LedgerKept DEF SenderStep, ScheduleSender, RevokeSender, ActivateSender
<1>5. CASE SlasherStep
  BY <1>5, LedgerKept DEF SlasherStep, SetPaused, SetStake, Leave, Join, receiver
<1>6. CASE UNCHANGED vars
  BY <1>6, LedgerKept DEF vars, receiver
<1> QED
  BY <1>1, <1>2, <1>3, <1>4, <1>5, <1>6, LedgerReceive, LedgerFlush DEF Next

\* Whatever is delivered late, again or out of order, and however often the operator
\* cannot be slashed in between, the shares of the consumed messages are all slashed or owed.
THEOREM LedgerExactCorrect == Spec => []LedgerExact
<1>1. LedgerInv => LedgerExact
  BY LedgerForm DEF LedgerInv
<1> QED
  BY <1>1, TypeInit, TypeStep, MessagesInit, MessagesStep, LedgerInit, LedgerStep, PTL DEF Spec

-----------------------------------------------------------------------------
(* Trust: an authorized sender was asked for a whole delay ago, and one    *)
(* that waits will not be activated before its delay.                      *)

TrustInv ==
  \A c \in Connectors :
    /\ askedAt[c] <= now
    /\ c \in authorized => askedAt[c] # Never /\ now >= askedAt[c] + Delay
    /\ pendingSender[c] # 0 => askedAt[c] # Never /\ pendingSender[c] >= askedAt[c] + Delay

LEMMA TrustInit == Init => TrustInv
BY DEF Init, TrustInv, Never

LEMMA TrustSenders ==
  ASSUME TypeOK, TrustInv, NEW c \in Connectors, SenderStep(c)
  PROVE  TrustInv'
<1>1. /\ now \in Nat /\ Delay \in Nat /\ authorized \subseteq Connectors
      /\ pendingSender \in [Connectors -> Nat]
      /\ askedAt \in [Connectors -> {-1} \cup Nat]
  BY CrossChainAssumption DEF TypeOK, Never
<1>2. CASE ScheduleSender(c)
  BY <1>1, <1>2 DEF ScheduleSender, TrustInv, Never
<1>3. CASE RevokeSender(c)
  BY <1>1, <1>3 DEF RevokeSender, TrustInv, Never
<1>4. CASE ActivateSender(c)
  BY <1>1, <1>4 DEF ActivateSender, TrustInv, Never
<1> QED
  BY <1>2, <1>3, <1>4 DEF SenderStep

LEMMA TrustStep == TypeOK /\ TrustInv /\ [Next]_vars => TrustInv'
<1> SUFFICES ASSUME TypeOK, TrustInv, [Next]_vars PROVE TrustInv'
  OBVIOUS
<1>1. CASE UNCHANGED <<now, authorized, pendingSender, askedAt>>
  BY <1>1 DEF TrustInv
<1>2. CASE Tick
  BY <1>2, CrossChainAssumption DEF Tick, receiver, TrustInv, TypeOK, Never
<1>3. ASSUME NEW p \in Pods, PodStep(p) PROVE TrustInv'
  BY <1>1, <1>3 DEF PodStep, Restake, FinalizeCheckpoint, receiver
<1>4. ASSUME NEW c \in Connectors, ConnectorStep(c) PROVE TrustInv'
  BY <1>1, <1>4 DEF ConnectorStep, RegisterPodOperator, SetRoute, PropagateBeaconSlashing, receiver
<1>5. ASSUME NEW m \in sent, ReceiveMessage(m) PROVE TrustInv'
  BY <1>1, <1>5 DEF ReceiveMessage
<1>6. ASSUME NEW o \in Operators, FlushDeferredSlash(o) PROVE TrustInv'
  BY <1>1, <1>6 DEF FlushDeferredSlash
<1>7. CASE ActivateMessenger \/ \E m \in Messengers : ScheduleMessenger(m)
  BY <1>1, <1>7 DEF ActivateMessenger, ScheduleMessenger
<1>8. CASE SlasherStep
  BY <1>1, <1>8 DEF SlasherStep, SetPaused, SetStake, Leave, Join, receiver
<1>9. CASE UNCHANGED vars
  BY <1>1, <1>9 DEF vars, receiver
<1> QED
  BY <1>2, <1>3, <1>4, <1>5, <1>6, <1>7, <1>8, <1>9, TrustSenders DEF Next

\* The only step that consumes a nonce is the acceptance of its message, whose sender
\* is authorized.
LEMMA AcceptsAuthorized ==
  ASSUME TypeOK, NonceInv, TrustInv, [Next]_vars, NEW m \in sent,
         Key(m) \notin processed, Key(m) \in processed'
  PROVE  askedAt[m.from] # Never /\ now >= askedAt[m.from] + Delay
<1>1. PICK n \in sent : ReceiveMessage(n)
  <2>1. processed' # processed
    OBVIOUS
  <2> QED
    BY <2>1 DEF Next, Tick, PodStep, Restake, FinalizeCheckpoint, ConnectorStep, RegisterPodOperator,
         SetRoute, PropagateBeaconSlashing, SenderStep, ScheduleSender, RevokeSender,
         ActivateSender, FlushDeferredSlash, ScheduleMessenger, ActivateMessenger, SlasherStep,
         SetPaused, SetStake, Leave, Join, vars, receiver
<1>2. processed' = processed \cup {Key(n)} /\ n.from \in authorized
  BY <1>1 DEF ReceiveMessage, Accepts
<1>3. m = n
  BY <1>2 DEF NonceInv, NoncesDistinct
<1> QED
  BY <1>2, <1>3 DEF TrustInv, TypeOK

\* No message is accepted from a sender that was not scheduled a whole delay before.
THEOREM AcceptedOnlyTrustedCorrect == Spec => AcceptedOnlyTrusted
<1>1. TypeOK /\ NonceInv /\ TrustInv /\ [Next]_vars =>
        [\A m \in sent : Key(m) \notin processed /\ Key(m) \in processed' =>
           askedAt[m.from] # Never /\ now >= askedAt[m.from] + Delay]_vars
  BY AcceptsAuthorized
<1> QED
  BY <1>1, TypeInit, TypeStep, MessagesInit, MessagesStep, TrustInit, TrustStep, PTL
     DEF Spec, AcceptedOnlyTrusted
=============================================================================
