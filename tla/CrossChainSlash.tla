--------------------------- MODULE CrossChainSlash ---------------------------
(***************************************************************************)
(* A loss of a beacon-chain validator pod, slashed on another chain        *)
(* (src/beacon): ValidatorPod lowers the pod's slashing factor,            *)
(* L2SlashingConnector turns the fall since the last factor it sent into   *)
(* a share of the operator's stake and sends it over a bridge, and         *)
(* L2SlashingReceiver applies it through TangleL2Slasher, or banks it as   *)
(* debt while the operator has nothing to slash.  An operator may leave    *)
(* the staking layer while its delegators stay: there is then a stake that *)
(* canSlash sees and that the staking layer refuses to slash.              *)
(*                                                                         *)
(* The bridge keeps what was sent and may deliver it late, out of order or *)
(* again; a delivery that reverts changes nothing.  Connectors (the        *)
(* senders) and messengers are replaced while messages are on their way.   *)
(* One destination chain; the messenger is a dedicated adapter, which      *)
(* passes on the sender it authenticated.                                  *)
(***************************************************************************)
EXTENDS Integers, FiniteSets, Functions

CONSTANTS Pods, Operators, Connectors, Messengers,
          Scale,        \* 1e18: the factor of a pod that lost nothing
          Full,         \* 10_000 bps
          Delay,        \* SENDER_ACTIVATION_DELAY
          L1Stakes,     \* bound: what getOperatorStake may answer on L1
          MaxPrincipal, \* bound: beacon principal of a pod
          MaxStake,     \* bound: stake of an operator on L2
          MaxNonce,     \* bound: messages of a connector
          MaxTime       \* bound: where the clock stops

None == "none"
Never == -1

ASSUME CrossChainAssumption ==
  /\ {Scale, Full, Delay, MaxPrincipal} \subseteq Nat \ {0}
  /\ {MaxStake, MaxNonce, MaxTime} \subseteq Nat
  /\ L1Stakes \subseteq Nat
  /\ None \notin Operators \cup Messengers

VARIABLES now,
          factor,     \* beaconChainSlashingFactor of a pod
          principal,  \* its principal on the beacon chain
          podOperator, \* per connector, the operator a pod is registered for
          route,      \* per connector, its messenger while the chain is enabled
          last,       \* lastProcessedSlashingFactorByChain, 0 when never written
          nonce,      \* nonceByChain
          sent,       \* what the bridge holds
          messenger, pendingMessenger, \* on L2
          authorized, pendingSender,   \* authorizedSenders, pendingAuthorizedSenders
          processed,  \* processedNonces: pairs of a sender and a nonce
          deferred,   \* deferredSlashBps
          total,      \* beaconSlashTotal
          stake,      \* slashable stake on L2: its own and its delegators'
          registered, \* operators the staking layer of L2 knows
          paused,     \* of TangleL2Slasher
          askedAt     \* history: when a sender not revoked since was first scheduled

pods == <<factor, principal>>
connector == <<podOperator, route, last, nonce>>
receiver == <<messenger, pendingMessenger, authorized, pendingSender, processed,
              deferred, total>>
slasher == <<stake, registered, paused>>
vars == <<now, pods, connector, sent, receiver, slasher, askedAt>>

Message == [from : Connectors, via : Messengers, nonce : Nat, operator : Operators,
            pod : Pods, bps : 1 .. Full, factor : 0 .. Scale]
Key(m) == <<m.from, m.nonce>>

Init ==
  /\ now = 0
  /\ factor = [p \in Pods |-> Scale]
  /\ principal = [p \in Pods |-> MaxPrincipal]
  /\ podOperator = [c \in Connectors |-> [p \in Pods |-> None]]
  /\ route = [c \in Connectors |-> None]
  /\ last = [c \in Connectors |-> [p \in Pods |-> 0]]
  /\ nonce = [c \in Connectors |-> 0]
  /\ sent = {}
  /\ messenger \in Messengers
  /\ pendingMessenger = [next |-> None, at |-> 0]
  /\ authorized = {}
  /\ pendingSender = [c \in Connectors |-> 0]
  /\ processed = {}
  /\ deferred = [o \in Operators |-> 0]
  /\ total = [o \in Operators |-> 0]
  /\ stake = [o \in Operators |-> MaxStake]
  /\ registered = Operators
  /\ paused = FALSE
  /\ askedAt = [c \in Connectors |-> Never]

Tick ==
  /\ now < MaxTime
  /\ now' = now + 1
  /\ UNCHANGED <<pods, connector, sent, receiver, slasher, askedAt>>

-----------------------------------------------------------------------------
(* L1: the pod.                                                            *)

\* A checkpoint that finds `left` of the principal, the rest destroyed.
FinalizeCheckpoint(p, left) ==
  LET newFactor == (factor[p] * left) \div principal[p] IN
  /\ left < principal[p]
  /\ factor' = [factor EXCEPT ![p] = newFactor]
  /\ principal' = [principal EXCEPT ![p] = left]
  /\ UNCHANGED <<now, connector, sent, receiver, slasher, askedAt>>

\* The owner proves one more validator.
Restake(p) ==
  /\ principal[p] < MaxPrincipal
  /\ principal' = [principal EXCEPT ![p] = @ + 1]
  /\ UNCHANGED <<now, factor, connector, sent, receiver, slasher, askedAt>>

-----------------------------------------------------------------------------
(* L1: the connector.                                                      *)

RegisterPodOperator(c, p, o) ==
  /\ podOperator' = [podOperator EXCEPT ![c][p] = o]
  /\ UNCHANGED <<now, pods, route, last, nonce, sent, receiver, slasher, askedAt>>

\* setMessenger and setChainConfig: where a connector sends, if it does.
SetRoute(c, m) ==
  /\ route' = [route EXCEPT ![c] = m]
  /\ UNCHANGED <<now, pods, podOperator, last, nonce, sent, receiver, slasher, askedAt>>

FaultyLastFactor(c, p) == Scale

\* The factor the next fall is measured from: nothing written reads as no loss.
LastFactor(c, p) == IF last[c][p] = 0 THEN Scale ELSE last[c][p]

\* The pod's loss as a share of the operator's stake, capped at all of it.
SlashBps(c, p, l1Stake) ==
  LET lost == ((LastFactor(c, p) - factor[p]) * Scale) \div LastFactor(c, p)
      amount == (principal[p] * lost) \div Scale
      bps == (amount * Full) \div l1Stake
  IN IF l1Stake = 0 THEN 0 ELSE IF bps > Full THEN Full ELSE bps

\* propagateBeaconSlashing, and each iteration of its batch.  Where it reverts
\* (no route, no operator, no fall, nothing to slash, no fee) nothing is consumed.
PropagateBeaconSlashing(c, p, l1Stake) ==
  /\ route[c] # None
  /\ factor[p] < LastFactor(c, p)
  /\ podOperator[c][p] # None
  /\ SlashBps(c, p, l1Stake) > 0
  /\ nonce[c] < MaxNonce
  /\ last' = [last EXCEPT ![c][p] = factor[p]]
  /\ nonce' = [nonce EXCEPT ![c] = @ + 1]
  /\ sent' = sent \cup {[from |-> c, via |-> route[c], nonce |-> nonce[c],
                         operator |-> podOperator[c][p], pod |-> p,
                         bps |-> SlashBps(c, p, l1Stake), factor |-> factor[p]]}
  /\ UNCHANGED <<now, pods, podOperator, route, receiver, slasher, askedAt>>

-----------------------------------------------------------------------------
(* L2: the slasher and the stake under it.                                 *)

\* canSlash: whether the operator is still registered is not asked.
CanSlash(o) == ~paused /\ stake[o] > 0

\* staking.slash reverts for an operator that is gone, canSlash or not.
SlashReverts(o) == CanSlash(o) /\ o \notin registered

\* slashOperator: a share of what is staked now.
Slashed(o, bps) == [stake EXCEPT ![o] = @ - (@ * bps) \div Full]

SetPaused ==
  /\ paused' = ~paused
  /\ UNCHANGED <<now, pods, connector, sent, receiver, stake, registered, askedAt>>

\* The operator and its delegators add to their stake, or withdraw; only the
\* latter is possible once the operator is gone.
SetStake(o, amount) ==
  /\ amount > stake[o] => o \in registered
  /\ stake' = [stake EXCEPT ![o] = amount]
  /\ UNCHANGED <<now, pods, connector, sent, receiver, registered, paused, askedAt>>

\* completeLeaving returns the bond of the operator; what was delegated stays.
Leave(o, delegated) ==
  /\ o \in registered
  /\ delegated <= stake[o]
  /\ registered' = registered \ {o}
  /\ stake' = [stake EXCEPT ![o] = delegated]
  /\ UNCHANGED <<now, pods, connector, sent, receiver, paused, askedAt>>

\* registerOperator, with a bond on top of what is still delegated.
Join(o, amount) ==
  /\ o \notin registered
  /\ amount >= stake[o]
  /\ registered' = registered \cup {o}
  /\ stake' = [stake EXCEPT ![o] = amount]
  /\ UNCHANGED <<now, pods, connector, sent, receiver, paused, askedAt>>

-----------------------------------------------------------------------------
(* L2: the receiver.                                                       *)

FaultyAccepts(m) == m.via = messenger /\ m.from \in authorized

\* Whether receiveMessage lets the message in.
Accepts(m) ==
  /\ m.via = messenger
  /\ m.from \in authorized
  /\ Key(m) \notin processed

\* Waits for a stake to slash.
FaultyReceiveMessage(m) ==
  LET o == m.operator IN
  /\ m \in sent
  /\ Accepts(m)
  /\ CanSlash(o) /\ ~SlashReverts(o)
  /\ processed' = processed \cup {Key(m)}
  /\ stake' = Slashed(o, m.bps)
  /\ total' = [total EXCEPT ![o] = @ + m.bps]
  /\ UNCHANGED <<now, pods, connector, sent, messenger, pendingMessenger, authorized,
                 pendingSender, deferred, registered, paused, askedAt>>

\* The nonce is consumed whether the slash is applied or banked; where the slash
\* reverts the delivery does, and nothing is consumed.
ReceiveMessage(m) ==
  LET o == m.operator IN
  /\ m \in sent
  /\ Accepts(m)
  /\ ~SlashReverts(o)
  /\ processed' = processed \cup {Key(m)}
  /\ \/ /\ CanSlash(o)
        /\ stake' = Slashed(o, m.bps)
        /\ total' = [total EXCEPT ![o] = @ + m.bps]
        /\ UNCHANGED deferred
     \/ /\ ~CanSlash(o)
        /\ deferred' = [deferred EXCEPT ![o] = @ + m.bps]
        /\ UNCHANGED <<stake, total>>
  /\ UNCHANGED <<now, pods, connector, sent, messenger, pendingMessenger, authorized,
                 pendingSender, registered, paused, askedAt>>

FaultyCollected(o) == 0

\* What is collected of a debt: not more than all of the stake at a time.
Collected(o) == IF deferred[o] > Full THEN Full ELSE deferred[o]

\* Anyone may collect.
FlushDeferredSlash(o) ==
  LET bps == Collected(o) IN
  /\ deferred[o] > 0
  /\ CanSlash(o) /\ ~SlashReverts(o)
  /\ deferred' = [deferred EXCEPT ![o] = @ - bps]
  /\ stake' = Slashed(o, bps)
  /\ total' = [total EXCEPT ![o] = @ + bps]
  /\ UNCHANGED <<now, pods, connector, sent, messenger, pendingMessenger, authorized,
                 pendingSender, processed, registered, paused, askedAt>>

ScheduleSender(c) ==
  /\ pendingSender' = [pendingSender EXCEPT ![c] = now + Delay]
  /\ askedAt' = [askedAt EXCEPT ![c] = IF @ = Never THEN now ELSE @]
  /\ UNCHANGED <<now, pods, connector, sent, messenger, pendingMessenger, authorized,
                 processed, deferred, total, slasher>>

\* Leaves a scheduled activation in place.
FaultyRevokeSender(c) ==
  /\ authorized' = authorized \ {c}
  /\ askedAt' = [askedAt EXCEPT ![c] = Never]
  /\ UNCHANGED <<now, pods, connector, sent, messenger, pendingMessenger, pendingSender,
                 processed, deferred, total, slasher>>

RevokeSender(c) ==
  /\ authorized' = authorized \ {c}
  /\ pendingSender' = [pendingSender EXCEPT ![c] = 0]
  /\ askedAt' = [askedAt EXCEPT ![c] = Never]
  /\ UNCHANGED <<now, pods, connector, sent, messenger, pendingMessenger, processed,
                 deferred, total, slasher>>

ActivateSender(c) ==
  /\ pendingSender[c] # 0
  /\ now >= pendingSender[c]
  /\ authorized' = authorized \cup {c}
  /\ pendingSender' = [pendingSender EXCEPT ![c] = 0]
  /\ UNCHANGED <<now, pods, connector, sent, messenger, pendingMessenger, processed,
                 deferred, total, slasher, askedAt>>

\* setMessenger once one is set: a swap takes the delay.
ScheduleMessenger(m) ==
  /\ pendingMessenger' = [next |-> m, at |-> now + Delay]
  /\ UNCHANGED <<now, pods, connector, sent, messenger, authorized, pendingSender,
                 processed, deferred, total, slasher, askedAt>>

ActivateMessenger ==
  /\ pendingMessenger.next # None
  /\ now >= pendingMessenger.at
  /\ messenger' = pendingMessenger.next
  /\ pendingMessenger' = [next |-> None, at |-> 0]
  /\ UNCHANGED <<now, pods, connector, sent, authorized, pendingSender, processed,
                 deferred, total, slasher, askedAt>>

-----------------------------------------------------------------------------
PodStep(p) == Restake(p) \/ \E left \in 0 .. MaxPrincipal : FinalizeCheckpoint(p, left)
ConnectorStep(c) ==
  \/ \E p \in Pods, o \in Operators : RegisterPodOperator(c, p, o)
  \/ \E m \in Messengers \cup {None} : SetRoute(c, m)
  \/ \E p \in Pods, l1Stake \in L1Stakes : PropagateBeaconSlashing(c, p, l1Stake)
SenderStep(c) == ScheduleSender(c) \/ RevokeSender(c) \/ ActivateSender(c)
SlasherStep ==
  \/ SetPaused
  \/ \E o \in Operators, n \in 0 .. MaxStake : SetStake(o, n) \/ Leave(o, n) \/ Join(o, n)

Next ==
  \/ Tick
  \/ \E p \in Pods : PodStep(p)
  \/ \E c \in Connectors : ConnectorStep(c) \/ SenderStep(c)
  \/ \E m \in sent : ReceiveMessage(m)
  \/ \E o \in Operators : FlushDeferredSlash(o)
  \/ \E m \in Messengers : ScheduleMessenger(m)
  \/ ActivateMessenger
  \/ SlasherStep

\* A relayer keeps delivering what a connector sent, and someone collects debts.
Relay(c, n) == \E m \in sent : Key(m) = <<c, n>> /\ ReceiveMessage(m)
Fairness ==
  /\ \A c \in Connectors, n \in 0 .. MaxNonce - 1 : WF_vars(Relay(c, n))
  /\ \A o \in Operators : WF_vars(FlushDeferredSlash(o))

Spec == Init /\ [][Next]_vars
FairSpec == Spec /\ Fairness

-----------------------------------------------------------------------------
TypeOK ==
  /\ now \in Nat
  /\ factor \in [Pods -> 0 .. Scale]
  /\ principal \in [Pods -> 0 .. MaxPrincipal]
  /\ podOperator \in [Connectors -> [Pods -> Operators \cup {None}]]
  /\ route \in [Connectors -> Messengers \cup {None}]
  /\ last \in [Connectors -> [Pods -> 0 .. Scale]]
  /\ nonce \in [Connectors -> Nat]
  /\ sent \subseteq Message
  /\ messenger \in Messengers
  /\ pendingMessenger \in [next : Messengers \cup {None}, at : Nat]
  /\ authorized \subseteq Connectors
  /\ pendingSender \in [Connectors -> Nat]
  /\ processed \subseteq Connectors \X Nat
  /\ deferred \in [Operators -> Nat]
  /\ total \in [Operators -> Nat]
  /\ stake \in [Operators -> Nat]
  /\ registered \subseteq Operators
  /\ paused \in BOOLEAN
  /\ askedAt \in [Connectors -> {Never} \cup Nat]

\* Every accepted message is applied or banked, once: whatever the order,
\* repetition and delay of the deliveries, pauses and an operator that leaves
\* with all its stake, what was slashed and what is still owed add up to the
\* messages whose nonces are consumed (L2SlashingReceiver.sol:397-427, 459-475).
LedgerExact ==
  \A o \in Operators :
    total[o] + deferred[o]
      = SumFunction([m \in {n \in sent : n.operator = o /\ Key(n) \in processed} |-> m.bps])

\* A nonce names one message of a connector, so that the receiver cannot take a
\* new slash for one it has seen (L2SlashingConnector.sol:347).
NoncesDistinct ==
  /\ \A m, n \in sent : Key(m) = Key(n) => m = n
  /\ processed \subseteq {Key(m) : m \in sent}

\* "Slashing factor should only decrease" (L2SlashingConnector.sol:280): of two
\* messages of one connector about one pod the later carries the smaller factor,
\* or both carry 0, through reverted sends, re-registrations and changes of the
\* route.  So a part of a loss that left something is sent once.  It says no such
\* thing of a pod that lost everything: a last factor of 0 reads as not written
\* (L2SlashingConnector.sol:273-278), and once the owner restakes the connector
\* sends the whole loss again, with factor 0, as often as it is asked to.
FactorsFall ==
  \A m, n \in sent :
    m.from = n.from /\ m.pod = n.pod /\ m.nonce < n.nonce
      => n.factor < m.factor \/ (m.factor = 0 /\ n.factor = 0)

\* A message is accepted only if its sender was scheduled a whole delay ago and
\* not revoked since, whatever was scheduled, revoked and activated in between
\* (L2SlashingReceiver.sol:347-350, 483-496, 575-584).
AcceptedOnlyTrusted ==
  [][\A m \in sent : Key(m) \notin processed /\ Key(m) \in processed' =>
       askedAt[m.from] # Never /\ now >= askedAt[m.from] + Delay]_vars

\* A slash that was sent reaches the operator's stake or debt, unless its sender
\* is revoked, its messenger replaced, or the operator is gone and its delegators
\* are not: then every redelivery reverts, which the comment at
\* L2SlashingReceiver.sol:369-381 rules out for an operator without stake only.
SentLands ==
  \A c \in Connectors, n \in 0 .. MaxNonce - 1 :
    (\E m \in sent : Key(m) = <<c, n>>)
      ~> \/ <<c, n>> \in processed
         \/ c \notin authorized
         \/ \A m \in sent : Key(m) = <<c, n>> => m.via # messenger \/ SlashReverts(m.operator)

\* A banked debt is collected as soon as there is something to slash, unless the
\* operator is out of stake, gone without its delegators, or the slasher paused
\* (L2SlashingReceiver.sol:459-475).
DebtCollected ==
  \A o \in Operators :
    deferred[o] > 0 ~> (deferred[o] = 0 \/ ~CanSlash(o) \/ SlashReverts(o))
=============================================================================
