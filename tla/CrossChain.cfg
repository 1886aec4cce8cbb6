\* Two messages of one connector, over a bridge that is replaced.
SPECIFICATION FairSpec
CONSTANTS
  pod = pod
  operator = operator
  old = old
  bridge = bridge
  next = next
  Pods = {pod}
  Operators = {operator}
  Connectors = {old}
  Messengers = {bridge, next}
  Scale = 4
  Full = 4
  Delay = 1
  L1Stakes = {0, 1}
  MaxPrincipal = 2
  MaxStake = 1
  MaxNonce = 2
  MaxTime = 1
INVARIANTS LedgerExact FactorsFall
PROPERTIES AcceptedOnlyTrusted SentLands DebtCollected
