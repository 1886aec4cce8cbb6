SPECIFICATION Spec
CONSTANTS
  b1 = b1
  b2 = b2
  All = All
  Delegators = {d1, d2}
  Operators = {o1, o2}
  Blueprints = {b1, b2}
  Deposits = {2}
  Delegations = {1}
  Unstakes = {1, 2}
  Selections <- MCSingles
  VirtualShares = 1
  VirtualAssets = 1
  BPS = 2
  SlashBps = {1}
  UnstakeDelay = 0
  WithdrawDelay = 0
  DepositCap = 4
  MaxDeposited = 2
  MaxRequests = 1
  MaxRound = 0
  MaxPending = 0
  MaxSlashes = 0
INVARIANT BlueprintSharesMatch
SYMMETRY Symmetry
CHECK_DEADLOCK FALSE
