SPECIFICATION Spec
CONSTANTS
  b1 = b1
  b2 = b2
  All = All
  Delegators = {d1, d2}
  Operators = {o1}
  Blueprints = {b1, b2}
  Deposits = {1}
  Delegations = {1, 2}
  Unstakes = {1}
  Selections <- MCSelections
  VirtualShares = 2
  VirtualAssets = 1
  BPS = 2
  SlashBps = {1}
  UnstakeDelay = 1
  WithdrawDelay = 0
  DepositCap = 2
  MaxDeposited = 2
  MaxRequests = 1
  MaxRound = 1
  MaxPending = 1
  MaxSlashes = 1
INVARIANTS DepositsAccounted DelegatedWithinDeposit AggregateInStep SharesClaimed
PROPERTIES FrozenUnderSlash
SYMMETRY Symmetry
CHECK_DEADLOCK FALSE
