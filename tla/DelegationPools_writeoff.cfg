SPECIFICATION Spec
CONSTANTS
  b1 = b1
  b2 = b2
  All = All
  Delegators = {d1, d2}
  Operators = {o1, o2}
  Blueprints = {b1}
  Deposits = {8, 16}
  Delegations = {8}
  Unstakes = {7}
  Selections = {}
  VirtualShares = 2
  VirtualAssets = 1
  BPS = 4
  SlashBps = {3}
  UnstakeDelay = 0
  WithdrawDelay = 0
  DepositCap = 24
  MaxDeposited = 16
  MaxRequests = 1
  MaxRound = 0
  MaxPending = 1
  MaxSlashes = 1
INVARIANT OnlySlashesWrittenOff
CHECK_DEADLOCK FALSE
