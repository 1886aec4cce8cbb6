SPECIFICATION Spec
CONSTANTS
  Operators = {o1}
  Amounts = {1, 3}
  MinStake = 2
  BPS = 4
  BondBps = {1, 2}
  Delays = {0, 1}
  MaxPaidIn = 7
  MaxRound = 3
  MaxPending = 2
INVARIANTS TypeOK BondSolvent NoInheritedRequest
CHECK_DEADLOCK FALSE
