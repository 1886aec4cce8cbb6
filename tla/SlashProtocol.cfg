\* One operator, two slashes, a bond of 4 paid in at most twice.
SPECIFICATION ProtocolFairSpec
CONSTANTS
  o1 = o1
  alice = alice
  treasury1 = treasury1
  Nobody = Nobody
  Operators = {o1}
  SvcOwner = alice
  BpOwner = alice
  SlashOrigins = {alice}
  DisputeOrigins = {}
  Admins = {alice}
  Treasuries = {treasury1}
  InitConfig <- MCInitConfig
  Configs <- MCConfigs
  CustomWindows = {}
  MinWindow = 1
  MaxWindow = 1
  MinDeadline = 2
  MaxDeadline = 2
  Buffer = 0
  BPS = 4
  SlashBps = {2}
  Exposures = {4}
  Commitments = {2, 4}
  MaxSlashes = 2
  LastProposal = 0
  MaxTime = 2
  Amounts = {4}
  MinStake = 2
  BondBps = {}
  Delays = {1}
  MaxPaidIn = 8
  MaxRound = 1
INVARIANTS CountersInStep
PROPERTIES BondFrozen SlashTakesWhatWasOwed ResolvesOrOperatorGone
CHECK_DEADLOCK FALSE
