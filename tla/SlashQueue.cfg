\* One operator that comes and goes, every kind of proposer and disputer (a dispute
\* origin that may be the slashing origin, and one that is not), changing
\* configurations; the clock runs past the last possible deadline.
SPECIFICATION FairSpec
CONSTANTS
  o1 = o1
  alice = alice
  bob = bob
  carol = carol
  dave = dave
  treasury1 = treasury1
  Nobody = Nobody
  Operators = {o1}
  SvcOwner = alice
  BpOwner = bob
  SlashOrigins = {carol}
  DisputeOrigins = {carol, dave}
  Admins = {alice}
  Treasuries = {treasury1}
  InitConfig <- MCInitConfig
  Configs <- MCConfigs
  CustomWindows = {0}
  MinWindow = 1
  MaxWindow = 2
  MinDeadline = 1
  MaxDeadline = 2
  Buffer = 1
  BPS = 2
  SlashBps = {2}
  Exposures = {2}
  Commitments = {0}
  MaxSlashes = 2
  LastProposal = 0
  MaxTime = 5
INVARIANTS TrackerCountsOpen BondsBacked
PROPERTIES NoFreeFreeze ReviewTimeGuaranteed EverySlashResolves OnlyDisputeMovesDeadline ImplementsLifecycle
CHECK_DEADLOCK FALSE
