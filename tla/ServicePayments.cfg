\* Two operators, three periods, one job.
SPECIFICATION FairSpec
CONSTANTS
  op1 = op1
  op2 = op2
  keeper = keeper
  Operators = {op1, op2}
  Pricings = {"Subscription", "EventDriven"}
  Rate = 16
  Interval = 1
  Ttl = 2
  Grace = 1
  Qos = {0, 8}
  EventRate = 9
  QuotePrices = {0, 9}
  Required = {1, 2}
  Threshold = 5
  Minimum = 2
  Full = 8
  Split <- MCSplit
  Outsiders <- MCOutsiders
  Movers = {op1}
  Joiners = {op2}
  Claimants = {op1}
  Stakes = {0, 2}
  Deposits = {8}
  MaxDeposited = 24
  MaxJobs <- MCMaxJobs
  MaxTime <- MCMaxTime
INVARIANTS TypeOK Solvent EscrowExact PaidByPeriods ServedOnlyBilled
PROPERTIES ScheduleKept
CHECK_DEADLOCK FALSE
