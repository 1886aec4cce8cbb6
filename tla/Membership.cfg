\* Three operators, a service for two of them, with and without security requirements.
SPECIFICATION Spec
CONSTANTS
  Operators = {o1, o2, o3}
  MinOperators = 1
  MaxOperators = 2
  Dynamic = TRUE
  Accepted = {1}
  Commitments = {1}
  ExitConfigs <- MCExitConfigs
  Grace = 0
  MaxTime = 2
INVARIANTS CountsAgree PaymentLeavesOnce CommitmentsAccepted
PROPERTIES QuorumKept
SYMMETRY Symmetry
CHECK_DEADLOCK FALSE
