\* Calls for two recipients of one account and a forged one, one worker, a queue of
\* one.  The limiters see five calls in the seconds 0 to 4, two windows and a cleanup
\* of the first; past them go calls of the first three, in the seconds 0 and 1.
SPECIFICATION FairSpec
CONSTANTS
  toOne = toOne
  toOther = toOther
  forged = forged
  account = account
  stranger = stranger
  ip1 = ip1
  MaxCalls = 5
  Requests = {toOne, toOther, forged}
  Eligible = {toOne, toOther}
  PubkeyOf <- MCPubkeyOf
  Ips = {ip1}
  IpWindow = 2
  IpMax = 2
  KeyWindow = 2
  KeyMax = 2
  CacheTtl = 0
  JobsTtl = 1
  Capacity = 1
  Workers = 1
  Wrap = 9
  MaxTime = 4
  ProvedCalls = 3
  ProvedTime = 1
INVARIANTS WorkersBounded QueueCountExact OwnProof RateBound
PROPERTIES CompletedIsFinal QueuedIsAnswered
CHECK_DEADLOCK FALSE
