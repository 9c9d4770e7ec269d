SPECIFICATION Spec
CONSTANTS
  HeartbeatInterval = 9
  RefreshSkew = 6
  Second = 1
  Lifetimes <- MCLifetimes
  Latency = 1
  MaxFails = 1
  MaxTime = 40
INVARIANTS TypeOK NeverLapses HeardEveryInterval
PROPERTIES NeverSpins
CHECK_DEADLOCK FALSE
