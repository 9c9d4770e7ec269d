\* Only faults a retry cures, handlers that return.
SPECIFICATION RecoverySpec
CONSTANTS
  Claims = {c1, c2}
  MaxConcurrentCalls = 1
  Exchanges <- TransientFaults
  MaxAttempts = 2
  MaxToken = 1
PROPERTIES GrantRecovered
CHECK_DEADLOCK FALSE
