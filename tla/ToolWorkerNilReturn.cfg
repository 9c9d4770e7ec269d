\* The first registration runs into the timeout of the HTTP client.
SPECIFICATION Spec
CONSTANTS
  Claims = {c1}
  MaxConcurrentCalls = 1
  Exchanges <- AllFaults
  MaxAttempts = 1
  MaxToken = 1
INVARIANTS NilMeansShutdown
CHECK_DEADLOCK FALSE
