\* Handlers that never return, a server that never answers.
SPECIFICATION FairSpec
CONSTANTS
  Claims = {c1, c2}
  MaxConcurrentCalls = 1
  Exchanges <- AllFaults
  MaxAttempts = 2
  MaxToken = 1
PROPERTIES ShutdownCompletes CallsEnd
CHECK_DEADLOCK FALSE
