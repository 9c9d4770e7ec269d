\* Every fault, two slots, two calls, two claim keys, one token rotation.
SPECIFICATION Spec
CONSTANTS
  Claims = {c1, c2}
  MaxConcurrentCalls = 2
  Exchanges <- AllFaults
  MaxAttempts = 2
  MaxToken = 2
SYMMETRY ClaimSymmetry
INVARIANTS TypeOK SlotsBalanced ReturnedClean NoResultDropped
PROPERTIES KeepsContract HandedOutOnce OneAttemptPastDeadline
CHECK_DEADLOCK FALSE
