\* Only faults a retry cures, one slot, two calls, three claim keys.
SPECIFICATION Spec
CONSTANTS
  Claims = {c1, c2}
  MaxConcurrentCalls = 1
  Exchanges <- TransientFaults
  MaxAttempts = 3
  MaxToken = 2
SYMMETRY ClaimSymmetry
INVARIANTS HandlerBound RetriedUntilDeadline GrantNotForgotten
CHECK_DEADLOCK FALSE
