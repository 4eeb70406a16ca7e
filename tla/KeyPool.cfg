CONSTANTS
  c1 = c1
  c2 = c2
  NumKeys = 2
  Setups <- MCSetups
  Callers = {c1, c2}
  circuitOpenThreshold = 2
  MaxCalls = 2
  MaxUpkeep = 1
  RRMod = 2
  None = None
SYMMETRY MCSymmetry
SPECIFICATION Spec
INVARIANTS
  EveryKeyRecovers
PROPERTIES
  GiveUpOnlyWhenExhausted
  CircuitNeedsFailures
CHECK_DEADLOCK FALSE
