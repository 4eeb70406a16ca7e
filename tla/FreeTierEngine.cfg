CONSTANTS
  k1 = k1
  k2 = k2
  u1 = u1
  Users = {u1}
  Pids = {k1, k2}
  Strikes = 2
  MaxCalls = 1
  MaxFaults = 1
  None = None
SPECIFICATION FairSpec
INVARIANTS
  FallbackNeedsARun
  FallbackTakesEffect
PROPERTIES
  EngineServes
CHECK_DEADLOCK FALSE
