CONSTANTS
  m1 = m1
  bad = bad
  Manifests = {m1}
  Broken = {}
  Entry <- MCEntry
  Children = {c1, c2}
  ChanCap = 1
  Arrivals = {"on", "off", "delete", "ensure", "close"}
  None = None
  ReadError = ReadError
SPECIFICATION FairSpec
PROPERTIES
  DisabledStops
  EnabledRecovers
  DeadEndpointDelisted
  CloseStops
CHECK_DEADLOCK FALSE
