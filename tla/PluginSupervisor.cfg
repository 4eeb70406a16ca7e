CONSTANTS
  m1 = m1
  bad = bad
  Manifests = {m1, bad}
  Broken = {bad}
  Entry <- MCEntry
  Children = {c1, c2}
  ChanCap = 1
  Arrivals = {"on", "off", "delete", "gone", "ensure", "close"}
  None = None
  ReadError = ReadError
SPECIFICATION Spec
INVARIANTS
  NoOrphanChild
  NoLostWakeup
  RestLeavesNoChild
  Safe
PROPERTIES
  OffersAsPromised
CHECK_DEADLOCK FALSE
