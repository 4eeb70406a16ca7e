SPECIFICATION FairSpec
CONSTANTS
  Sources = {s1}
  Plugins = {p1}
  Savers = {u1}
  Default = s1
  Forced <- MCForced
  MaxSaves = 2
  MaxChanges = 1
  MaxFaults = 1
  None = None
INVARIANTS NeitherLosesTheOther KeepsItsModels
PROPERTY ComesToShowIt
