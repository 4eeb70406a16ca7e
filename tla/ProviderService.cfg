CONSTANTS
  k1 = k1
  k2 = k2
  k3 = k3
  p1 = p1
  p2 = p2
  s1 = s1
  s2 = s2
  u1 = u1
  u2 = u2
  Users = {u1}
  Pids = {k1, k2, k3}
  Configs <- MCConfigs
  FirstConf <- MCFirst
  MaxCalls = 2
  MaxChanges = 1
  MaxFaults = 2
  None = None
SPECIFICATION FairSpec
INVARIANTS
  NoLostChild
PROPERTIES
  ServiceComesBack
  SettingsReachTheChild
CHECK_DEADLOCK FALSE
