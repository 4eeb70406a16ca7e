CONSTANTS
  p1 = p1
  p2 = p2
  h1 = h1
  h2 = h2
  Procs = {p1, p2}
  Handlers = {h1}
  UserProcs = {p1, p2}
  Ids = {a, b}
  MaxAttempts = 2
  MaxCalls = 2
  RenameFails = TRUE
  None = None
SPECIFICATION FairSpec
PROPERTIES
  MergesAsPromised
  FollowKeepsTheEntry
  EveryProcessFollows
CHECK_DEADLOCK FALSE
