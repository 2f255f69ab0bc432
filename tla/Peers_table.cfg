SPECIFICATION PeersSpec
CONSTANTS
  x = x
  y = y
  z = z
  None = none
  Addrs = {x, y}
  BlockLists <- MCBlockLists
  Tasks = {1, 2, 3}
  PeerLimit = 2
  Budgets <- TableBudgets
INVARIANTS
  PeersTypeOK
  StatsMatchTable
  ConnectionHasEntry
  QueuedIsTried
  
CHECK_DEADLOCK FALSE
