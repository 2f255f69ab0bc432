SPECIFICATION PeersSpec
CONSTANTS
  x = x
  y = y
  z = z
  None = none
  Addrs = {x, y}
  BlockLists <- MCBlockLists
  Tasks = {1, 2, 3}
  PeerLimit = 2
  Budgets <- ReconnectBudgets
INVARIANTS
  DiesInItsOwnState
CHECK_DEADLOCK FALSE
