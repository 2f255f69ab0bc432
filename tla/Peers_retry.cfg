SPECIFICATION PeersSpec
CONSTANTS
  x = x
  y = y
  z = z
  None = none
  Addrs = {x, y}
  BlockLists <- MCBlockLists
  Tasks = {1, 2, 3}
  PeerLimit = 2
  Budgets <- RetryBudgets
INVARIANTS
  DialledIsKnown
CHECK_DEADLOCK FALSE
