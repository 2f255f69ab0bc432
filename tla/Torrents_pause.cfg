SPECIFICATION TorrentsSpec
CONSTANTS
  None = None
  Torrents = {1, 2}
  Order <- QueueOrder
  Seeding = {2}
  LimitSets <- TwoLimits
  InitPermits = 1
  CheckSlots = {1, 2, 3}
  LiveIds = {1, 2}
  InitIds = {1, 2}
  Budgets <- PauseBudgets
INVARIANT
  PausedStaysStopped
