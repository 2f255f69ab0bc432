SPECIFICATION QueueSpec
CONSTANTS
  None = None
  Torrents = {1, 2, 3}
  LimitSets <- SlotLimits
  SlotLen = 2
  IdleGrace = 1
  MaxAge = 7
  Budgets <- SlotBudgets
INVARIANTS
  QueueTypeOK
  LimitsRespected
  NoIdleSlot
PROPERTIES
  NotCutEarly
  LongestWaitingFirst
  EverySeederSeeds
  MovesKeepOrder
