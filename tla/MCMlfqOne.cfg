CONSTANTS
  NPROC = 3
  NCPU = 1
  MAX = 1
  DEFAULT_BUDGET = 1
  TICKS_TO_PROMOTE = 2
  UintMod = 3
  MaxTicks = 3
  MaxPid = 3
  TicksApart = TRUE
  Events <- MlfqEvents
SPECIFICATION FairSpec
INVARIANTS BudgetInRange
PROPERTIES StrictPriority RunnableRuns
