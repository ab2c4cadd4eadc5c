CONSTANTS
  NPROC = 3
  NCPU = 2
  MAX = 0
  DEFAULT_BUDGET = 7
  TICKS_TO_PROMOTE = 7
  UintMod = 8
  MaxTicks = 0
  MaxPid = 3
  TicksApart = FALSE
  Events <- LifecycleEvents
SPECIFICATION Spec
INVARIANTS ListsPartition OneCpuPerProcess ParentLive WaiterWillBeWoken
