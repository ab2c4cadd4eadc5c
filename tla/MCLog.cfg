CONSTANTS
  Procs = {p1, p2}
  Blocks = {1, 2, 3}
  Vals = {0, 1}
  Updates <- MCUpdates
  NoBlock = NoBlock
  LOGSIZE = 2
  MAXOPBLOCKS = 1
  OpBlocks = 2
  size = 3
SPECIFICATION MCFairSpec
INVARIANTS HeaderFits
PROPERTIES Atomic WaiterGetsIn
