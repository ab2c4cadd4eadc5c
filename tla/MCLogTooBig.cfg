CONSTANTS
  Procs = {p1, p2}
  Blocks = {1, 2, 3, 4}
  Vals = {0, 1}
  Updates <- MCUpdates
  NoBlock = NoBlock
  LOGSIZE = 4
  MAXOPBLOCKS = 2
  OpBlocks = 2
  size = 4
SPECIFICATION MCSpec
INVARIANTS NeverTooBig
