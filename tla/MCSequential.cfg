CONSTANTS
  Files = {1, 2}
  ROOTINO = 1
  NoFile = 0
  Writers = {3}
  Blocks = {1, 2, 3, 4}
  BSIZE = 2
  NDIRECT = 1
  Bytes = {9}
  ImageByte = 8
  LOGSIZE_ = 6
  WriteSizes = {2, 3, 4}
  ReadSize = 3
  NFRAMES = 14
  Slots = {1, 2}
  InitSlot = 1
  PGSIZE = 2
  NPTENTRIES = 2
  KERNBASE = 12
  KTABLES = 1
  KernelPages <- MCKernelPages
  Programs <- MCPrograms
  Deltas <- MCDeltas
  StorePages = {1}
  VmUintMod = 32
  Users = {1, 2}
  FirstUser = 1
  NFILE_ = 3
  NOFILE = 2
  PipePages = {1}
  HeapEnd = 9
  HEADER = 2
  NALLOC = 3
  Requests = {0, 3, 28, 30, 31}
  HeapUintMod = 32
  MAXARGS = 3
  MaxLine = 5
  Pids = {1, 2, 3, 4, 5, 6}
  ShPid = 1
  ShLines <- MCShLines
  DIRSIZ = 2
  PathLetters = {"a", "b"}
  MaxPath = 7
  Sleepers = {1}
  SleepFor = {0, 1, 3}
  UINT = 8
  StartTicks = {0, 6}
  Horizon = 4
  UintMod = 16
  ArgKernBase = 8
  INTSIZE = 2
  MaxSize = 7
  MaxFile = 3
SPECIFICATION SeqSpec
VIEW SeqView
INVARIANTS
  BlocksOwnedOnce ReadsWhatWasWritten ChunkFitsLog
  FramesOwnedOnce UserMemory
  RefsCounted
  HeapPartition
  ParsedAsWritten LineRunsAsWritten
  ElementsOfPath SleptLongEnough ArgsInside
CHECK_DEADLOCK FALSE
