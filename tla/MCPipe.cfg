CONSTANTS
  Procs = {p1, p2}
  Creator = p1
  Killable = {p2}
  Bytes = {0, 1}
  Junk = 1
  Messages <- ShortAndLong
  MaxN = 2
  PIPESIZE = 2
  UintMod = 4
SPECIFICATION FairSpec
INVARIANTS FreedIsUnused WriterSleepsOnFull
PROPERTIES Fifo ReaderSleepsOnEmpty EndOfFileReaches
CHECK_DEADLOCK FALSE
