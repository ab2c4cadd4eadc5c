SPECIFICATION Spec
CONSTANTS
  Cpus = {c1, c2}
  Boot = c1
  Procs = {p1, p2}
  None = None
  Chars = {"x"}
  INPUT_BUF = 3
  UintMod = 6
  ReadSizes = {2}
VIEW ConsoleView
INVARIANTS
  CliBalanced
  ReaderWoken
  CircularWaitAccounted
PROPERTIES
  Lines
CHECK_DEADLOCK FALSE
