SPECIFICATION Spec
CONSTANTS
  Procs = {p1, p2}
  Maker = p1
  Remover = p2
  Nobody = Nobody
  Names = {"a", "b"}
  Calls <- SomeCalls
  ninodes = 4
  NINODE = 3
  NFILE = 1
  MaxLost = 1
INVARIANTS
  RefsAccounted
  CacheCoherent
  LinksCounted
  NoWaitCycle
  PanicsAccounted
