CONSTANTS
  Procs = {p1, p2}
  NBUF = 2
  Blocks = {k1, k2, k3}
  Vals = {0, 1}
  NoBlock = NoBlock
  Nobody = Nobody
SPECIFICATION FairSpec
PROPERTIES Coherent RequestFinishes
