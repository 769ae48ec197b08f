CONSTANTS
  M = 4
  NRegs = 3
  RasSize = 3
  Last = 7
  End = 4
  MaxMiss = 1
  Evec = 2
  Misaligned = {3}
  Programs <- AllPrograms
SPECIFICATION FairSpec
INVARIANTS TypeOK RetiresInOrder StateMatchesIsa RasMatchesIsa
PROPERTIES Progress
CHECK_DEADLOCK FALSE
