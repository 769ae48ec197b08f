SPECIFICATION FairSpec
CONSTANTS
  Cpu = {c1, c2}
  Mapped = {0, 1}
  Cell = {1}
  M = 3
  Calls <- SomeCalls
INVARIANT TypeOK
PROPERTIES LoopsAreAtomic LockFree
CHECK_DEADLOCK FALSE
