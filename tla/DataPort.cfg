CONSTANTS
  Addr = {0, 1, 2}
  Scratch = {2}
  Data = {0, 1}
  Typ = {1, 6}
  Interrupts = {FALSE, TRUE}
SPECIFICATION FairSpec
INVARIANTS TypeOK NothingOutstanding WaitsForOwn LoadsSeeStores
PROPERTIES NoEternalStall
