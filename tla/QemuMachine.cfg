CONSTANTS
  B = 1
  NReg = 4
  RdMode = 12
  FFlags = 3
  SoftFlags = 7
  FcsrDefault = 80
  Page = 16
  Threads = {t1}
  Insns <- MCInsns
  Starts <- MCStarts
  InitMem <- MCMem
  FpResults = {0, 129}
  MaxInsns = 1
  MaxRestarts = 1
  RetReg = 1
SPECIFICATION Spec
INVARIANTS TypeOK AsArchitected StatusKept CallsResume
CHECK_DEADLOCK FALSE
