CONSTANTS
  B = 1
  NReg = 4
  RdMode = 12
  FFlags = 3
  SoftFlags = 7
  FcsrDefault = 80
  Page = 16
  BRCC = 3
  BRCC12 = 2
  JUMPI = 5
  HI18 = 4
  LO12 = 4
  Vma = 64
  Bind <- MCBind
  Elsewhere <- MCElsewhere
  Programs <- FarPrograms
  LinkRelax = {TRUE}
  Machines <- MCMachines
SPECIFICATION Spec
INVARIANT AcceptedReach
CHECK_DEADLOCK FALSE
