CONSTANTS
  B = 1
  NReg = 4
  RdMode = 12
  FFlags = 3
  SoftFlags = 7
  FcsrDefault = 80
  Page = 16
  BRCC = 3
  BRCC12 = 2
  JUMPI = 5
  HI18 = 4
  LO12 = 4
  Vma = 64
  Bind <- MCBind
  Elsewhere <- MCElsewhere
  Programs <- MCPrograms
  LinkRelax = {TRUE}
  Machines <- MCMachines
SPECIFICATION Spec
INVARIANTS TypeOK SetsValue BranchesReach SingleIsMultiple LinksFollow
PROPERTY LayoutSettles
CHECK_DEADLOCK FALSE
