CONSTANTS
  Last = 3
  Ranges <- UniformRanges
SPECIFICATION Spec
INVARIANTS TypeOK RightInstruction FetchFollowsProgram NoBacklog
