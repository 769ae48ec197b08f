CONSTANTS
  N = 3
  Addr = {4, 8}
  Lo = 2
  Hi = 5
  SjAddr = 8
SPECIFICATION SjSpec
INVARIANTS TypeOK NoHole SpillIntact SavedFramesKept
PROPERTIES RetNeverLost StackBetweenJumps LongjmpReturnsToSetjmp StackRestored
CHECK_DEADLOCK FALSE
