\* a mark without a sweep before the collection
CONSTANTS
  MaxNodes = 2
  MaxRefs = 1
  MaxRoots = 1
  MaxCycles = 2
CHECK_DEADLOCK FALSE
SPECIFICATION ApiSpec
INVARIANTS NeverCollectsReachable
