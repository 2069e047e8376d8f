\* the BIFs: three objects, two references each, two roots (or one twice), two collections
CONSTANTS
  MaxNodes = 3
  MaxRefs = 2
  MaxRoots = 2
  MaxCycles = 2
CHECK_DEADLOCK FALSE
SPECIFICATION FairSpec
INVARIANTS NoDangling TriColor GrayQueue LiveExact NeverCollectsReachable
PROPERTIES ImplementsObjectGraph CollectTerminates
