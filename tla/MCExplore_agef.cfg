SPECIFICATION Spec
CONSTANTS
  Node = {1, 2, 3, 4, 5}
  Systems <- AllSystems
  Bounds <- AllBounds
INVARIANTS
  AlwaysReachableFailSound
CHECK_DEADLOCK FALSE
