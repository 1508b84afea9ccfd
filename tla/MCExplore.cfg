SPECIFICATION FairSpec
CONSTANTS
  Node = {1, 2, 3, 4, 5}
  Systems <- AllSystems
  Bounds <- AllBounds
INVARIANTS
  SafetyPassSound
  WitnessReal
  ReachabilityFailSound
  DeadlockVerdictSound
  AlwaysReachablePassSound
  OverallPassComplete
  CounterexampleReplays
  CounterexampleShortest
PROPERTIES
  Terminates
CHECK_DEADLOCK FALSE
