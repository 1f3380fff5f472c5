SPECIFICATION RecoveringSpec
CONSTANTS
  Variants <- MCVariants
  Setups <- MCSetups
  MaxReplicas = 1
INVARIANTS
  PoolHasSource
  CycleIsDone
PROPERTIES
  CycleEnds
  WakesUp
