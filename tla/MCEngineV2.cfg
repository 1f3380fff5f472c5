SPECIFICATION FairSpec
CONSTANTS
  Setups <- MCSetups
  Interval = 4
  RollingAverageWindowSize = 2
INVARIANT RememberedCapacity
PROPERTIES ShrinksWithinSpare GrowsToNeed QueuesDrain Settles Lean
