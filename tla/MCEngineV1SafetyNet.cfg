SPECIFICATION Spec
CONSTANTS
  Variants <- MCVariants
  Setups <- MCNoMetrics
  Cost <- MCCost
  KvCacheThreshold <- MCThreshold
  QueueLengthThreshold <- MCThreshold
  KvSpareTrigger <- MCTrigger
  QueueSpareTrigger <- MCTrigger
INVARIANT ZeroIsADecision
