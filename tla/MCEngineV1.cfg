SPECIFICATION FairSpec
CONSTANTS
  Variants <- MCVariants
  Setups <- MCSetups
  Cost <- MCCost
  KvCacheThreshold <- MCThreshold
  QueueLengthThreshold <- MCThreshold
  KvSpareTrigger <- MCTrigger
  QueueSpareTrigger <- MCTrigger
INVARIANTS
  ZeroIsADecisionWhenRead
  NoCascade
  NoOvershoot
PROPERTIES
  Converges
  IdleSleeps
CHECK_DEADLOCK FALSE
