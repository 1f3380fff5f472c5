SPECIFICATION Spec
CONSTANTS
  v1 = v1
  v2 = v2
  v3 = v3
  n1 = n1
  n2 = n2
  A = A
  H = H
  Empty = Empty
  Unknown = Unknown
  Default = Default
  Cluster = Cluster
  None = None
  Variants <- MCVariants
  Namespaces <- MCNamespaces
  Types <- MCTypes
  Chains <- MCChains
  Batches <- MCBatches
INVARIANTS
  WithinHeadroom
  StrictPriority
  KeepsRunningReplicas
  MostRestrictiveWins
