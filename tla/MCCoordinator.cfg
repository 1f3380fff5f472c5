SPECIFICATION FairSpec
CONSTANTS
  Scalers = {"a", "b", "c"}
  Namespaces = {"n", "m"}
  Pools = {"p", "q"}
  Namespace <- MCNamespace
  Pool <- MCPool
  Kinds <- MCKinds
  Editable = {"a"}
  Ceilings = {3}
  Floors = {2}
  Marks = {"wva"}
  Quotas = {0, 3}
  Queues = {0, 2}
  Healthy = {"n"}
  MaxTries = 2
  MaxChanges = 2
INVARIANT SplitsTheQuota
PROPERTIES
  NothingOverwritten
  
  Settles
  StaysOut
