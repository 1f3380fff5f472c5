SPECIFICATION Spec
CONSTANTS
  Names = {"s"}
  KindOrder <- MCOneKind
  Contents = {"absent", "invalid", "b"}
  Labels = {TRUE, FALSE}
  Exclusions = {TRUE, FALSE}
  None = None
INVARIANTS DivergenceWarned NeverOutdated
PROPERTIES GlobalFollows
