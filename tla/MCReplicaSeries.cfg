SPECIFICATION Spec
CONSTANTS
  Accelerators = {A100, H100}
  Counts = {0, 1, 2}
  Unresolved = Unresolved
  None = None
INVARIANTS NeverGap OneSeriesAtRest
