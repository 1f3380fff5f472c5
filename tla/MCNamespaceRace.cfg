SPECIFICATION Spec
CONSTANTS
  Names = {"h", "s"}
  Population <- MCPopulation
  MapIds = {1, 2, 3, 4, 5}
  None = None
INVARIANTS TrackedIffManaged
