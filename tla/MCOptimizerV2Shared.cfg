SPECIFICATION Spec
CONSTANTS
  Setups <- MCSharedType
  Unit = 240
  Up = 288
  Down = 336
INVARIANT RespectsResourceConstraints
