SPECIFICATION FairSpec
CONSTANTS
  Setups <- MCSetups
  Unit = 240
  Up = 288
  Down = 336
INVARIANTS BudgetsNeverOverdrawn NoFlapping RescaleIsFair
PROPERTIES CyclesEnd Settles EventuallyServed
