SPECIFICATION Spec
CONSTANTS
  Address <- MCNode
  Node <- MCNode
  GenesisList <- MCGenesisList
  Lists <- MCLists
  EpochInterval = 8
  BlockInterval = 1
  MaxValidatorSize = 2
  MaxTime = 5
  MaxLate = 1
  MaxTasks = 1
  MaxCrashes = 0
INVARIANTS
  ConfirmedIsIrreversible
CHECK_DEADLOCK FALSE
