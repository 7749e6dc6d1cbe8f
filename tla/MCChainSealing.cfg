SPECIFICATION Spec
CONSTANTS
  Address <- MCNode
  Node <- MCNode
  GenesisList <- MCGenesisList
  Lists <- MCLists
  EpochInterval = 4
  BlockInterval = 2
  MaxValidatorSize = 2
  MaxTime = 5
  MaxLate = 1
  MaxTasks = 2
  MaxCrashes = 0
INVARIANTS
  HeadIsHeaviest
CHECK_DEADLOCK FALSE
