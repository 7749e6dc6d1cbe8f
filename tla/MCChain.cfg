SPECIFICATION Spec
CONSTANTS
  Address <- MCNode
  Node <- MCNode
  GenesisList <- MCGenesisList
  Lists <- MCLists
  EpochInterval = 4
  BlockInterval = 2
  MaxValidatorSize = 2
  MaxTime = 7
  MaxLate = 1
  MaxTasks = 1
  MaxCrashes = 1
INVARIANTS
  TypeOK
  ConfirmedIsWitnessed
  ConfirmationComplete
  OffSlotBlocksStayHome
  HeadIsUsable
  CrashIsMadeGood
PROPERTIES
  ConfirmedNeverGoesBack
CHECK_DEADLOCK FALSE
