SPECIFICATION Spec
CONSTANTS
  Address <- MCAddress
  GenesisValidators <- MCGenesisValidators
  DelegatePrefix = 100
  MintCntPrefix = 100
  MaxEpoch = 2
  EpochInterval = 4
  BlockInterval = 1
  MaxValidatorSize = 2
  GenesisTime = 0
  GenesisBalance <- MCGenesisBalance
  BlockReward = 0
  Coinbase <- MCCoinbase
  TxTypes <- MCTxTypes
  Values <- MCValues
  MaxTxs = 1
  MaxBlocks = 4
  MaxTime = 8
INVARIANTS
  MintCntIsHistory
  ElectionsAtEpochs
  ElectionSameOnAllNodes
