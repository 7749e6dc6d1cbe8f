SPECIFICATION Spec
CONSTANTS
  Address <- MCAddress
  GenesisValidators <- MCGenesisValidators
  DelegatePrefix = 100
  MintCntPrefix = 100
  MaxEpoch = 1
  EpochInterval = 2
  BlockInterval = 1
  MaxValidatorSize = 2
  GenesisTime = 0
  GenesisBalance <- MCGenesisBalance
  BlockReward = 0
  Coinbase <- MCCoinbase
  TxTypes <- MCTxTypes
  Values <- MCValues
  MaxTxs = 2
  MaxBlocks = 2
  MaxTime = 2
INVARIANTS
  TypeOK
  VotesMatchDelegations
