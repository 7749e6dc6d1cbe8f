SPECIFICATION StorageSpec
VIEW View
CONSTANTS
  Blocks <- WideTree
  TxsOf <- WideTxs
  TriesInMemory = 2
  Archive = FALSE
  Rewinds = {}
  TornWrites = FALSE
INVARIANTS
  RestartsSafely
  ChainIsIndexed
  HeadersAreIndexed
  TriesAreComplete
  StateIsExact
  FastChainIsWhole
PROPERTIES
  ImplementsCanonicalChain
  OtherStoresHold
  RollbackIsExact
  FinaliseIsExact
CHECK_DEADLOCK FALSE
