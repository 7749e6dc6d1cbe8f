SPECIFICATION SyncSpec
CONSTANTS
  MaxBlock = 20
  MaxHeaderFetch = 6
  Stride = 3
  MaxForkAncestry = 12
INVARIANTS
  AncestorIsFound
  HeadersInOrder
  PartsAreAccounted
  NodesAreAccounted
  SuccessIsComplete
  SealsAreAborted
  EverySlotFilled
CHECK_DEADLOCK FALSE
