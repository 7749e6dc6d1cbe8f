SPECIFICATION NetworkSpec
CONSTANTS
  Session = {"x", "y", "z"}
  Trusted = {"x"}
  MaxPeers = 1
  EarlyDrops = FALSE
VIEW View
INVARIANTS
  PeersAreCounted
  DialsAreCounted
  SessionsAreForgotten
  FetcherIsSound
  PoolIsIndexed
  PoolIsExecutable
PROPERTY TxsAreKept
CHECK_DEADLOCK FALSE
