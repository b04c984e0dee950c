SPECIFICATION Spec
CONSTANTS
  Bufs <- MCBufs
  Pools <- MCPools
  Home <- MCHome
  Ports <- MCPorts
  Kind <- MCKind
  RxPool <- MCRxPool
  TxPools <- MCTxPools
  Routes <- MCRoutes
  CopyModes <- NicCopied
  MaxBurst = 2
  Capacity = 3
INVARIANT NoneLost
