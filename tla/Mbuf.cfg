SPECIFICATION FairSpec
CONSTANTS
  Bufs <- MCBufs
  Pools <- MCPools
  Home <- MCHome
  Ports <- MCPorts
  Kind <- MCKind
  RxPool <- MCRxPool
  TxPools <- MCTxPools
  Routes <- MCRoutes
  CopyModes <- Modes
  MaxBurst = 2
  Capacity = 3
INVARIANTS TypeOK NeverTwice LostOnlyAsCopy InOwnPool
PROPERTY PoolRefills
