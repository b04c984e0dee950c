SPECIFICATION FairSpec
CONSTANTS
  MaxPieces = 3
  MaxFaults = 4
  Window = 5
INVARIANTS TypeOK OneCommand NeverStuck
PROPERTY Reconnects
CHECK_DEADLOCK FALSE
