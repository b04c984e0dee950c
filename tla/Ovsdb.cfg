SPECIFICATION OvsdbFairSpec
CONSTANTS
  InitReqs = 2
  MaxReqs = 5
  MaxEchoes = 3
INVARIANTS OvsdbTypeOK RepliesInStep
PROPERTY MainReturns
CHECK_DEADLOCK FALSE
