SPECIFICATION FairSpec
CONSTANTS
  MaxConns = 2
  MaxCmds = 2
INVARIANTS TypeOK OneMessageEach AtMostOneLate
PROPERTY PromptReturns
CHECK_DEADLOCK FALSE
