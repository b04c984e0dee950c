SPECIFICATION FairSpec
CONSTANTS
  MaxConn = 2
  MaxCmds = 3
  MaxPri = 2
INVARIANTS TypeOK AnswersMatch
PROPERTY ShellReturns
CHECK_DEADLOCK FALSE
