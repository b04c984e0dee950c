SPECIFICATION FairSpec
CONSTANTS
  Size = 4
  M = 8
  Burst = 2
  Objs = {1, 2}
  Fixed = FALSE
INVARIANTS TypeOK CountsInRange ClaimsDisjoint
PROPERTIES ImplementsFifo Drains
