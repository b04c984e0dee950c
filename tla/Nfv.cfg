SPECIFICATION FairSpec
CONSTANTS
  NSlots = 2
  MaxPorts = 2
  NPhy = 1
  Slaves = {1}
  HostRings = {5}
  RingIds = {5, 6}
INVARIANTS TypeOK NoBadCall PairUnmixed
PROPERTIES StopQuiesces LoopTakesEffect
CHECK_DEADLOCK FALSE
