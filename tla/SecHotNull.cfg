SPECIFICATION Spec
CONSTANTS
  MaxPorts = 2
  NPhy = 1
  s1 = s1
  Slaves <- OneSlave
  RingIds = {0}
  HostRings <- TestRings
  VhostIds = {}
INVARIANTS NoNullCall
CHECK_DEADLOCK FALSE
