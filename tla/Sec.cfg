SPECIFICATION FairSpec
CONSTANTS
  MaxPorts = 2
  NPhy = 1
  s1 = s1
  Slaves <- OneSlave
  RingIds = {0, 1, 300}
  HostRings <- TestRings
  VhostIds = {0}
INVARIANTS TypeOK TableInv ResetClears NullCallOnlyMidPatch
PROPERTIES StopQuiesces EveryPatchPolled
CHECK_DEADLOCK FALSE
