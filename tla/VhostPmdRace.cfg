SPECIFICATION Spec
CONSTANTS
  NRx = 1
  NTx = 1
  d1 = d1
  d2 = d2
  Devs <- TwoGuests
  NULL = NULL
  Depths = {1}
INVARIANT NoUseAfterUnmap
