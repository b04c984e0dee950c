SPECIFICATION FairSpec
CONSTANTS
  NRx = 1
  NTx = 1
  d1 = d1
  d2 = d2
  Devs <- TwoGuests
  NULL = NULL
  Depths = {0, 2}
INVARIANTS TypeOK DirectHandshake DirectNoUseAfterUnmap PublishedIsBound
PROPERTY DestroyReturns
