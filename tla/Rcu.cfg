CONSTANTS
  NReaders = 2
  Writers = {w1, w2}
  Regions = {g0, g1, g2}
  Region0 = g0
  MaxRegions = 3
  Addrs = {a1, a2}
SPECIFICATION FairSpec
CHECK_DEADLOCK FALSE
INVARIANTS
  NoUseAfterFree
  MonotoneReads
  NoTableLeaks
PROPERTIES
  PublishedImmutable
  WriterNotStarved
