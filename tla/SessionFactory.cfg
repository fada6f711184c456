\* Two pools that keep one session each; more sessions than they can keep.
SPECIFICATION FactorySpec
CONSTANTS
  Sessions = {s1, s2, s3, s4}
  Pools = 2
  MaxRecycled = 1
INVARIANTS
  FactorySound
PROPERTIES
  LeastLoaded
