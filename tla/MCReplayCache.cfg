\* Three keys compete for two slots; generations of two units, three of them.
CONSTANTS
  Keys = {k1, k2, k3}
  bucketWidth = 2
  maxEntries = 2
  MaxTime = 6
SPECIFICATION FairSpec
INVARIANTS
  TypeOK
  BucketsMirrorIndex
  RememberedUntilExpiry
  CapacityRespected
PROPERTIES
  ImplementsSingleUse
  Drains
