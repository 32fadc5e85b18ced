\* Two requests at a time, on a new database and on one that fills the tables.
CONSTANTS
  w1 = w1
  w2 = w2
  Workers <- MCWorkers
  Octets = 4
  OctetBits = 1
  PortBase = 2
  Policies <- Mixed
  DefaultPolicy <- Default
  Databases <- NewOrOld
  Bucket <- MCBucket
  MAX_ENTRIES_POLICY = 2
  MAX_ENTRIES_WILDCARD_POLICY = 2
  OneWildcardWriter = TRUE
  MaxRequests = 2
  MaxCrashes = 1
SYMMETRY Symmetry
SPECIFICATION Spec
INVARIANTS TypeOK SlotsPacked PromisedIsApplied PromisedIsSaved ListsTellTruth
