\* Two requests that change wildcard policies at a time.
CONSTANTS
  w1 = w1
  w2 = w2
  Workers <- MCWorkers
  Octets = 4
  OctetBits = 1
  PortBase = 2
  Policies <- Mixed
  DefaultPolicy <- Default
  Databases <- NewOrOld
  Bucket <- MCBucket
  MAX_ENTRIES_POLICY = 2
  MAX_ENTRIES_WILDCARD_POLICY = 2
  OneWildcardWriter = FALSE
  MaxRequests = 2
  MaxCrashes = 0

SPECIFICATION Spec
INVARIANTS PromisedIsApplied
