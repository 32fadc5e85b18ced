\* Two CPUs decide the first packets of one flow.
CONSTANTS
  c1 = c1
  c2 = c2
  e1 = e1
  e2 = e2
  e3 = e3
  p1 = p1
  p2 = p2
  CPUs <- MCCPUs
  Octets = 4
  OctetBits = 1
  PortBase = 2
  Packets <- OneFlow
  Policies <- ExactToo
  SessionElements <- ThreeElements
  PolicyElements <- TwoPolicyElements
  MAX_ENTRIES_POLICY = 1
  MAX_ENTRIES_WILDCARD_POLICY = 1
  SCAN_LIMIT = 1
  RING_CAPACITY = 1
  MaxPackets = 2
  MaxUpdates = 1
SPECIFICATION ClaimSpec
INVARIANTS FirstDecisionStored
