\* One CPU, three layered wildcard policies installed in any order, two of them tied.
CONSTANTS
  c1 = c1
  c2 = c2
  e1 = e1
  e2 = e2
  e3 = e3
  p1 = p1
  p2 = p2
  CPUs <- OneCPU
  Octets = 4
  OctetBits = 1
  PortBase = 2
  Packets <- TwoFlows
  Policies <- Layered
  SessionElements <- ThreeElements
  PolicyElements <- TwoPolicyElements
  MAX_ENTRIES_POLICY = 1
  MAX_ENTRIES_WILDCARD_POLICY = 3
  SCAN_LIMIT = 3
  RING_CAPACITY = 1
  MaxPackets = 2
  MaxUpdates = 3
SYMMETRY Symmetry
SPECIFICATION Spec
INVARIANTS PoliciesObeyed UndisturbedDecision
