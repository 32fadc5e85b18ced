\* Two CPUs, two flows, an exact and a wildcard policy coming and going;
\* nothing is ever evicted.
CONSTANTS
  c1 = c1
  c2 = c2
  e1 = e1
  e2 = e2
  e3 = e3
  p1 = p1
  p2 = p2
  CPUs <- MCCPUs
  Octets = 4
  OctetBits = 1
  PortBase = 2
  Packets <- TwoFlows
  Policies <- ExactToo
  SessionElements <- ThreeElements
  PolicyElements <- TwoPolicyElements
  MAX_ENTRIES_POLICY = 1
  MAX_ENTRIES_WILDCARD_POLICY = 2
  SCAN_LIMIT = 2
  RING_CAPACITY = 1
  MaxPackets = 3
  MaxUpdates = 2
SYMMETRY Symmetry
SPECIFICATION Spec
INVARIANTS TypeOK StatsConserved EventsTellSessions PoliciesObeyed RulesCover
PROPERTIES DecisionSticks
