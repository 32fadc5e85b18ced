\* Two CPUs count packets of one flow, an exact policy comes and goes, and the
\* eight counters are read meanwhile.
CONSTANTS
  c1 = c1
  c2 = c2
  e1 = e1
  p1 = p1
  p2 = p2
  CPUs <- MCCPUs
  Octets = 4
  OctetBits = 1
  PortBase = 2
  Packets <- OneFlow
  Policies <- DenyIt
  SessionElements <- OneElement
  PolicyElements <- TwoPolicyElements
  MAX_ENTRIES_POLICY = 1
  MAX_ENTRIES_WILDCARD_POLICY = 0
  SCAN_LIMIT = 0
  RING_CAPACITY = 0
  MaxPackets = 2
  MaxUpdates = 1
  MaxQueries = 1
SYMMETRY Symmetry
SPECIFICATION QuerySpec
INVARIANTS SnapshotAccounts SnapshotCurrent
