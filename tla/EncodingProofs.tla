--------------------------- MODULE EncodingProofs ---------------------------
(***************************************************************************)
(* The encoding of policies: for rules about hosts and about anywhere the  *)
(* entries of the two tables match the packets the rules speak of, for     *)
(* addresses of any width and tables of any size.                          *)
(***************************************************************************)
EXTENDS DataPathProofs

-----------------------------------------------------------------------------
(***************************************************************************)
(* Arithmetic of digits.                                                   *)
(***************************************************************************)
LEMMA Digits ==
  ASSUME NEW n \in Nat \ {0}, NEW x \in Nat
  PROVE  /\ x \div n \in Nat /\ x % n \in 0 .. (n - 1)
         /\ x = n * (x \div n) + (x % n)
OBVIOUS

LEMMA DigitsUnique ==
  ASSUME NEW n \in Nat \ {0}, NEW q \in Nat, NEW r \in 0 .. (n - 1)
  PROVE  (n * q + r) \div n = q /\ (n * q + r) % n = r
OBVIOUS

LEMMA DigitsBound ==
  ASSUME NEW n \in Nat \ {0}, NEW m \in Nat, NEW q \in Nat, NEW r \in 0 .. (n - 1)
  PROVE  n * q + r < m * n <=> q < m
OBVIOUS

\* The mask of a whole address, and no mask, read alike in both byte orders.
LEMMA SwapNothing == SwapOctets({}) = {}
BY DEF SwapOctets

LEMMA SwapAll == SwapOctets(Bits) = Bits
<1> DEFINE n == OctetBits
           swap(b) == n * (Octets - 1 - (b \div n)) + (b % n)
<1>1. n \in Nat \ {0} /\ Octets \in Nat \ {0} /\ Octets * n \in Nat
  BY WidthAssumption
<1>2. ASSUME NEW b \in Bits
      PROVE  swap(b) \in Bits /\ swap(swap(b)) = b
  <2>1. b \in Nat /\ b < Octets * n
    BY <1>1 DEF Bits
  <2>2. /\ b \div n \in Nat /\ b % n \in 0 .. (n - 1)
        /\ b = n * (b \div n) + (b % n)
    BY <1>1, <2>1, Digits
  <2>3. b \div n < Octets
    BY <1>1, <2>1, <2>2, DigitsBound
  <2> DEFINE q == Octets - 1 - (b \div n)
             r == b % n
  <2>4. q \in Nat /\ q < Octets /\ r \in 0 .. (n - 1)
        /\ Octets - 1 - q = b \div n
    BY <1>1, <2>2, <2>3
  <2> HIDE DEF q
  <2>5. n * q + r < Octets * n /\ (n * q + r) \div n = q /\ (n * q + r) % n = r
    BY <1>1, <2>4, DigitsBound, DigitsUnique
  <2>6. n * q + r \in Nat
    BY <1>1, <2>4
  <2>7. n * q + r \in Bits
    BY <1>1, <2>5, <2>6 DEF Bits
  <2>8. swap(b) = n * q + r
    BY DEF q
  <2>9. swap(n * q + r) = n * (Octets - 1 - q) + r
    BY <2>5
  <2> QED
    BY <2>2, <2>4, <2>7, <2>8, <2>9
<1> QED
  BY <1>2 DEF SwapOctets

LEMMA PortZero ==
  ASSUME NEW v \in Port
  PROVE  htons(v) = 0 <=> v = 0
<1>1. PortBase \in Nat \ {0} /\ v \in Nat
  BY WidthAssumption DEF Port
<1>2. /\ v \div PortBase \in Nat /\ v % PortBase \in 0 .. (PortBase - 1)
      /\ v = PortBase * (v \div PortBase) + (v % PortBase)
  BY <1>1, Digits
<1> QED
  BY <1>1, <1>2 DEF htons

-----------------------------------------------------------------------------
(***************************************************************************)
(* Rules about hosts and about anywhere.  A rule for the exact table has   *)
(* to name both hosts and both ports.                                      *)
(***************************************************************************)
FullLength   == Octets * OctetBits
IsHost(cidr) == cidr.family = 4 /\ cidr.len = FullLength
IsOpen(cidr) == cidr.family = 4 /\ cidr.len = 0

Plain(p) ==
  /\ IsHost(p.src) \/ (hasWildcard(p) /\ IsOpen(p.src))
  /\ IsHost(p.dst) \/ (hasWildcard(p) /\ IsOpen(p.dst))
  /\ hasWildcard(p) \/ p.dst_port # 0

LEMMA MaskEncoded ==
  ASSUME NEW cidr \in CIDR, IsHost(cidr) \/ IsOpen(cidr), NEW addr \in Word
  PROVE  addr \cap maskToUint32(cidr) = ipToUint32(cidr) \cap maskToUint32(cidr)
           <=> Within(addr, cidr)
<1>1. Netmask(FullLength) = Bits /\ Netmask(0) = {}
  BY DEF Netmask, Bits, FullLength
<1>2. maskToUint32(cidr) = Netmask(cidr.len) /\ ipToUint32(cidr) = cidr.ip
  BY <1>1, SwapAll, SwapNothing DEF maskToUint32, ipToUint32, IsHost, IsOpen
<1> QED
  BY <1>2 DEF Within, IsHost, IsOpen

LEMMA HostEncoded ==
  ASSUME NEW cidr \in CIDR, IsHost(cidr), NEW addr \in Word
  PROVE  addr = ipToUint32(cidr) <=> Within(addr, cidr)
<1>1. Netmask(cidr.len) = Bits /\ ipToUint32(cidr) = cidr.ip /\ cidr.ip \in Word
  BY DEF Netmask, Bits, FullLength, ipToUint32, IsHost, CIDR
<1> QED
  BY <1>1 DEF Within, IsHost, Word

LEMMA WildcardEncoded ==
  ASSUME NEW p \in Policy, Plain(p), NEW key \in FlowKey
  PROVE  Hits(key, WildcardEntry(p)) <=> Covers(p, key)
<1> DEFINE w == WildcardEntry(p)
<1>1. /\ p.src \in CIDR /\ p.dst \in CIDR /\ p.src_port \in Port /\ p.dst_port \in Port
      /\ p.rule_id # 0
  BY DEF Policy
<1>2. key.src_ip \in Word /\ key.dst_ip \in Word
  BY DEF FlowKey
<1>3. /\ w.src_ip = ipToUint32(p.src) /\ w.src_ip_mask = maskToUint32(p.src)
      /\ w.dst_ip = ipToUint32(p.dst) /\ w.dst_ip_mask = maskToUint32(p.dst)
      /\ w.src_port = htons(p.src_port) /\ w.dst_port = htons(p.dst_port)
      /\ w.protocol = p.protocol /\ w.rule_id = p.rule_id
  BY DEF WildcardEntry
<1>4. /\ key.src_ip \cap w.src_ip_mask = w.src_ip \cap w.src_ip_mask
           <=> Within(key.src_ip, p.src)
      /\ key.dst_ip \cap w.dst_ip_mask = w.dst_ip \cap w.dst_ip_mask
           <=> Within(key.dst_ip, p.dst)
  BY <1>1, <1>2, <1>3, MaskEncoded DEF Plain
<1>5. /\ w.src_port \in {0, key.src_port}
           <=> (p.src_port = 0 \/ key.src_port = htons(p.src_port))
      /\ w.dst_port \in {0, key.dst_port}
           <=> (p.dst_port = 0 \/ key.dst_port = htons(p.dst_port))
  BY <1>1, <1>3, PortZero
<1> QED
  BY <1>1, <1>3, <1>4, <1>5 DEF Hits, matches_wildcard, Covers, IPPROTO_ANY

LEMMA ExactEncoded ==
  ASSUME NEW p \in Policy, Plain(p), ~hasWildcard(p), NEW key \in FlowKey
  PROVE  key = PolicyKey(p) <=> Covers(p, key)
<1>1. /\ p.src \in CIDR /\ p.dst \in CIDR /\ IsHost(p.src) /\ IsHost(p.dst)
      /\ p.src_port # 0 /\ p.dst_port # 0 /\ p.protocol # IPPROTO_ANY
  BY DEF Policy, Plain, hasWildcard
<1>2. /\ key.src_ip \in Word /\ key.dst_ip \in Word
      /\ key = [src_ip |-> key.src_ip, dst_ip |-> key.dst_ip, src_port |-> key.src_port,
                dst_port |-> key.dst_port, protocol |-> key.protocol]
  BY DEF FlowKey
<1>3. key = PolicyKey(p) <=>
        /\ key.src_ip = ipToUint32(p.src) /\ key.dst_ip = ipToUint32(p.dst)
        /\ key.src_port = htons(p.src_port) /\ key.dst_port = htons(p.dst_port)
        /\ key.protocol = p.protocol
  BY <1>2 DEF PolicyKey
<1>4. /\ key.src_ip = ipToUint32(p.src) <=> Within(key.src_ip, p.src)
      /\ key.dst_ip = ipToUint32(p.dst) <=> Within(key.dst_ip, p.dst)
  BY <1>1, <1>2, HostEncoded
<1> QED
  BY <1>1, <1>3, <1>4 DEF Covers

-----------------------------------------------------------------------------
(***************************************************************************)
(* Everything in the tables, and everything on its way there, is the       *)
(* encoding of a policy of the right kind.                                 *)
(***************************************************************************)
Encodes(w) == \E p \in Policies : hasWildcard(p) /\ w = WildcardEntry(p)

Sourced ==
  /\ \A k \in DOMAIN policy_map : \E p \in Policies :
       /\ ~hasWildcard(p) /\ k = PolicyKey(p)
       /\ policy_map[k].action = p.action /\ policy_map[k].rule_id = p.rule_id
  /\ \A i \in Slots : wildcard_policy_map[i] = EmptySlot \/ Encodes(wildcard_policy_map[i])
  /\ \A w \in put : Encodes(w.entry)

LEMMA InitSourced == Init => Sourced
BY DEF Init, Sourced, NoEntries

LEMMA StepSourced == TypeOK /\ Sourced /\ [Next]_vars => Sourced'
<1> SUFFICES ASSUME TypeOK, Sourced, [Next]_vars PROVE Sourced'
  OBVIOUS
<1> USE DEF tables, kernel
<1>1. CASE UNCHANGED <<policy_map, wildcard_policy_map, put>>
  BY <1>1 DEF Sourced, Encodes
<1>2. ASSUME NEW c \in CPUs, BumpHit(c) PROVE Sourced'
  <2>1. /\ UNCHANGED <<wildcard_policy_map, put>>
        /\ DOMAIN policy_map' = DOMAIN policy_map
    BY <1>2 DEF BumpHit, CountHit
  <2>2. \A k \in DOMAIN policy_map : /\ policy_map'[k].action = policy_map[k].action
                                     /\ policy_map'[k].rule_id = policy_map[k].rule_id
    BY <1>2, HitKeepsRules DEF BumpHit, CountHit, TypeOK, IsMap, PolicyValue
  <2> QED
    BY <2>1, <2>2 DEF Sourced, Encodes
<1>3. ASSUME NEW p \in Policies, addExactPolicy(p) PROVE Sourced'
  <2>1. PICK e : policy_map' = Put(policy_map, PolicyKey(p),
          [action |-> p.action, rule_id |-> p.rule_id, hit_count |-> 0, elem |-> e])
    BY <1>3 DEF addExactPolicy
  <2>2. UNCHANGED <<wildcard_policy_map, put>> /\ ~hasWildcard(p)
    BY <1>3 DEF addExactPolicy
  <2> QED
    BY <2>1, <2>2 DEF Sourced, Encodes, Put
<1>4. ASSUME NEW p \in Policies, DeletePolicy(p) PROVE Sourced'
  BY <1>4 DEF DeletePolicy, Sourced, Encodes, Without
<1>5. ASSUME NEW p \in Policies, addWildcardPolicy(p) PROVE Sourced'
  <2>1. /\ UNCHANGED <<policy_map, wildcard_policy_map>> /\ hasWildcard(p)
        /\ \E i \in Slots : put' = {[slot |-> i, entry |-> WildcardEntry(p)]}
    BY <1>5 DEF addWildcardPolicy
  <2> QED
    BY <2>1 DEF Sourced, Encodes
<1>6. CASE WildcardWritten
  <2>1. PICK w \in put :
          /\ wildcard_policy_map' = [wildcard_policy_map EXCEPT ![w.slot] = w.entry]
          /\ put' = put \ {w}
    BY <1>6 DEF WildcardWritten
  <2>2. policy_map' = policy_map
    BY <1>6 DEF WildcardWritten
  <2>3. \A i \in Slots : wildcard_policy_map'[i] \in {wildcard_policy_map[i], w.entry}
    BY <2>1 DEF TypeOK
  <2> QED
    BY <2>1, <2>2, <2>3 DEF Sourced, Encodes
<1> QED
  BY <1>1, <1>2, <1>3, <1>4, <1>5, <1>6
     DEF vars, Next, Receive, ReceiveUnparsed, ReceivePacket, Step, HotLoad, HotPath,
         LookupExact, ScanSlot, ScanDone, CreateSession, RefuseSession, EnforceNew,
         UserSpace, MonitorFlowEvents

LEMMA SourcedCovers ==
  ASSUME FlowKeys \subseteq FlowKey, \A p \in Policies : p \in Policy /\ Plain(p),
         TypeOK, Sourced, UndisturbedDecision
  PROVE  RulesCover
<1> SUFFICES ASSUME NEW c \in CPUs, Undisturbed(c),
                    NEW q \in Policies, Installed(q), Covers(q, frame[c].key)
             PROVE  \E p \in Policies : /\ Installed(p) /\ Covers(p, frame[c].key)
                                        /\ frame[c].action = p.action
  BY DEF RulesCover
<1> DEFINE key == frame[c].key
           action == frame[c].action
<1>1. key \in FlowKey /\ DecisionOf(key, Scanned, action)
  BY DEF Undisturbed, UndisturbedDecision, TypeOK
<1>2. CASE key \in DOMAIN policy_map
  <2>1. PICK p \in Policies :
          /\ ~hasWildcard(p) /\ key = PolicyKey(p)
          /\ policy_map[key].action = p.action /\ policy_map[key].rule_id = p.rule_id
    BY <1>2 DEF Sourced
  <2>2. Installed(p) /\ Covers(p, key) /\ action = p.action
    BY <1>1, <1>2, <2>1, ExactEncoded DEF Installed, DecisionOf
  <2> QED
    BY <2>2
<1>3. CASE key \notin DOMAIN policy_map
  <2>1. WildcardDecision(key, wildcard_policy_map, Scanned, action)
    BY <1>1, <1>3 DEF DecisionOf
  <2>2. hasWildcard(q)
    BY <1>1, <1>3, ExactEncoded DEF Installed
  <2>3. PICK j \in Scanned : wildcard_policy_map[j] = WildcardEntry(q)
    BY <2>2 DEF Installed
  <2>4. j \in Matching(key, wildcard_policy_map, Scanned)
    BY <1>1, <2>3, WildcardEncoded DEF Matching
  <2>5. PICK i \in Scanned : /\ Hits(key, wildcard_policy_map[i])
                             /\ action = wildcard_policy_map[i].action
    BY <2>1, <2>4 DEF WildcardDecision, IsWinner, Matching
  <2>6. i \in Slots /\ wildcard_policy_map[i] # EmptySlot
    BY <2>5 DEF Scanned, Hits, EmptySlot
  <2>7. PICK p \in Policies : hasWildcard(p) /\ wildcard_policy_map[i] = WildcardEntry(p)
    BY <2>6 DEF Sourced, Encodes
  <2>8. Covers(p, key) /\ Installed(p)
    BY <1>1, <2>5, <2>7, WildcardEncoded DEF Installed
  <2>9. action = p.action
    BY <2>5, <2>7 DEF WildcardEntry
  <2> QED
    BY <2>8, <2>9
<1> QED
  BY <1>2, <1>3

(***************************************************************************)
(* What a rule says is what is enforced, for rules about hosts and about   *)
(* anywhere: the routing and encoding of AddPolicy and the lookup of the   *)
(* filter agree on the packets a rule covers.  (For ranges they do not:    *)
(* the byte orders of ipToUint32 and maskToUint32 differ.)                 *)
(***************************************************************************)
THEOREM PlainRulesCover ==
  ASSUME FlowKeys \subseteq FlowKey, \A p \in Policies : p \in Policy /\ Plain(p)
  PROVE  Spec => []RulesCover
<1>1. TypeOK /\ Sourced /\ [Next]_vars => Sourced'
  BY StepSourced
<1>2. TypeOK /\ Sourced /\ UndisturbedDecision => RulesCover
  BY SourcedCovers
<1> QED
  BY <1>1, <1>2, InitSourced, TypeCorrect, LookupIsDecision, PTL DEF Spec
=============================================================================
