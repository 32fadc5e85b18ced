---------------------------- MODULE PolicyTables ----------------------------
(***************************************************************************)
(* The pure part of policy handling: how a policy of the control plane is  *)
(* turned into entries of the two policy tables (pkg/policy/policy.go),    *)
(* how a packet header is turned into a flow key, and when a flow matches  *)
(* an entry (bpf/tc_microsegment.bpf.c).  Nothing here is recursive, so    *)
(* the modules built on it can be reasoned about with TLAPS.               *)
(*                                                                         *)
(* A 32-bit word is the set of its 1-bits, numbered in network order: bit  *)
(* 0 is the first bit of an address on the wire.  `x & y' is then x \cap y.*)
(* The width of a word (Octets * OctetBits, 4 * 8 in the code) and of a    *)
(* port (two digits in base PortBase, 256 in the code) are parameters.     *)
(***************************************************************************)
EXTENDS Integers, FiniteSets

CONSTANTS Octets,     \* octets of an address
          OctetBits,  \* bits of an octet
          PortBase    \* values of one byte of a port

ASSUME WidthAssumption ==
  Octets \in Nat \ {0} /\ OctetBits \in Nat \ {0} /\ PortBase \in Nat \ {0}

Bits == 0 .. (Octets * OctetBits - 1)
Word == SUBSET Bits
Port == 0 .. (PortBase * PortBase - 1)

(***************************************************************************)
(* enum policy_action, and the protocol numbers parseProtocol knows.       *)
(***************************************************************************)
POLICY_ACTION_ALLOW == 0
POLICY_ACTION_DENY  == 1
POLICY_ACTION_LOG   == 2
Action == {POLICY_ACTION_ALLOW, POLICY_ACTION_DENY, POLICY_ACTION_LOG}

IPPROTO_ANY  == 0
IPPROTO_ICMP == 1
IPPROTO_TCP  == 6
IPPROTO_UDP  == 17

(***************************************************************************)
(* struct flow_key and struct policy_key share their layout; struct        *)
(* wildcard_policy adds masks, and rule_id 0 marks an empty slot.          *)
(***************************************************************************)
FlowKey == [src_ip : Word, dst_ip : Word, src_port : Port, dst_port : Port,
            protocol : 0 .. 255]

WildcardPolicy == [src_ip : Word, src_ip_mask : Word, dst_ip : Word,
                   dst_ip_mask : Word, src_port : Port, dst_port : Port,
                   protocol : 0 .. 255, action : Action, priority : Nat,
                   rule_id : Nat]

EmptySlot == [src_ip |-> {}, src_ip_mask |-> {}, dst_ip |-> {},
              dst_ip_mask |-> {}, src_port |-> 0, dst_port |-> 0,
              protocol |-> 0, action |-> 0, priority |-> 0, rule_id |-> 0]

(***************************************************************************)
(* A policy as the API hands it over.  A CIDR is its family, address and   *)
(* prefix length; an address without "/" has the full length.              *)
(***************************************************************************)
CIDR == [family : {4, 6}, ip : Word, len : 0 .. (Octets * OctetBits)]

Policy == [rule_id : Nat \ {0}, src : CIDR, dst : CIDR, src_port : Port,
           dst_port : Port, protocol : {0, 1, 6, 17}, action : Action,
           priority : Nat]

(***************************************************************************)
(* Conversions.  htons swaps the two bytes of a port.  ipToUint32 reads    *)
(* the address so that its bits land where the kernel keeps them, and is 0 *)
(* for an IPv6 address; maskToUint32 reads the mask with the other byte    *)
(* order, so against an address word its octets are reversed, and is all   *)
(* ones when the mask is not four bytes long.                              *)
(***************************************************************************)
htons(v) == (v % PortBase) * PortBase + (v \div PortBase)

Netmask(len) == 0 .. (len - 1)

SwapOctets(word) ==
  {OctetBits * (Octets - 1 - (b \div OctetBits)) + (b % OctetBits) : b \in word}

ipToUint32(cidr) == IF cidr.family = 4 THEN cidr.ip ELSE {}

maskToUint32(cidr) ==
  IF cidr.family = 4 THEN SwapOctets(Netmask(cidr.len)) ELSE Bits

(***************************************************************************)
(* Routing and encoding of a policy.  Only a source port 0, one of the     *)
(* texts "0.0.0.0/0" and "::/0", or protocol "any" sends a policy to the   *)
(* wildcard table; everything else becomes an exact key, masks dropped.    *)
(***************************************************************************)
isAny(cidr) == cidr.ip = {} /\ cidr.len = 0

hasWildcard(p) ==
  \/ p.src_port = 0
  \/ isAny(p.src)
  \/ isAny(p.dst)
  \/ p.protocol = IPPROTO_ANY

\* Bug: the ports are not converted to network order
PolicyKeyHostOrder(p) ==
  [src_ip |-> ipToUint32(p.src), dst_ip |-> ipToUint32(p.dst),
   src_port |-> p.src_port, dst_port |-> p.dst_port, protocol |-> p.protocol]

PolicyKey(p) ==
  [src_ip |-> ipToUint32(p.src), dst_ip |-> ipToUint32(p.dst),
   src_port |-> htons(p.src_port), dst_port |-> htons(p.dst_port),
   protocol |-> p.protocol]

WildcardEntry(p) ==
  [src_ip |-> ipToUint32(p.src), src_ip_mask |-> maskToUint32(p.src),
   dst_ip |-> ipToUint32(p.dst), dst_ip_mask |-> maskToUint32(p.dst),
   src_port |-> htons(p.src_port), dst_port |-> htons(p.dst_port),
   protocol |-> p.protocol, action |-> p.action, priority |-> p.priority,
   rule_id |-> p.rule_id]

(***************************************************************************)
(* The slot addWildcardPolicy writes: the first one that is empty or that  *)
(* already carries the rule id; there is none when the table is full.      *)
(***************************************************************************)
IsTargetSlot(table, id, i) ==
  /\ i \in DOMAIN table
  /\ table[i].rule_id \in {0, id}
  /\ \A j \in DOMAIN table : j < i => table[j].rule_id \notin {0, id}

(***************************************************************************)
(* What the filter makes of a packet: only IPv4 with a complete transport  *)
(* header is parsed, and ports exist for TCP and UDP only.                 *)
(***************************************************************************)
Parses(pkt) == pkt.ipv4 /\ pkt.complete

extract_flow_key(pkt) ==
  LET ported == pkt.protocol \in {IPPROTO_TCP, IPPROTO_UDP}
  IN  [src_ip |-> pkt.saddr, dst_ip |-> pkt.daddr,
       src_port |-> IF ported THEN pkt.source ELSE 0,
       dst_port |-> IF ported THEN pkt.dest ELSE 0,
       protocol |-> pkt.protocol]

matches_wildcard(key, w) ==
  /\ key.src_ip \cap w.src_ip_mask = w.src_ip \cap w.src_ip_mask
  /\ key.dst_ip \cap w.dst_ip_mask = w.dst_ip \cap w.dst_ip_mask
  /\ w.src_port \in {0, key.src_port}
  /\ w.dst_port \in {0, key.dst_port}
  /\ w.protocol \in {0, key.protocol}

(***************************************************************************)
(* Reference definition of the decision over a whole table, against which  *)
(* the slot-by-slot lookup of the filter is checked: the winner among the  *)
(* matching slots of S has the highest priority, and the lowest index of   *)
(* those; nothing matching means ALLOW.                                    *)
(***************************************************************************)
Hits(key, w) == w.rule_id # 0 /\ matches_wildcard(key, w)

Matching(key, table, S) == {i \in S : Hits(key, table[i])}

IsWinner(key, table, S, i) ==
  /\ i \in Matching(key, table, S)
  /\ \A j \in Matching(key, table, S) :
       \/ table[j].priority < table[i].priority
       \/ table[j].priority = table[i].priority /\ i <= j

WildcardDecision(key, table, S, action) ==
  \/ Matching(key, table, S) = {} /\ action = POLICY_ACTION_ALLOW
  \/ \E i \in S : IsWinner(key, table, S, i) /\ action = table[i].action
=============================================================================
