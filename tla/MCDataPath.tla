---------------------------- MODULE MCDataPath ----------------------------
(***************************************************************************)
(* Instances of DataPath for TLC.  Addresses have 4 octets of one bit, a   *)
(* port two one-bit digits; the flows are a TCP flow, its reverse, and an  *)
(* ICMP flow that no TCP policy matches.                                   *)
(***************************************************************************)
EXTENDS DataPathRefinement, TLC

CONSTANTS c1, c2, e1, e2, e3, p1, p2

MCCPUs == {c1, c2}
OneCPU == {c1}

OneElement        == {e1}
ThreeElements     == {e1, e2, e3}
TwoPolicyElements == {p1, p2}

Symmetry == Permutations(MCCPUs) \cup Permutations(ThreeElements)
            \cup Permutations(TwoPolicyElements)

Header(s, d, proto, sp, dp) ==
  [ipv4 |-> TRUE, complete |-> TRUE, saddr |-> s, daddr |-> d,
   protocol |-> proto, source |-> sp, dest |-> dp]

Client == {3}
Server == {0, 3}
Syn   == Header(Client, Server, IPPROTO_TCP, 1, 2)
Reply == Header(Server, Client, IPPROTO_TCP, 2, 1)
Ping  == Header(Client, Server, IPPROTO_ICMP, 3, 3)
Arp   == [Syn EXCEPT !.ipv4 = FALSE]
Short == [Syn EXCEPT !.complete = FALSE]

TwoFlows   == {Syn, Ping, Arp}
ReplyFlows == {Syn, Reply, Short}
OneFlow    == {Syn, Arp}

Anywhere      == [family |-> 4, ip |-> {}, len |-> 0]
Host(ip) == [family |-> 4, ip |-> ip, len |-> 4]

Rule(id, src, dst, sp, dp, proto, action, priority) ==
  [rule_id |-> id, src |-> src, dst |-> dst, src_port |-> sp,
   dst_port |-> dp, protocol |-> proto, action |-> action,
   priority |-> priority]

\* htons of the ports below are the ports of Syn on the wire
DenyAll    == Rule(1, Anywhere, Anywhere, 0, 0, IPPROTO_ANY, POLICY_ACTION_DENY, 0)
LogServer  == Rule(2, Anywhere, Host(Server), 0, 0, IPPROTO_ANY, POLICY_ACTION_LOG, 0)
AllowPing  == Rule(3, Anywhere, Host(Server), 0, 0, IPPROTO_ICMP, POLICY_ACTION_ALLOW, 1)
AllowSyn   == Rule(4, Host(Client), Host(Server), 2, 1, IPPROTO_TCP, POLICY_ACTION_ALLOW, 0)
DenySyn    == Rule(5, Host(Client), Host(Server), 2, 1, IPPROTO_TCP, POLICY_ACTION_DENY, 0)

Layered   == {DenyAll, LogServer, AllowPing}
ExactToo  == {DenyAll, AllowSyn, DenySyn}
OnlyDeny  == {DenyAll}
JustSyn   == {DenySyn}
=============================================================================
