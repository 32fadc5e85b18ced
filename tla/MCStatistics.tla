---------------------------- MODULE MCStatistics ----------------------------
(***************************************************************************)
(* Instances of Statistics for TLC.                                        *)
(***************************************************************************)
EXTENDS Statistics, TLC

CONSTANTS c1, c2, e1, p1, p2

MCCPUs            == {c1, c2}
OneElement        == {e1}
TwoPolicyElements == {p1, p2}
Symmetry          == Permutations(MCCPUs) \cup Permutations(TwoPolicyElements)

Header(s, d, proto, sp, dp) ==
  [ipv4 |-> TRUE, complete |-> TRUE, saddr |-> s, daddr |-> d,
   protocol |-> proto, source |-> sp, dest |-> dp]
Host(ip) == [family |-> 4, ip |-> ip, len |-> 4]

Syn     == Header({3}, {0, 3}, IPPROTO_TCP, 1, 2)
OneFlow == {Syn, [Syn EXCEPT !.ipv4 = FALSE]}

\* htons of the ports are the ports of the flow on the wire
DenyIt == {[rule_id |-> 5, src |-> Host({3}), dst |-> Host({0, 3}), src_port |-> 2,
            dst_port |-> 1, protocol |-> IPPROTO_TCP, action |-> POLICY_ACTION_DENY,
            priority |-> 0]}
=============================================================================
