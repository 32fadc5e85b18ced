-------------------------- MODULE MCControlPlane --------------------------
(***************************************************************************)
(* Instances of ControlPlane for TLC: exact policies, one of a rule that   *)
(* earlier runs left in another version, and a disputed one, which has the *)
(* 5-tuple of another rule; and two wildcard policies, one of which has    *)
(* the rule id of the default policy.                                      *)
(***************************************************************************)
EXTENDS ControlPlane

CONSTANTS w1, w2

MCWorkers == {w1, w2}
Symmetry  == Permutations(MCWorkers)

Rule(n, src, dst, sp, dp, proto, action, priority) ==
  [rule_id |-> n, src |-> src, dst |-> dst, src_port |-> sp,
   dst_port |-> dp, protocol |-> proto, action |-> action,
   priority |-> priority]

Anywhere == [family |-> 4, ip |-> {}, len |-> 0]
Host(ip) == [family |-> 4, ip |-> ip, len |-> 4]

Default  == Rule(1, Anywhere, Anywhere, 0, 0, IPPROTO_ANY, POLICY_ACTION_ALLOW, 0)
DenyAll  == Rule(1, Anywhere, Anywhere, 0, 0, IPPROTO_ANY, POLICY_ACTION_DENY, 0)
LogTo    == Rule(2, Anywhere, Host({0}), 0, 2, IPPROTO_TCP, POLICY_ACTION_LOG, 1)
DenyUdp  == Rule(6, Anywhere, Anywhere, 0, 0, IPPROTO_UDP, POLICY_ACTION_DENY, 0)
AllowWeb == Rule(3, Host({3}), Host({0}), 1, 2, IPPROTO_TCP, POLICY_ACTION_ALLOW, 0)
DenyWeb  == Rule(3, Host({3}), Host({0}), 1, 2, IPPROTO_TCP, POLICY_ACTION_DENY, 2)
AllowSsh == Rule(4, Host({3}), Host({0}), 1, 3, IPPROTO_TCP, POLICY_ACTION_ALLOW, 0)
TakeSsh  == Rule(7, Host({3}), Host({0}), 1, 3, IPPROTO_TCP, POLICY_ACTION_DENY, 0)
AllowDns == Rule(5, Host({3}), Host({0}), 1, 0, IPPROTO_UDP, POLICY_ACTION_ALLOW, 0)

Mixed     == {DenyAll, LogTo, AllowWeb, AllowDns, TakeSsh}
Wildcards == {DenyAll, LogTo}

Database(S) == [n \in {p.rule_id : p \in S} |-> CHOOSE p \in S : p.rule_id = n]

NewOrOld == {Database({}), Database({LogTo, DenyUdp, DenyWeb, AllowSsh})}
OnlyNew  == {Database({})}

\* The first two keys share a bucket.
MCBucket == [k \in {PolicyKey(p) : p \in Mixed \cup {AllowSsh}} |->
               IF k = PolicyKey(AllowDns) THEN 1 ELSE 0]
=============================================================================
