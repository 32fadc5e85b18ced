-------------------------- MODULE MCDataPathClaims --------------------------
(***************************************************************************)
(* Instances of DataPathClaims for TLC: the flows and policies of          *)
(* MCDataPath, a rule that is rewritten in place, and one for a range.     *)
(***************************************************************************)
EXTENDS DataPathClaims, MCDataPath

AllowClient  == Rule(2, Host(Client), Anywhere, 0, 0, IPPROTO_ANY, POLICY_ACTION_ALLOW, 1)
DenyStranger == Rule(2, Host({0}), Anywhere, 0, 0, IPPROTO_ANY, POLICY_ACTION_DENY, 1)
Rewritten    == {AllowClient, DenyStranger}

\* The range of two bits that Server is in.
DenySubnet == Rule(6, Anywhere, [family |-> 4, ip |-> {0}, len |-> 2], 0, 0,
                   IPPROTO_ANY, POLICY_ACTION_DENY, 1)
Ranges     == {DenySubnet}
=============================================================================
