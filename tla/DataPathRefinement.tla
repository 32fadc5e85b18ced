------------------------- MODULE DataPathRefinement -------------------------
(***************************************************************************)
(* The packet filter implements the stateful firewall of StatefulFirewall: *)
(* the policy lookup, the counters of sessions and policies and everything *)
(* user space does to the tables are invisible there.                      *)
(***************************************************************************)
EXTENDS DataPath

Stage(c) ==
  CASE pc[c] = "hot"                       -> "known"
    [] pc[c] \in {"lookup", "hit", "scan"} -> "new"
    [] pc[c] = "create"                    -> "fresh"
    [] pc[c] \in {"cached", "enforce"}     -> "decided"

InFlightPacket(c) ==
  [flow |-> frame[c].key, stage |-> Stage(c),
   action |-> IF Stage(c) \in {"fresh", "decided"} THEN frame[c].action ELSE -1,
   forgotten |-> pc[c] = "hot" /\ touched[c].session]

packetBar   == [c \in CPUs |-> IF pc[c] = "idle" THEN [stage |-> "none"]
                               ELSE InFlightPacket(c)]
sessionsBar == [k \in DOMAIN session_map |-> session_map[k].policy_action]
verdictBar  == [c \in CPUs |-> IF ret[c] = TC_ACT_SHOT THEN "drop" ELSE "pass"]
passedBar   == [c \in CPUs |-> stats_map[c]["ALLOWED_PACKETS"]]
droppedBar  == [c \in CPUs |-> stats_map[c]["DENIED_PACKETS"]]
reportsBar  == [n \in DOMAIN flow_events |->
                  [flow |-> flow_events[n].key, action |-> flow_events[n].action]]

Firewall == INSTANCE StatefulFirewall WITH
  Flows    <- FlowKeys,
  Actions  <- Action,
  Denying  <- {POLICY_ACTION_DENY},
  Reportable <- {POLICY_ACTION_DENY, POLICY_ACTION_LOG},
  Capacity <- Cardinality(SessionElements),
  Room     <- RING_CAPACITY,
  sessions <- sessionsBar,
  packet   <- packetBar,
  verdict  <- verdictBar,
  passed   <- passedBar,
  dropped  <- droppedBar,
  reports  <- reportsBar

(***************************************************************************)
(* Every behaviour of the filter is one of the firewall.  In particular a  *)
(* packet that holds a pointer to a session takes that session's action    *)
(* unless the session was evicted meanwhile, even though its element is    *)
(* read later and may have been given to another flow.                     *)
(***************************************************************************)
Implements == Firewall!Spec
=============================================================================
