--------------------------- MODULE DataPathClaims ---------------------------
(***************************************************************************)
(* What the repository's requirements (openspec/) say of the data path,    *)
(* stated over DataPath with a history variable: the decisions that the    *)
(* reference definition gave at some instant of the lookup in flight.      *)
(* None of these holds; the README says what each counterexample shows.    *)
(***************************************************************************)
EXTENDS DataPath

VARIABLE possible  \* per CPU, decisions right at some instant of the lookup

claimVars == <<vars, possible>>

Decisions(key) == {a \in Action : DecisionOf(key, Scanned, a)}

ClaimInit == Init /\ possible = [c \in CPUs |-> {}]

ClaimNext ==
  /\ Next
  /\ possible' = [c \in CPUs |->
       IF pc'[c] \notin {"lookup", "hit", "scan"} THEN
         IF pc'[c] = "idle" THEN {} ELSE possible[c]
       ELSE (IF pc[c] = "idle" THEN {} ELSE possible[c])
            \cup Decisions(frame[c].key)']

ClaimSpec == ClaimInit /\ [][ClaimNext]_claimVars

(***************************************************************************)
(* A policy that is read while it is updated is never seen in part: a      *)
(* packet is decided as the tables said at some instant of its lookup      *)
(* (openspec/changes/add-control-plane-api/specs/policy-management/spec.md *)
(* against the pointer lookup_policy_action keeps into the table).         *)
(***************************************************************************)
UpdatesAreAtomic ==
  \A c \in CPUs :
    pc[c] \in {"create", "enforce"} => frame[c].action \in possible[c]

(***************************************************************************)
(* The action matched for a flow's first packet is the one its session     *)
(* stores (openspec/specs/policy-matching/spec.md; the filter ignores what *)
(* create_session returns).                                                *)
(***************************************************************************)
FirstDecisionStored ==
  \A c \in CPUs :
    pc[c] = "enforce" /\ frame[c].key \in DOMAIN session_map =>
      frame[c].action = session_map[frame[c].key].policy_action

(***************************************************************************)
(* A packet of an established session adds one to packets_to_server        *)
(* (openspec/specs/session-tracking/spec.md; the hot path of the filter).  *)
(***************************************************************************)
PacketAddsOne ==
  [][\A c \in CPUs :
       HotPath(c) /\ Holds(session_map, frame[c]) =>
         session_map'[frame[c].key].packets_to_server =
           session_map[frame[c].key].packets_to_server + 1]_claimVars

(***************************************************************************)
(* A packet that no exact policy matches and under which nothing changes   *)
(* is decided by a matching wildcard policy with the smallest priority     *)
(* number (openspec/specs/policy-matching/spec.md; the scan of             *)
(* lookup_policy_action keeps the larger number).                          *)
(***************************************************************************)
SmallerNumberWins ==
  \A c \in CPUs : Undisturbed(c) /\ frame[c].key \notin DOMAIN policy_map =>
    LET w        == wildcard_policy_map
        matching == Matching(frame[c].key, w, Scanned)
    IN  matching = {} \/
          \E i \in matching :
            /\ \A j \in matching : w[i].priority <= w[j].priority
            /\ frame[c].action = w[i].action
=============================================================================
