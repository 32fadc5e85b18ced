------------------------------ MODULE DataPath ------------------------------
(***************************************************************************)
(* The packet filter tc_microsegment_filter (bpf/tc_microsegment.bpf.c) as *)
(* it runs on several CPUs at once, over the eBPF maps it shares with the  *)
(* other CPUs and with the user-space agent.                               *)
(*                                                                         *)
(* One packet at a time is in flight on each CPU.  Between two accesses of *)
(* shared memory anything may happen on the other CPUs, so each access is  *)
(* a step; work on a CPU's own data is part of the step before it.  User   *)
(* space changes the policy tables (pkg/policy/policy.go) and drains the   *)
(* ring buffer (pkg/dataplane/dataplane.go) meanwhile.                     *)
(***************************************************************************)
EXTENDS PolicyTables, Sequences

CONSTANTS
  CPUs,                         \* the CPUs that run the filter
  Packets,                      \* headers of the packets that may arrive
  Policies,                     \* policies user space may add or delete
  SessionElements,              \* memory of session_map (100000 elements)
  PolicyElements,               \* memory of policy_map, some spare ones included
  MAX_ENTRIES_POLICY,           \* capacity of policy_map (10000)
  MAX_ENTRIES_WILDCARD_POLICY,  \* slots of wildcard_policy_map (1000)
  SCAN_LIMIT,                   \* slots the filter looks at (100)
  RING_CAPACITY,                \* events that fit in flow_events
  MaxPackets,                   \* bound: packets that arrive
  MaxUpdates                    \* bound: changes of the policy tables

ASSUME CapacityAssumption ==
  /\ IsFiniteSet(SessionElements) /\ SessionElements # {}
  /\ IsFiniteSet(PolicyElements)
  /\ MAX_ENTRIES_POLICY \in Nat /\ MAX_ENTRIES_POLICY < Cardinality(PolicyElements)
  /\ MAX_ENTRIES_WILDCARD_POLICY \in Nat
  /\ SCAN_LIMIT \in Nat
  /\ RING_CAPACITY \in Nat
  /\ MaxPackets \in Nat /\ MaxUpdates \in Nat

ASSUME PolicyAssumption ==
  \A p \in Policies : /\ p.action \in Action
                      /\ p.priority \in Nat
                      /\ p.rule_id \in Nat \ {0}

VARIABLES
  session_map,          \* flow key -> session_value, a partial function
  policy_map,           \* policy key -> policy_value, a partial function
  wildcard_policy_map,  \* slot -> wildcard_policy
  put,                  \* slot writes in progress: a set of [slot, entry]
  stats_map,            \* per CPU, the statistics counters
  flow_events,          \* the ring buffer
  pc,                   \* where the packet of each CPU is
  frame,                \* the locals of the filter on each CPU
  ret,                  \* what the filter last returned on each CPU
  ktime,                \* packets arrived so far: the clock of the model
  updates,              \* changes of the policy tables so far
  touched               \* auxiliary: what changed under the packet in flight

tables  == <<policy_map, wildcard_policy_map, put, updates>>
kernel  == <<session_map, stats_map, flow_events, pc, frame, ret, ktime>>
vars == <<session_map, policy_map, wildcard_policy_map, put, stats_map,
          flow_events, pc, frame, ret, ktime, updates, touched>>

-----------------------------------------------------------------------------
TC_ACT_OK   == 0
TC_ACT_SHOT == 2

StatsKey == {"TOTAL_PACKETS", "ALLOWED_PACKETS", "DENIED_PACKETS",
             "NEW_SESSIONS", "CLOSED_SESSIONS", "ACTIVE_SESSIONS",
             "POLICY_HITS", "POLICY_MISSES"}

Slots   == 0 .. (MAX_ENTRIES_WILDCARD_POLICY - 1)
Scanned == {i \in Slots : i < SCAN_LIMIT}
NoSlot  == -1

FlowKeys == {extract_flow_key(pkt) : pkt \in {q \in Packets : Parses(q)}}
ZeroKey  == [src_ip |-> {}, dst_ip |-> {}, src_port |-> 0, dst_port |-> 0,
             protocol |-> 0]

(***************************************************************************)
(* Hash maps are partial functions.                                        *)
(***************************************************************************)
Put(map, k, v)     == [x \in DOMAIN map \cup {k} |-> IF x = k THEN v ELSE map[x]]
Without(map, gone) == [x \in DOMAIN map \ gone |-> map[x]]
NoEntries          == [x \in {} |-> {}]

(***************************************************************************)
(* The locals of the filter.  elem is the pointer to the session or policy *)
(* element the packet holds, count the counter loaded from it; i, best and *)
(* best_priority belong to the scan of the wildcard table, exact says that *)
(* the action came from policy_map.                                        *)
(***************************************************************************)
ZeroFrame == [key |-> ZeroKey, now |-> 0, elem |-> 0, count |-> 0,
              action |-> POLICY_ACTION_ALLOW, exact |-> FALSE, i |-> 0,
              best |-> NoSlot, best_priority |-> 0]

Untouched == [key |-> FALSE, slots |-> {}, session |-> FALSE]

Init ==
  /\ session_map = NoEntries
  /\ policy_map = NoEntries
  /\ wildcard_policy_map = [i \in Slots |-> EmptySlot]
  /\ put = {}
  /\ stats_map = [c \in CPUs |-> [k \in StatsKey |-> 0]]
  /\ flow_events = <<>>
  /\ pc = [c \in CPUs |-> "idle"]
  /\ frame = [c \in CPUs |-> ZeroFrame]
  /\ ret = [c \in CPUs |-> TC_ACT_OK]
  /\ ktime = 0
  /\ updates = 0
  /\ touched = [c \in CPUs |-> Untouched]

\* Bug: stats_map one entry short, the lookup of the last key fails
update_statsShort(c, key) ==
  stats_map' = IF key = "POLICY_MISSES" THEN stats_map
               ELSE [stats_map EXCEPT ![c][key] = @ + 1]

update_stats(c, key) == stats_map' = [stats_map EXCEPT ![c][key] = @ + 1]

-----------------------------------------------------------------------------
(***************************************************************************)
(* A packet that is not IPv4, or too short, passes and is not counted.     *)
(***************************************************************************)
ReceiveUnparsed(c) ==
  /\ pc[c] = "idle"
  /\ \E pkt \in Packets : ~Parses(pkt)
  /\ ret' = [ret EXCEPT ![c] = TC_ACT_OK]
  /\ UNCHANGED <<session_map, stats_map, flow_events, pc, frame, ktime,
                 tables, touched>>

(***************************************************************************)
(* A parsed packet is counted and its session looked up.  When there is    *)
(* one, the packet holds its element; otherwise the policy lookup begins.  *)
(* From here on touched collects what changes under the packet.            *)
(***************************************************************************)
ReceivePacket(c) ==
  /\ pc[c] = "idle"
  /\ ktime < MaxPackets
  /\ ktime' = ktime + 1
  /\ update_stats(c, "TOTAL_PACKETS")
  /\ \E key \in FlowKeys :
       \/ /\ key \in DOMAIN session_map
          /\ pc' = [pc EXCEPT ![c] = "hot"]
          /\ frame' = [frame EXCEPT ![c] =
               [ZeroFrame EXCEPT !.key = key, !.now = ktime + 1,
                  !.elem = session_map[key].elem]]
          /\ UNCHANGED touched
       \/ /\ key \notin DOMAIN session_map
          /\ pc' = [pc EXCEPT ![c] = "lookup"]
          /\ frame' = [frame EXCEPT ![c] =
               [ZeroFrame EXCEPT !.key = key, !.now = ktime + 1]]
          /\ touched' = [touched EXCEPT ![c].slots =
               {w.slot : w \in put}]
  /\ UNCHANGED <<session_map, flow_events, ret, tables>>

(***************************************************************************)
(* The end of the filter: the verdict is counted and returned, the locals  *)
(* are gone.                                                               *)
(***************************************************************************)
Enforce(c, action) ==
  /\ IF action = POLICY_ACTION_DENY
     THEN /\ update_stats(c, "DENIED_PACKETS")
          /\ ret' = [ret EXCEPT ![c] = TC_ACT_SHOT]
     ELSE /\ update_stats(c, "ALLOWED_PACKETS")
          /\ ret' = [ret EXCEPT ![c] = TC_ACT_OK]
  /\ pc' = [pc EXCEPT ![c] = "idle"]
  /\ frame' = [frame EXCEPT ![c] = ZeroFrame]
  /\ touched' = [touched EXCEPT ![c] = Untouched]

(***************************************************************************)
(* Both hash maps keep their elements in preallocated memory, and an       *)
(* element that is evicted, replaced or deleted may be given to another    *)
(* key at once, under a packet that holds a pointer to it.  Pointees is    *)
(* the key whose element the pointer of the packet leads to, if any.       *)
(***************************************************************************)
Used(map)      == {map[k].elem : k \in DOMAIN map}
Holders(map, e) == {k \in DOMAIN map : map[k].elem = e}

Holds(map, f) == f.key \in Holders(map, f.elem)

Pointees(map, f) == IF Holds(map, f) THEN {f.key} ELSE Holders(map, f.elem)

(***************************************************************************)
(* The hot path loads the action and packets_to_server, and stores the     *)
(* counter incremented; the element may change hands before either.  The   *)
(* memory of an element nobody has holds what a session once left there.   *)
(***************************************************************************)
HotLoad(c) ==
  /\ pc[c] = "hot"
  /\ LET from == Pointees(session_map, frame[c])
     IN  \/ \E k \in from :
              frame' = [frame EXCEPT ![c] =
                [@ EXCEPT !.action = session_map[k].policy_action,
                          !.count = session_map[k].packets_to_server]]
         \/ /\ from = {}
            /\ \E leftover \in Action :
                 frame' = [frame EXCEPT ![c] = [@ EXCEPT !.action = leftover]]
  /\ pc' = [pc EXCEPT ![c] = "cached"]
  /\ UNCHANGED <<session_map, stats_map, flow_events, ret, ktime, tables, touched>>

HotPath(c) ==
  /\ pc[c] = "cached"
  /\ LET to == Pointees(session_map, frame[c])
     IN  session_map' = [k \in DOMAIN session_map |->
           IF k \in to
           THEN [session_map[k] EXCEPT !.packets_to_server = frame[c].count + 1]
           ELSE session_map[k]]
  /\ Enforce(c, frame[c].action)
  /\ UNCHANGED <<flow_events, ktime, tables>>

-----------------------------------------------------------------------------
(***************************************************************************)
(* lookup_policy_action, first half: the exact table.  On a hit the packet *)
(* holds the element and has loaded its hit_count; the store of hit_count  *)
(* and the load of the action follow.                                      *)
(***************************************************************************)
LookupExact(c) ==
  /\ pc[c] = "lookup"
  /\ \/ /\ frame[c].key \in DOMAIN policy_map
        /\ LET policy == policy_map[frame[c].key]
           IN  frame' = [frame EXCEPT ![c] =
                 [@ EXCEPT !.elem = policy.elem, !.count = policy.hit_count,
                           !.exact = TRUE]]
        /\ pc' = [pc EXCEPT ![c] = "hit"]
     \/ /\ frame[c].key \notin DOMAIN policy_map
        /\ pc' = [pc EXCEPT ![c] = "scan"]
        /\ UNCHANGED frame
  /\ UNCHANGED <<session_map, stats_map, flow_events, ret, ktime, tables,
                 touched>>

CountHit(f) ==
  policy_map' = [k \in DOMAIN policy_map |->
    IF k \in Pointees(policy_map, f)
    THEN [policy_map[k] EXCEPT !.hit_count = f.count + 1]
    ELSE policy_map[k]]

\* Bug: the action of the element is never loaded
BumpHitOnly(c) ==
  /\ pc[c] = "hit"
  /\ CountHit(frame[c])
  /\ update_stats(c, "POLICY_HITS")
  /\ pc' = [pc EXCEPT ![c] = "create"]
  /\ UNCHANGED <<session_map, wildcard_policy_map, put, updates, flow_events,
                 frame, ret, ktime, touched>>

BumpHit(c) ==
  /\ pc[c] = "hit"
  /\ CountHit(frame[c])
  /\ LET from == Pointees(policy_map, frame[c])
     IN  \/ \E k \in from :
              frame' = [frame EXCEPT ![c].action = policy_map[k].action]
         \/ /\ from = {}
            /\ \E leftover \in Action :
                 frame' = [frame EXCEPT ![c].action = leftover]
  /\ update_stats(c, "POLICY_HITS")
  /\ pc' = [pc EXCEPT ![c] = "create"]
  /\ UNCHANGED <<session_map, wildcard_policy_map, put, updates, flow_events,
                 ret, ktime, touched>>

(***************************************************************************)
(* What a read of slot i may return: its content, or, while user space     *)
(* copies a new entry into it, a mixture of old and new fields, for the    *)
(* copy is not synchronised with the filter.  The copy runs upwards and    *)
(* rule_id, which the filter reads first, is in its last word: a filter    *)
(* that sees a new rule_id sees the new entry (x86 keeps both orders).     *)
(***************************************************************************)
Torn(old, new, fields) ==
  [f \in DOMAIN old |-> IF f \in fields THEN new[f] ELSE old[f]]

Mixtures(old, new) ==
  LET changed == {f \in DOMAIN old : old[f] # new[f]}
  IN  {Torn(old, new, fields) :
         fields \in SUBSET (changed \ {"rule_id"}) \cup {changed}}

Readings(i) ==
  {wildcard_policy_map[i]} \cup
  UNION {Mixtures(wildcard_policy_map[i], w.entry) : w \in {x \in put : x.slot = i}}

\* Bugs: a tie goes to the later slot; priority 0 never wins
BetterOrEqual(f, w)    == f.best = NoSlot \/ w.priority >= f.best_priority
BetterIfPositive(f, w) == w.priority > f.best_priority

Better(f, w) == f.best = NoSlot \/ w.priority > f.best_priority

(***************************************************************************)
(* lookup_policy_action, second half: one iteration of the loop over the   *)
(* wildcard table, and what follows the loop.  best_match points into the  *)
(* table, so rule and action are read from the slot again at the end.      *)
(***************************************************************************)
\* Bug: `continue' without advancing the index
ScanSlotStuck(c) ==
  /\ pc[c] = "scan"
  /\ frame[c].i \in Scanned
  /\ LET f == frame[c]
     IN  \E w \in Readings(f.i) :
           frame' = [frame EXCEPT ![c] =
             IF Hits(f.key, w) /\ Better(f, w)
             THEN [f EXCEPT !.best = f.i, !.best_priority = w.priority,
                            !.i = f.i + 1]
             ELSE f]
  /\ UNCHANGED <<session_map, stats_map, flow_events, pc, ret, ktime, tables,
                 touched>>

ScanSlot(c) ==
  /\ pc[c] = "scan"
  /\ frame[c].i \in Scanned
  /\ LET f == frame[c]
     IN  \E w \in Readings(f.i) :
           frame' = [frame EXCEPT ![c] =
             IF Hits(f.key, w) /\ Better(f, w)
             THEN [f EXCEPT !.best = f.i, !.best_priority = w.priority,
                            !.i = f.i + 1]
             ELSE [f EXCEPT !.i = f.i + 1]]
  /\ UNCHANGED <<session_map, stats_map, flow_events, pc, ret, ktime, tables,
                 touched>>

ScanDone(c) ==
  /\ pc[c] = "scan"
  /\ frame[c].i \notin Scanned
  /\ \/ /\ frame[c].best # NoSlot
        /\ \E w \in Readings(frame[c].best) :
             frame' = [frame EXCEPT ![c].action = w.action]
        /\ update_stats(c, "POLICY_HITS")
     \/ /\ frame[c].best = NoSlot
        /\ frame' = [frame EXCEPT ![c].action = POLICY_ACTION_ALLOW]
        /\ update_stats(c, "POLICY_MISSES")
  /\ pc' = [pc EXCEPT ![c] = "create"]
  /\ UNCHANGED <<session_map, flow_events, ret, ktime, tables, touched>>

-----------------------------------------------------------------------------
(***************************************************************************)
(* create_session.  session_map is an LRU hash: the kernel first takes a   *)
(* free element, evicting some sessions when there is none (any of them,   *)
(* the recency bits are not modelled), and only then sees whether the key  *)
(* exists.  The filter ignores the return code, so a refused session only  *)
(* means that the packet's decision is kept nowhere.                       *)
(***************************************************************************)
Free(map) == SessionElements \ Used(map)

SessionsFull == Free(session_map) = {}

Evictions == IF SessionsFull THEN SUBSET DOMAIN session_map ELSE {{}}

TouchSessions(evicted) ==
  touched' = [d \in CPUs |->
    [touched[d] EXCEPT !.session = @ \/ (pc[d] = "hot" /\ frame[d].key \in evicted)]]

\* Bug: the decision is not among the fields initialised
NewSessionUnset(f, e) == [created_ts |-> f.now, packets_to_server |-> 1,
                          policy_action |-> POLICY_ACTION_ALLOW, elem |-> e]

NewSession(f, e) == [created_ts |-> f.now, packets_to_server |-> 1,
                     policy_action |-> f.action, elem |-> e]

\* Bug: the key is not copied into the event
FlowEventKeyless(f) ==
  [key |-> ZeroKey, timestamp |-> f.now, action |-> f.action]

FlowEvent(f) == [key |-> f.key, timestamp |-> f.now, action |-> f.action]

Reported(action) == action \in {POLICY_ACTION_DENY, POLICY_ACTION_LOG}

\* Bug: BPF_ANY instead of BPF_NOEXIST
InsertsAnyway(key, evicted) == SessionsFull => evicted # {}

Inserts(key, evicted) ==
  /\ SessionsFull => evicted # {}
  /\ key \notin DOMAIN session_map \ evicted

CreateSession(c) ==
  /\ pc[c] = "create"
  /\ \E evicted \in Evictions :
       /\ Inserts(frame[c].key, evicted)
       /\ \E e \in Free(Without(session_map, evicted)) :
            session_map' = Put(Without(session_map, evicted), frame[c].key,
                               NewSession(frame[c], e))
       /\ TouchSessions(evicted)
  /\ update_stats(c, "NEW_SESSIONS")
  /\ flow_events' = IF Reported(frame[c].action) /\ Len(flow_events) < RING_CAPACITY
                    THEN Append(flow_events, FlowEvent(frame[c]))
                    ELSE flow_events
  /\ pc' = [pc EXCEPT ![c] = "enforce"]
  /\ UNCHANGED <<frame, ret, ktime, tables>>

\* Bug: the event is sent whatever bpf_map_update_elem returned
RefuseSessionReports(c) ==
  /\ pc[c] = "create"
  /\ ~SessionsFull /\ frame[c].key \in DOMAIN session_map
  /\ flow_events' = IF Reported(frame[c].action) /\ Len(flow_events) < RING_CAPACITY
                    THEN Append(flow_events, FlowEvent(frame[c]))
                    ELSE flow_events
  /\ pc' = [pc EXCEPT ![c] = "enforce"]
  /\ UNCHANGED <<session_map, stats_map, frame, ret, ktime, tables, touched>>

RefuseSession(c) ==
  /\ pc[c] = "create"
  /\ \E evicted \in Evictions :
       /\ ~Inserts(frame[c].key, evicted)
       /\ session_map' = Without(session_map, evicted)
       /\ TouchSessions(evicted)
  /\ pc' = [pc EXCEPT ![c] = "enforce"]
  /\ UNCHANGED <<stats_map, flow_events, frame, ret, ktime, tables>>

EnforceNew(c) ==
  /\ pc[c] = "enforce"
  /\ Enforce(c, frame[c].action)
  /\ UNCHANGED <<session_map, flow_events, ktime, tables>>

-----------------------------------------------------------------------------
(***************************************************************************)
(* User space.  A change of policy_map is one system call: the new value   *)
(* goes into a free element, which then replaces the old.  A wildcard entry*)
(* is copied into its slot while the filter reads it: addWildcardPolicy    *)
(* begins the copy, WildcardWritten is its end.  One caller at a time is   *)
(* in the manager here.  No code removes a wildcard entry.                 *)
(***************************************************************************)
InFlight(c) == pc[c] \notin {"idle", "hot", "cached"}

TouchKey(key) ==
  touched' = [c \in CPUs |->
    [touched[c] EXCEPT !.key = @ \/ (InFlight(c) /\ frame[c].key = key)]]

TouchSlot(i) ==
  touched' = [c \in CPUs |->
    [touched[c] EXCEPT !.slots = IF InFlight(c) THEN @ \cup {i} ELSE @]]

addExactPolicy(p) ==
  LET key == PolicyKey(p)
  IN  /\ updates < MaxUpdates
      /\ ~hasWildcard(p)
      /\ \/ key \in DOMAIN policy_map
         \/ Cardinality(DOMAIN policy_map) < MAX_ENTRIES_POLICY
      /\ \E e \in PolicyElements \ Used(policy_map) :
           policy_map' = Put(policy_map, key,
             [action |-> p.action, rule_id |-> p.rule_id, hit_count |-> 0,
              elem |-> e])
      /\ updates' = updates + 1
      /\ TouchKey(key)
      /\ UNCHANGED <<wildcard_policy_map, put, kernel>>

DeletePolicy(p) ==
  /\ updates < MaxUpdates
  /\ PolicyKey(p) \in DOMAIN policy_map
  /\ policy_map' = Without(policy_map, {PolicyKey(p)})
  /\ updates' = updates + 1
  /\ TouchKey(PolicyKey(p))
  /\ UNCHANGED <<wildcard_policy_map, put, kernel>>

addWildcardPolicy(p) ==
  /\ updates < MaxUpdates
  /\ put = {}
  /\ hasWildcard(p)
  /\ \E i \in Slots :
       /\ IsTargetSlot(wildcard_policy_map, p.rule_id, i)
       /\ put' = {[slot |-> i, entry |-> WildcardEntry(p)]}
       /\ TouchSlot(i)
  /\ updates' = updates + 1
  /\ UNCHANGED <<policy_map, wildcard_policy_map, kernel>>

WildcardWritten ==
  /\ \E w \in put :
       /\ wildcard_policy_map' = [wildcard_policy_map EXCEPT ![w.slot] = w.entry]
       /\ put' = put \ {w}
  /\ UNCHANGED <<policy_map, updates, kernel, touched>>

MonitorFlowEvents ==
  /\ flow_events # <<>>
  /\ flow_events' = Tail(flow_events)
  /\ UNCHANGED <<session_map, stats_map, pc, frame, ret, ktime, tables, touched>>

-----------------------------------------------------------------------------
(***************************************************************************)
(* A packet in flight is carried on by its CPU alone: the filter runs to   *)
(* completion, so its steps are fair.  So are the end of a copy, which is  *)
(* a memcpy in the kernel, and the monitor, which loops for ever.          *)
(***************************************************************************)
Receive(c) == ReceiveUnparsed(c) \/ ReceivePacket(c)

Step(c) ==
  \/ HotLoad(c)
  \/ HotPath(c)
  \/ LookupExact(c)
  \/ BumpHit(c)
  \/ ScanSlot(c)
  \/ ScanDone(c)
  \/ CreateSession(c)
  \/ RefuseSession(c)
  \/ EnforceNew(c)

UserSpace ==
  \/ \E p \in Policies : addExactPolicy(p) \/ DeletePolicy(p) \/ addWildcardPolicy(p)
  \/ WildcardWritten
  \/ MonitorFlowEvents

Next == (\E c \in CPUs : Receive(c) \/ Step(c)) \/ UserSpace

Fairness ==
  /\ \A c \in CPUs : WF_vars(Step(c))
  /\ WF_vars(WildcardWritten)
  /\ WF_vars(MonitorFlowEvents)

Spec == Init /\ [][Next]_vars
FairSpec == Spec /\ Fairness
-----------------------------------------------------------------------------
(***************************************************************************)
(* Type invariant.                                                         *)
(***************************************************************************)
IsMap(map, K, V) == DOMAIN map \subseteq K /\ map \in [DOMAIN map -> V]

PolicyKeys   == {PolicyKey(p) : p \in Policies}
SessionValue == [created_ts : Nat, packets_to_server : Nat, policy_action : Action,
                 elem : SessionElements]
PolicyValue  == [action : Action, rule_id : Nat, hit_count : Nat, elem : PolicyElements]
Entries      == {EmptySlot} \cup {WildcardEntry(p) : p \in Policies}
Event        == [key : FlowKeys, timestamp : Nat, action : Action]
Frame        == [key : FlowKeys \cup {ZeroKey}, now : Nat,
                 elem : {0} \cup SessionElements \cup PolicyElements, count : Nat, action : Action, exact : BOOLEAN, i : Nat,
                 best : Slots \cup {NoSlot}, best_priority : Nat]
Touched      == [key : BOOLEAN, slots : SUBSET Slots, session : BOOLEAN]
PC == {"idle", "hot", "cached", "lookup", "hit", "scan", "create", "enforce"}

TypeOK ==
  /\ IsMap(session_map, FlowKeys, SessionValue)
  /\ IsMap(policy_map, PolicyKeys, PolicyValue)
  /\ wildcard_policy_map \in [Slots -> Entries]
  /\ put \subseteq [slot : Slots, entry : Entries]
  /\ stats_map \in [CPUs -> [StatsKey -> Nat]]
  /\ flow_events \in Seq(Event)
  /\ pc \in [CPUs -> PC]
  /\ frame \in [CPUs -> Frame]
  /\ \A c \in CPUs : pc[c] # "idle" => frame[c].key \in FlowKeys
  /\ ret \in [CPUs -> {TC_ACT_OK, TC_ACT_SHOT}]
  /\ ktime \in Nat
  /\ updates \in Nat
  /\ touched \in [CPUs -> Touched]

(***************************************************************************)
(* Every parsed packet gets exactly one verdict and the per-CPU counters   *)
(* say so at every instant: TOTAL runs ahead of ALLOWED + DENIED by the    *)
(* packet in flight and by nothing else, each packet is looked up at most  *)
(* once, and only a packet that was looked up counts a session             *)
(* (update_stats calls of the whole filter).                               *)
(***************************************************************************)
Count(P) == IF P THEN 1 ELSE 0

Conserved(c) ==
  LET s == stats_map[c]
      looked_up == s["POLICY_HITS"] + s["POLICY_MISSES"]
  IN  /\ s["TOTAL_PACKETS"] =
           s["ALLOWED_PACKETS"] + s["DENIED_PACKETS"] + Count(pc[c] # "idle")
      /\ looked_up + Count(pc[c] \in {"hot", "cached", "lookup", "hit", "scan"})
           <= s["TOTAL_PACKETS"]
      /\ s["NEW_SESSIONS"] + Count(pc[c] = "create") <= looked_up

StatsConserved == \A c \in CPUs : Conserved(c)

(***************************************************************************)
(* Policies that stay put are obeyed, whatever else user space is doing:   *)
(* once a lookup is over, a matching entry that was in a scanned slot all  *)
(* along has lost only to an entry that beats it; the action comes from    *)
(* the winner if that was left alone too; the exact table goes first; and  *)
(* ALLOW by default means that no such entry existed.  If nothing was      *)
(* touched this is the reference decision (lookup_policy_action).          *)
(***************************************************************************)
Beaten(f, i) ==
  /\ f.best # NoSlot
  /\ \/ wildcard_policy_map[i].priority < f.best_priority
     \/ wildcard_policy_map[i].priority = f.best_priority /\ f.best <= i

Steady(c) == Scanned \ touched[c].slots

PoliciesObeyed ==
  \A c \in CPUs : pc[c] \in {"create", "enforce"} =>
    LET f == frame[c]
        w == wildcard_policy_map
    IN  /\ f.exact /\ ~touched[c].key =>
             f.key \in DOMAIN policy_map /\ f.action = policy_map[f.key].action
        /\ ~f.exact =>
             /\ ~touched[c].key => f.key \notin DOMAIN policy_map
             /\ \A i \in Steady(c) : Hits(f.key, w[i]) => Beaten(f, i)
             /\ f.best \in Steady(c) =>
                  Hits(f.key, w[f.best]) /\ f.action = w[f.best].action
             /\ f.best = NoSlot => f.action = POLICY_ACTION_ALLOW

(***************************************************************************)
(* The corollary for a packet under which nothing changed: the slot-by-    *)
(* slot lookup gives what the reference definition gives for the tables.   *)
(***************************************************************************)
DecisionOf(key, S, action) ==
  \/ key \in DOMAIN policy_map /\ action = policy_map[key].action
  \/ key \notin DOMAIN policy_map
     /\ WildcardDecision(key, wildcard_policy_map, S, action)

Undisturbed(c) == pc[c] \in {"create", "enforce"} /\ touched[c] = Untouched

UndisturbedDecision ==
  \A c \in CPUs :
    Undisturbed(c) => DecisionOf(frame[c].key, Scanned, frame[c].action)

(***************************************************************************)
(* What a rule says is what is enforced: a packet that installed rules     *)
(* cover, read as addresses, ports and a protocol, is decided by one of    *)
(* them (WILDCARD_POLICY_FIX.md; the routing and encoding of AddPolicy     *)
(* with the lookup of the filter).  It holds for rules about hosts and     *)
(* about anywhere, and not for ranges of addresses.                        *)
(***************************************************************************)
Within(addr, cidr) ==
  cidr.family = 4 /\ addr \cap Netmask(cidr.len) = cidr.ip \cap Netmask(cidr.len)

Covers(p, key) ==
  /\ Within(key.src_ip, p.src) /\ Within(key.dst_ip, p.dst)
  /\ p.src_port = 0 \/ key.src_port = htons(p.src_port)
  /\ p.dst_port = 0 \/ key.dst_port = htons(p.dst_port)
  /\ p.protocol \in {IPPROTO_ANY, key.protocol}

Installed(p) ==
  IF hasWildcard(p) THEN \E i \in Scanned : wildcard_policy_map[i] = WildcardEntry(p)
  ELSE /\ PolicyKey(p) \in DOMAIN policy_map
       /\ policy_map[PolicyKey(p)].rule_id = p.rule_id

RulesCover ==
  \A c \in CPUs : Undisturbed(c) =>
    LET covering == {p \in Policies : Installed(p) /\ Covers(p, frame[c].key)}
    IN  covering = {} \/ \E p \in covering : frame[c].action = p.action

(***************************************************************************)
(* While session_map has room, the first decision stored for a flow is     *)
(* never replaced: of two CPUs that decide the same new flow at once one   *)
(* stores, and no later packet or policy change touches the stored action  *)
(* (BPF_NOEXIST in create_session, the hot path of the filter).            *)
(***************************************************************************)
DecisionSticks ==
  [][\A k \in DOMAIN session_map :
       ~SessionsFull =>
         /\ k \in DOMAIN session_map'
         /\ session_map'[k].policy_action = session_map[k].policy_action
         /\ session_map'[k].created_ts = session_map[k].created_ts]_vars

(***************************************************************************)
(* Events tell of sessions that were created: each is a DENY or LOG, no    *)
(* packet is reported twice, and while nothing can be evicted the session  *)
(* it tells of is there, with that time and action; so a packet that lost  *)
(* the race to create the session reports nothing (create_session).        *)
(***************************************************************************)
EventsTellSessions ==
  \A n \in DOMAIN flow_events :
    LET e == flow_events[n]
    IN  /\ Reported(e.action)
        /\ \A m \in DOMAIN flow_events :
             flow_events[m].timestamp = e.timestamp => m = n
        /\ Cardinality(FlowKeys) < Cardinality(SessionElements) =>
             /\ e.key \in DOMAIN session_map
             /\ session_map[e.key].created_ts = e.timestamp
             /\ session_map[e.key].policy_action = e.action

(***************************************************************************)
(* Every packet in flight gets its verdict: the lookup loop is bounded and *)
(* no interleaving makes a CPU wait for another (the eBPF verifier demands *)
(* this of the program, and the kernel runs it to completion).             *)
(***************************************************************************)
PacketsFinish == \A c \in CPUs : pc[c] # "idle" ~> pc[c] = "idle"
=============================================================================
