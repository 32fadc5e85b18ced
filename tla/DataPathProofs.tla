--------------------------- MODULE DataPathProofs ---------------------------
(***************************************************************************)
(* Theorems about DataPath, for every number of CPUs, flows, policies and  *)
(* table sizes.                                                            *)
(***************************************************************************)
EXTENDS DataPath, TLAPS

USE DEF POLICY_ACTION_ALLOW, POLICY_ACTION_DENY, POLICY_ACTION_LOG

-----------------------------------------------------------------------------
(***************************************************************************)
(* Entries of the wildcard table, and mixtures of them, have an action and *)
(* a priority.                                                             *)
(***************************************************************************)
LEMMA EntryTypes ==
  ASSUME NEW e \in Entries
  PROVE  /\ e.action \in Action
         /\ e.priority \in Nat
         /\ "action" \in DOMAIN e
         /\ "priority" \in DOMAIN e
BY PolicyAssumption DEF Entries, EmptySlot, WildcardEntry, Action

LEMMA ReadingTypes ==
  ASSUME TypeOK, NEW i \in Slots, NEW w \in Readings(i)
  PROVE  w.action \in Action /\ w.priority \in Nat
<1>1. wildcard_policy_map[i] \in Entries
  BY DEF TypeOK
<1>2. CASE w = wildcard_policy_map[i]
  BY <1>1, <1>2, EntryTypes
<1>3. CASE \E x \in put : w \in Mixtures(wildcard_policy_map[i], x.entry)
  <2>1. PICK x \in put : w \in Mixtures(wildcard_policy_map[i], x.entry)
    BY <1>3
  <2>2. x.entry \in Entries
    BY DEF TypeOK
  <2>3. PICK fields : w = Torn(wildcard_policy_map[i], x.entry, fields)
    BY <2>1 DEF Mixtures
  <2>4. w.action \in {wildcard_policy_map[i].action, x.entry.action}
    BY <2>3, <1>1, EntryTypes DEF Torn
  <2>5. w.priority \in {wildcard_policy_map[i].priority, x.entry.priority}
    BY <2>3, <1>1, EntryTypes DEF Torn
  <2> QED
    BY <1>1, <2>2, <2>4, <2>5, EntryTypes
<1> QED
  BY <1>2, <1>3 DEF Readings

-----------------------------------------------------------------------------
(***************************************************************************)
(* What each step does to the hash maps and counters, as types.            *)
(***************************************************************************)
LEMMA PutType ==
  ASSUME NEW map, NEW K, NEW V, IsMap(map, K, V), NEW k \in K, NEW v \in V
  PROVE  IsMap(Put(map, k, v), K, V)
BY DEF IsMap, Put

LEMMA WithoutType ==
  ASSUME NEW map, NEW K, NEW V, IsMap(map, K, V), NEW gone
  PROVE  IsMap(Without(map, gone), K, V)
BY DEF IsMap, Without

LEMMA CountType ==
  ASSUME TypeOK, NEW c \in CPUs, NEW key \in StatsKey, update_stats(c, key)
  PROVE  stats_map' \in [CPUs -> [StatsKey -> Nat]]
BY DEF TypeOK, update_stats

LEMMA EnforceType ==
  ASSUME TypeOK, NEW c \in CPUs, NEW action, Enforce(c, action)
  PROVE  /\ stats_map' \in [CPUs -> [StatsKey -> Nat]]
         /\ ret' \in [CPUs -> {TC_ACT_OK, TC_ACT_SHOT}]
         /\ pc' \in [CPUs -> PC]
         /\ frame' \in [CPUs -> Frame]
         /\ \A d \in CPUs : pc'[d] # "idle" => frame'[d].key \in FlowKeys
         /\ touched' \in [CPUs -> Touched]
<1>1. stats_map' \in [CPUs -> [StatsKey -> Nat]]
  BY CountType DEF Enforce, StatsKey
<1>2. ret' \in [CPUs -> {TC_ACT_OK, TC_ACT_SHOT}]
  BY DEF Enforce, TypeOK
<1>3. ZeroFrame \in Frame
  BY DEF ZeroFrame, Frame, Action
<1>4. Untouched \in Touched
  BY DEF Untouched, Touched
<1> QED
  BY <1>1, <1>2, <1>3, <1>4 DEF Enforce, TypeOK, PC

LEMMA FrameType ==
  ASSUME TypeOK, NEW c \in CPUs, NEW f \in Frame, frame' = [frame EXCEPT ![c] = f]
  PROVE  /\ frame' \in [CPUs -> Frame]
         /\ frame'[c] = f
         /\ \A d \in CPUs \ {c} : frame'[d] = frame[d]
BY DEF TypeOK

LEMMA SessionsTouched ==
  ASSUME TypeOK, NEW evicted, TouchSessions(evicted)
  PROVE  /\ touched' \in [CPUs -> Touched]
         /\ \A d \in CPUs : /\ touched'[d].key = touched[d].key
                            /\ touched'[d].slots = touched[d].slots
BY DEF TypeOK, TouchSessions, Touched

LEMMA ActionFrame ==
  ASSUME TypeOK, NEW c \in CPUs, NEW a \in Action, frame' = [frame EXCEPT ![c].action = a]
  PROVE  /\ frame' \in [CPUs -> Frame]
         /\ \A d \in CPUs : frame'[d].key = frame[d].key
<1>1. frame[c] \in Frame
  BY DEF TypeOK
<1>2. [frame[c] EXCEPT !.action = a] \in Frame
      /\ [frame[c] EXCEPT !.action = a].key = frame[c].key
  BY <1>1 DEF Frame
<1>3. frame' = [frame EXCEPT ![c] = [frame[c] EXCEPT !.action = a]]
  OBVIOUS
<1> QED
  BY <1>2, <1>3, FrameType

(***************************************************************************)
(* BumpHit loads some action, and the policy's own one while the packet's  *)
(* element still belongs to its key.                                       *)
(***************************************************************************)
LEMMA BumpedAction ==
  ASSUME TypeOK, NEW c \in CPUs, BumpHit(c)
  PROVE  \E a \in Action :
           /\ frame' = [frame EXCEPT ![c].action = a]
           /\ Holds(policy_map, frame[c]) => a = policy_map[frame[c].key].action
<1>1. CASE \E k \in Pointees(policy_map, frame[c]) :
             frame' = [frame EXCEPT ![c].action = policy_map[k].action]
  <2>1. PICK k \in Pointees(policy_map, frame[c]) :
             frame' = [frame EXCEPT ![c].action = policy_map[k].action]
    BY <1>1
  <2>2. k \in DOMAIN policy_map /\ (Holds(policy_map, frame[c]) => k = frame[c].key)
    BY DEF Pointees, Holds, Holders
  <2>3. policy_map[k].action \in Action
    BY <2>2 DEF TypeOK, IsMap, PolicyValue
  <2> QED
    BY <2>1, <2>2, <2>3
<1>2. CASE /\ Pointees(policy_map, frame[c]) = {}
           /\ \E a \in Action : frame' = [frame EXCEPT ![c].action = a]
  BY <1>2 DEF Pointees
<1> QED
  BY <1>1, <1>2 DEF BumpHit

-----------------------------------------------------------------------------
(***************************************************************************)
(* Type correctness.                                                       *)
(***************************************************************************)
LEMMA InitTyped == Init => TypeOK
<1> SUFFICES ASSUME Init PROVE TypeOK
  OBVIOUS
<1>1. IsMap(NoEntries, FlowKeys, SessionValue) /\ IsMap(NoEntries, PolicyKeys, PolicyValue)
  BY DEF IsMap, NoEntries
<1>2. wildcard_policy_map \in [Slots -> Entries]
  BY DEF Init, Entries
<1>3. frame \in [CPUs -> Frame]
  BY DEF Init, ZeroFrame, Frame, Action
<1>4. touched \in [CPUs -> Touched]
  BY DEF Init, Untouched, Touched
<1>5. flow_events \in Seq(Event)
  BY DEF Init
<1> QED
  BY <1>1, <1>2, <1>3, <1>4, <1>5 DEF Init, TypeOK, PC

LEMMA StepTyped == TypeOK /\ [Next]_vars => TypeOK'
<1> SUFFICES ASSUME TypeOK, [Next]_vars PROVE TypeOK'
  OBVIOUS
<1> USE DEF tables, kernel
<1>1. ASSUME NEW c \in CPUs, ReceiveUnparsed(c) PROVE TypeOK'
  BY <1>1 DEF ReceiveUnparsed, TypeOK
<1>2. ASSUME NEW c \in CPUs, ReceivePacket(c) PROVE TypeOK'
  <2>1. stats_map' \in [CPUs -> [StatsKey -> Nat]]
    BY <1>2, CountType DEF ReceivePacket, StatsKey
  <2>2. PICK key \in FlowKeys :
          \/ /\ key \in DOMAIN session_map
             /\ pc' = [pc EXCEPT ![c] = "hot"]
             /\ frame' = [frame EXCEPT ![c] =
                  [ZeroFrame EXCEPT !.key = key, !.now = ktime + 1,
                     !.elem = session_map[key].elem]]
             /\ UNCHANGED touched
          \/ /\ key \notin DOMAIN session_map
             /\ pc' = [pc EXCEPT ![c] = "lookup"]
             /\ frame' = [frame EXCEPT ![c] =
                  [ZeroFrame EXCEPT !.key = key, !.now = ktime + 1]]
             /\ touched' = [touched EXCEPT ![c].slots = {w.slot : w \in put}]
    BY <1>2 DEF ReceivePacket
  <2>3. PICK f \in Frame : frame' = [frame EXCEPT ![c] = f] /\ f.key = key
    <3>1. ZeroFrame \in Frame /\ ktime + 1 \in Nat
      BY DEF ZeroFrame, Frame, Action, TypeOK
    <3>2. CASE key \in DOMAIN session_map
      <4>1. session_map[key] \in SessionValue
        BY <3>2 DEF TypeOK, IsMap
      <4>2. [ZeroFrame EXCEPT !.key = key, !.now = ktime + 1,
               !.elem = session_map[key].elem] \in Frame
        BY <3>1, <4>1 DEF Frame, SessionValue
      <4> QED
        BY <2>2, <3>1, <3>2, <4>2 DEF Frame
    <3>3. CASE key \notin DOMAIN session_map
      <4>1. [ZeroFrame EXCEPT !.key = key, !.now = ktime + 1] \in Frame
        BY <3>1 DEF Frame
      <4> QED
        BY <2>2, <3>1, <3>3, <4>1 DEF Frame
    <3> QED
      BY <3>2, <3>3
  <2>4. pc' \in [CPUs -> PC] /\ \A d \in CPUs \ {c} : pc'[d] = pc[d]
    BY <2>2 DEF TypeOK, PC
  <2>5. touched' \in [CPUs -> Touched]
    <3>1. {w.slot : w \in put} \in SUBSET Slots
      BY DEF TypeOK
    <3>2. CASE key \in DOMAIN session_map
      BY <2>2, <3>2 DEF TypeOK
    <3>3. CASE key \notin DOMAIN session_map
      <4>1. touched[c] \in Touched
        BY DEF TypeOK
      <4>2. [touched[c] EXCEPT !.slots = {w.slot : w \in put}] \in Touched
        BY <3>1, <4>1 DEF Touched
      <4>3. touched' = [touched EXCEPT ![c] =
                          [touched[c] EXCEPT !.slots = {w.slot : w \in put}]]
        BY <2>2, <3>3
      <4> QED
        BY <4>2, <4>3 DEF TypeOK
    <3> QED
      BY <3>2, <3>3
  <2>6. \A d \in CPUs : pc'[d] # "idle" => frame'[d].key \in FlowKeys
    BY <2>3, <2>4, FrameType DEF TypeOK
  <2> QED
    BY <1>2, <2>1, <2>3, <2>4, <2>5, <2>6, FrameType DEF ReceivePacket, TypeOK
<1>3. ASSUME NEW c \in CPUs, HotPath(c) PROVE TypeOK'
  <2>1. IsMap(session_map', FlowKeys, SessionValue)
    <3>1. frame[c].count + 1 \in Nat
      BY DEF TypeOK, Frame
    <3>2. PICK to : session_map' = [k \in DOMAIN session_map |->
            IF k \in to
            THEN [session_map[k] EXCEPT !.packets_to_server = frame[c].count + 1]
            ELSE session_map[k]]
      BY <1>3 DEF HotPath
    <3> QED
      BY <3>1, <3>2 DEF TypeOK, IsMap, SessionValue
  <2> QED
    BY <1>3, <2>1, EnforceType DEF HotPath, TypeOK
<1>19. ASSUME NEW c \in CPUs, HotLoad(c) PROVE TypeOK'
  <2>1. frame[c] \in Frame
    BY DEF TypeOK
  <2>2. PICK a \in Action, n \in Nat :
          frame' = [frame EXCEPT ![c] = [frame[c] EXCEPT !.action = a, !.count = n]]
    <3>1. CASE \E k \in Pointees(session_map, frame[c]) :
                 frame' = [frame EXCEPT ![c] =
                   [frame[c] EXCEPT !.action = session_map[k].policy_action,
                                    !.count = session_map[k].packets_to_server]]
      <4>1. PICK k \in Pointees(session_map, frame[c]) :
                 frame' = [frame EXCEPT ![c] =
                   [frame[c] EXCEPT !.action = session_map[k].policy_action,
                                    !.count = session_map[k].packets_to_server]]
        BY <3>1
      <4>2. k \in DOMAIN session_map
        BY DEF Pointees, Holds, Holders
      <4>3. session_map[k] \in SessionValue
        BY <4>2 DEF TypeOK, IsMap
      <4> QED
        BY <4>1, <4>3 DEF SessionValue
    <3>2. CASE \E a \in Action :
                 frame' = [frame EXCEPT ![c] = [frame[c] EXCEPT !.action = a]]
      <4>1. PICK a \in Action :
                 frame' = [frame EXCEPT ![c] = [frame[c] EXCEPT !.action = a]]
        BY <3>2
      <4>2. frame[c].count \in Nat
        BY <2>1 DEF Frame
      <4>3. [frame[c] EXCEPT !.action = a]
              = [frame[c] EXCEPT !.action = a, !.count = frame[c].count]
        BY <2>1 DEF Frame
      <4> QED
        BY <4>1, <4>2, <4>3
    <3> QED
      BY <1>19, <3>1, <3>2 DEF HotLoad
  <2>3. [frame[c] EXCEPT !.action = a, !.count = n] \in Frame
        /\ [frame[c] EXCEPT !.action = a, !.count = n].key = frame[c].key
    BY <2>1 DEF Frame
  <2>4. frame' \in [CPUs -> Frame] /\ \A d \in CPUs : frame'[d].key = frame[d].key
    BY <2>2, <2>3, FrameType
  <2> QED
    BY <1>19, <2>4 DEF HotLoad, TypeOK, PC
<1>4. ASSUME NEW c \in CPUs, LookupExact(c) PROVE TypeOK'
  <2>1. frame' \in [CPUs -> Frame] /\ \A d \in CPUs : frame'[d].key = frame[d].key
    <3>1. CASE frame[c].key \in DOMAIN policy_map
      <4> DEFINE policy == policy_map[frame[c].key]
                 f == [frame[c] EXCEPT !.elem = policy.elem, !.count = policy.hit_count,
                                       !.exact = TRUE]
      <4>1. policy \in PolicyValue /\ frame[c] \in Frame
        BY <3>1 DEF TypeOK, IsMap
      <4>2. f \in Frame /\ f.key = frame[c].key
        BY <4>1 DEF Frame, PolicyValue
      <4>3. frame' = [frame EXCEPT ![c] = f]
        BY <1>4, <3>1 DEF LookupExact
      <4> QED
        BY <4>2, <4>3, FrameType
    <3>2. CASE frame[c].key \notin DOMAIN policy_map
      BY <1>4, <3>2 DEF LookupExact, TypeOK
    <3> QED
      BY <3>1, <3>2
  <2> QED
    BY <1>4, <2>1 DEF LookupExact, TypeOK, PC
<1>5. ASSUME NEW c \in CPUs, BumpHit(c) PROVE TypeOK'
  <2>1. IsMap(policy_map', PolicyKeys, PolicyValue)
    <3>1. frame[c].count + 1 \in Nat
      BY DEF TypeOK, Frame
    <3> QED
      BY <1>5, <3>1, ZenonT(30) DEF BumpHit, CountHit, TypeOK, IsMap, PolicyValue
  <2>2. stats_map' \in [CPUs -> [StatsKey -> Nat]]
    BY <1>5, CountType DEF BumpHit, StatsKey
  <2>3. PICK a \in Action : frame' = [frame EXCEPT ![c].action = a]
    BY <1>5, BumpedAction
  <2>4. frame' \in [CPUs -> Frame] /\ \A d \in CPUs : frame'[d].key = frame[d].key
    BY <2>3, ActionFrame
  <2> QED
    BY <1>5, <2>1, <2>2, <2>4 DEF BumpHit, TypeOK, PC
<1>6. ASSUME NEW c \in CPUs, ScanSlot(c) PROVE TypeOK'
  <2>1. frame[c].i \in Slots /\ frame[c] \in Frame
    BY <1>6 DEF ScanSlot, Scanned, TypeOK
  <2> DEFINE f == frame[c]
             won(w) == [f EXCEPT !.best = f.i, !.best_priority = w.priority,
                                 !.i = f.i + 1]
             lost == [f EXCEPT !.i = f.i + 1]
  <2>2. PICK w \in Readings(f.i) :
          \/ frame' = [frame EXCEPT ![c] = won(w)]
          \/ frame' = [frame EXCEPT ![c] = lost]
    BY <1>6 DEF ScanSlot
  <2>3. w.priority \in Nat
    BY <2>1, ReadingTypes
  <2>4. won(w) \in Frame /\ lost \in Frame /\ won(w).key = f.key /\ lost.key = f.key
    <3>1. f \in Frame /\ f.i \in Nat /\ f.i + 1 \in Nat
      BY <2>1 DEF Frame
    <3>2. won(w) \in Frame
      BY <2>1, <2>3, <3>1 DEF Frame
    <3>3. lost \in Frame
      BY <3>1 DEF Frame
    <3>4. won(w).key = f.key /\ lost.key = f.key
      BY <3>1 DEF Frame
    <3> QED
      BY <3>2, <3>3, <3>4
  <2>5. frame' \in [CPUs -> Frame] /\ \A d \in CPUs : frame'[d].key = frame[d].key
    BY <2>2, <2>4, FrameType
  <2> QED
    BY <1>6, <2>5 DEF ScanSlot, TypeOK
<1>7. ASSUME NEW c \in CPUs, ScanDone(c) PROVE TypeOK'
  <2>1. stats_map' \in [CPUs -> [StatsKey -> Nat]]
    BY <1>7, CountType DEF ScanDone, StatsKey
  <2>2. PICK a \in Action : frame' = [frame EXCEPT ![c].action = a]
    <3>1. CASE frame[c].best # NoSlot
      BY <1>7, <3>1, ReadingTypes DEF ScanDone, TypeOK, Frame
    <3>2. CASE frame[c].best = NoSlot
      BY <1>7, <3>2 DEF ScanDone, Action
    <3> QED
      BY <3>1, <3>2
  <2>3. frame' \in [CPUs -> Frame] /\ \A d \in CPUs : frame'[d].key = frame[d].key
    BY <2>2, ActionFrame
  <2> QED
    BY <1>7, <2>1, <2>3 DEF ScanDone, TypeOK, PC
<1>8. ASSUME NEW c \in CPUs, CreateSession(c) PROVE TypeOK'
  <2>1. frame[c] \in Frame /\ frame[c].key \in FlowKeys
    BY <1>8 DEF CreateSession, TypeOK
  <2>2. /\ \A e \in SessionElements : NewSession(frame[c], e) \in SessionValue
        /\ FlowEvent(frame[c]) \in Event
    BY <2>1 DEF NewSession, FlowEvent, SessionValue, Event, Frame
  <2>3. IsMap(session_map', FlowKeys, SessionValue)
    <3>1. PICK evicted \in Evictions, e \in SessionElements :
            session_map' = Put(Without(session_map, evicted), frame[c].key,
                               NewSession(frame[c], e))
      BY <1>8 DEF CreateSession, Free
    <3> QED
      BY <2>1, <2>2, <3>1, PutType, WithoutType DEF TypeOK
  <2>6. touched' \in [CPUs -> Touched]
    BY <1>8, SessionsTouched DEF CreateSession
  <2>4. flow_events' \in Seq(Event)
    BY <1>8, <2>2 DEF CreateSession, TypeOK
  <2>5. stats_map' \in [CPUs -> [StatsKey -> Nat]]
    BY <1>8, CountType DEF CreateSession, StatsKey
  <2> QED
    BY <1>8, <2>3, <2>4, <2>5, <2>6 DEF CreateSession, TypeOK, PC
<1>9. ASSUME NEW c \in CPUs, RefuseSession(c) PROVE TypeOK'
  <2>1. IsMap(session_map', FlowKeys, SessionValue)
    BY <1>9, WithoutType DEF RefuseSession, TypeOK
  <2>2. touched' \in [CPUs -> Touched]
    BY <1>9, SessionsTouched DEF RefuseSession
  <2> QED
    BY <1>9, <2>1, <2>2 DEF RefuseSession, TypeOK, PC
<1>10. ASSUME NEW c \in CPUs, EnforceNew(c) PROVE TypeOK'
  BY <1>10, EnforceType DEF EnforceNew, TypeOK
<1>11. ASSUME NEW key, TouchKey(key)
       PROVE  touched' \in [CPUs -> Touched]
  BY <1>11 DEF TouchKey, TypeOK, Touched
<1>12. ASSUME NEW i \in Slots, TouchSlot(i)
       PROVE  touched' \in [CPUs -> Touched]
  BY <1>12 DEF TouchSlot, TypeOK, Touched
<1>13. ASSUME NEW p \in Policies, addExactPolicy(p) PROVE TypeOK'
  <2>1. PolicyKey(p) \in PolicyKeys
    BY DEF PolicyKeys
  <2>2. PICK e \in PolicyElements :
          policy_map' = Put(policy_map, PolicyKey(p),
            [action |-> p.action, rule_id |-> p.rule_id, hit_count |-> 0, elem |-> e])
    BY <1>13 DEF addExactPolicy
  <2>3. IsMap(policy_map', PolicyKeys, PolicyValue)
    <3>1. [action |-> p.action, rule_id |-> p.rule_id, hit_count |-> 0, elem |-> e]
            \in PolicyValue
      BY PolicyAssumption DEF PolicyValue
    <3> QED
      BY <2>1, <2>2, <3>1, PutType DEF TypeOK
  <2>4. touched' \in [CPUs -> Touched]
    BY <1>13, <1>11 DEF addExactPolicy
  <2> QED
    BY <1>13, <2>3, <2>4 DEF addExactPolicy, TypeOK
<1>14. ASSUME NEW p \in Policies, DeletePolicy(p) PROVE TypeOK'
  <2>1. IsMap(policy_map', PolicyKeys, PolicyValue)
    BY <1>14, WithoutType DEF DeletePolicy, TypeOK
  <2>2. touched' \in [CPUs -> Touched]
    BY <1>14, <1>11 DEF DeletePolicy
  <2> QED
    BY <1>14, <2>1, <2>2 DEF DeletePolicy, TypeOK
<1>15. ASSUME NEW p \in Policies, addWildcardPolicy(p) PROVE TypeOK'
  <2>1. WildcardEntry(p) \in Entries
    BY DEF Entries
  <2>2. PICK i \in Slots : /\ put' = {[slot |-> i, entry |-> WildcardEntry(p)]}
                           /\ TouchSlot(i)
    BY <1>15 DEF addWildcardPolicy
  <2>3. touched' \in [CPUs -> Touched]
    BY <2>2, <1>12
  <2>4. put' \subseteq [slot : Slots, entry : Entries]
    BY <2>1, <2>2
  <2> QED
    BY <1>15, <2>3, <2>4 DEF addWildcardPolicy, TypeOK
<1>16. CASE WildcardWritten
  BY <1>16 DEF WildcardWritten, TypeOK
<1>17. CASE MonitorFlowEvents
  <2>1. flow_events' \in Seq(Event)
    BY <1>17 DEF MonitorFlowEvents, TypeOK
  <2> QED
    BY <1>17, <2>1 DEF MonitorFlowEvents, TypeOK
<1>18. CASE UNCHANGED vars
  BY <1>18 DEF vars, TypeOK
<1> QED
  BY <1>1, <1>2, <1>3, <1>4, <1>5, <1>6, <1>7, <1>8, <1>9, <1>10, <1>13, <1>14,
     <1>15, <1>16, <1>17, <1>18, <1>19 DEF Next, Receive, Step, UserSpace

(***************************************************************************)
(* The variables of the data path have their types in every reachable      *)
(* state of every instance (the maps of tc_microsegment.bpf.c).            *)
(***************************************************************************)
THEOREM TypeCorrect == Spec => []TypeOK
BY InitTyped, StepTyped, PTL DEF Spec

-----------------------------------------------------------------------------
(***************************************************************************)
(* The counters.  A step of a CPU adds one to one counter of that CPU.     *)
(***************************************************************************)
LEMMA CountUp ==
  ASSUME TypeOK, NEW c \in CPUs, NEW key \in StatsKey, update_stats(c, key)
  PROVE  /\ stats_map'[c][key] = stats_map[c][key] + 1
         /\ \A k \in StatsKey \ {key} : stats_map'[c][k] = stats_map[c][k]
         /\ \A d \in CPUs \ {c} : stats_map'[d] = stats_map[d]
BY DEF TypeOK, update_stats

LEMMA CountElsewhere ==
  ASSUME TypeOK, NEW c \in CPUs, NEW key, update_stats(c, key), NEW d \in CPUs \ {c}
  PROVE  stats_map'[d] = stats_map[d]
BY DEF TypeOK, update_stats

LEMMA CountersAreNat ==
  ASSUME TypeOK, NEW c \in CPUs, NEW k \in StatsKey
  PROVE  stats_map[c][k] \in Nat
BY DEF TypeOK

LEMMA ConservedElsewhere ==
  ASSUME NEW d, Conserved(d), stats_map'[d] = stats_map[d], pc'[d] = pc[d]
  PROVE  Conserved(d)'
BY DEF Conserved

(***************************************************************************)
(* What any step does to the counters and to the place of CPU d.           *)
(***************************************************************************)
Moves(d, from, to, key) ==
  /\ pc[d] = from
  /\ pc'[d] = to
  /\ stats_map'[d][key] = stats_map[d][key] + 1
  /\ \A k \in StatsKey \ {key} : stats_map'[d][k] = stats_map[d][k]

LEMMA ConservedByMove ==
  ASSUME TypeOK, NEW d \in CPUs, Conserved(d),
         \/ Moves(d, "idle", "hot", "TOTAL_PACKETS")
         \/ Moves(d, "idle", "lookup", "TOTAL_PACKETS")
         \/ Moves(d, "cached", "idle", "ALLOWED_PACKETS")
         \/ Moves(d, "cached", "idle", "DENIED_PACKETS")
         \/ Moves(d, "hit", "create", "POLICY_HITS")
         \/ Moves(d, "scan", "create", "POLICY_HITS")
         \/ Moves(d, "scan", "create", "POLICY_MISSES")
         \/ Moves(d, "create", "enforce", "NEW_SESSIONS")
         \/ Moves(d, "enforce", "idle", "ALLOWED_PACKETS")
         \/ Moves(d, "enforce", "idle", "DENIED_PACKETS")
  PROVE  Conserved(d)'
<1>1. \A k \in StatsKey : stats_map[d][k] \in Nat
  BY CountersAreNat
<1> QED
  BY <1>1 DEF Conserved, Count, Moves, StatsKey

LEMMA ConservedByCreation ==
  ASSUME TypeOK, NEW d \in CPUs, Conserved(d), stats_map'[d] = stats_map[d],
         \/ pc[d] = "create" /\ pc'[d] = "enforce"
         \/ pc[d] = "lookup" /\ pc'[d] \in {"hit", "scan"}
         \/ pc[d] = "hot" /\ pc'[d] = "cached"
  PROVE  Conserved(d)'
<1>1. \A k \in StatsKey : stats_map[d][k] \in Nat
  BY CountersAreNat
<1> QED
  BY <1>1 DEF Conserved, Count, StatsKey

LEMMA EnforceMoves ==
  ASSUME TypeOK, NEW c \in CPUs, NEW from, pc[c] = from, NEW action, Enforce(c, action)
  PROVE  /\ \/ Moves(c, from, "idle", "ALLOWED_PACKETS")
            \/ Moves(c, from, "idle", "DENIED_PACKETS")
         /\ \A d \in CPUs \ {c} : stats_map'[d] = stats_map[d] /\ pc'[d] = pc[d]
<1>1. pc'[c] = "idle" /\ \A d \in CPUs \ {c} : pc'[d] = pc[d]
  BY DEF Enforce, TypeOK
<1> QED
  BY <1>1, CountUp DEF Enforce, Moves, StatsKey

LEMMA StepConserves ==
  TypeOK /\ StatsConserved /\ [Next]_vars => StatsConserved'
<1> SUFFICES ASSUME TypeOK, StatsConserved, [Next]_vars, NEW d \in CPUs
             PROVE  Conserved(d)'
  BY DEF StatsConserved
<1>0. Conserved(d)
  BY DEF StatsConserved
<1> USE DEF tables, kernel
<1>1. ASSUME NEW c \in CPUs, Receive(c) PROVE Conserved(d)'
  <2>1. CASE ReceiveUnparsed(c)
    BY <1>0, <2>1, ConservedElsewhere DEF ReceiveUnparsed
  <2>2. CASE ReceivePacket(c)
    <3>1. \/ Moves(c, "idle", "hot", "TOTAL_PACKETS")
          \/ Moves(c, "idle", "lookup", "TOTAL_PACKETS")
      BY <2>2, CountUp DEF ReceivePacket, Moves, StatsKey, TypeOK
    <3>2. d # c => stats_map'[d] = stats_map[d] /\ pc'[d] = pc[d]
      BY <2>2, CountElsewhere DEF ReceivePacket, TypeOK
    <3> QED
      BY <1>0, <3>1, <3>2, ConservedByMove, ConservedElsewhere
  <2> QED
    BY <1>1, <2>1, <2>2 DEF Receive
<1>2. ASSUME NEW c \in CPUs, HotPath(c) PROVE Conserved(d)'
  BY <1>0, <1>2, EnforceMoves, ConservedByMove, ConservedElsewhere DEF HotPath
<1>12. ASSUME NEW c \in CPUs, HotLoad(c) PROVE Conserved(d)'
  BY <1>0, <1>12, ConservedByCreation, ConservedElsewhere DEF HotLoad, TypeOK
<1>3. ASSUME NEW c \in CPUs, EnforceNew(c) PROVE Conserved(d)'
  BY <1>0, <1>3, EnforceMoves, ConservedByMove, ConservedElsewhere DEF EnforceNew
<1>4. ASSUME NEW c \in CPUs, LookupExact(c) PROVE Conserved(d)'
  BY <1>0, <1>4, ConservedByCreation, ConservedElsewhere DEF LookupExact, TypeOK
<1>5. ASSUME NEW c \in CPUs, BumpHit(c) PROVE Conserved(d)'
  <2>1. Moves(c, "hit", "create", "POLICY_HITS")
    BY <1>5, CountUp DEF BumpHit, Moves, StatsKey, TypeOK
  <2>2. d # c => stats_map'[d] = stats_map[d] /\ pc'[d] = pc[d]
    BY <1>5, CountElsewhere DEF BumpHit, TypeOK
  <2> QED
    BY <1>0, <2>1, <2>2, ConservedByMove, ConservedElsewhere
<1>6. ASSUME NEW c \in CPUs, ScanSlot(c) PROVE Conserved(d)'
  BY <1>0, <1>6, ConservedElsewhere DEF ScanSlot
<1>7. ASSUME NEW c \in CPUs, ScanDone(c) PROVE Conserved(d)'
  <2>1. \/ Moves(c, "scan", "create", "POLICY_HITS")
        \/ Moves(c, "scan", "create", "POLICY_MISSES")
    BY <1>7, CountUp DEF ScanDone, Moves, StatsKey, TypeOK
  <2>2. d # c => stats_map'[d] = stats_map[d] /\ pc'[d] = pc[d]
    BY <1>7, CountElsewhere DEF ScanDone, TypeOK
  <2> QED
    BY <1>0, <2>1, <2>2, ConservedByMove, ConservedElsewhere
<1>8. ASSUME NEW c \in CPUs, CreateSession(c) PROVE Conserved(d)'
  <2>1. Moves(c, "create", "enforce", "NEW_SESSIONS")
    BY <1>8, CountUp DEF CreateSession, Moves, StatsKey, TypeOK
  <2>2. d # c => stats_map'[d] = stats_map[d] /\ pc'[d] = pc[d]
    BY <1>8, CountElsewhere DEF CreateSession, TypeOK
  <2> QED
    BY <1>0, <2>1, <2>2, ConservedByMove, ConservedElsewhere
<1>9. ASSUME NEW c \in CPUs, RefuseSession(c) PROVE Conserved(d)'
  BY <1>0, <1>9, ConservedByCreation, ConservedElsewhere DEF RefuseSession, TypeOK
<1>10. CASE UserSpace
  BY <1>0, <1>10, ConservedElsewhere
     DEF UserSpace, addExactPolicy, DeletePolicy, addWildcardPolicy,
         WildcardWritten, MonitorFlowEvents
<1>11. CASE UNCHANGED vars
  BY <1>0, <1>11, ConservedElsewhere DEF vars
<1> QED
  BY <1>1, <1>2, <1>3, <1>4, <1>5, <1>6, <1>7, <1>8, <1>9, <1>10, <1>11,
     <1>12 DEF Next, Step

(***************************************************************************)
(* The per-CPU counters account for every packet in every instance (the    *)
(* update_stats calls of the filter).                                      *)
(***************************************************************************)
THEOREM CountersAccount == Spec => []StatsConserved
<1>1. Init => StatsConserved
  BY DEF Init, StatsConserved, Conserved, Count, StatsKey
<1> QED
  BY <1>1, InitTyped, StepTyped, StepConserves, PTL DEF Spec

-----------------------------------------------------------------------------
(***************************************************************************)
(* A stored decision stays, as long as no eviction is due.                 *)
(***************************************************************************)
Sticks == \A k \in DOMAIN session_map :
  ~SessionsFull =>
    /\ k \in DOMAIN session_map'
    /\ session_map'[k].policy_action = session_map[k].policy_action
    /\ session_map'[k].created_ts = session_map[k].created_ts

LEMMA StepSticks == TypeOK /\ [Next]_vars => Sticks
<1> SUFFICES ASSUME TypeOK, [Next]_vars, ~SessionsFull, NEW k \in DOMAIN session_map
             PROVE  /\ k \in DOMAIN session_map'
                    /\ session_map'[k].policy_action = session_map[k].policy_action
                    /\ session_map'[k].created_ts = session_map[k].created_ts
  BY DEF Sticks
<1> USE DEF tables, kernel
<1>1. CASE session_map' = session_map
  BY <1>1
<1>2. ASSUME NEW c \in CPUs, HotPath(c) PROVE Sticks
  BY <1>2 DEF HotPath, Sticks, TypeOK, IsMap, SessionValue
<1>3. ASSUME NEW c \in CPUs, CreateSession(c) PROVE Sticks
  BY <1>3 DEF CreateSession, Inserts, Evictions, Put, Without, Sticks
<1>4. ASSUME NEW c \in CPUs, RefuseSession(c) PROVE Sticks
  BY <1>4 DEF RefuseSession, Evictions, Without, Sticks
<1> QED
  BY <1>1, <1>2, <1>3, <1>4
     DEF Sticks, vars, Next, Receive, ReceiveUnparsed, ReceivePacket, Step, HotLoad, LookupExact,
         BumpHit, ScanSlot, ScanDone, EnforceNew, UserSpace, addExactPolicy,
         DeletePolicy, addWildcardPolicy, WildcardWritten, MonitorFlowEvents

(***************************************************************************)
(* First decision wins, in every instance: BPF_NOEXIST and the hot path    *)
(* leave the action of a stored session alone.                             *)
(***************************************************************************)
THEOREM FirstDecisionStays == Spec => DecisionSticks
<1>1. TypeOK /\ [Next]_vars => [Sticks]_vars
  BY StepSticks
<1> QED
  BY <1>1, TypeCorrect, PTL DEF Spec, DecisionSticks, Sticks

-----------------------------------------------------------------------------
(***************************************************************************)
(* The lookup.  The inductive invariant says, of a packet that CPU c looks *)
(* up, what the loop has established for the slots before i (Seen), what   *)
(* it holds when it is over (Decided), what a hit in the exact table means *)
(* (FromElement while the packet holds the element, FromExact once it has  *)
(* the action), and that a slot being written counts as touched.           *)
(***************************************************************************)
KeyAbsent(c) == ~touched[c].key => frame[c].key \notin DOMAIN policy_map

FromElement(c) == ~touched[c].key => Holds(policy_map, frame[c])

FromExact(c) ==
  ~touched[c].key =>
    /\ frame[c].key \in DOMAIN policy_map
    /\ frame[c].action = policy_map[frame[c].key].action

Seen(c) ==
  LET f == frame[c]
      w == wildcard_policy_map
  IN  /\ f.best # NoSlot => f.best \in Scanned /\ f.best < f.i
      /\ \A j \in Steady(c) : j < f.i /\ Hits(f.key, w[j]) => Beaten(f, j)
      /\ f.best \in Steady(c) =>
           Hits(f.key, w[f.best]) /\ f.best_priority = w[f.best].priority

Decided(c) ==
  LET f == frame[c]
  IN  /\ \A j \in Scanned : j < f.i
      /\ f.best \in Steady(c) => f.action = wildcard_policy_map[f.best].action
      /\ f.best = NoSlot => f.action = POLICY_ACTION_ALLOW

LookupInv(c) ==
  /\ InFlight(c) => \A w \in put : w.slot \in touched[c].slots
  /\ pc[c] = "lookup" => ~frame[c].exact /\ frame[c].best = NoSlot /\ frame[c].i = 0
  /\ pc[c] = "hit" => frame[c].exact /\ FromElement(c)
  /\ pc[c] = "scan" => ~frame[c].exact /\ KeyAbsent(c) /\ Seen(c)
  /\ pc[c] \in {"create", "enforce"} =>
       IF frame[c].exact THEN FromExact(c)
                         ELSE KeyAbsent(c) /\ Seen(c) /\ Decided(c)

IInv == TypeOK /\ \A c \in CPUs : LookupInv(c)

LEMMA LookupObeys == IInv => PoliciesObeyed
BY DEF IInv, LookupInv, FromExact, KeyAbsent, Seen, Decided, PoliciesObeyed, Steady

(***************************************************************************)
(* LookupInv(d) depends on the packet of d and on what the tables decide,  *)
(* not on hit counts.                                                      *)
(***************************************************************************)
SameRules ==
  /\ DOMAIN policy_map' = DOMAIN policy_map
  /\ \A k \in DOMAIN policy_map : /\ policy_map'[k].action = policy_map[k].action
                                  /\ policy_map'[k].elem = policy_map[k].elem

LEMMA LookupElsewhere ==
  ASSUME NEW d, LookupInv(d), pc'[d] = pc[d], frame'[d] = frame[d],
         touched'[d].key = touched[d].key, touched'[d].slots = touched[d].slots,
         put' = put, wildcard_policy_map' = wildcard_policy_map, SameRules
  PROVE  LookupInv(d)'
<1>1. InFlight(d)' = InFlight(d) /\ Steady(d)' = Steady(d)
  BY DEF InFlight, Steady
<1>2. FromExact(d) => FromExact(d)'
  BY DEF FromExact, SameRules
<1>6. FromElement(d) => FromElement(d)'
  BY DEF FromElement, Holds, Holders, SameRules
<1>3. KeyAbsent(d) => KeyAbsent(d)'
  BY DEF KeyAbsent, SameRules
<1>4. Seen(d) => Seen(d)'
  BY <1>1 DEF Seen, Beaten
<1>5. Decided(d) => Decided(d)'
  BY <1>1 DEF Decided
<1> QED
  BY <1>1, <1>2, <1>3, <1>4, <1>5, <1>6 DEF LookupInv

LEMMA LookupIdle ==
  ASSUME NEW d, pc'[d] \in {"idle", "hot", "cached"}
  PROVE  LookupInv(d)'
BY DEF LookupInv, InFlight

LEMMA TablesKeepRules == UNCHANGED policy_map => SameRules
BY DEF SameRules

(***************************************************************************)
(* The loop.  A slot that nobody touched is read as it is.                 *)
(***************************************************************************)
LEMMA SteadyRead ==
  ASSUME NEW c \in CPUs, LookupInv(c), InFlight(c), NEW i \in Steady(c),
         NEW w \in Readings(i)
  PROVE  w = wildcard_policy_map[i]
BY DEF LookupInv, Readings, Steady

LEMMA ScanKeepsInv ==
  ASSUME TypeOK, NEW c \in CPUs, LookupInv(c), ScanSlot(c)
  PROVE  LookupInv(c)'
<1> DEFINE f == frame[c]
           g == frame'[c]
           slot == wildcard_policy_map
<1>1. /\ pc[c] = "scan" /\ f.i \in Scanned /\ f \in Frame /\ f.i \in Nat
      /\ Seen(c) /\ KeyAbsent(c) /\ ~f.exact
  BY DEF ScanSlot, LookupInv, TypeOK, Scanned, Frame
<1>2. PICK w \in Readings(f.i) :
        frame' = [frame EXCEPT ![c] =
          IF Hits(f.key, w) /\ Better(f, w)
          THEN [f EXCEPT !.best = f.i, !.best_priority = w.priority, !.i = f.i + 1]
          ELSE [f EXCEPT !.i = f.i + 1]]
  BY DEF ScanSlot
<1>3. /\ pc' = pc /\ touched' = touched /\ put' = put /\ policy_map' = policy_map
      /\ wildcard_policy_map' = wildcard_policy_map
  BY DEF ScanSlot, tables
<1>4. g = IF Hits(f.key, w) /\ Better(f, w)
          THEN [f EXCEPT !.best = f.i, !.best_priority = w.priority, !.i = f.i + 1]
          ELSE [f EXCEPT !.i = f.i + 1]
  BY <1>2 DEF TypeOK
<1>5. g.key = f.key /\ g.exact = f.exact /\ g.i = f.i + 1
  BY <1>1, <1>4 DEF Frame
<1>6. f.i \in Slots /\ f.i \in Nat /\ f.best_priority \in Nat /\ w.priority \in Nat
  BY <1>1, ReadingTypes DEF Scanned, Frame
<1>7. f.i \in Steady(c) => w = slot[f.i]
  BY <1>1, SteadyRead DEF InFlight
<1>8. \A j \in Slots : slot[j].priority \in Nat
  BY EntryTypes DEF TypeOK
<1>9. Steady(c)' = Steady(c) /\ Steady(c) \subseteq Slots /\ Slots \subseteq Int
      /\ NoSlot \notin Slots
  BY <1>3 DEF Steady, Scanned, Slots, NoSlot
<1>10. Seen(c)'
  <2>1. CASE Hits(f.key, w) /\ Better(f, w)
    <3>1. g.best = f.i /\ g.best_priority = w.priority
      BY <1>1, <1>4, <2>1 DEF Frame
    <3>2. \A j \in Steady(c) : j < g.i /\ Hits(g.key, slot[j]) => Beaten(g, j)
      <4> SUFFICES ASSUME NEW j \in Steady(c), j < f.i + 1, Hits(f.key, slot[j])
                   PROVE  Beaten(g, j)
        BY <1>5
      <4>1. CASE j = f.i
        <5>1. g.best # NoSlot
          BY <1>6, <1>9, <3>1
        <5>2. j \in Steady(c) /\ slot[j].priority = g.best_priority
          BY <1>7, <3>1, <4>1
        <5>3. g.best <= j
          BY <1>6, <3>1, <4>1
        <5> QED
          BY <5>1, <5>2, <5>3 DEF Beaten
      <4>2. CASE j < f.i
        <5>1. Beaten(f, j)
          BY <1>1, <4>2 DEF Seen
        <5>2. slot[j].priority \in Nat
          BY <1>8, <1>9
        <5>3. slot[j].priority <= f.best_priority
          BY <1>6, <5>1, <5>2 DEF Beaten
        <5>4. w.priority > f.best_priority
          BY <2>1, <5>1 DEF Beaten, Better
        <5>5. slot[j].priority < g.best_priority
          BY <1>6, <3>1, <5>2, <5>3, <5>4
        <5>6. g.best # NoSlot
          BY <1>6, <1>9, <3>1
        <5> QED
          BY <5>5, <5>6 DEF Beaten
      <4>3. j \in Int /\ f.i \in Int
        BY <1>6, <1>9
      <4> QED
        BY <4>1, <4>2, <4>3
    <3>3. g.best \in Steady(c) =>
            Hits(g.key, slot[g.best]) /\ g.best_priority = slot[g.best].priority
      BY <1>5, <1>7, <2>1, <3>1
    <3>4. g.best # NoSlot => g.best \in Scanned /\ g.best < g.i
      BY <1>1, <1>5, <1>6, <3>1
    <3> QED
      BY <1>3, <1>9, <3>2, <3>3, <3>4 DEF Seen, Beaten
  <2>2. CASE ~(Hits(f.key, w) /\ Better(f, w))
    <3>1. g.best = f.best /\ g.best_priority = f.best_priority
      BY <1>1, <1>4, <2>2 DEF Frame
    <3>2. \A j \in Steady(c) : j < g.i /\ Hits(g.key, slot[j]) => Beaten(g, j)
      <4> SUFFICES ASSUME NEW j \in Steady(c), j < f.i + 1, Hits(f.key, slot[j])
                   PROVE  Beaten(g, j)
        BY <1>5
      <4>1. CASE j = f.i
        <5>1. ~Better(f, w) /\ w = slot[j]
          BY <1>7, <2>2, <4>1
        <5>2. f.best # NoSlot /\ f.best < f.i
          BY <1>1, <5>1 DEF Seen, Better
        <5>3. f.best \in Int
          BY <1>1, <5>2 DEF Seen, Scanned, Slots
        <5>4. slot[j].priority <= g.best_priority
          BY <1>6, <3>1, <5>1, <5>2 DEF Better
        <5>5. slot[j].priority \in Nat /\ g.best_priority \in Nat
          BY <1>6, <3>1, <5>1
        <5>6. g.best <= j
          BY <1>6, <3>1, <4>1, <5>2, <5>3
        <5> QED
          BY <3>1, <5>2, <5>4, <5>5, <5>6 DEF Beaten
      <4>2. CASE j < f.i
        BY <1>1, <3>1, <4>2 DEF Seen, Beaten
      <4>3. j \in Int /\ f.i \in Int
        BY <1>6, <1>9
      <4> QED
        BY <4>1, <4>2, <4>3
    <3>3. g.best \in Steady(c) =>
            Hits(g.key, slot[g.best]) /\ g.best_priority = slot[g.best].priority
      BY <1>1, <1>5, <3>1 DEF Seen
    <3>4. g.best # NoSlot => g.best \in Scanned /\ g.best < g.i
      <4>1. f.best # NoSlot => f.best \in Int
        BY <1>1 DEF Seen, Scanned, Slots
      <4> QED
        BY <1>1, <1>5, <1>6, <3>1, <4>1 DEF Seen
    <3> QED
      BY <1>3, <1>9, <3>2, <3>3, <3>4 DEF Seen, Beaten
  <2> QED
    BY <2>1, <2>2
<1>11. KeyAbsent(c)'
  BY <1>1, <1>3, <1>5 DEF KeyAbsent
<1> QED
  BY <1>1, <1>3, <1>5, <1>10, <1>11 DEF LookupInv, InFlight

(***************************************************************************)
(* The other steps of the packet itself.                                   *)
(***************************************************************************)
LEMMA BeginKeepsInv ==
  ASSUME TypeOK, NEW c \in CPUs, LookupInv(c), ReceivePacket(c)
  PROVE  LookupInv(c)'
<1> USE DEF tables
<1>1. CASE pc'[c] = "hot"
  BY <1>1, LookupIdle
<1>2. CASE pc'[c] = "lookup"
  <2>1. PICK key \in FlowKeys :
          /\ frame' = [frame EXCEPT ![c] =
               [ZeroFrame EXCEPT !.key = key, !.now = ktime + 1]]
          /\ touched' = [touched EXCEPT ![c].slots = {w.slot : w \in put}]
    <3>1. pc' # [pc EXCEPT ![c] = "hot"]
      BY <1>2 DEF TypeOK
    <3> QED
      BY <3>1, Zenon DEF ReceivePacket
  <2>2. frame'[c].exact = FALSE /\ frame'[c].best = NoSlot /\ frame'[c].i = 0
    BY <2>1 DEF TypeOK, ZeroFrame
  <2>3. touched'[c].slots = {w.slot : w \in put} /\ put' = put
    BY <2>1 DEF TypeOK, ReceivePacket
  <2> QED
    BY <1>2, <2>2, <2>3 DEF LookupInv
<1> QED
  BY <1>1, <1>2 DEF ReceivePacket, TypeOK

LEMMA ExactKeepsInv ==
  ASSUME TypeOK, NEW c \in CPUs, LookupInv(c), LookupExact(c)
  PROVE  LookupInv(c)'
<1>1. /\ pc[c] = "lookup" /\ InFlight(c) /\ ~frame[c].exact
      /\ frame[c].best = NoSlot /\ frame[c].i = 0
      /\ \A w \in put : w.slot \in touched[c].slots
  BY DEF LookupExact, LookupInv, InFlight
<1>2. touched' = touched /\ put' = put /\ policy_map' = policy_map
      /\ wildcard_policy_map' = wildcard_policy_map
  BY DEF LookupExact, tables
<1>3. CASE pc'[c] = "hit"
  <2>1. /\ frame[c].key \in DOMAIN policy_map
        /\ frame' = [frame EXCEPT ![c] =
             [@ EXCEPT !.elem = policy_map[frame[c].key].elem,
                       !.count = policy_map[frame[c].key].hit_count, !.exact = TRUE]]
    BY <1>3 DEF LookupExact, TypeOK
  <2>2. /\ frame'[c].key = frame[c].key /\ frame'[c].exact
        /\ frame'[c].elem = policy_map[frame[c].key].elem
    BY <2>1 DEF TypeOK, Frame
  <2> QED
    BY <1>1, <1>2, <1>3, <2>1, <2>2 DEF LookupInv, FromElement, Holds, Holders
<1>4. CASE pc'[c] = "scan"
  <2>1. frame[c].key \notin DOMAIN policy_map /\ frame' = frame
    BY <1>4 DEF LookupExact, TypeOK
  <2>2. Seen(c)'
    BY <1>1, <1>2, <2>1 DEF Seen, Steady, Scanned, Slots, NoSlot
  <2>3. KeyAbsent(c)'
    BY <1>2, <2>1 DEF KeyAbsent
  <2> QED
    BY <1>1, <1>2, <1>4, <2>1, <2>2, <2>3 DEF LookupInv
<1> QED
  BY <1>3, <1>4 DEF LookupExact, TypeOK

LEMMA HitKeepsRules ==
  ASSUME TypeOK, NEW c \in CPUs, BumpHit(c)
  PROVE  SameRules
BY DEF BumpHit, CountHit, SameRules, TypeOK, IsMap, PolicyValue

LEMMA HitKeepsInv ==
  ASSUME TypeOK, NEW c \in CPUs, LookupInv(c), BumpHit(c)
  PROVE  LookupInv(c)'
<1>1. pc[c] = "hit" /\ frame[c].exact /\ FromElement(c) /\ InFlight(c)
      /\ frame[c] \in Frame
  BY DEF BumpHit, LookupInv, InFlight, TypeOK
<1>2. pc'[c] = "create" /\ touched' = touched /\ put' = put
  BY DEF BumpHit, TypeOK
<1>3. PICK a \in Action :
        /\ frame' = [frame EXCEPT ![c].action = a]
        /\ Holds(policy_map, frame[c]) => a = policy_map[frame[c].key].action
  BY BumpedAction
<1>4. frame'[c].key = frame[c].key /\ frame'[c].exact /\ frame'[c].action = a
  BY <1>1, <1>3 DEF TypeOK, Frame
<1>5. FromExact(c)'
  <2>1. ~touched[c].key => /\ frame[c].key \in DOMAIN policy_map
                           /\ a = policy_map[frame[c].key].action
    BY <1>1, <1>3 DEF FromElement, Holds, Holders
  <2> QED
    BY <1>2, <1>4, <2>1, HitKeepsRules DEF FromExact, SameRules
<1> QED
  BY <1>1, <1>2, <1>4, <1>5 DEF LookupInv

LEMMA ScanDoneKeepsInv ==
  ASSUME TypeOK, NEW c \in CPUs, LookupInv(c), ScanDone(c)
  PROVE  LookupInv(c)'
<1> DEFINE f == frame[c]
           g == frame'[c]
           slot == wildcard_policy_map
<1>1. /\ pc[c] = "scan" /\ f.i \notin Scanned /\ f \in Frame
      /\ Seen(c) /\ KeyAbsent(c) /\ ~f.exact /\ InFlight(c)
      /\ \A w \in put : w.slot \in touched[c].slots
  BY DEF ScanDone, LookupInv, InFlight, TypeOK
<1>2. /\ pc'[c] = "create" /\ touched' = touched /\ put' = put
      /\ policy_map' = policy_map /\ wildcard_policy_map' = wildcard_policy_map
  BY DEF ScanDone, TypeOK, tables
<1>3. PICK action \in Action :
        /\ frame' = [frame EXCEPT ![c].action = action]
        /\ f.best # NoSlot => \E w \in Readings(f.best) : action = w.action
        /\ f.best = NoSlot => action = POLICY_ACTION_ALLOW
  <2>1. CASE f.best # NoSlot
    <3>1. PICK w \in Readings(f.best) : frame' = [frame EXCEPT ![c].action = w.action]
      BY <2>1 DEF ScanDone
    <3>2. f.best \in Slots
      BY <1>1, <2>1 DEF Frame
    <3>3. w.action \in Action
      BY <3>2, ReadingTypes
    <3> QED
      BY <2>1, <3>1, <3>3
  <2>2. CASE f.best = NoSlot
    BY <2>2 DEF ScanDone, Action
  <2> QED
    BY <2>1, <2>2
<1>4. /\ g.key = f.key /\ g.exact = f.exact /\ g.i = f.i /\ g.best = f.best
      /\ g.best_priority = f.best_priority /\ g.action = action
  BY <1>1, <1>3 DEF TypeOK, Frame
<1>5. Seen(c)'
  BY <1>1, <1>2, <1>4 DEF Seen, Beaten, Steady
<1>6. Decided(c)'
  <2>1. \A j \in Scanned : j < f.i
    BY <1>1, CapacityAssumption DEF Frame, Scanned, Slots
  <2>2. f.best \in Steady(c) => action = slot[f.best].action
    <3> SUFFICES ASSUME f.best \in Steady(c)
                 PROVE  action = slot[f.best].action
      OBVIOUS
    <3>1. f.best # NoSlot
      BY DEF Steady, Scanned, Slots, NoSlot
    <3> QED
      BY <1>1, <1>3, <3>1, SteadyRead
  <2> QED
    BY <1>2, <1>3, <1>4, <2>1, <2>2 DEF Decided, Steady
<1>7. KeyAbsent(c)'
  BY <1>1, <1>2, <1>4 DEF KeyAbsent
<1> QED
  BY <1>1, <1>2, <1>4, <1>5, <1>6, <1>7 DEF LookupInv

LEMMA SessionKeepsInv ==
  ASSUME TypeOK, NEW c \in CPUs, LookupInv(c), CreateSession(c) \/ RefuseSession(c)
  PROVE  LookupInv(c)'
<1> USE DEF tables
<1>1. /\ pc[c] = "create" /\ pc'[c] = "enforce" /\ frame' = frame
      /\ put' = put /\ policy_map' = policy_map
      /\ wildcard_policy_map' = wildcard_policy_map
  BY DEF CreateSession, RefuseSession, TypeOK
<1>3. touched'[c].key = touched[c].key /\ touched'[c].slots = touched[c].slots
  BY SessionsTouched DEF CreateSession, RefuseSession
<1>2. /\ FromExact(c)' = FromExact(c) /\ KeyAbsent(c)' = KeyAbsent(c)
      /\ Seen(c)' = Seen(c) /\ Decided(c)' = Decided(c)
  BY <1>1, <1>3 DEF FromExact, KeyAbsent, Seen, Decided, Beaten, Steady
<1> QED
  BY <1>1, <1>2, <1>3 DEF LookupInv, InFlight

(***************************************************************************)
(* User space.  A change of the exact table sets touched.key for the flow  *)
(* it is about; a change of a slot takes the slot away from Steady before  *)
(* its content can differ.                                                 *)
(***************************************************************************)
LEMMA KeyChange ==
  ASSUME TypeOK, NEW key, NEW d \in CPUs, LookupInv(d), TouchKey(key),
         pc' = pc, frame' = frame, put' = put,
         wildcard_policy_map' = wildcard_policy_map,
         \A k : k # key =>
           /\ k \in DOMAIN policy_map' <=> k \in DOMAIN policy_map
           /\ k \in DOMAIN policy_map => policy_map'[k] = policy_map[k]
  PROVE  LookupInv(d)'
<1>1. touched'[d].slots = touched[d].slots
  BY DEF TouchKey, TypeOK, Touched
<1>2. touched'[d].key = (touched[d].key \/ (InFlight(d) /\ frame[d].key = key))
  BY DEF TouchKey, TypeOK, Touched
<1>3. Steady(d)' = Steady(d) /\ InFlight(d)' = InFlight(d)
  BY <1>1 DEF Steady, InFlight
<1>4. Seen(d) => Seen(d)'
  BY <1>3 DEF Seen, Beaten
<1>5. Decided(d) => Decided(d)'
  BY <1>3 DEF Decided
<1>6. InFlight(d) /\ FromExact(d) => FromExact(d)'
  BY <1>2 DEF FromExact
<1>7. InFlight(d) /\ KeyAbsent(d) => KeyAbsent(d)'
  BY <1>2 DEF KeyAbsent
<1>8. InFlight(d) /\ FromElement(d) => FromElement(d)'
  BY <1>2 DEF FromElement, Holds, Holders
<1> QED
  BY <1>1, <1>3, <1>4, <1>5, <1>6, <1>7, <1>8 DEF LookupInv, InFlight

LEMMA SlotChange ==
  ASSUME NEW d, LookupInv(d), pc' = pc, frame' = frame, policy_map' = policy_map,
         touched'[d].key = touched[d].key, (Steady(d))' \subseteq Steady(d),
         InFlight(d) => \A w \in put' : w.slot \in touched'[d].slots,
         \A j \in Steady(d) : wildcard_policy_map'[j] = wildcard_policy_map[j]
  PROVE  LookupInv(d)'
<1>1. FromExact(d) => FromExact(d)'
  BY DEF FromExact
<1>2. KeyAbsent(d) => KeyAbsent(d)'
  BY DEF KeyAbsent
<1>5. FromElement(d) => FromElement(d)'
  BY DEF FromElement
<1>3. Seen(d) => Seen(d)'
  BY DEF Seen, Beaten
<1>4. Decided(d) => Decided(d)'
  BY DEF Decided
<1> QED
  BY <1>1, <1>2, <1>3, <1>4, <1>5 DEF LookupInv, InFlight

LEMMA UserKeepsInv ==
  ASSUME TypeOK, NEW d \in CPUs, LookupInv(d), UserSpace
  PROVE  LookupInv(d)'
<1> USE DEF tables, kernel
<1>1. ASSUME NEW p \in Policies, addExactPolicy(p) PROVE LookupInv(d)'
  <2>1. PICK e \in PolicyElements :
          policy_map' = Put(policy_map, PolicyKey(p),
            [action |-> p.action, rule_id |-> p.rule_id, hit_count |-> 0, elem |-> e])
    BY <1>1 DEF addExactPolicy
  <2>2. TouchKey(PolicyKey(p)) /\ pc' = pc /\ frame' = frame /\ put' = put
        /\ wildcard_policy_map' = wildcard_policy_map
    BY <1>1 DEF addExactPolicy
  <2>3. \A k : k # PolicyKey(p) =>
          /\ k \in DOMAIN policy_map' <=> k \in DOMAIN policy_map
          /\ k \in DOMAIN policy_map => policy_map'[k] = policy_map[k]
    BY <2>1 DEF Put
  <2> QED
    BY <2>2, <2>3, KeyChange
<1>2. ASSUME NEW p \in Policies, DeletePolicy(p) PROVE LookupInv(d)'
  <2>1. policy_map' = Without(policy_map, {PolicyKey(p)})
    BY <1>2 DEF DeletePolicy
  <2>2. TouchKey(PolicyKey(p)) /\ pc' = pc /\ frame' = frame /\ put' = put
        /\ wildcard_policy_map' = wildcard_policy_map
    BY <1>2 DEF DeletePolicy
  <2>3. \A k : k # PolicyKey(p) =>
          /\ k \in DOMAIN policy_map' <=> k \in DOMAIN policy_map
          /\ k \in DOMAIN policy_map => policy_map'[k] = policy_map[k]
    BY <2>1 DEF Without
  <2> QED
    BY <2>2, <2>3, KeyChange
<1>3. ASSUME NEW p \in Policies, addWildcardPolicy(p) PROVE LookupInv(d)'
  <2>1. PICK i \in Slots : put' = {[slot |-> i, entry |-> WildcardEntry(p)]} /\ TouchSlot(i)
    BY <1>3 DEF addWildcardPolicy
  <2>2. pc' = pc /\ frame' = frame /\ policy_map' = policy_map
        /\ wildcard_policy_map' = wildcard_policy_map
    BY <1>3 DEF addWildcardPolicy
  <2>3. touched'[d].key = touched[d].key
    BY <2>1 DEF TouchSlot, TypeOK, Touched
  <2>4. touched'[d].slots = IF InFlight(d) THEN touched[d].slots \cup {i}
                                           ELSE touched[d].slots
    BY <2>1 DEF TouchSlot, TypeOK, Touched
  <2>5. (Steady(d))' \subseteq Steady(d)
    BY <2>4 DEF Steady
  <2>6. InFlight(d) => \A w \in put' : w.slot \in touched'[d].slots
    BY <2>1, <2>4
  <2> QED
    BY <2>2, <2>3, <2>5, <2>6, SlotChange
<1>4. CASE WildcardWritten
  <2>1. PICK w \in put :
          /\ wildcard_policy_map' = [wildcard_policy_map EXCEPT ![w.slot] = w.entry]
          /\ put' = put \ {w}
    BY <1>4 DEF WildcardWritten
  <2>2. pc' = pc /\ frame' = frame /\ policy_map' = policy_map /\ touched' = touched
    BY <1>4 DEF WildcardWritten
  <2>3. CASE ~InFlight(d)
    BY <2>2, <2>3, LookupIdle DEF InFlight
  <2>4. CASE InFlight(d)
    <3>1. \A x \in put : x.slot \in touched[d].slots
      BY <2>4 DEF LookupInv
    <3>2. \A j \in Steady(d) : wildcard_policy_map'[j] = wildcard_policy_map[j]
      BY <2>1, <3>1 DEF Steady, Scanned, TypeOK
    <3>3. (Steady(d))' \subseteq Steady(d)
      BY <2>2 DEF Steady
    <3> QED
      BY <2>1, <2>2, <3>1, <3>2, <3>3, SlotChange
  <2> QED
    BY <2>3, <2>4
<1>5. CASE MonitorFlowEvents
  BY <1>5, LookupElsewhere, TablesKeepRules DEF MonitorFlowEvents
<1> QED
  BY <1>1, <1>2, <1>3, <1>4, <1>5 DEF UserSpace

(***************************************************************************)
(* The invariant of the lookup is inductive.                               *)
(***************************************************************************)
LEMMA InitLookup == Init => \A c \in CPUs : LookupInv(c)
BY DEF Init, LookupInv, InFlight

LEMMA StepLookup ==
  ASSUME IInv, [Next]_vars, NEW d \in CPUs
  PROVE  LookupInv(d)'
<1> USE DEF tables, kernel
<1>0. TypeOK /\ \A c \in CPUs : LookupInv(c)
  BY DEF IInv
<1>1. ASSUME NEW c \in CPUs, ReceiveUnparsed(c) PROVE LookupInv(d)'
  BY <1>0, <1>1, LookupElsewhere, TablesKeepRules DEF ReceiveUnparsed
<1>2. ASSUME NEW c \in CPUs, ReceivePacket(c) PROVE LookupInv(d)'
  <2>1. CASE d = c
    BY <1>0, <1>2, <2>1, BeginKeepsInv
  <2>2. CASE d # c
    <3>1. pc'[d] = pc[d] /\ frame'[d] = frame[d] /\ touched'[d] = touched[d]
      BY <1>0, <1>2, <2>2 DEF ReceivePacket, TypeOK
    <3> QED
      BY <1>0, <1>2, <3>1, LookupElsewhere, TablesKeepRules DEF ReceivePacket
  <2> QED
    BY <2>1, <2>2
<1>3. ASSUME NEW c \in CPUs, HotPath(c) \/ EnforceNew(c) PROVE LookupInv(d)'
  <2>1. CASE d = c
    BY <1>0, <1>3, <2>1, LookupIdle DEF HotPath, EnforceNew, Enforce, TypeOK
  <2>2. CASE d # c
    <3>1. pc'[d] = pc[d] /\ frame'[d] = frame[d] /\ touched'[d] = touched[d]
      BY <1>0, <1>3, <2>2 DEF HotPath, EnforceNew, Enforce, TypeOK
    <3> QED
      BY <1>0, <1>3, <3>1, LookupElsewhere, TablesKeepRules DEF HotPath, EnforceNew
  <2> QED
    BY <2>1, <2>2
<1>11. ASSUME NEW c \in CPUs, HotLoad(c) PROVE LookupInv(d)'
  <2>1. CASE d = c
    <3>1. pc'[d] = "cached"
      BY <1>0, <1>11, <2>1 DEF HotLoad, TypeOK
    <3> QED
      BY <3>1, LookupIdle
  <2>2. CASE d # c
    <3>1. pc'[d] = pc[d] /\ frame'[d] = frame[d] /\ touched'[d] = touched[d]
      BY <1>0, <1>11, <2>2 DEF HotLoad, TypeOK
    <3> QED
      BY <1>0, <1>11, <3>1, LookupElsewhere, TablesKeepRules DEF HotLoad
  <2> QED
    BY <2>1, <2>2
<1>4. ASSUME NEW c \in CPUs, LookupExact(c) PROVE LookupInv(d)'
  <2>1. CASE d = c
    BY <1>0, <1>4, <2>1, ExactKeepsInv
  <2>2. CASE d # c
    <3>1. pc'[d] = pc[d] /\ frame'[d] = frame[d] /\ touched'[d] = touched[d]
      BY <1>0, <1>4, <2>2 DEF LookupExact, TypeOK
    <3> QED
      BY <1>0, <1>4, <3>1, LookupElsewhere, TablesKeepRules DEF LookupExact
  <2> QED
    BY <2>1, <2>2
<1>5. ASSUME NEW c \in CPUs, BumpHit(c) PROVE LookupInv(d)'
  <2>1. CASE d = c
    BY <1>0, <1>5, <2>1, HitKeepsInv
  <2>2. CASE d # c
    <3>1. pc'[d] = pc[d] /\ frame'[d] = frame[d] /\ touched'[d] = touched[d]
      BY <1>0, <1>5, <2>2 DEF BumpHit, TypeOK
    <3> QED
      BY <1>0, <1>5, <3>1, LookupElsewhere, HitKeepsRules DEF BumpHit
  <2> QED
    BY <2>1, <2>2
<1>6. ASSUME NEW c \in CPUs, ScanSlot(c) PROVE LookupInv(d)'
  <2>1. CASE d = c
    BY <1>0, <1>6, <2>1, ScanKeepsInv
  <2>2. CASE d # c
    <3>1. pc'[d] = pc[d] /\ frame'[d] = frame[d] /\ touched'[d] = touched[d]
      BY <1>0, <1>6, <2>2 DEF ScanSlot, TypeOK
    <3> QED
      BY <1>0, <1>6, <3>1, LookupElsewhere, TablesKeepRules DEF ScanSlot
  <2> QED
    BY <2>1, <2>2
<1>7. ASSUME NEW c \in CPUs, ScanDone(c) PROVE LookupInv(d)'
  <2>1. CASE d = c
    BY <1>0, <1>7, <2>1, ScanDoneKeepsInv
  <2>2. CASE d # c
    <3>1. pc'[d] = pc[d] /\ frame'[d] = frame[d] /\ touched'[d] = touched[d]
      BY <1>0, <1>7, <2>2 DEF ScanDone, TypeOK
    <3> QED
      BY <1>0, <1>7, <3>1, LookupElsewhere, TablesKeepRules DEF ScanDone
  <2> QED
    BY <2>1, <2>2
<1>8. ASSUME NEW c \in CPUs, CreateSession(c) \/ RefuseSession(c) PROVE LookupInv(d)'
  <2>1. CASE d = c
    BY <1>0, <1>8, <2>1, SessionKeepsInv
  <2>2. CASE d # c
    <3>1. pc'[d] = pc[d] /\ frame'[d] = frame[d]
      BY <1>0, <1>8, <2>2 DEF CreateSession, RefuseSession, TypeOK
    <3>2. touched'[d].key = touched[d].key /\ touched'[d].slots = touched[d].slots
      BY <1>0, <1>8, SessionsTouched DEF CreateSession, RefuseSession
    <3> QED
      BY <1>0, <1>8, <3>1, <3>2, LookupElsewhere, TablesKeepRules
         DEF CreateSession, RefuseSession
  <2> QED
    BY <2>1, <2>2
<1>9. CASE UserSpace
  BY <1>0, <1>9, UserKeepsInv
<1>10. CASE UNCHANGED vars
  BY <1>0, <1>10, LookupElsewhere, TablesKeepRules DEF vars
<1> QED
  BY <1>1, <1>2, <1>3, <1>4, <1>5, <1>6, <1>7, <1>8, <1>9, <1>10,
     <1>11 DEF Next, Receive, Step

LEMMA InductiveInvariant == Spec => []IInv
<1>1. Init => IInv
  BY InitTyped, InitLookup DEF IInv
<1>2. IInv /\ [Next]_vars => IInv'
  BY StepTyped, StepLookup DEF IInv
<1> QED
  BY <1>1, <1>2, PTL DEF Spec

(***************************************************************************)
(* Policies that stay put are obeyed by every packet, for every number of  *)
(* CPUs, table size and scan limit, whatever user space changes meanwhile  *)
(* (lookup_policy_action against addPolicyToMap and DeletePolicy).         *)
(***************************************************************************)
THEOREM PoliciesAreObeyed == Spec => []PoliciesObeyed
BY InductiveInvariant, LookupObeys, PTL

(***************************************************************************)
(* A lookup under which nothing changed computes the reference decision.   *)
(***************************************************************************)
LEMMA LookupDecides == IInv => UndisturbedDecision
<1> SUFFICES ASSUME IInv, NEW c \in CPUs, Undisturbed(c)
             PROVE  DecisionOf(frame[c].key, Scanned, frame[c].action)
  BY DEF UndisturbedDecision
<1> DEFINE f == frame[c]
           w == wildcard_policy_map
<1>1. LookupInv(c) /\ f \in Frame /\ TypeOK
  BY DEF IInv, TypeOK
<1>2. pc[c] \in {"create", "enforce"} /\ ~touched[c].key /\ Steady(c) = Scanned
  BY DEF Undisturbed, Untouched, Steady
<1>3. CASE f.exact
  BY <1>1, <1>2, <1>3 DEF LookupInv, FromExact, DecisionOf
<1>4. CASE ~f.exact
  <2>1. KeyAbsent(c) /\ Seen(c) /\ Decided(c)
    BY <1>1, <1>2, <1>4 DEF LookupInv
  <2>2. f.key \notin DOMAIN policy_map
    BY <1>2, <2>1 DEF KeyAbsent
  <2>3. \A j \in Scanned : Hits(f.key, w[j]) => Beaten(f, j)
    BY <1>2, <2>1 DEF Seen, Decided
  <2>4. CASE f.best = NoSlot
    BY <2>1, <2>2, <2>3, <2>4
       DEF Beaten, Decided, DecisionOf, WildcardDecision, Matching
  <2>5. CASE f.best # NoSlot
    <3>1. f.best \in Scanned /\ Hits(f.key, w[f.best])
          /\ f.best_priority = w[f.best].priority /\ f.action = w[f.best].action
      BY <1>2, <2>1, <2>5 DEF Seen, Decided
    <3>2. IsWinner(f.key, w, Scanned, f.best)
      BY <2>3, <3>1 DEF IsWinner, Matching, Beaten
    <3> QED
      BY <2>2, <3>1, <3>2 DEF DecisionOf, WildcardDecision
  <2> QED
    BY <2>4, <2>5
<1> QED
  BY <1>3, <1>4

(***************************************************************************)
(* The slot-by-slot lookup with its strict comparison is the reference     *)
(* decision of the tables, whenever they were left alone during it         *)
(* (lookup_policy_action).                                                 *)
(***************************************************************************)
THEOREM LookupIsDecision == Spec => []UndisturbedDecision
BY InductiveInvariant, LookupDecides, PTL

-----------------------------------------------------------------------------
(***************************************************************************)
(* The steps a packet has still to take at most.                           *)
(***************************************************************************)
WorkLeft(c) ==
  CASE pc[c] = "idle"                  -> 0
    [] pc[c] \in {"cached", "enforce"} -> 1
    [] pc[c] \in {"hot", "create"}     -> 2
    [] pc[c] = "hit"                   -> 3
    [] pc[c] = "scan"                  ->
         IF frame[c].i \in Slots THEN MAX_ENTRIES_WILDCARD_POLICY + 3 - frame[c].i ELSE 3
    [] pc[c] = "lookup"                -> MAX_ENTRIES_WILDCARD_POLICY + 4

Standing(c) == pc'[c] = pc[c] /\ frame'[c] = frame[c]

WorkIsBounded == \A c \in CPUs : WorkLeft(c) \in 0 .. (MAX_ENTRIES_WILDCARD_POLICY + 4)

Finishing ==
  \A c \in CPUs : pc[c] # "idle" =>
    IF Step(c) THEN WorkLeft(c)' < WorkLeft(c) ELSE Standing(c)

LEMMA WorkBounded == TypeOK => WorkIsBounded
<1> SUFFICES ASSUME TypeOK, NEW c \in CPUs
             PROVE  WorkLeft(c) \in 0 .. (MAX_ENTRIES_WILDCARD_POLICY + 4)
  BY DEF WorkIsBounded
<1>1. pc[c] \in PC /\ frame[c].i \in Nat /\ MAX_ENTRIES_WILDCARD_POLICY \in Nat
  BY CapacityAssumption DEF TypeOK, Frame
<1> QED
  BY <1>1 DEF WorkLeft, PC, Slots

LEMMA StepFinishes == TypeOK /\ [Next]_vars => Finishing
<1> SUFFICES ASSUME TypeOK, [Next]_vars, NEW c \in CPUs, pc[c] # "idle"
             PROVE  /\ Step(c) => WorkLeft(c)' < WorkLeft(c)
                    /\ ~Step(c) => Standing(c)
  BY DEF Finishing
<1>0. /\ pc \in [CPUs -> PC] /\ frame \in [CPUs -> Frame] /\ frame[c].i \in Nat
      /\ MAX_ENTRIES_WILDCARD_POLICY \in Nat
  BY CapacityAssumption DEF TypeOK, Frame
<1>1. ~Step(c) => Standing(c)
  <2>1. CASE UserSpace \/ UNCHANGED vars
    BY <2>1 DEF UserSpace, addExactPolicy, DeletePolicy, addWildcardPolicy,
       WildcardWritten, MonitorFlowEvents, kernel, vars, Standing
  <2>2. ASSUME NEW d \in CPUs, Receive(d) \/ Step(d), d # c
        PROVE  Standing(c)
    BY <1>0, <2>2 DEF Receive, ReceiveUnparsed, ReceivePacket, Step, HotLoad, HotPath,
       LookupExact, BumpHit, ScanSlot, ScanDone, CreateSession, RefuseSession,
       EnforceNew, Enforce, Standing
  <2>3. ~Receive(c)
    BY DEF Receive, ReceiveUnparsed, ReceivePacket
  <2> QED
    BY <2>1, <2>2, <2>3 DEF Next
<1> SUFFICES ASSUME Step(c)
             PROVE  WorkLeft(c)' < WorkLeft(c)
  BY <1>1
<1>2. CASE HotLoad(c) \/ HotPath(c) \/ EnforceNew(c)
  <2>1. \/ pc[c] = "hot" /\ pc'[c] = "cached"
        \/ pc[c] \in {"cached", "enforce"} /\ pc'[c] = "idle"
    BY <1>0, <1>2 DEF HotLoad, HotPath, EnforceNew, Enforce
  <2> QED
    BY <2>1 DEF WorkLeft
<1>3. CASE BumpHit(c) \/ ScanDone(c) \/ CreateSession(c) \/ RefuseSession(c)
  <2>1. \/ pc'[c] = "create" /\ pc[c] \in {"hit", "scan"}
        \/ pc'[c] = "enforce" /\ pc[c] = "create"
    BY <1>0, <1>3 DEF BumpHit, ScanDone, CreateSession, RefuseSession
  <2>2. pc[c] = "scan" => WorkLeft(c) >= 3
    BY <1>0 DEF WorkLeft, Slots
  <2> QED
    BY <1>0, <2>1, <2>2 DEF WorkLeft
<1>4. CASE LookupExact(c)
  <2>1. pc[c] = "lookup" /\ (pc'[c] = "hit" \/ (pc'[c] = "scan" /\ frame'[c] = frame[c]))
    BY <1>0, <1>4 DEF LookupExact
  <2> QED
    BY <1>0, <2>1 DEF WorkLeft, Slots
<1>5. CASE ScanSlot(c)
  <2>1. pc[c] = "scan" /\ pc'[c] = "scan" /\ frame[c].i \in Slots
    BY <1>0, <1>5 DEF ScanSlot, Scanned
  <2>2. frame'[c].i = frame[c].i + 1
    <3>1. PICK w \in Readings(frame[c].i) :
            frame' = [frame EXCEPT ![c] =
              IF Hits(frame[c].key, w) /\ Better(frame[c], w)
              THEN [frame[c] EXCEPT !.best = frame[c].i, !.best_priority = w.priority,
                                    !.i = frame[c].i + 1]
              ELSE [frame[c] EXCEPT !.i = frame[c].i + 1]]
      BY <1>5 DEF ScanSlot
    <3> QED
      BY <1>0, <3>1 DEF Frame
  <2> QED
    BY <1>0, <2>1, <2>2 DEF WorkLeft, Slots
<1> QED
  BY <1>2, <1>3, <1>4, <1>5 DEF Step

(***************************************************************************)
(* The lookup of a packet ends, whatever user space and other CPUs do: a   *)
(* packet has never more steps before it than there are wildcard slots and *)
(* four, each of its own steps takes from them, and a step of anybody else *)
(* leaves it where it is (the loop of lookup_policy_action and the path    *)
(* through tc_microsegment_filter).  With the filter run to completion     *)
(* this is what PacketsFinish rests on.                                    *)
(***************************************************************************)
THEOREM PacketsAreBounded == Spec => []WorkIsBounded /\ [][Finishing]_vars
<1>1. TypeOK /\ [Next]_vars => [Finishing]_vars
  BY StepFinishes
<1> QED
  BY <1>1, WorkBounded, TypeCorrect, PTL DEF Spec
=============================================================================
