-------------------------- MODULE RefinementProofs --------------------------
(***************************************************************************)
(* The packet filter implements StatefulFirewall, for every number of      *)
(* CPUs, flows, policies and table sizes.                                  *)
(***************************************************************************)
EXTENDS DataPathRefinement, DataPathProofs, FiniteSetTheorems, SequenceTheorems

-----------------------------------------------------------------------------
(***************************************************************************)
(* What makes the mapping a refinement: elements of sessions are not       *)
(* shared, and a packet on the hot path still points to its session unless *)
(* that was evicted.                                                       *)
(***************************************************************************)
ElementsOwned ==
  \A k, l \in DOMAIN session_map :
    session_map[k].elem = session_map[l].elem => k = l

HotHolds(c) ==
  /\ pc[c] = "hot" /\ ~touched[c].session => Holds(session_map, frame[c])
  /\ pc[c] \notin {"hot", "cached"} => ~touched[c].session

SessionsInv == ElementsOwned /\ \A c \in CPUs : HotHolds(c)

LEMMA SessionsBounded ==
  ASSUME NEW map, IsMap(map, FlowKeys, SessionValue),
         \A k, l \in DOMAIN map : map[k].elem = map[l].elem => k = l
  PROVE  /\ Cardinality(DOMAIN map) <= Cardinality(SessionElements)
         /\ Free(map) = {} <=> Cardinality(DOMAIN map) >= Cardinality(SessionElements)
<1> DEFINE elem == [k \in DOMAIN map |-> map[k].elem]
<1>1. elem \in Injection(DOMAIN map, SessionElements)
  BY DEF IsMap, SessionValue, Injection, IsInjective
<1>2. Free(map) = {} <=> elem \in Surjection(DOMAIN map, SessionElements)
  BY <1>1 DEF Free, Used, Surjection, Injection
<1>3. IsFiniteSet(SessionElements)
  BY CapacityAssumption
<1> QED
  BY <1>1, <1>2, <1>3, FS_Injection, FS_CardinalityType

LEMMA InitSessions == Init => SessionsInv
BY DEF Init, SessionsInv, ElementsOwned, HotHolds, NoEntries, Untouched

LEMMA HotKept ==
  ASSUME NEW d, HotHolds(d), pc'[d] = pc[d], frame'[d] = frame[d],
         touched'[d].session = touched[d].session, session_map' = session_map
  PROVE  HotHolds(d)'
BY DEF HotHolds, Holds, Holders

LEMMA Forgotten ==
  ASSUME TypeOK, NEW evicted, TouchSessions(evicted), NEW d \in CPUs
  PROVE  touched'[d].session =
           (touched[d].session \/ (pc[d] = "hot" /\ frame[d].key \in evicted))
<1>1. touched[d] \in Touched
  BY DEF TypeOK
<1>2. touched'[d] = [touched[d] EXCEPT !.session =
        touched[d].session \/ (pc[d] = "hot" /\ frame[d].key \in evicted)]
  BY DEF TouchSessions
<1> QED
  BY <1>1, <1>2 DEF Touched

\* User space marks keys and slots, never sessions.
LEMMA UserTouches ==
  ASSUME TypeOK, UserSpace, NEW d \in CPUs
  PROVE  touched'[d].session = touched[d].session
<1> USE DEF tables, kernel
<1>1. touched[d] \in Touched
  BY DEF TypeOK
<1>2. ASSUME NEW key, TouchKey(key) PROVE touched'[d].session = touched[d].session
  <2>1. touched'[d] = [touched[d] EXCEPT !.key =
          touched[d].key \/ (InFlight(d) /\ frame[d].key = key)]
    BY <1>2 DEF TouchKey
  <2> QED
    BY <1>1, <2>1 DEF Touched
<1>3. ASSUME NEW i, TouchSlot(i) PROVE touched'[d].session = touched[d].session
  <2>1. touched'[d] = [touched[d] EXCEPT !.slots =
          IF InFlight(d) THEN touched[d].slots \cup {i} ELSE touched[d].slots]
    BY <1>3 DEF TouchSlot
  <2> QED
    BY <1>1, <2>1 DEF Touched
<1>4. CASE \E p \in Policies : addExactPolicy(p)
  BY <1>2, <1>4 DEF addExactPolicy
<1>5. CASE \E p \in Policies : DeletePolicy(p)
  BY <1>2, <1>5 DEF DeletePolicy
<1>6. CASE \E p \in Policies : addWildcardPolicy(p)
  BY <1>3, <1>6 DEF addWildcardPolicy
<1>7. CASE WildcardWritten \/ MonitorFlowEvents
  BY <1>7 DEF WildcardWritten, MonitorFlowEvents
<1> QED
  BY <1>4, <1>5, <1>6, <1>7 DEF UserSpace

LEMMA CreateKeepsSessions ==
  ASSUME TypeOK, SessionsInv, NEW c \in CPUs, CreateSession(c)
  PROVE  SessionsInv'
<1>1. PICK evicted \in Evictions :
        /\ Inserts(frame[c].key, evicted)
        /\ \E e \in Free(Without(session_map, evicted)) :
             session_map' = Put(Without(session_map, evicted), frame[c].key,
                                NewSession(frame[c], e))
        /\ TouchSessions(evicted)
  BY DEF CreateSession
<1>2. PICK e \in Free(Without(session_map, evicted)) :
        session_map' = Put(Without(session_map, evicted), frame[c].key,
                           NewSession(frame[c], e))
  BY <1>1
<1>3. DOMAIN session_map' = (DOMAIN session_map \ evicted) \cup {frame[c].key}
  BY <1>2 DEF Put, Without
<1>4. \A k \in DOMAIN session_map \ evicted :
        k # frame[c].key /\ session_map'[k] = session_map[k]
  BY <1>1, <1>2 DEF Inserts, Put, Without
<1>5. session_map'[frame[c].key].elem = e
  BY <1>2 DEF Put, NewSession
<1>6. \A k \in DOMAIN session_map \ evicted : session_map[k].elem # e
  BY <1>2 DEF Free, Used, Without
<1>7. ElementsOwned'
  BY <1>3, <1>4, <1>5, <1>6 DEF SessionsInv, ElementsOwned
<1>8. ASSUME NEW d \in CPUs PROVE HotHolds(d)'
  <2>1. HotHolds(d) /\ frame' = frame
    BY DEF SessionsInv, CreateSession
  <2>2. CASE d = c
    <3>1. pc'[c] = "enforce" /\ pc[c] = "create"
      BY DEF CreateSession, TypeOK
    <3>2. ~touched'[c].session
      BY <1>1, <2>1, <2>2, <3>1, Forgotten DEF HotHolds
    <3> QED
      BY <2>2, <3>1, <3>2 DEF HotHolds
  <2>3. CASE d # c
    <3>1. pc'[d] = pc[d]
      BY <2>3 DEF CreateSession, TypeOK
    <3>2. touched'[d].session =
            (touched[d].session \/ (pc[d] = "hot" /\ frame[d].key \in evicted))
      BY <1>1, Forgotten
    <3>3. ASSUME pc[d] = "hot", ~touched'[d].session
          PROVE  Holds(session_map', frame'[d])
      <4>1. frame[d].key \in DOMAIN session_map \ evicted
            /\ session_map[frame[d].key].elem = frame[d].elem
        BY <2>1, <3>2, <3>3 DEF HotHolds, Holds, Holders
      <4> QED
        BY <1>3, <1>4, <2>1, <4>1 DEF Holds, Holders
    <3> QED
      BY <2>1, <3>1, <3>2, <3>3 DEF HotHolds
  <2> QED
    BY <2>2, <2>3
<1> QED
  BY <1>7, <1>8 DEF SessionsInv

LEMMA RefuseKeepsSessions ==
  ASSUME TypeOK, SessionsInv, NEW c \in CPUs, RefuseSession(c)
  PROVE  SessionsInv'
<1>1. PICK evicted \in Evictions :
        session_map' = Without(session_map, evicted) /\ TouchSessions(evicted)
  BY DEF RefuseSession
<1>2. DOMAIN session_map' = DOMAIN session_map \ evicted
      /\ \A k \in DOMAIN session_map \ evicted : session_map'[k] = session_map[k]
  BY <1>1 DEF Without
<1>3. ElementsOwned'
  BY <1>2 DEF SessionsInv, ElementsOwned
<1>4. ASSUME NEW d \in CPUs PROVE HotHolds(d)'
  <2>1. HotHolds(d) /\ frame' = frame
    BY DEF SessionsInv, RefuseSession
  <2>2. touched'[d].session =
          (touched[d].session \/ (pc[d] = "hot" /\ frame[d].key \in evicted))
    BY <1>1, Forgotten
  <2>3. pc'[d] = IF d = c THEN "enforce" ELSE pc[d]
    BY DEF RefuseSession, TypeOK
  <2>4. pc[c] = "create"
    BY DEF RefuseSession
  <2>5. ASSUME pc[d] = "hot", ~touched'[d].session
        PROVE  Holds(session_map', frame'[d])
    <3>1. frame[d].key \in DOMAIN session_map \ evicted
          /\ session_map[frame[d].key].elem = frame[d].elem
      BY <2>1, <2>2, <2>5 DEF HotHolds, Holds, Holders
    <3> QED
      BY <1>2, <2>1, <3>1 DEF Holds, Holders
  <2> QED
    BY <2>1, <2>2, <2>3, <2>4, <2>5 DEF HotHolds
<1> QED
  BY <1>3, <1>4 DEF SessionsInv

LEMMA HotPathKeepsSessions ==
  ASSUME TypeOK, SessionsInv, NEW c \in CPUs, HotPath(c)
  PROVE  SessionsInv'
<1>1. PICK to : session_map' = [k \in DOMAIN session_map |->
        IF k \in to
        THEN [session_map[k] EXCEPT !.packets_to_server = frame[c].count + 1]
        ELSE session_map[k]]
  BY DEF HotPath
<1>2. DOMAIN session_map' = DOMAIN session_map
      /\ \A k \in DOMAIN session_map : session_map'[k].elem = session_map[k].elem
  BY <1>1 DEF TypeOK, IsMap, SessionValue
<1>3. ElementsOwned'
  BY <1>2 DEF SessionsInv, ElementsOwned
<1>4. ASSUME NEW d \in CPUs PROVE HotHolds(d)'
  <2>1. HotHolds(d)
    BY DEF SessionsInv
  <2>2. CASE d = c
    BY <2>2 DEF HotPath, Enforce, TypeOK, Untouched, HotHolds
  <2>3. CASE d # c
    <3>1. pc'[d] = pc[d] /\ frame'[d] = frame[d] /\ touched'[d] = touched[d]
      BY <2>3 DEF HotPath, Enforce, TypeOK
    <3> QED
      BY <1>2, <2>1, <3>1 DEF HotHolds, Holds, Holders
  <2> QED
    BY <2>2, <2>3
<1> QED
  BY <1>3, <1>4 DEF SessionsInv

LEMMA StepSessions == TypeOK /\ SessionsInv /\ [Next]_vars => SessionsInv'
<1> SUFFICES ASSUME TypeOK, SessionsInv, [Next]_vars PROVE SessionsInv'
  OBVIOUS
<1> USE DEF tables, kernel
<1>0. ASSUME session_map' = session_map, \A d \in CPUs : HotHolds(d)'
      PROVE  SessionsInv'
  BY <1>0 DEF SessionsInv, ElementsOwned
<1>1. ASSUME NEW c \in CPUs, ReceiveUnparsed(c) PROVE SessionsInv'
  BY <1>0, <1>1, HotKept DEF ReceiveUnparsed, SessionsInv
<1>2. ASSUME NEW c \in CPUs, ReceivePacket(c) PROVE SessionsInv'
  <2>1. PICK key \in FlowKeys :
          \/ /\ key \in DOMAIN session_map
             /\ pc' = [pc EXCEPT ![c] = "hot"]
             /\ frame' = [frame EXCEPT ![c] =
                  [ZeroFrame EXCEPT !.key = key, !.now = ktime + 1,
                     !.elem = session_map[key].elem]]
             /\ UNCHANGED touched
          \/ /\ key \notin DOMAIN session_map
             /\ pc' = [pc EXCEPT ![c] = "lookup"]
             /\ frame' = [frame EXCEPT ![c] =
                  [ZeroFrame EXCEPT !.key = key, !.now = ktime + 1]]
             /\ touched' = [touched EXCEPT ![c].slots = {w.slot : w \in put}]
    BY <1>2 DEF ReceivePacket
  <2>2. pc[c] = "idle" /\ session_map' = session_map
    BY <1>2 DEF ReceivePacket
  <2>3. \A d \in CPUs : touched'[d].session = touched[d].session
    <3>1. \A new : [touched[c] EXCEPT !.slots = new].session = touched[c].session
      BY DEF TypeOK, Touched
    <3>2. \/ touched' = touched
          \/ touched' = [touched EXCEPT ![c] =
                [touched[c] EXCEPT !.slots = {w.slot : w \in put}]]
      BY <2>1
    <3> DEFINE new == [touched[c] EXCEPT !.slots = {w.slot : w \in put}]
    <3>3. new.session = touched[c].session
      BY <3>1
    <3> HIDE DEF new
    <3>4. touched' = touched \/ touched' = [touched EXCEPT ![c] = new]
      BY <3>2 DEF new
    <3>5. touched \in [CPUs -> Touched]
      BY DEF TypeOK
    <3> QED
      BY <3>3, <3>4, <3>5
  <2>4. ASSUME NEW d \in CPUs PROVE HotHolds(d)'
    <3>1. HotHolds(d)
      BY DEF SessionsInv
    <3>2. CASE d = c
      <4>1. CASE key \in DOMAIN session_map
        <5>1. pc'[c] = "hot"
              /\ frame'[c] = [ZeroFrame EXCEPT !.key = key, !.now = ktime + 1,
                                               !.elem = session_map[key].elem]
          BY <2>1, <4>1 DEF TypeOK
        <5>2. frame'[c].key = key /\ frame'[c].elem = session_map[key].elem
          BY <5>1 DEF ZeroFrame
        <5> QED
          BY <2>2, <3>2, <4>1, <5>1, <5>2 DEF HotHolds, Holds, Holders
      <4>2. CASE key \notin DOMAIN session_map
        <5>1. pc'[c] = "lookup"
          BY <2>1, <4>2 DEF TypeOK
        <5> QED
          BY <2>2, <2>3, <3>1, <3>2, <5>1 DEF HotHolds
      <4> QED
        BY <4>1, <4>2
    <3>3. CASE d # c
      <4>1. pc'[d] = pc[d] /\ frame'[d] = frame[d]
        BY <2>1, <3>3 DEF TypeOK
      <4> QED
        BY <2>2, <2>3, <3>1, <4>1, HotKept
    <3> QED
      BY <3>2, <3>3
  <2> QED
    BY <1>0, <2>2, <2>4
<1>3. ASSUME NEW c \in CPUs, HotLoad(c) PROVE SessionsInv'
  <2>1. ASSUME NEW d \in CPUs PROVE HotHolds(d)'
    <3>1. HotHolds(d) /\ touched' = touched /\ session_map' = session_map
      BY <1>3 DEF SessionsInv, HotLoad
    <3>2. CASE d = c
      <4>1. pc'[c] = "cached"
        BY <1>3 DEF HotLoad, TypeOK
      <4> QED
        BY <3>2, <4>1 DEF HotHolds
    <3>3. CASE d # c
      <4>1. pc'[d] = pc[d] /\ frame'[d] = frame[d]
        BY <1>3, <3>3 DEF HotLoad, TypeOK
      <4> QED
        BY <3>1, <4>1, HotKept
    <3> QED
      BY <3>2, <3>3
  <2> QED
    BY <1>0, <1>3, <2>1 DEF HotLoad
<1>4. ASSUME NEW c \in CPUs,
             LookupExact(c) \/ BumpHit(c) \/ ScanSlot(c) \/ ScanDone(c)
      PROVE  SessionsInv'
  <2>1. session_map' = session_map /\ touched' = touched
    BY <1>4 DEF LookupExact, BumpHit, ScanSlot, ScanDone
  <2>2. pc[c] \in {"lookup", "hit", "scan"} /\ pc'[c] \in {"hit", "scan", "create"}
    BY <1>4 DEF LookupExact, BumpHit, ScanSlot, ScanDone, TypeOK
  <2>3. \A d \in CPUs \ {c} : pc'[d] = pc[d] /\ frame'[d] = frame[d]
    BY <1>4 DEF LookupExact, BumpHit, ScanSlot, ScanDone, TypeOK
  <2>4. ASSUME NEW d \in CPUs PROVE HotHolds(d)'
    <3>1. HotHolds(d)
      BY DEF SessionsInv
    <3>2. CASE d = c
      BY <2>1, <2>2, <3>1, <3>2 DEF HotHolds
    <3>3. CASE d # c
      BY <2>1, <2>3, <3>1, <3>3, HotKept
    <3> QED
      BY <3>2, <3>3
  <2> QED
    BY <1>0, <2>1, <2>4
<1>5. ASSUME NEW c \in CPUs, EnforceNew(c) PROVE SessionsInv'
  <2>1. ASSUME NEW d \in CPUs PROVE HotHolds(d)'
    <3>1. HotHolds(d) /\ session_map' = session_map
      BY <1>5 DEF SessionsInv, EnforceNew
    <3>2. CASE d = c
      BY <1>5, <3>2 DEF EnforceNew, Enforce, TypeOK, Untouched, HotHolds
    <3>3. CASE d # c
      <4>1. pc'[d] = pc[d] /\ frame'[d] = frame[d] /\ touched'[d] = touched[d]
        BY <1>5, <3>3 DEF EnforceNew, Enforce, TypeOK
      <4> QED
        BY <3>1, <4>1, HotKept
    <3> QED
      BY <3>2, <3>3
  <2> QED
    BY <1>0, <1>5, <2>1 DEF EnforceNew
<1>6. CASE UserSpace
  <2>1. UNCHANGED <<session_map, pc, frame>>
    BY <1>6 DEF UserSpace, addExactPolicy, DeletePolicy, addWildcardPolicy,
                WildcardWritten, MonitorFlowEvents
  <2>2. \A d \in CPUs : touched'[d].session = touched[d].session
    BY <1>6, UserTouches
  <2> QED
    BY <1>0, <2>1, <2>2, HotKept DEF SessionsInv
<1>7. CASE UNCHANGED vars
  BY <1>0, <1>7, HotKept DEF vars, SessionsInv
<1> QED
  BY <1>1, <1>2, <1>3, <1>4, <1>5, <1>6, <1>7, HotPathKeepsSessions,
     CreateKeepsSessions, RefuseKeepsSessions
     DEF Next, Receive, Step

LEMMA InitRefines == Init => Firewall!Init
<1> SUFFICES ASSUME Init PROVE Firewall!Init
  OBVIOUS
<1>1. sessionsBar = [f \in {} |-> {}]
  BY DEF Init, sessionsBar, NoEntries
<1>2. packetBar = [c \in CPUs |-> Firewall!NoPacket]
  BY DEF Init, packetBar, Firewall!NoPacket
<1>3. verdictBar = [c \in CPUs |-> "pass"]
  BY DEF Init, verdictBar, TC_ACT_OK, TC_ACT_SHOT
<1>4. passedBar = [c \in CPUs |-> 0] /\ droppedBar = [c \in CPUs |-> 0]
  BY DEF Init, passedBar, droppedBar, StatsKey
<1>5. reportsBar = <<>>
  BY DEF Init, reportsBar
<1> QED
  BY <1>1, <1>2, <1>3, <1>4, <1>5 DEF Firewall!Init

-----------------------------------------------------------------------------
(***************************************************************************)
(* What the steps do to the mapped variables.                              *)
(***************************************************************************)
SameCounts == \A d \in CPUs : \A k \in {"ALLOWED_PACKETS", "DENIED_PACKETS"} :
                stats_map'[d][k] = stats_map[d][k]

SamePacket(d) ==
  /\ pc'[d] = pc[d]
  /\ frame'[d] = frame[d]
  /\ touched'[d].session = touched[d].session

LEMMA PacketBarSame ==
  ASSUME NEW d \in CPUs, SamePacket(d)
  PROVE  packetBar'[d] = packetBar[d]
BY DEF packetBar, InFlightPacket, Stage, SamePacket

LEMMA Stutter ==
  ASSUME session_map' = session_map, flow_events' = flow_events, ret' = ret,
         SameCounts, packetBar' = packetBar
  PROVE  UNCHANGED Firewall!vars
<1>1. sessionsBar' = sessionsBar /\ reportsBar' = reportsBar /\ verdictBar' = verdictBar
  BY DEF sessionsBar, reportsBar, verdictBar
<1>2. passedBar' = passedBar /\ droppedBar' = droppedBar
  BY DEF passedBar, droppedBar, SameCounts
<1> QED
  BY <1>1, <1>2 DEF Firewall!vars

LEMMA OtherCounts ==
  ASSUME TypeOK, NEW c \in CPUs, NEW key \in StatsKey, update_stats(c, key),
         key \notin {"ALLOWED_PACKETS", "DENIED_PACKETS"}
  PROVE  SameCounts
BY DEF TypeOK, update_stats, SameCounts, StatsKey

LEMMA PacketBarExcept ==
  ASSUME NEW c \in CPUs, NEW value, packetBar'[c] = value,
         \A d \in CPUs \ {c} : packetBar'[d] = packetBar[d]
  PROVE  packetBar' = [packetBar EXCEPT ![c] = value]
BY DEF packetBar

LEMMA ReceiveRefines ==
  ASSUME TypeOK, SessionsInv, NEW c \in CPUs, ReceivePacket(c)
  PROVE  \E f \in FlowKeys : Firewall!Arrive(c, f)
<1> USE DEF tables, kernel
<1>1. PICK key \in FlowKeys :
        \/ /\ key \in DOMAIN session_map
           /\ pc' = [pc EXCEPT ![c] = "hot"]
           /\ frame' = [frame EXCEPT ![c] =
                [ZeroFrame EXCEPT !.key = key, !.now = ktime + 1,
                   !.elem = session_map[key].elem]]
           /\ UNCHANGED touched
        \/ /\ key \notin DOMAIN session_map
           /\ pc' = [pc EXCEPT ![c] = "lookup"]
           /\ frame' = [frame EXCEPT ![c] =
                [ZeroFrame EXCEPT !.key = key, !.now = ktime + 1]]
           /\ touched' = [touched EXCEPT ![c].slots = {w.slot : w \in put}]
  BY DEF ReceivePacket
<1>2. pc[c] = "idle" /\ session_map' = session_map /\ flow_events' = flow_events
      /\ ret' = ret /\ update_stats(c, "TOTAL_PACKETS")
  BY DEF ReceivePacket
<1>3. SameCounts
  BY <1>2, OtherCounts DEF StatsKey
<1>4. /\ pc'[c] = IF key \in DOMAIN session_map THEN "hot" ELSE "lookup"
      /\ frame'[c].key = key
  <2>1. CASE key \in DOMAIN session_map
    <3>1. pc'[c] = "hot" /\ frame'[c] = [ZeroFrame EXCEPT !.key = key,
             !.now = ktime + 1, !.elem = session_map[key].elem]
      BY <1>1, <2>1 DEF TypeOK
    <3> QED
      BY <2>1, <3>1 DEF ZeroFrame
  <2>2. CASE key \notin DOMAIN session_map
    <3>1. pc'[c] = "lookup"
          /\ frame'[c] = [ZeroFrame EXCEPT !.key = key, !.now = ktime + 1]
      BY <1>1, <2>2 DEF TypeOK
    <3> QED
      BY <2>2, <3>1 DEF ZeroFrame
  <2> QED
    BY <2>1, <2>2
<1>5. \A d \in CPUs \ {c} : pc'[d] = pc[d] /\ frame'[d] = frame[d]
                             /\ touched'[d] = touched[d]
  BY <1>1 DEF TypeOK
<1>6. pc'[c] = "hot" => ~touched'[c].session
  BY <1>1, <1>2, <1>4 DEF SessionsInv, HotHolds
<1>7. packetBar'[c] =
        [flow |-> key, stage |-> IF key \in DOMAIN session_map THEN "known" ELSE "new",
         action |-> -1, forgotten |-> FALSE]
  BY <1>4, <1>6 DEF packetBar, InFlightPacket, Stage
<1>8. \A d \in CPUs \ {c} : packetBar'[d] = packetBar[d]
  BY <1>5, PacketBarSame DEF SamePacket
<1>9. packetBar[c] = Firewall!NoPacket
  BY <1>2 DEF packetBar, Firewall!NoPacket
<1>10. sessionsBar' = sessionsBar /\ reportsBar' = reportsBar /\ verdictBar' = verdictBar
       /\ DOMAIN sessionsBar = DOMAIN session_map
  BY <1>2 DEF sessionsBar, reportsBar, verdictBar
<1>11. passedBar' = passedBar /\ droppedBar' = droppedBar
  BY <1>3 DEF passedBar, droppedBar, SameCounts
<1> QED
  BY <1>7, <1>8, <1>9, <1>10, <1>11, PacketBarExcept
     DEF Firewall!Arrive, Firewall!Undecided

LEMMA RecallRefines ==
  ASSUME TypeOK, SessionsInv, NEW c \in CPUs, HotLoad(c)
  PROVE  Firewall!Recall(c)
<1>1. PICK a \in Action :
        /\ frame'[c].key = frame[c].key /\ frame'[c].action = a
        /\ ~touched[c].session => a = session_map[frame[c].key].policy_action
  <2>1. frame[c] \in Frame
    BY DEF TypeOK
  <2>2. CASE \E k \in Pointees(session_map, frame[c]) :
               frame' = [frame EXCEPT ![c] =
                 [frame[c] EXCEPT !.action = session_map[k].policy_action,
                                  !.count = session_map[k].packets_to_server]]
    <3>1. PICK k \in Pointees(session_map, frame[c]) :
               frame' = [frame EXCEPT ![c] =
                 [frame[c] EXCEPT !.action = session_map[k].policy_action,
                                  !.count = session_map[k].packets_to_server]]
      BY <2>2
    <3>2. k \in DOMAIN session_map /\ (~touched[c].session => k = frame[c].key)
      BY DEF Pointees, Holds, Holders, SessionsInv, HotHolds, HotLoad
    <3>3. session_map[k].policy_action \in Action
      BY <3>2 DEF TypeOK, IsMap, SessionValue
    <3>4. frame'[c] = [frame[c] EXCEPT !.action = session_map[k].policy_action,
                                       !.count = session_map[k].packets_to_server]
      BY <3>1 DEF TypeOK
    <3> QED
      BY <2>1, <3>2, <3>3, <3>4 DEF Frame
  <2>3. CASE /\ Pointees(session_map, frame[c]) = {}
             /\ \E a \in Action :
                  frame' = [frame EXCEPT ![c] = [frame[c] EXCEPT !.action = a]]
    <3>1. PICK a \in Action :
            frame' = [frame EXCEPT ![c] = [frame[c] EXCEPT !.action = a]]
      BY <2>3
    <3>2. touched[c].session
      BY <2>3 DEF Pointees, Holds, Holders, SessionsInv, HotHolds, HotLoad
    <3>3. frame'[c] = [frame[c] EXCEPT !.action = a]
      BY <3>1 DEF TypeOK
    <3> QED
      BY <2>1, <3>2, <3>3 DEF Frame
  <2> QED
    BY <2>2, <2>3 DEF HotLoad
<1>2. /\ pc[c] = "hot" /\ pc'[c] = "cached"
      /\ session_map' = session_map /\ flow_events' = flow_events
      /\ ret' = ret /\ stats_map' = stats_map
      /\ \A d \in CPUs \ {c} : pc'[d] = pc[d] /\ frame'[d] = frame[d]
                             /\ touched'[d] = touched[d]
  <2>1. \A d \in CPUs \ {c} : frame'[d] = frame[d]
    BY DEF HotLoad, TypeOK
  <2> QED
    BY <2>1 DEF HotLoad, TypeOK
<1>3. packetBar[c].stage = "known" /\ packetBar[c].flow = frame[c].key
      /\ packetBar[c].forgotten = touched[c].session
  BY <1>2 DEF packetBar, InFlightPacket, Stage, TypeOK, Touched
<1>4. packetBar'[c] = [flow |-> packetBar[c].flow, stage |-> "decided",
                       action |-> a, forgotten |-> FALSE]
  BY <1>1, <1>2, <1>3 DEF packetBar, InFlightPacket, Stage
<1>5. \A d \in CPUs \ {c} : packetBar'[d] = packetBar[d]
  BY <1>2, PacketBarSame DEF SamePacket
<1>6. sessionsBar' = sessionsBar /\ reportsBar' = reportsBar /\ verdictBar' = verdictBar
      /\ passedBar' = passedBar /\ droppedBar' = droppedBar
  BY <1>2 DEF sessionsBar, reportsBar, verdictBar, passedBar, droppedBar
<1>7. ~packetBar[c].forgotten => a = sessionsBar[packetBar[c].flow]
  <2>1. ~touched[c].session => frame[c].key \in DOMAIN session_map
    BY <1>2 DEF SessionsInv, HotHolds, Holds, Holders
  <2> QED
    BY <1>1, <1>3, <2>1 DEF sessionsBar
<1>8. packetBar' = [packetBar EXCEPT ![c] =
        [flow |-> packetBar[c].flow, stage |-> "decided", action |-> a,
         forgotten |-> FALSE]]
  BY <1>4, <1>5, PacketBarExcept
<1> QED
  BY <1>3, <1>6, <1>7, <1>8 DEF Firewall!Recall

LEMMA JudgeRefines ==
  ASSUME TypeOK, SessionsInv, NEW c \in CPUs, BumpHit(c) \/ ScanDone(c)
  PROVE  Firewall!Judge(c)
<1>1. PICK a \in Action : frame' = [frame EXCEPT ![c].action = a]
  <2>1. CASE BumpHit(c)
    BY <2>1, BumpedAction
  <2>2. CASE ScanDone(c)
    <3>1. CASE \E w \in Readings(frame[c].best) : frame' = [frame EXCEPT ![c].action = w.action]
               /\ frame[c].best # NoSlot
      <4>1. frame[c].best \in Slots
        BY <3>1 DEF TypeOK, Frame
      <4> QED
        BY <3>1, <4>1, ReadingTypes
    <3>2. CASE frame' = [frame EXCEPT ![c].action = POLICY_ACTION_ALLOW]
      BY <3>2 DEF Action
    <3> QED
      BY <2>2, <3>1, <3>2 DEF ScanDone
  <2> QED
    BY <2>1, <2>2
<1>2. frame'[c].key = frame[c].key /\ frame'[c].action = a
  <2>1. frame'[c] = [frame[c] EXCEPT !.action = a] /\ frame[c] \in Frame
    BY <1>1 DEF TypeOK
  <2> QED
    BY <2>1 DEF Frame
<1>3. /\ pc[c] \in {"hit", "scan"} /\ pc'[c] = "create"
      /\ session_map' = session_map /\ flow_events' = flow_events /\ ret' = ret
      /\ \A d \in CPUs \ {c} : pc'[d] = pc[d] /\ touched'[d] = touched[d]
  BY DEF BumpHit, ScanDone, TypeOK
<1>4. \A d \in CPUs \ {c} : frame'[d] = frame[d]
  BY <1>1 DEF TypeOK
<1>5. SameCounts
  BY OtherCounts DEF BumpHit, ScanDone, StatsKey
<1>6. packetBar[c].stage = "new" /\ packetBar[c].flow = frame[c].key
  BY <1>3 DEF packetBar, InFlightPacket, Stage
<1>7. packetBar'[c] = [flow |-> packetBar[c].flow, stage |-> "fresh",
                       action |-> a, forgotten |-> FALSE]
  BY <1>2, <1>3, <1>6 DEF packetBar, InFlightPacket, Stage
<1>8. \A d \in CPUs \ {c} : packetBar'[d] = packetBar[d]
  BY <1>3, <1>4, PacketBarSame DEF SamePacket
<1>9. sessionsBar' = sessionsBar /\ reportsBar' = reportsBar /\ verdictBar' = verdictBar
      /\ passedBar' = passedBar /\ droppedBar' = droppedBar
  BY <1>3, <1>5 DEF sessionsBar, reportsBar, verdictBar, passedBar, droppedBar, SameCounts
<1>10. packetBar' = [packetBar EXCEPT ![c] =
         [flow |-> packetBar[c].flow, stage |-> "fresh", action |-> a,
          forgotten |-> FALSE]]
  BY <1>7, <1>8, PacketBarExcept
<1> QED
  BY <1>6, <1>9, <1>10 DEF Firewall!Judge

LEMMA VerdictCounted ==
  ASSUME TypeOK, NEW c \in CPUs, NEW key \in {"ALLOWED_PACKETS", "DENIED_PACKETS"},
         update_stats(c, key)
  PROVE  \A d \in CPUs : \A k \in {"ALLOWED_PACKETS", "DENIED_PACKETS"} :
           stats_map'[d][k] = IF d = c /\ k = key THEN stats_map[d][k] + 1
                              ELSE stats_map[d][k]
<1>1. key \in StatsKey /\ "ALLOWED_PACKETS" \in StatsKey /\ "DENIED_PACKETS" \in StatsKey
  BY DEF StatsKey
<1> QED
  BY <1>1, CountUp

LEMMA FinishRefines ==
  ASSUME TypeOK, NEW c \in CPUs, pc[c] \in {"cached", "enforce"},
         Enforce(c, frame[c].action), sessionsBar' = sessionsBar,
         flow_events' = flow_events
  PROVE  Firewall!Finish(c)
<1> DEFINE a == frame[c].action
<1>1. packetBar[c].stage = "decided" /\ packetBar[c].action = a
  BY DEF packetBar, InFlightPacket, Stage
<1>2. packetBar' = [packetBar EXCEPT ![c] = Firewall!NoPacket]
  <2>1. packetBar'[c] = Firewall!NoPacket
    BY DEF packetBar, Firewall!NoPacket, Enforce, TypeOK
  <2>2. \A d \in CPUs \ {c} : packetBar'[d] = packetBar[d]
    BY PacketBarSame DEF SamePacket, Enforce, TypeOK
  <2> QED
    BY <2>1, <2>2, PacketBarExcept
<1>3. reportsBar' = reportsBar
  BY DEF reportsBar
<1>4. CASE a = POLICY_ACTION_DENY
  <2>1. update_stats(c, "DENIED_PACKETS") /\ ret' = [ret EXCEPT ![c] = TC_ACT_SHOT]
    BY <1>4 DEF Enforce
  <2>2. verdictBar' = [verdictBar EXCEPT ![c] = "drop"]
    BY <2>1 DEF verdictBar, TypeOK
  <2>3. passedBar' = passedBar /\ droppedBar' = [droppedBar EXCEPT ![c] = @ + 1]
    BY <2>1, VerdictCounted DEF passedBar, droppedBar
  <2> QED
    BY <1>1, <1>2, <1>3, <1>4, <2>2, <2>3 DEF Firewall!Finish
<1>5. CASE a # POLICY_ACTION_DENY
  <2>1. update_stats(c, "ALLOWED_PACKETS") /\ ret' = [ret EXCEPT ![c] = TC_ACT_OK]
    BY <1>5 DEF Enforce
  <2>2. verdictBar' = [verdictBar EXCEPT ![c] = "pass"]
    <3>1. TC_ACT_OK # TC_ACT_SHOT
      BY DEF TC_ACT_OK, TC_ACT_SHOT
    <3> QED
      BY <2>1, <3>1 DEF verdictBar, TypeOK
  <2>3. droppedBar' = droppedBar /\ passedBar' = [passedBar EXCEPT ![c] = @ + 1]
    BY <2>1, VerdictCounted DEF passedBar, droppedBar
  <2> QED
    BY <1>1, <1>2, <1>3, <1>5, <2>2, <2>3 DEF Firewall!Finish
<1> QED
  BY <1>4, <1>5

LEMMA HotPathSessions ==
  ASSUME TypeOK, NEW c \in CPUs, HotPath(c)
  PROVE  sessionsBar' = sessionsBar
<1>1. PICK to : session_map' = [k \in DOMAIN session_map |->
        IF k \in to
        THEN [session_map[k] EXCEPT !.packets_to_server = frame[c].count + 1]
        ELSE session_map[k]]
  BY DEF HotPath
<1>2. DOMAIN session_map' = DOMAIN session_map
      /\ \A k \in DOMAIN session_map :
           session_map'[k].policy_action = session_map[k].policy_action
  BY <1>1 DEF TypeOK, IsMap, SessionValue
<1> QED
  BY <1>2 DEF sessionsBar

-----------------------------------------------------------------------------
(***************************************************************************)
(* Keeping a session, or not.                                              *)
(***************************************************************************)
LEMMA SameCardinality == \A S : Firewall!Cardinality(S) = Cardinality(S)
BY DEF Firewall!Cardinality, Cardinality

LEMMA EvictionsAllowed ==
  ASSUME TypeOK, SessionsInv, NEW evicted \in Evictions
  PROVE  /\ Firewall!Evictable(evicted)
         /\ evicted \in SUBSET FlowKeys
         /\ Firewall!Stay(evicted) = DOMAIN session_map \ evicted
         /\ SessionsFull <=> Firewall!Full
<1>1. DOMAIN sessionsBar = DOMAIN session_map
  BY DEF sessionsBar
<1>2. SessionsFull <=> Firewall!Full
  <2>1. Firewall!Full <=> Cardinality(DOMAIN session_map) >= Cardinality(SessionElements)
    BY <1>1, SameCardinality DEF Firewall!Full
  <2>2. SessionsFull <=> Cardinality(DOMAIN session_map) >= Cardinality(SessionElements)
    BY SessionsBounded DEF SessionsFull, SessionsInv, ElementsOwned, TypeOK
  <2> QED
    BY <2>1, <2>2
<1>3. evicted \subseteq DOMAIN session_map /\ (evicted # {} => SessionsFull)
  BY DEF Evictions
<1>4. DOMAIN session_map \subseteq FlowKeys
  BY DEF TypeOK, IsMap
<1> QED
  BY <1>1, <1>2, <1>3, <1>4 DEF Firewall!Evictable, Firewall!Stay

LEMMA SettleRefines ==
  ASSUME TypeOK, SessionsInv, NEW c \in CPUs, NEW evicted, TouchSessions(evicted),
         pc[c] = "create", pc' = [pc EXCEPT ![c] = "enforce"], frame' = frame
  PROVE  /\ packetBar[c].stage = "fresh"
         /\ packetBar[c].flow = frame[c].key
         /\ packetBar[c].action = frame[c].action
         /\ Firewall!Settle(c, evicted)
<1>1. packetBar[c].stage = "fresh" /\ packetBar[c].flow = frame[c].key
      /\ packetBar[c].action = frame[c].action
  BY DEF packetBar, InFlightPacket, Stage
<1>2. packetBar'[c] = [flow |-> packetBar[c].flow, stage |-> "decided",
                       action |-> packetBar[c].action, forgotten |-> FALSE]
  BY <1>1 DEF packetBar, InFlightPacket, Stage, TypeOK
<1>3. ASSUME NEW d \in CPUs, d # c
      PROVE  packetBar'[d] =
               IF packetBar[d].stage = "known" /\ packetBar[d].flow \in evicted
               THEN [flow |-> packetBar[d].flow, stage |-> "known",
                     action |-> packetBar[d].action, forgotten |-> TRUE]
               ELSE packetBar[d]
  <2>1. pc'[d] = pc[d] /\ frame'[d] = frame[d]
    BY <1>3 DEF TypeOK
  <2>2. touched'[d].session =
          (touched[d].session \/ (pc[d] = "hot" /\ frame[d].key \in evicted))
    BY Forgotten
  <2>3. packetBar[d].stage = "known" <=> pc[d] = "hot"
    BY DEF packetBar, InFlightPacket, Stage, TypeOK, PC
  <2>4. CASE pc[d] = "hot" /\ frame[d].key \in evicted
    BY <2>1, <2>2, <2>4 DEF packetBar, InFlightPacket, Stage
  <2>5. CASE ~(pc[d] = "hot" /\ frame[d].key \in evicted)
    <3>1. touched'[d].session = touched[d].session
      BY <2>2, <2>5 DEF TypeOK, Touched
    <3>2. packetBar'[d] = packetBar[d]
      BY <2>1, <3>1, PacketBarSame DEF SamePacket
    <3>3. pc[d] = "hot" => packetBar[d].flow = frame[d].key
      BY DEF packetBar, InFlightPacket
    <3> QED
      BY <2>3, <2>5, <3>2, <3>3
  <2> QED
    BY <2>4, <2>5
<1>4. packetBar' = [d \in CPUs |-> packetBar'[d]]
  BY DEF packetBar
<1> QED
  BY <1>1, <1>2, <1>3, <1>4 DEF Firewall!Settle

LEMMA DeclineRefines ==
  ASSUME TypeOK, SessionsInv, NEW c \in CPUs, RefuseSession(c)
  PROVE  \E gone \in SUBSET FlowKeys : Firewall!Decline(c, gone)
<1>1. PICK evicted \in Evictions :
        /\ ~Inserts(frame[c].key, evicted)
        /\ session_map' = Without(session_map, evicted)
        /\ TouchSessions(evicted)
  BY DEF RefuseSession
<1>2. /\ pc[c] = "create" /\ pc' = [pc EXCEPT ![c] = "enforce"] /\ frame' = frame
      /\ stats_map' = stats_map /\ flow_events' = flow_events /\ ret' = ret
  BY DEF RefuseSession
<1>3. /\ packetBar[c].stage = "fresh" /\ packetBar[c].flow = frame[c].key
      /\ Firewall!Settle(c, evicted)
  BY <1>1, <1>2, SettleRefines
<1>4. packetBar[c].flow \in Firewall!Stay(evicted) \/ (Firewall!Full /\ evicted = {})
  BY <1>1, <1>3, EvictionsAllowed DEF Inserts
<1>5. sessionsBar' = [f \in Firewall!Stay(evicted) |-> sessionsBar[f]]
  BY <1>1, EvictionsAllowed DEF sessionsBar, Without
<1>6. reportsBar' = reportsBar /\ verdictBar' = verdictBar
      /\ passedBar' = passedBar /\ droppedBar' = droppedBar
  BY <1>2 DEF reportsBar, verdictBar, passedBar, droppedBar
<1> QED
  BY <1>1, <1>3, <1>4, <1>5, <1>6, EvictionsAllowed DEF Firewall!Decline

LEMMA ReportsCounted ==
  ASSUME TypeOK
  PROVE  /\ reportsBar \in Seq([flow : {x.key : x \in Event}, action : Action])
         /\ Len(reportsBar) = Len(flow_events)
<1> DEFINE R == [flow : {x.key : x \in Event}, action : Action]
<1>1. /\ Len(flow_events) \in Nat /\ DOMAIN flow_events = 1 .. Len(flow_events)
      /\ \A n \in 1 .. Len(flow_events) : flow_events[n] \in Event
  BY DEF TypeOK
<1>2. reportsBar \in [1 .. Len(flow_events) -> R]
  BY <1>1 DEF reportsBar, Event
<1>3. reportsBar \in Seq(R)
  BY ZenonT(30), <1>1, <1>2, SeqDef
<1>4. Len(reportsBar) = Len(flow_events)
  <2> HIDE DEF R
  <2> QED
    BY <1>1, <1>2, <1>3, LenProperties
<1> QED
  BY <1>3, <1>4

LEMMA ReportAppended ==
  ASSUME TypeOK, NEW e, flow_events' = Append(flow_events, e)
  PROVE  reportsBar' = Append(reportsBar, [flow |-> e.key, action |-> e.action])
<1>1. flow_events \in Seq(Event)
  BY DEF TypeOK
<1>2. /\ Len(flow_events) \in Nat /\ DOMAIN flow_events = 1 .. Len(flow_events)
      /\ DOMAIN flow_events' = 1 .. (Len(flow_events) + 1)
      /\ \A n \in DOMAIN flow_events : flow_events'[n] = flow_events[n]
      /\ flow_events'[Len(flow_events) + 1] = e
  BY <1>1
<1> QED
  BY <1>2, ReportsCounted DEF reportsBar

LEMMA KeepRefines ==
  ASSUME TypeOK, SessionsInv, TypeOK', SessionsInv', NEW c \in CPUs, CreateSession(c)
  PROVE  \E gone \in SUBSET FlowKeys : Firewall!Keep(c, gone)
<1> DEFINE key == frame[c].key
<1>1. PICK evicted \in Evictions :
        /\ Inserts(frame[c].key, evicted)
        /\ \E e \in Free(Without(session_map, evicted)) :
             session_map' = Put(Without(session_map, evicted), frame[c].key,
                                NewSession(frame[c], e))
        /\ TouchSessions(evicted)
  BY DEF CreateSession
<1>2. /\ pc[c] = "create" /\ pc' = [pc EXCEPT ![c] = "enforce"] /\ frame' = frame
      /\ update_stats(c, "NEW_SESSIONS") /\ ret' = ret
      /\ flow_events' = IF Reported(frame[c].action) /\ Len(flow_events) < RING_CAPACITY
                        THEN Append(flow_events, FlowEvent(frame[c]))
                        ELSE flow_events
  BY DEF CreateSession
<1>3. /\ packetBar[c].stage = "fresh"
      /\ packetBar[c].flow = key
      /\ packetBar[c].action = frame[c].action
      /\ Firewall!Settle(c, evicted)
  BY <1>1, <1>2, SettleRefines
<1>4. /\ Firewall!Evictable(evicted) /\ evicted \in SUBSET FlowKeys
      /\ Firewall!Stay(evicted) = DOMAIN session_map \ evicted
  BY EvictionsAllowed
<1>5. key \notin Firewall!Stay(evicted)
  BY <1>1, <1>4 DEF Inserts
<1>6. /\ DOMAIN session_map' = (DOMAIN session_map \ evicted) \cup {key}
      /\ \A k \in DOMAIN session_map \ evicted : session_map'[k] = session_map[k]
      /\ session_map'[key].policy_action = frame[c].action
  <2>1. PICK e : session_map' = Put(Without(session_map, evicted), key,
                                    NewSession(frame[c], e))
    BY <1>1
  <2>2. DOMAIN session_map' = (DOMAIN session_map \ evicted) \cup {key}
        /\ session_map'[key] = NewSession(frame[c], e)
    BY <2>1 DEF Put, Without
  <2>3. \A k \in DOMAIN session_map \ evicted : session_map'[k] = session_map[k]
    BY <1>4, <1>5, <2>1 DEF Put, Without
  <2> QED
    BY <2>2, <2>3 DEF NewSession
<1>7. Firewall!Cardinality(Firewall!Stay(evicted) \cup {key}) <= Cardinality(SessionElements)
  <2>1. Cardinality(DOMAIN session_map') <= Cardinality(SessionElements)
    <3>1. IsMap(session_map', FlowKeys, SessionValue)
      BY DEF TypeOK
    <3>2. \A k, l \in DOMAIN session_map' :
            session_map'[k].elem = session_map'[l].elem => k = l
      BY DEF SessionsInv, ElementsOwned
    <3> QED
      BY <3>1, <3>2, SessionsBounded
  <2> QED
    BY <1>4, <1>6, <2>1, SameCardinality
<1>8. sessionsBar' = [f \in Firewall!Stay(evicted) \cup {key} |->
                       IF f = key THEN frame[c].action ELSE sessionsBar[f]]
  BY <1>4, <1>5, <1>6 DEF sessionsBar
<1>9. reportsBar' = IF frame[c].action \in {POLICY_ACTION_DENY, POLICY_ACTION_LOG}
                       /\ Len(reportsBar) < RING_CAPACITY
                    THEN Append(reportsBar, [flow |-> key, action |-> frame[c].action])
                    ELSE reportsBar
  <2>1. Len(reportsBar) = Len(flow_events)
    BY ReportsCounted
  <2>2. flow_events' = flow_events => reportsBar' = reportsBar
    BY DEF reportsBar
  <2>3. FlowEvent(frame[c]).key = key /\ FlowEvent(frame[c]).action = frame[c].action
    BY DEF FlowEvent
  <2> QED
    BY <1>2, <2>1, <2>2, <2>3, ReportAppended DEF Reported
<1>10. verdictBar' = verdictBar /\ passedBar' = passedBar /\ droppedBar' = droppedBar
  <2>1. SameCounts
    BY <1>2, OtherCounts DEF StatsKey
  <2> QED
    BY <1>2, <2>1 DEF verdictBar, passedBar, droppedBar, SameCounts
<1>11. Firewall!Keep(c, evicted)
  BY <1>3, <1>4, <1>5, <1>7, <1>8, <1>9, <1>10 DEF Firewall!Keep
<1> QED
  BY <1>4, <1>11

LEMMA TakeRefines ==
  ASSUME TypeOK, MonitorFlowEvents
  PROVE  Firewall!TakeReport
<1> USE DEF tables
<1>1. flow_events # <<>> /\ flow_events' = Tail(flow_events) /\ flow_events \in Seq(Event)
  BY DEF MonitorFlowEvents, TypeOK
<1>2. /\ Len(flow_events) \in Nat \ {0} /\ DOMAIN flow_events = 1 .. Len(flow_events)
      /\ flow_events' \in Seq(Event) /\ DOMAIN flow_events' = 1 .. (Len(flow_events) - 1)
      /\ \A n \in 1 .. (Len(flow_events) - 1) : flow_events'[n] = flow_events[n + 1]
  BY <1>1
<1>3. /\ reportsBar \in Seq([flow : {x.key : x \in Event}, action : Action])
      /\ Len(reportsBar) = Len(flow_events)
  BY ReportsCounted
<1>4. reportsBar # <<>>
  BY <1>2, <1>3
<1>5. reportsBar' = Tail(reportsBar)
  <2>1. reportsBar' = [n \in 1 .. (Len(flow_events) - 1) |->
                        [flow |-> flow_events[n + 1].key,
                         action |-> flow_events[n + 1].action]]
    BY <1>2 DEF reportsBar
  <2>2. \A n \in 1 .. (Len(flow_events) - 1) :
          reportsBar[n + 1] = [flow |-> flow_events[n + 1].key,
                               action |-> flow_events[n + 1].action]
    BY <1>2 DEF reportsBar
  <2>3. PICK R : reportsBar \in Seq(R)
    BY <1>3
  <2>4. /\ Tail(reportsBar) \in [1 .. (Len(flow_events) - 1) -> R]
        /\ \A n \in 1 .. (Len(flow_events) - 1) : Tail(reportsBar)[n] = reportsBar[n + 1]
    BY <1>3, <1>4, <2>3, HeadTailProperties, LenProperties
  <2> QED
    BY <2>1, <2>2, <2>4
<1>6. session_map' = session_map /\ ret' = ret /\ stats_map' = stats_map
      /\ pc' = pc /\ frame' = frame /\ touched' = touched
  BY DEF MonitorFlowEvents
<1>7. packetBar' = packetBar
  BY <1>6 DEF packetBar, InFlightPacket, Stage
<1> QED
  BY <1>4, <1>5, <1>6, <1>7
     DEF Firewall!TakeReport, sessionsBar, verdictBar, passedBar, droppedBar

-----------------------------------------------------------------------------
(***************************************************************************)
(* Steps the firewall does not see.                                        *)
(***************************************************************************)
LEMMA LookupHidden ==
  ASSUME TypeOK, SessionsInv, NEW c \in CPUs, LookupExact(c) \/ ScanSlot(c)
  PROVE  UNCHANGED Firewall!vars
<1>1. /\ session_map' = session_map /\ flow_events' = flow_events /\ ret' = ret
      /\ stats_map' = stats_map /\ touched' = touched
      /\ pc[c] \in {"lookup", "scan"} /\ pc'[c] \in {"hit", "scan"}
      /\ \A d \in CPUs \ {c} : pc'[d] = pc[d]
  BY DEF LookupExact, ScanSlot, TypeOK
<1>2. \A d \in CPUs \ {c} : frame'[d] = frame[d]
  BY DEF LookupExact, ScanSlot, TypeOK
<1>3. frame'[c].key = frame[c].key
  <2>1. frame[c] \in Frame
    BY DEF TypeOK
  <2>2. CASE LookupExact(c)
    <3>1. \/ frame'[c] = [frame[c] EXCEPT !.elem = policy_map[frame[c].key].elem,
                                         !.count = policy_map[frame[c].key].hit_count,
                                         !.exact = TRUE]
          \/ frame'[c] = frame[c]
      BY <2>2 DEF LookupExact, TypeOK
    <3> QED
      BY <2>1, <3>1 DEF Frame
  <2>3. CASE ScanSlot(c)
    <3>1. PICK w \in Readings(frame[c].i) :
            frame' = [frame EXCEPT ![c] =
              IF Hits(frame[c].key, w) /\ Better(frame[c], w)
              THEN [frame[c] EXCEPT !.best = frame[c].i, !.best_priority = w.priority,
                                    !.i = frame[c].i + 1]
              ELSE [frame[c] EXCEPT !.i = frame[c].i + 1]]
      BY <2>3 DEF ScanSlot
    <3>2. \/ frame'[c] = [frame[c] EXCEPT !.best = frame[c].i,
                              !.best_priority = w.priority, !.i = frame[c].i + 1]
          \/ frame'[c] = [frame[c] EXCEPT !.i = frame[c].i + 1]
      BY <3>1 DEF TypeOK
    <3> QED
      BY <2>1, <3>2 DEF Frame
  <2> QED
    BY <2>2, <2>3
<1>4. packetBar'[c] = packetBar[c]
  BY <1>1, <1>3 DEF packetBar, InFlightPacket, Stage
<1>5. \A d \in CPUs \ {c} : packetBar'[d] = packetBar[d]
  BY <1>1, <1>2, PacketBarSame DEF SamePacket
<1>6. packetBar' = packetBar
  BY <1>4, <1>5 DEF packetBar
<1> QED
  BY <1>1, <1>6, Stutter DEF SameCounts

LEMMA PoliciesHidden ==
  ASSUME TypeOK, UserSpace
  PROVE  UNCHANGED Firewall!vars \/ Firewall!TakeReport
<1> USE DEF tables, kernel
<1>1. CASE MonitorFlowEvents
  BY <1>1, TakeRefines
<1>2. CASE ~MonitorFlowEvents
  <2>1. /\ session_map' = session_map /\ flow_events' = flow_events /\ ret' = ret
        /\ stats_map' = stats_map /\ pc' = pc /\ frame' = frame
    BY <1>2 DEF UserSpace, addExactPolicy, DeletePolicy, addWildcardPolicy, WildcardWritten
  <2>2. \A d \in CPUs : packetBar'[d] = packetBar[d]
    BY <2>1, UserTouches, PacketBarSame DEF SamePacket
  <2>3. packetBar' = packetBar
    BY <2>2 DEF packetBar
  <2> QED
    BY <2>1, <2>3, Stutter DEF SameCounts
<1> QED
  BY <1>1, <1>2

LEMMA IgnoreRefines ==
  ASSUME TypeOK, NEW c \in CPUs, ReceiveUnparsed(c)
  PROVE  Firewall!Ignore(c)
<1> USE DEF tables
<1>1. TC_ACT_OK # TC_ACT_SHOT
  BY DEF TC_ACT_OK, TC_ACT_SHOT
<1>2. verdictBar' = [verdictBar EXCEPT ![c] = "pass"]
  BY <1>1 DEF verdictBar, ReceiveUnparsed, TypeOK
<1>3. packetBar[c] = Firewall!NoPacket
  BY DEF packetBar, ReceiveUnparsed, Firewall!NoPacket
<1>4. /\ session_map' = session_map /\ flow_events' = flow_events
      /\ stats_map' = stats_map /\ pc' = pc /\ frame' = frame /\ touched' = touched
  BY DEF ReceiveUnparsed
<1>5. packetBar' = packetBar
  BY <1>4 DEF packetBar, InFlightPacket, Stage
<1> QED
  BY <1>2, <1>3, <1>4, <1>5
     DEF Firewall!Ignore, sessionsBar, reportsBar, passedBar, droppedBar

-----------------------------------------------------------------------------
LEMMA StepRefines ==
  ASSUME TypeOK, SessionsInv, TypeOK', SessionsInv', [Next]_vars
  PROVE  [Firewall!Next]_(Firewall!vars)
<1>1. ASSUME NEW c \in CPUs, Receive(c) \/ Step(c)
      PROVE  Firewall!Handle(c) \/ UNCHANGED Firewall!vars
  <2>1. CASE ReceiveUnparsed(c)
    BY <2>1, IgnoreRefines DEF Firewall!Handle
  <2>2. CASE ReceivePacket(c)
    BY <2>2, ReceiveRefines DEF Firewall!Handle
  <2>3. CASE HotLoad(c)
    BY <2>3, RecallRefines DEF Firewall!Handle
  <2>4. CASE HotPath(c)
    <3>1. pc[c] \in {"cached", "enforce"} /\ Enforce(c, frame[c].action)
          /\ flow_events' = flow_events
      BY <2>4 DEF HotPath
    <3> QED
      BY <2>4, <3>1, HotPathSessions, FinishRefines DEF Firewall!Handle
  <2>5. CASE LookupExact(c) \/ ScanSlot(c)
    BY <2>5, LookupHidden
  <2>6. CASE BumpHit(c) \/ ScanDone(c)
    BY <2>6, JudgeRefines DEF Firewall!Handle
  <2>7. CASE CreateSession(c)
    BY <2>7, KeepRefines DEF Firewall!Handle
  <2>8. CASE RefuseSession(c)
    BY <2>8, DeclineRefines DEF Firewall!Handle
  <2>9. CASE EnforceNew(c)
    <3>1. pc[c] \in {"cached", "enforce"} /\ Enforce(c, frame[c].action)
          /\ flow_events' = flow_events /\ session_map' = session_map
      BY <2>9 DEF EnforceNew
    <3>2. sessionsBar' = sessionsBar
      BY <3>1 DEF sessionsBar
    <3> QED
      BY <3>1, <3>2, FinishRefines DEF Firewall!Handle
  <2> QED
    BY <1>1, <2>1, <2>2, <2>3, <2>4, <2>5, <2>6, <2>7, <2>8, <2>9 DEF Receive, Step
<1>2. CASE UserSpace
  BY <1>2, PoliciesHidden DEF Firewall!Next
<1>3. CASE UNCHANGED vars
  <2>1. packetBar' = packetBar
    BY <1>3 DEF vars, packetBar, InFlightPacket, Stage
  <2> QED
    BY <1>3, <2>1, Stutter DEF vars, SameCounts
<1> QED
  BY <1>1, <1>2, <1>3 DEF Next, Firewall!Next

(***************************************************************************)
(* The packet filter (tc_microsegment_filter with its maps, on any number  *)
(* of CPUs, with user space changing the policies) implements the stateful *)
(* firewall: whatever element a pointer on the hot path leads to, a packet *)
(* gets the verdict its flow's session keeps unless that was evicted.      *)
(***************************************************************************)
THEOREM FilterIsStatefulFirewall == Spec => Implements
<1>1. TypeOK /\ SessionsInv /\ TypeOK' /\ SessionsInv' /\ [Next]_vars
        => [Firewall!Next]_(Firewall!vars)
  BY StepRefines
<1> QED
  BY <1>1, InitRefines, InitTyped, StepTyped, InitSessions, StepSessions, PTL
     DEF Spec, Implements, Firewall!Spec
=============================================================================
