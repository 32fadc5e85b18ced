----------------------------- MODULE EventProofs -----------------------------
(***************************************************************************)
(* What the events of the packet filter tell, for every number of CPUs,    *)
(* flows, policies and table sizes.                                        *)
(***************************************************************************)
EXTENDS RefinementProofs

-----------------------------------------------------------------------------
(***************************************************************************)
(* A packet may report as long as create_session has not returned.  The    *)
(* clock gives each packet a time of its own, so no event in the buffer    *)
(* has the time of a packet that may still report.                         *)
(***************************************************************************)
Undecided(c) == pc[c] \in {"lookup", "hit", "scan", "create"}

OwnTimes ==
  /\ \A c \in CPUs : Undecided(c) => frame[c].now <= ktime
  /\ \A c, d \in CPUs : Undecided(c) /\ Undecided(d) /\ frame[c].now = frame[d].now
                          => c = d

OwnEvents ==
  \A n \in DOMAIN flow_events :
    /\ flow_events[n].timestamp <= ktime
    /\ \A c \in CPUs : Undecided(c) => frame[c].now # flow_events[n].timestamp

EventInv == OwnTimes /\ OwnEvents /\ EventsTellSessions

Roomy == Cardinality(FlowKeys) < Cardinality(SessionElements)

Recorded(map, e) ==
  /\ e.key \in DOMAIN map
  /\ map[e.key].created_ts = e.timestamp
  /\ map[e.key].policy_action = e.action

\* With more elements than flows nothing is ever evicted.
LEMMA FewFlows ==
  ASSUME IsFiniteSet(FlowKeys), TypeOK, SessionsInv, Roomy
  PROVE  ~SessionsFull
<1>1. DOMAIN session_map \in SUBSET FlowKeys /\ IsMap(session_map, FlowKeys, SessionValue)
  BY DEF TypeOK, IsMap
<1>2. /\ IsFiniteSet(DOMAIN session_map)
      /\ Cardinality(DOMAIN session_map) <= Cardinality(FlowKeys)
  BY <1>1, FS_Subset
<1>3. Free(session_map) = {} <=>
        Cardinality(DOMAIN session_map) >= Cardinality(SessionElements)
  BY <1>1, SessionsBounded DEF SessionsInv, ElementsOwned
<1>4. /\ Cardinality(DOMAIN session_map) \in Nat /\ Cardinality(FlowKeys) \in Nat
      /\ Cardinality(SessionElements) \in Nat
  BY <1>2, FS_CardinalityType, CapacityAssumption
<1> QED
  BY <1>2, <1>3, <1>4 DEF SessionsFull, Roomy

LEMMA RecordStays ==
  ASSUME IsFiniteSet(FlowKeys), TypeOK, SessionsInv, Sticks, Roomy,
         NEW e, Recorded(session_map, e)
  PROVE  Recorded(session_map', e)
BY FewFlows DEF Sticks, Recorded

-----------------------------------------------------------------------------
(***************************************************************************)
(* The events in the buffer change in three ways: not at all, by the loss  *)
(* of the first, by one more.                                              *)
(***************************************************************************)
\* The packets that may report are those that might before, unchanged.
Onward ==
  /\ ktime' = ktime
  /\ \A d \in CPUs : Undecided(d)' => Undecided(d) /\ frame'[d].now = frame[d].now

LEMMA OnwardTimes ==
  ASSUME OwnTimes, Onward
  PROVE  OwnTimes'
BY DEF OwnTimes, Onward

LEMMA QuietKeepsEvents ==
  ASSUME IsFiniteSet(FlowKeys), TypeOK, SessionsInv, Sticks, EventInv,
         Onward, UNCHANGED flow_events
  PROVE  EventInv'
<1>1. OwnTimes' /\ OwnEvents'
  BY OnwardTimes DEF EventInv, OwnEvents, Onward
<1>2. EventsTellSessions'
  BY RecordStays DEF EventInv, EventsTellSessions, Recorded, Roomy
<1> QED
  BY <1>1, <1>2 DEF EventInv

LEMMA ReceiveKeepsEvents ==
  ASSUME IsFiniteSet(FlowKeys), TypeOK, SessionsInv, Sticks, EventInv,
         NEW c \in CPUs, ReceivePacket(c)
  PROVE  EventInv'
<1>1. ktime \in Nat /\ ktime' = ktime + 1 /\ UNCHANGED flow_events
  BY DEF TypeOK, ReceivePacket
<1>2. \A d \in CPUs \ {c} : pc'[d] = pc[d] /\ frame'[d] = frame[d]
  BY DEF TypeOK, ReceivePacket
<1>3. frame'[c].now = ktime + 1
  BY ZenonT(30) DEF TypeOK, ReceivePacket, ZeroFrame
<1>4. \A d \in CPUs : frame[d].now \in Nat
  BY DEF TypeOK, Frame
<1>5. \A n \in DOMAIN flow_events : flow_events[n].timestamp \in Nat
  <2>1. flow_events \in Seq(Event)
    BY DEF TypeOK
  <2>2. \A n \in DOMAIN flow_events : flow_events[n] \in Event
    BY <2>1
  <2> QED
    BY <2>2 DEF Event
<1>6. \A d \in CPUs \ {c} : Undecided(d)' <=> Undecided(d)
  BY <1>2 DEF Undecided
<1>7. OwnTimes'
  BY <1>1, <1>2, <1>3, <1>4, <1>6 DEF EventInv, OwnTimes
<1>8. OwnEvents'
  BY <1>1, <1>2, <1>3, <1>4, <1>5, <1>6 DEF EventInv, OwnEvents
<1>9. EventsTellSessions'
  BY <1>1, RecordStays DEF EventInv, EventsTellSessions, Recorded, Roomy
<1> QED
  BY <1>7, <1>8, <1>9 DEF EventInv

LEMMA MonitorKeepsEvents ==
  ASSUME TypeOK, EventInv, MonitorFlowEvents
  PROVE  EventInv'
<1>1. /\ flow_events \in Seq(Event) /\ flow_events # <<>>
      /\ flow_events' = Tail(flow_events)
      /\ UNCHANGED <<session_map, pc, frame, ktime>>
  BY DEF TypeOK, MonitorFlowEvents
<1>2. \A n \in DOMAIN flow_events' :
        n \in Nat /\ n + 1 \in DOMAIN flow_events /\ flow_events'[n] = flow_events[n + 1]
  BY <1>1
<1>3. OwnTimes'
  BY <1>1 DEF EventInv, OwnTimes, Undecided
<1>4. OwnEvents'
  BY <1>1, <1>2 DEF EventInv, OwnEvents, Undecided
<1>5. EventsTellSessions'
  BY <1>1, <1>2 DEF EventInv, EventsTellSessions
<1> QED
  BY <1>3, <1>4, <1>5 DEF EventInv

\* create_session stores the session and reports it in one step.
LEMMA CreateKeepsEvents ==
  ASSUME IsFiniteSet(FlowKeys), TypeOK, SessionsInv, Sticks, EventInv,
         NEW c \in CPUs, CreateSession(c)
  PROVE  EventInv'
<1> DEFINE e == FlowEvent(frame[c])
<1>1. /\ pc[c] = "create" /\ pc' = [pc EXCEPT ![c] = "enforce"]
      /\ UNCHANGED <<frame, ktime>>
  BY DEF CreateSession
<1>2. \A d \in CPUs : Undecided(d)' => Undecided(d) /\ d # c
  BY <1>1 DEF Undecided, TypeOK
<1>3. Onward
  BY <1>1, <1>2 DEF Onward
<1>4. CASE flow_events' = flow_events
  BY <1>3, <1>4, QuietKeepsEvents
<1>5. CASE Reported(frame[c].action) /\ flow_events' = Append(flow_events, e)
  <2>1. /\ flow_events \in Seq(Event) /\ Len(flow_events) \in Nat
        /\ DOMAIN flow_events = 1 .. Len(flow_events)
        /\ DOMAIN flow_events' = DOMAIN flow_events \cup {Len(flow_events) + 1}
        /\ \A n \in DOMAIN flow_events : flow_events'[n] = flow_events[n]
        /\ flow_events'[Len(flow_events) + 1] = e
    BY <1>5 DEF TypeOK
  <2>2. e.timestamp = frame[c].now /\ e.key = frame[c].key /\ e.action = frame[c].action
    BY DEF FlowEvent
  <2>3. Undecided(c)
    BY <1>1 DEF Undecided
  <2>4. OwnTimes'
    BY <1>3, OnwardTimes DEF EventInv
  <2>5. OwnEvents'
    <3>1. ASSUME NEW n \in DOMAIN flow_events
          PROVE  /\ flow_events'[n].timestamp <= ktime'
                 /\ \A d \in CPUs : Undecided(d)' => frame'[d].now # flow_events'[n].timestamp
      BY <1>1, <1>2, <2>1 DEF EventInv, OwnEvents
    <3>2. /\ e.timestamp <= ktime'
          /\ \A d \in CPUs : Undecided(d)' => frame'[d].now # e.timestamp
      BY <1>1, <1>2, <2>2, <2>3 DEF EventInv, OwnTimes
    <3> QED
      BY <2>1, <3>1, <3>2 DEF OwnEvents
  <2>6. \A n \in DOMAIN flow_events : flow_events[n].timestamp # e.timestamp
    BY <2>2, <2>3 DEF EventInv, OwnEvents
  <2>7. ASSUME Roomy PROVE Recorded(session_map', e)
    <3>1. ~SessionsFull
      BY <2>7, FewFlows
    <3>2. PICK x : session_map' = Put(Without(session_map, {}), frame[c].key,
                                      NewSession(frame[c], x))
      BY <3>1 DEF CreateSession, Evictions
    <3>3. frame[c].key \in DOMAIN session_map'
          /\ session_map'[frame[c].key] = NewSession(frame[c], x)
      BY <3>2 DEF Put
    <3> QED
      BY <2>2, <3>3 DEF Recorded, NewSession
  <2>8. ASSUME NEW n \in DOMAIN flow_events'
        PROVE  /\ Reported(flow_events'[n].action)
               /\ \A m \in DOMAIN flow_events' :
                    flow_events'[m].timestamp = flow_events'[n].timestamp => m = n
               /\ Roomy => Recorded(session_map', flow_events'[n])
    <3>1. CASE n \in DOMAIN flow_events
      <4>1. Reported(flow_events[n].action)
            /\ (Roomy => Recorded(session_map, flow_events[n]))
        BY <3>1 DEF EventInv, EventsTellSessions, Roomy, Recorded
      <4>2. Roomy => Recorded(session_map', flow_events[n])
        BY <4>1, RecordStays
      <4> QED
        BY <2>1, <2>6, <3>1, <4>1, <4>2 DEF EventInv, EventsTellSessions
    <3>2. CASE n = Len(flow_events) + 1
      BY <1>5, <2>1, <2>2, <2>6, <2>7, <3>2
    <3> QED
      BY <2>1, <3>1, <3>2
  <2>9. EventsTellSessions'
    BY <2>8 DEF EventsTellSessions, Roomy, Recorded
  <2> QED
    BY <2>4, <2>5, <2>9 DEF EventInv
<1> QED
  BY <1>4, <1>5 DEF CreateSession

-----------------------------------------------------------------------------
\* A packet never goes back to where it may report, nor takes another time.
LEMMA OwnStepOnward ==
  ASSUME NEW c \in CPUs, ktime' = ktime,
         \A d \in CPUs \ {c} : pc'[d] = pc[d] /\ frame'[d] = frame[d],
         Undecided(c)' => Undecided(c) /\ frame'[c].now = frame[c].now
  PROVE  Onward
BY DEF Onward, Undecided

LEMMA StepOnward ==
  ASSUME TypeOK, NEW c \in CPUs, Step(c), ~CreateSession(c)
  PROVE  Onward /\ UNCHANGED flow_events
<1> USE DEF Undecided
<1>0. /\ pc \in [CPUs -> PC] /\ frame \in [CPUs -> Frame] /\ frame[c] \in Frame
  BY DEF TypeOK
<1>1. CASE HotLoad(c)
  BY <1>0, <1>1, OwnStepOnward DEF HotLoad
<1>2. CASE HotPath(c)
  BY <1>0, <1>2, OwnStepOnward DEF HotPath, Enforce
<1>3. CASE LookupExact(c)
  <2>1. /\ pc[c] = "lookup" /\ UNCHANGED <<ktime, flow_events>>
        /\ \A d \in CPUs \ {c} : pc'[d] = pc[d] /\ frame'[d] = frame[d]
    BY <1>0, <1>3 DEF LookupExact
  <2>2. frame'[c].now = frame[c].now
    <3> DEFINE policy == policy_map[frame[c].key]
               f == [frame[c] EXCEPT !.elem = policy.elem, !.count = policy.hit_count,
                                     !.exact = TRUE]
    <3>1. f.now = frame[c].now
      BY <1>0 DEF Frame
    <3>2. frame' = frame \/ frame' = [frame EXCEPT ![c] = f]
      BY <1>3 DEF LookupExact
    <3> HIDE DEF f
    <3> QED
      BY <1>0, <3>1, <3>2
  <2> QED
    BY <2>1, <2>2, OwnStepOnward
<1>4. CASE BumpHit(c)
  BY <1>0, <1>4, OwnStepOnward DEF BumpHit, Frame
<1>5. CASE ScanSlot(c)
  BY <1>0, <1>5, OwnStepOnward DEF ScanSlot, Frame
<1>6. CASE ScanDone(c)
  BY <1>0, <1>6, OwnStepOnward DEF ScanDone, Frame
<1>7. CASE RefuseSession(c)
  BY <1>0, <1>7, OwnStepOnward DEF RefuseSession
<1>8. CASE EnforceNew(c)
  BY <1>0, <1>8, OwnStepOnward DEF EnforceNew, Enforce
<1> QED
  BY <1>1, <1>2, <1>3, <1>4, <1>5, <1>6, <1>7, <1>8 DEF Step

LEMMA ElsewhereOnward ==
  ASSUME \/ UserSpace /\ ~MonitorFlowEvents
         \/ \E c \in CPUs : ReceiveUnparsed(c)
         \/ UNCHANGED vars
  PROVE  Onward /\ UNCHANGED flow_events
BY DEF Onward, Undecided, UserSpace, addExactPolicy, DeletePolicy,
       addWildcardPolicy, WildcardWritten, ReceiveUnparsed, vars, kernel

LEMMA InitEvents == Init => EventInv
BY DEF Init, EventInv, OwnTimes, OwnEvents, EventsTellSessions, Undecided

LEMMA StepEvents ==
  ASSUME IsFiniteSet(FlowKeys), TypeOK, SessionsInv, EventInv, [Next]_vars
  PROVE  EventInv'
<1>1. Sticks
  BY StepSticks
<1>2. CASE \E c \in CPUs : ReceivePacket(c)
  BY <1>1, <1>2, ReceiveKeepsEvents
<1>3. CASE \E c \in CPUs : CreateSession(c)
  BY <1>1, <1>3, CreateKeepsEvents
<1>4. CASE MonitorFlowEvents
  BY <1>4, MonitorKeepsEvents
<1>5. CASE \E c \in CPUs : Step(c) /\ ~CreateSession(c)
  BY <1>1, <1>5, StepOnward, QuietKeepsEvents
<1>6. CASE \/ UserSpace /\ ~MonitorFlowEvents
           \/ \E c \in CPUs : ReceiveUnparsed(c)
           \/ UNCHANGED vars
  BY <1>1, <1>6, ElsewhereOnward, QuietKeepsEvents
<1> QED
  BY <1>2, <1>3, <1>4, <1>5, <1>6 DEF Next, Receive

(***************************************************************************)
(* Events tell of sessions that were created (create_session and its       *)
(* callers): no packet is reported twice, the loser of a race for a flow   *)
(* reports nothing, and while there are more elements than flows the       *)
(* session an event tells of is stored, with its time and its action.      *)
(***************************************************************************)
THEOREM EventsAreTrue ==
  ASSUME IsFiniteSet(FlowKeys)
  PROVE  Spec => []EventsTellSessions
<1>1. Init => TypeOK /\ SessionsInv /\ EventInv
  BY InitTyped, InitSessions, InitEvents
<1>2. TypeOK /\ SessionsInv /\ EventInv /\ [Next]_vars
        => (TypeOK /\ SessionsInv /\ EventInv)'
  BY StepTyped, StepSessions, StepEvents
<1>3. EventInv => EventsTellSessions
  BY DEF EventInv
<1> QED
  BY <1>1, <1>2, <1>3, PTL DEF Spec
=============================================================================
