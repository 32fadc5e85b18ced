-------------------------- MODULE StatefulFirewall --------------------------
(***************************************************************************)
(* What the packet filter promises, without its maps, pointers, policies   *)
(* and loops: a flow is judged once and the judgement is kept in a session *)
(* of bounded number; packets of a flow that has a session are treated     *)
(* alike, unless the session was evicted under the packet to make room;    *)
(* and what was kept as denied or logged is reported once, while there is  *)
(* room for reports.  DataPathRefinement shows that DataPath does this.    *)
(***************************************************************************)
EXTENDS Integers, Sequences, FiniteSets

CONSTANTS CPUs,      \* where packets are handled
          Flows,     \* the flows there are
          Actions,   \* the judgements there are
          Denying,   \* those that drop the packet
          Reportable, \* those that are reported
          Capacity,  \* how many sessions can be kept
          Room       \* how many reports can wait

VARIABLES sessions,  \* flow -> judgement, a partial function
          packet,    \* the packet in flight on each CPU
          verdict,   \* what became of the last packet of each CPU
          passed,    \* packets passed by each CPU
          dropped,   \* packets dropped by each CPU
          reports    \* reports that wait to be taken

vars == <<sessions, packet, verdict, passed, dropped, reports>>

NoPacket  == [stage |-> "none"]
Undecided == -1

Full == Cardinality(DOMAIN sessions) >= Capacity

Init ==
  /\ sessions = [f \in {} |-> {}]
  /\ packet = [c \in CPUs |-> NoPacket]
  /\ verdict = [c \in CPUs |-> "pass"]
  /\ passed = [c \in CPUs |-> 0]
  /\ dropped = [c \in CPUs |-> 0]
  /\ reports = <<>>

-----------------------------------------------------------------------------
(***************************************************************************)
(* A packet without a flow passes; any other one is of a flow that has a   *)
(* session ("known") or of one that has none ("new").                      *)
(***************************************************************************)
Ignore(c) ==
  /\ packet[c] = NoPacket
  /\ verdict' = [verdict EXCEPT ![c] = "pass"]
  /\ UNCHANGED <<sessions, packet, passed, dropped, reports>>

Arrive(c, f) ==
  /\ packet[c] = NoPacket
  /\ packet' = [packet EXCEPT ![c] =
       [flow |-> f, stage |-> IF f \in DOMAIN sessions THEN "known" ELSE "new",
        action |-> Undecided, forgotten |-> FALSE]]
  /\ UNCHANGED <<sessions, verdict, passed, dropped, reports>>

Recall(c) ==
  /\ packet[c].stage = "known"
  /\ \E a \in Actions :
       /\ ~packet[c].forgotten => a = sessions[packet[c].flow]
       /\ packet' = [packet EXCEPT ![c] =
            [flow |-> packet[c].flow, stage |-> "decided", action |-> a,
             forgotten |-> FALSE]]
  /\ UNCHANGED <<sessions, verdict, passed, dropped, reports>>

Judge(c) ==
  /\ packet[c].stage = "new"
  /\ \E a \in Actions :
       packet' = [packet EXCEPT ![c] =
         [flow |-> packet[c].flow, stage |-> "fresh", action |-> a,
          forgotten |-> FALSE]]
  /\ UNCHANGED <<sessions, verdict, passed, dropped, reports>>

-----------------------------------------------------------------------------
(***************************************************************************)
(* A fresh judgement is kept, at the price of some other sessions when     *)
(* there is no room; or it is not kept, because the flow has a session by  *)
(* now or because no room could be made.                                   *)
(***************************************************************************)
Evictable(gone) == gone \subseteq DOMAIN sessions /\ (gone # {} => Full)

Stay(gone) == DOMAIN sessions \ gone

\* The packet of c is decided; known packets of evicted flows are marked.
Settle(c, gone) ==
  packet' = [d \in CPUs |->
    IF d = c THEN [flow |-> packet[c].flow, stage |-> "decided",
                   action |-> packet[c].action, forgotten |-> FALSE]
    ELSE IF packet[d].stage = "known" /\ packet[d].flow \in gone
    THEN [flow |-> packet[d].flow, stage |-> "known",
          action |-> packet[d].action, forgotten |-> TRUE]
    ELSE packet[d]]

Keep(c, gone) ==
  /\ packet[c].stage = "fresh"
  /\ Evictable(gone)
  /\ packet[c].flow \notin Stay(gone)
  /\ Cardinality(Stay(gone) \cup {packet[c].flow}) <= Capacity
  /\ sessions' = [f \in Stay(gone) \cup {packet[c].flow} |->
                    IF f = packet[c].flow THEN packet[c].action ELSE sessions[f]]
  /\ reports' = IF packet[c].action \in Reportable /\ Len(reports) < Room
                THEN Append(reports, [flow |-> packet[c].flow,
                                      action |-> packet[c].action])
                ELSE reports
  /\ Settle(c, gone)
  /\ UNCHANGED <<verdict, passed, dropped>>

Decline(c, gone) ==
  /\ packet[c].stage = "fresh"
  /\ Evictable(gone)
  /\ packet[c].flow \in Stay(gone) \/ (Full /\ gone = {})
  /\ sessions' = [f \in Stay(gone) |-> sessions[f]]
  /\ Settle(c, gone)
  /\ UNCHANGED <<verdict, passed, dropped, reports>>

-----------------------------------------------------------------------------
Finish(c) ==
  /\ packet[c].stage = "decided"
  /\ \/ /\ packet[c].action \in Denying
        /\ verdict' = [verdict EXCEPT ![c] = "drop"]
        /\ dropped' = [dropped EXCEPT ![c] = @ + 1]
        /\ UNCHANGED passed
     \/ /\ packet[c].action \notin Denying
        /\ verdict' = [verdict EXCEPT ![c] = "pass"]
        /\ passed' = [passed EXCEPT ![c] = @ + 1]
        /\ UNCHANGED dropped
  /\ packet' = [packet EXCEPT ![c] = NoPacket]
  /\ UNCHANGED <<sessions, reports>>

TakeReport ==
  /\ reports # <<>>
  /\ reports' = Tail(reports)
  /\ UNCHANGED <<sessions, packet, verdict, passed, dropped>>

Handle(c) ==
  \/ Ignore(c)
  \/ \E f \in Flows : Arrive(c, f)
  \/ Recall(c)
  \/ Judge(c)
  \/ \E gone \in SUBSET Flows : Keep(c, gone) \/ Decline(c, gone)
  \/ Finish(c)

Next == (\E c \in CPUs : Handle(c)) \/ TakeReport

Spec == Init /\ [][Next]_vars
=============================================================================
