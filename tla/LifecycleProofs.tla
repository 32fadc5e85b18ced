-------------------------- MODULE LifecycleProofs --------------------------
(***************************************************************************)
(* What agent processes leave on their interface, for any number of them   *)
(* and of requests.                                                        *)
(***************************************************************************)
EXTENDS AgentLifecycle, TLAPS

Loading == {"unborn", "load", "attach", "qdisc", "list", "clean", "filter"}
Running == {"api", "monitor", "notify", "wait", "stop", "drain"}
Closing == {"close", "detach", "release", "return"}
PC      == Loading \cup {"reader", "undo"} \cup Running \cup Closing \cup {"exited"}

State == [pc : PC, mode : {"none", "tcx", "legacy"}, objs : BOOLEAN,
          rbReader : {"none", "open", "closed"}, monitor : BOOLEAN,
          server : {"none", "starting", "listening", "closed"},
          busy : SUBSET Requests, late : BOOLEAN, kept : BOOLEAN,
          exit : {"none", "ended", "killed"}]

Typed ==
  /\ proc \in [Processes -> State]
  /\ legacy \in Processes \cup {Nobody} /\ port \in Processes \cup {Nobody}
  /\ tcx \subseteq Processes /\ alone \subseteq Processes

(***************************************************************************)
(* What a process has on the interface follows from where it is.           *)
(***************************************************************************)
OnHook(r, in_slot, linked) ==
  /\ linked => r.mode = "tcx" /\ r.pc \in Attached
  /\ in_slot => r.mode = "legacy" \/ r.pc = "exited"
  /\ r.pc \in Loading => r.mode = "none"
  /\ r.pc \in Attached => r.mode = "legacy" \/ (r.mode = "tcx" /\ linked)
  /\ r.pc \in {"release", "return"} => (in_slot => r.kept)
  /\ r.exit = "ended" => ~linked /\ (in_slot => r.kept)
  /\ r.exit # "none" <=> r.pc = "exited"

(***************************************************************************)
(* What it has of the API: requests only behind a server that listened.    *)
(***************************************************************************)
OnPort(r, listens) ==
  /\ listens <=> r.server = "listening"
  /\ r.server \in {"starting", "listening"} => r.pc \in Running \ {"api", "drain"}
  /\ r.busy # {} => r.server \in {"listening", "closed"}
  /\ r.server = "closed" => r.pc \in {"drain"} \cup Closing
  /\ r.pc \in {"drain"} \cup Closing => r.server \in {"none", "closed"}
  /\ r.busy # {} /\ ~r.late => r.pc \in Running
  /\ r.pc \in (Loading \ {"unborn", "load"}) \cup Attached => r.objs
  /\ r.pc \in {"detach", "release", "return"} => r.rbReader = "closed"
  /\ r.monitor => r.pc \notin {"unborn", "exited"}

Lonely(p) == p \in alone =>
  /\ proc[p].pc # "unborn"
  /\ Alive(p) => \A q \in Processes : q # p => ~Alive(q)

Owns(p) == p \in alone /\ proc[p].pc \in Attached /\ proc[p].mode = "legacy" => legacy = p

IInv ==
  /\ Typed
  /\ \A p \in Processes : /\ OnHook(proc[p], legacy = p, p \in tcx)
                          /\ OnPort(proc[p], port = p)
                          /\ Lonely(p) /\ Owns(p)

-----------------------------------------------------------------------------
LEMMA InitIInv == Init => IInv
<1> SUFFICES ASSUME Init PROVE IInv
  OBVIOUS
<1>1. Unborn \in State /\ 0 \notin Processes
  BY DEF Unborn, State, PC, Loading, Processes
<1>2. \A p \in Processes : proc[p] = Unborn
  BY DEF Init
<1>3. Typed
  BY <1>1 DEF Init, Typed
<1>4. \A p \in Processes : OnHook(proc[p], legacy = p, p \in tcx) /\ OnPort(proc[p], port = p)
  BY <1>1, <1>2 DEF Init, Nobody, OnHook, OnPort, Unborn, Attached, Loading, Running, Closing
<1>5. \A p \in Processes : Lonely(p) /\ Owns(p)
  BY DEF Init, Lonely, Owns
<1> QED
  BY <1>3, <1>4, <1>5 DEF IInv

(***************************************************************************)
(* The steps of a process, by what they do to its state r: most leave the  *)
(* hook alone.                                                             *)
(***************************************************************************)
Becomes(p, r) == r \in State /\ proc' = [proc EXCEPT ![p] = r]

LEMMA BecomesAt ==
  ASSUME Typed, NEW p \in Processes, NEW r, Becomes(p, r)
  PROVE  /\ proc' \in [Processes -> State] /\ proc'[p] = r
         /\ \A q \in Processes : q # p => proc'[q] = proc[q]
BY DEF Becomes, Typed

LEMMA GotoBecomes ==
  ASSUME Typed, NEW p \in Processes, NEW pc \in PC, Goto(p, pc)
  PROVE  Becomes(p, [proc[p] EXCEPT !.pc = pc])
BY DEF Goto, Becomes, Typed, State

(***************************************************************************)
(* A step of a living process that starts none keeps the invariant if it   *)
(* does at the process itself, and takes the slot or empties it.           *)
(***************************************************************************)
LEMMA StepOf ==
  ASSUME IInv, NEW p \in Processes, NEW r, Becomes(p, r), Alive(p),
         legacy' \in {legacy, Nobody, p}, port' \in {port, Nobody, p},
         tcx' \in {tcx, tcx \cup {p}, tcx \ {p}}, alone' = alone,
         port' = p => port \in {Nobody, p}, port' = Nobody => port \in {Nobody, p},
         OnHook(r, legacy' = p, p \in tcx'), OnPort(r, port' = p),
         p \in alone /\ r.pc \in Attached /\ r.mode = "legacy" => legacy' = p,
         r.pc # "unborn"
  PROVE  IInv'
<1>0. Typed /\ 0 \notin Processes
  BY DEF IInv, Processes
<1>1. proc' \in [Processes -> State] /\ proc'[p] = r
      /\ \A q \in Processes : q # p => proc'[q] = proc[q]
  BY <1>0, BecomesAt
<1>2. Typed'
  BY <1>0, <1>1 DEF Typed
<1>3. ASSUME NEW q \in Processes, q # p
      PROVE  /\ OnHook(proc'[q], legacy' = q, q \in tcx') /\ OnPort(proc'[q], port' = q)
             /\ Lonely(q)' /\ Owns(q)'
  <2>1. OnHook(proc[q], legacy = q, q \in tcx) /\ OnPort(proc[q], port = q)
        /\ Lonely(q) /\ Owns(q)
    BY DEF IInv
  <2>2. (legacy' = q => legacy = q) /\ (q \in tcx' <=> q \in tcx) /\ (port' = q <=> port = q)
    BY <1>0, <1>3 DEF Nobody
  <2>3. OnHook(proc[q], legacy' = q, q \in tcx')
    BY <2>1, <2>2 DEF OnHook
  <2>4. OnPort(proc[q], port' = q)
    BY <2>1, <2>2 DEF OnPort
  <2>5. ~(q \in alone /\ Alive(q))
    BY <1>3, <2>1 DEF Lonely
  <2>6. Lonely(q)' /\ Owns(q)'
    BY <1>1, <1>3, <2>1, <2>5 DEF Lonely, Owns, Alive, Attached
  <2> QED
    BY <1>1, <1>3, <2>3, <2>4, <2>6
<1>4. Lonely(p)'
  <2>1. \A q \in Processes : q # p => (Alive(q)' <=> Alive(q))
    BY <1>1 DEF Alive
  <2>2. Lonely(p)
    BY DEF IInv
  <2> QED
    BY <1>1, <2>1, <2>2 DEF Lonely
<1>5. Owns(p)'
  BY <1>1 DEF Owns
<1> QED
  BY <1>1, <1>2, <1>3, <1>4, <1>5 DEF IInv

LEMMA Here ==
  ASSUME IInv, NEW p \in Processes
  PROVE  /\ proc[p] \in State /\ 0 \notin Processes
         /\ OnHook(proc[p], legacy = p, p \in tcx) /\ OnPort(proc[p], port = p)
         /\ Lonely(p) /\ Owns(p)
BY DEF IInv, Typed, Processes

LEMMA LeaveStep ==
  ASSUME IInv, NEW p \in Processes, Alive(p),
         NEW why \in {"ended", "killed"},
         NEW kept \in BOOLEAN, Leave(p, why, kept),
         legacy' \in {legacy, Nobody}, alone' = alone,
         why = "ended" => (legacy' = p => kept)
  PROVE  IInv'
<1> DEFINE r == Dead(why, kept)
<1>1. r \in State /\ r.pc = "exited" /\ r.mode = "none" /\ r.exit = why /\ r.busy = {}
      /\ r.server = "none" /\ ~r.monitor /\ r.kept = kept
  BY DEF Dead, Unborn, State, PC
<1>2. Becomes(p, r)
  BY <1>1 DEF Becomes, Leave
<1>3. /\ tcx' = tcx \ {p} /\ port' \in {port, Nobody} /\ port' # p
      /\ port' = Nobody => port \in {Nobody, p}
  BY Here DEF Leave, Nobody
<1> HIDE DEF r
<1>4. OnHook(r, legacy' = p, p \in tcx')
  BY <1>1, <1>3 DEF OnHook, Attached, Loading
<1>5. OnPort(r, port' = p)
  BY <1>1, <1>3 DEF OnPort, Running, Closing, Attached, Loading
<1>6. ~(r.pc \in Attached) /\ r.pc # "unborn"
  BY <1>1 DEF Attached
<1> QED
  BY <1>2, <1>3, <1>4, <1>5, <1>6, StepOf

LEMMA ExitStep ==
  ASSUME IInv, NEW p \in Processes, Alive(p),
         NEW why \in {"ended", "killed"}, Exit(p, why),
         UNCHANGED <<legacy, alone>>,
         why = "ended" => (legacy = p => proc[p].kept)
  PROVE  IInv'
<1>1. proc[p].kept \in BOOLEAN
  BY Here DEF State
<1> QED
  BY <1>1, LeaveStep DEF Exit

(***************************************************************************)
(* A step that changes the process alone.                                  *)
(***************************************************************************)
LEMMA StepInside ==
  ASSUME IInv, NEW p \in Processes, NEW r, Becomes(p, r), Alive(p),
         UNCHANGED <<legacy, tcx, port, alone>>,
         OnHook(r, legacy = p, p \in tcx), OnPort(r, port = p),
         r.mode = proc[p].mode,
         r.pc \in Attached => proc[p].pc \in Attached, r.pc # "unborn"
  PROVE  IInv'
BY StepOf, Here DEF Owns

LEMMA NewStep ==
  ASSUME IInv, NEW p \in Processes, New(p)
  PROVE  IInv'
<1> DEFINE s == proc[p]
<1>0. /\ s \in State /\ 0 \notin Processes
      /\ OnHook(s, legacy = p, p \in tcx) /\ OnPort(s, port = p) /\ Lonely(p) /\ Owns(p)
  BY Here
<1>1. /\ Alive(p) /\ s.pc \in Loading \cup {"reader", "undo"}
  BY <1>0 DEF New, Load, AttachTCX, QdiscAdd, FilterList, CleanUp, FilterAdd, NewReader,
     Undo, At, Alive, Loading
<1>2. s.server = "none" /\ s.busy = {} /\ port # p /\ s.exit = "none"
  BY <1>0, <1>1 DEF OnPort, OnHook, Running, Closing, State, Loading
<1>3. s.pc \in Loading => s.mode = "none" /\ legacy # p /\ p \notin tcx
  BY <1>0, <1>1 DEF OnHook, Attached, Loading, Alive
<1>4. ASSUME Exit(p, "ended"), legacy' = legacy, alone' = alone, s.pc \in Loading
      PROVE  IInv'
  BY <1>1, <1>3, <1>4, ExitStep
<1>5. ASSUME NEW pc \in Loading \ {"unborn"}, Goto(p, pc), s.pc \in Loading \ {"load"},
             legacy' \in {legacy, Nobody}, UNCHANGED <<tcx, port, alone>>
      PROVE  IInv'
  <2> DEFINE r == [s EXCEPT !.pc = pc]
  <2>1. Becomes(p, r)
    BY <1>5, GotoBecomes DEF IInv, PC
  <2>2. /\ r.pc = pc /\ r.mode = "none" /\ r.server = "none" /\ r.busy = {}
        /\ r.exit = "none" /\ r.pc \notin Attached /\ r.objs
    BY <1>0, <1>1, <1>2, <1>3, <1>5 DEF State, Attached, Loading, OnPort, Alive
  <2> HIDE DEF r
  <2>3. OnHook(r, legacy' = p, p \in tcx')
    BY <1>0, <1>3, <1>5, <2>2 DEF OnHook, Loading, Nobody
  <2>4. OnPort(r, port' = p)
    BY <1>2, <1>5, <2>2 DEF OnPort, Running, Closing, Loading
  <2> QED
    BY <1>1, <1>2, <1>5, <2>1, <2>2, <2>3, <2>4, StepOf
<1>6. CASE Load(p)
  <2>1. CASE proc' = [proc EXCEPT ![p].pc = "attach", ![p].objs = TRUE]
             /\ UNCHANGED <<legacy, tcx, port, alone>>
    <3> DEFINE r == [s EXCEPT !.pc = "attach", !.objs = TRUE]
    <3>1. Becomes(p, r)
      BY <1>0, <2>1 DEF Becomes, State, PC, Loading, IInv, Typed
    <3>2. /\ r.pc = "attach" /\ r.mode = "none" /\ r.server = "none" /\ r.busy = {}
          /\ r.exit = "none" /\ r.objs
      BY <1>0, <1>2, <1>3, <1>6 DEF State, Load, At, Loading
    <3> HIDE DEF r
    <3> QED
      BY <1>1, <1>2, <1>3, <1>6, <2>1, <3>1, <3>2, StepInside
         DEF OnHook, OnPort, Attached, Loading, Running, Closing, Load, At
  <2> QED
    BY <1>4, <1>6, <2>1 DEF Load, At, Loading
<1>7. CASE AttachTCX(p)
  <2>1. CASE tcx' = tcx \cup {p}
             /\ proc' = [proc EXCEPT ![p].pc = "reader", ![p].mode = "tcx"]
             /\ UNCHANGED <<legacy, port, alone>>
    <3> DEFINE r == [s EXCEPT !.pc = "reader", !.mode = "tcx"]
    <3>1. Becomes(p, r)
      BY <1>0, <2>1 DEF Becomes, State, PC, IInv, Typed
    <3>2. /\ r.pc = "reader" /\ r.mode = "tcx" /\ r.server = "none" /\ r.busy = {}
          /\ r.exit = "none" /\ r.objs
      BY <1>0, <1>2, <1>7 DEF State, OnPort, AttachTCX, At, Loading
    <3> HIDE DEF r
    <3>3. legacy # p
      BY <1>3, <1>7 DEF AttachTCX, At, Loading
    <3>4. OnHook(r, legacy' = p, p \in tcx')
      BY <2>1, <3>2, <3>3 DEF OnHook, Attached, Loading
    <3>5. OnPort(r, port' = p)
      BY <1>2, <2>1, <3>2 DEF OnPort, Running, Closing, Attached, Loading
    <3> QED
      BY <1>1, <1>2, <2>1, <3>1, <3>2, <3>4, <3>5, StepOf
  <2> QED
    BY <1>5, <1>7, <2>1 DEF AttachTCX, At, Loading
<1>8. CASE QdiscAdd(p)
  BY <1>4, <1>5, <1>8 DEF QdiscAdd, At, Loading
<1>9. CASE FilterList(p)
  BY <1>5, <1>9 DEF FilterList, At, Loading
<1>10. CASE CleanUp(p)
  BY <1>5, <1>10 DEF CleanUp, FilterDel, At, Loading
<1>11. CASE FilterAdd(p)
  <2>1. CASE legacy' = p
             /\ proc' = [proc EXCEPT ![p].pc = "reader", ![p].mode = "legacy"]
             /\ UNCHANGED <<tcx, port, alone>>
    <3> DEFINE r == [s EXCEPT !.pc = "reader", !.mode = "legacy"]
    <3>1. Becomes(p, r)
      BY <1>0, <2>1 DEF Becomes, State, PC, IInv, Typed
    <3>2. /\ r.pc = "reader" /\ r.mode = "legacy" /\ r.server = "none" /\ r.busy = {}
          /\ r.exit = "none" /\ r.objs
      BY <1>0, <1>2, <1>11 DEF State, OnPort, FilterAdd, At, Loading
    <3> HIDE DEF r
    <3>3. p \notin tcx
      BY <1>3, <1>11 DEF FilterAdd, At, Loading
    <3>4. OnHook(r, legacy' = p, p \in tcx')
      BY <2>1, <3>2, <3>3 DEF OnHook, Attached, Loading
    <3>5. OnPort(r, port' = p)
      BY <1>2, <2>1, <3>2 DEF OnPort, Running, Closing, Attached, Loading
    <3> QED
      BY <1>1, <1>2, <2>1, <3>1, <3>2, <3>4, <3>5, StepOf
  <2> QED
    BY <1>4, <1>11, <2>1 DEF FilterAdd, At, Loading
<1>12. CASE NewReader(p)
  <2>0. s.pc = "reader" /\ UNCHANGED <<legacy, tcx, port, alone>>
    BY <1>12 DEF NewReader, At
  <2>1. CASE proc' = [proc EXCEPT ![p].pc = "api", ![p].rbReader = "open"]
    <3> DEFINE r == [s EXCEPT !.pc = "api", !.rbReader = "open"]
    <3>1. Becomes(p, r)
      BY <1>0, <2>1 DEF Becomes, State, PC, Running, IInv, Typed
    <3>2. /\ r.pc = "api" /\ r.mode = s.mode /\ r.server = "none" /\ r.busy = {}
          /\ r.exit = "none" /\ r.objs = s.objs
      BY <1>0, <1>2 DEF State
    <3> HIDE DEF r
    <3> QED
      BY <1>0, <1>1, <1>2, <2>0, <3>1, <3>2, StepInside
         DEF OnHook, OnPort, Attached, Loading, Running, Closing
  <2>2. CASE Goto(p, "undo")
    <3> DEFINE r == [s EXCEPT !.pc = "undo"]
    <3>1. Becomes(p, r)
      BY <2>2, GotoBecomes DEF IInv, PC
    <3>2. /\ r.pc = "undo" /\ r.mode = s.mode /\ r.server = "none" /\ r.busy = {}
          /\ r.exit = "none" /\ r.objs = s.objs
      BY <1>0, <1>2 DEF State
    <3> HIDE DEF r
    <3> QED
      BY <1>0, <1>1, <1>2, <2>0, <3>1, <3>2, StepInside
         DEF OnHook, OnPort, Attached, Loading, Running, Closing
  <2> QED
    BY <1>12, <2>1, <2>2 DEF NewReader
<1>13. CASE Undo(p)
  <2>1. s.pc = "undo" /\ alone' = alone
    BY <1>13 DEF Undo, At
  <2>2. PICK failed \in BOOLEAN :
          /\ Leave(p, "ended", failed /\ legacy = p) /\ legacy' \in {legacy, Nobody}
          /\ s.mode = "legacy" /\ ~failed => legacy' = Nobody
          /\ s.mode # "legacy" => legacy' = legacy
    BY <1>13 DEF Undo, FilterDel
  <2>3. legacy' = p => failed /\ legacy = p
    BY <1>0, <2>1, <2>2 DEF OnHook, Nobody
  <2> QED
    BY <1>1, <2>1, <2>2, <2>3, LeaveStep
<1> QED
  BY <1>6, <1>7, <1>8, <1>9, <1>10, <1>11, <1>12, <1>13 DEF New

(***************************************************************************)
(* The steps of main after New, of the goroutine that listens, and of the  *)
(* requests.                                                               *)
(***************************************************************************)
LEMMA SetupStep ==
  ASSUME IInv, NEW p \in Processes, Setup(p) \/ Interrupt(p)
  PROVE  IInv'
<1> DEFINE s == proc[p]
<1>0. /\ s \in State /\ OnHook(s, legacy = p, p \in tcx) /\ OnPort(s, port = p)
  BY Here
<1>1. /\ Alive(p) /\ s.pc \in {"api", "monitor", "notify", "wait"}
      /\ UNCHANGED <<legacy, tcx, port, alone>>
  BY DEF Setup, Interrupt, StartServer, StartMonitor, Notify, At, Alive
<1>2. ASSUME NEW r, Becomes(p, r), r.pc \in {"monitor", "notify", "wait", "stop"},
             r.mode = s.mode, r.objs = s.objs, r.busy = s.busy, r.late = s.late,
             r.exit = s.exit,
             r.server = s.server \/ (s.pc = "api" /\ r.server \in {"none", "starting"})
      PROVE  IInv'
  <2>1. OnHook(r, legacy = p, p \in tcx)
    BY <1>0, <1>1, <1>2 DEF OnHook, Attached, Loading
  <2>2. s.pc = "api" => s.busy = {} /\ port # p
    BY <1>0 DEF OnPort, Running, Closing, State
  <2>3. OnPort(r, port = p)
    BY <1>0, <1>1, <1>2, <2>2 DEF OnPort, Attached, Loading, Running, Closing
  <2> QED
    BY <1>1, <1>2, <2>1, <2>3, StepInside DEF Attached
<1>3. CASE StartServer(p)
  <2>1. PICK x \in {"none", "starting"} :
          proc' = [proc EXCEPT ![p].pc = "monitor", ![p].server = x]
    BY <1>3 DEF StartServer
  <2> DEFINE r == [s EXCEPT !.pc = "monitor", !.server = x]
  <2>2. Becomes(p, r)
    BY <1>0, <2>1 DEF Becomes, State, PC, Running, IInv, Typed
  <2>3. /\ r.pc = "monitor" /\ r.mode = s.mode /\ r.objs = s.objs /\ r.busy = s.busy
        /\ r.late = s.late /\ r.exit = s.exit /\ r.server = x /\ s.pc = "api"
    BY <1>0, <1>3 DEF State, StartServer, At
  <2> HIDE DEF r
  <2> QED
    BY <1>2, <2>2, <2>3
<1>4. CASE StartMonitor(p)
  <2> DEFINE r == [s EXCEPT !.pc = "notify", !.monitor = TRUE]
  <2>1. Becomes(p, r)
    BY <1>0, <1>4 DEF StartMonitor, Becomes, State, PC, Running, IInv, Typed
  <2>2. /\ r.pc = "notify" /\ r.mode = s.mode /\ r.objs = s.objs /\ r.busy = s.busy
        /\ r.late = s.late /\ r.exit = s.exit /\ r.server = s.server
    BY <1>0 DEF State
  <2> HIDE DEF r
  <2> QED
    BY <1>2, <2>1, <2>2
<1>5. ASSUME NEW pc \in {"wait", "stop"}, Goto(p, pc)
      PROVE  IInv'
  <2> DEFINE r == [s EXCEPT !.pc = pc]
  <2>1. Becomes(p, r)
    BY <1>5, GotoBecomes DEF IInv, PC, Running
  <2>2. /\ r.pc = pc /\ r.mode = s.mode /\ r.objs = s.objs /\ r.busy = s.busy
        /\ r.late = s.late /\ r.exit = s.exit /\ r.server = s.server
    BY <1>0 DEF State
  <2> HIDE DEF r
  <2> QED
    BY <1>2, <1>5, <2>1, <2>2
<1> QED
  BY <1>3, <1>4, <1>5 DEF Setup, Notify, Interrupt

LEMMA AsideStep ==
  ASSUME IInv, NEW p \in Processes, Listen(p) \/ Request(p) \/ MonitorEnds(p)
  PROVE  IInv'
<1> DEFINE s == proc[p]
<1>0. /\ s \in State /\ 0 \notin Processes
      /\ OnHook(s, legacy = p, p \in tcx) /\ OnPort(s, port = p) /\ Owns(p)
  BY Here
<1>1. CASE Listen(p)
  <2>1. Alive(p) /\ s.server = "starting" /\ s.pc \in Running \ {"api", "drain"}
        /\ s.busy = {} /\ legacy' = legacy /\ alone' = alone
    BY <1>0, <1>1 DEF Listen, OnPort, Alive, Running, State
  <2>2. CASE Exit(p, "killed")
    BY <2>1, <2>2, ExitStep
  <2>3. CASE port = Nobody /\ port' = p /\ tcx' = tcx
             /\ proc' = [proc EXCEPT ![p].server = "listening"]
    <3> DEFINE r == [s EXCEPT !.server = "listening"]
    <3>1. Becomes(p, r)
      BY <1>0, <2>3 DEF Becomes, State, IInv, Typed
    <3>2. /\ r.pc = s.pc /\ r.mode = s.mode /\ r.objs = s.objs /\ r.busy = s.busy
          /\ r.late = s.late /\ r.exit = s.exit /\ r.server = "listening"
          /\ r.kept = s.kept
      BY <1>0 DEF State
    <3> HIDE DEF r
    <3>3. OnHook(r, legacy' = p, p \in tcx')
      BY <1>0, <2>1, <2>3, <3>2 DEF OnHook
    <3>4. OnPort(r, port' = p)
      BY <1>0, <2>1, <2>3, <3>2 DEF OnPort, Running, Closing, Attached, Loading
    <3> QED
      BY <1>0, <2>1, <2>3, <3>1, <3>2, <3>3, <3>4, StepOf DEF Running, Owns, Nobody
  <2> QED
    BY <1>1, <2>2, <2>3 DEF Listen
<1>2. CASE Request(p)
  <2>1. /\ UNCHANGED <<legacy, tcx, port, alone>>
    BY <1>2 DEF Request
  <2>2. PICK b \in SUBSET Requests :
          /\ proc' = [proc EXCEPT ![p].busy = b]
          /\ s.server = "listening" \/ (s.busy # {} /\ b \subseteq s.busy)
    <3>1. CASE s.server = "listening"
               /\ \E q \in Requests \ s.busy : proc' = [proc EXCEPT ![p].busy = @ \cup {q}]
      <4>1. PICK q \in Requests \ s.busy : proc' = [proc EXCEPT ![p].busy = @ \cup {q}]
        BY <3>1
      <4>2. s.busy \cup {q} \in SUBSET Requests
        BY <1>0 DEF State
      <4> QED
        BY <3>1, <4>1, <4>2
    <3>2. CASE \E q \in s.busy : proc' = [proc EXCEPT ![p].busy = @ \ {q}]
      <4>1. PICK q \in s.busy : proc' = [proc EXCEPT ![p].busy = @ \ {q}]
        BY <3>2
      <4>2. s.busy \ {q} \in SUBSET Requests
        BY <1>0 DEF State
      <4> QED
        BY <4>1, <4>2
    <3> QED
      BY <1>2, <3>1, <3>2 DEF Request
  <2> DEFINE r == [s EXCEPT !.busy = b]
  <2>3. Becomes(p, r)
    BY <1>0, <2>2 DEF Becomes, State, IInv, Typed
  <2>4. /\ r.pc = s.pc /\ r.mode = s.mode /\ r.objs = s.objs /\ r.busy = b
        /\ r.late = s.late /\ r.exit = s.exit /\ r.server = s.server
        /\ r.rbReader = s.rbReader /\ r.kept = s.kept
    BY <1>0 DEF State
  <2> HIDE DEF r
  <2>5. OnHook(r, legacy = p, p \in tcx)
    BY <1>0, <2>4 DEF OnHook
  <2>6. s.server = "listening" => s.pc \in Running
    BY <1>0 DEF OnPort
  <2>7. OnPort(r, port = p) /\ Alive(p)
    BY <1>0, <2>2, <2>4, <2>6 DEF OnPort, Alive, Running, Closing
  <2> QED
    BY <2>1, <2>3, <2>4, <2>5, <2>7, StepInside DEF Alive
<1>3. CASE MonitorEnds(p)
  <2> DEFINE r == [s EXCEPT !.monitor = FALSE]
  <2>1. /\ UNCHANGED <<legacy, tcx, port, alone>> /\ Alive(p)
    BY <1>0, <1>3 DEF MonitorEnds, OnPort, Alive
  <2>2. Becomes(p, r)
    BY <1>0, <1>3 DEF MonitorEnds, Becomes, State, IInv, Typed
  <2>3. /\ r.pc = s.pc /\ r.mode = s.mode /\ r.objs = s.objs /\ r.busy = s.busy
        /\ r.late = s.late /\ r.exit = s.exit /\ r.server = s.server
        /\ r.rbReader = s.rbReader /\ r.kept = s.kept
    BY <1>0 DEF State
  <2> HIDE DEF r
  <2>4. OnHook(r, legacy = p, p \in tcx)
    BY <1>0, <2>3 DEF OnHook
  <2>5. OnPort(r, port = p)
    BY <1>0, <2>1, <2>3 DEF OnPort, Alive
  <2> QED
    BY <2>1, <2>2, <2>3, <2>4, <2>5, StepInside DEF Alive
<1> QED
  BY <1>1, <1>2, <1>3

LEMMA ShutdownStep ==
  ASSUME IInv, NEW p \in Processes, Shutdown(p)
  PROVE  IInv'
<1> DEFINE s == proc[p]
<1>0. /\ s \in State /\ 0 \notin Processes
      /\ OnHook(s, legacy = p, p \in tcx) /\ OnPort(s, port = p) /\ Owns(p)
  BY Here
<1>1. /\ Alive(p) /\ s.pc \in {"stop", "drain"} \cup Closing
  BY DEF Shutdown, Stop, Drained, Timeout, CloseReader, Detach, Release, Return, At, Alive,
     Closing
<1>2. CASE Stop(p)
  <2> DEFINE x == IF s.server = "none" THEN "none" ELSE "closed"
             r == [s EXCEPT !.pc = "drain", !.server = x]
  <2>1. /\ s.pc = "stop" /\ legacy' = legacy /\ tcx' = tcx /\ alone' = alone
        /\ port' = (IF port = p THEN Nobody ELSE port)
    BY <1>2 DEF Stop, At
  <2>2. Becomes(p, r)
    BY <1>0, <1>2 DEF Stop, Becomes, State, PC, Running, IInv, Typed
  <2>3. /\ r.pc = "drain" /\ r.mode = s.mode /\ r.objs = s.objs /\ r.busy = s.busy
        /\ r.late = s.late /\ r.exit = s.exit /\ r.server = x /\ r.rbReader = s.rbReader
    BY <1>0 DEF State
  <2> HIDE DEF r
  <2>4. OnHook(r, legacy' = p, p \in tcx')
    BY <1>0, <2>1, <2>3 DEF OnHook, Attached, Loading
  <2>5. port' # p /\ port' \in {port, Nobody} /\ (port' = Nobody => port \in {Nobody, p})
    BY <1>0, <2>1 DEF Nobody
  <2>6. s.busy # {} => x = "closed"
    BY <1>0 DEF OnPort
  <2>7. OnPort(r, port' = p)
    BY <1>0, <2>1, <2>3, <2>5, <2>6 DEF OnPort, Running, Closing, Attached, Loading
  <2>8. p \in alone /\ r.mode = "legacy" => legacy' = p
    BY <1>0, <2>1, <2>3 DEF Owns, Attached
  <2> QED
    BY <1>1, <2>1, <2>2, <2>3, <2>4, <2>5, <2>7, <2>8, StepOf
<1>3. ASSUME NEW r, Becomes(p, r), UNCHANGED <<legacy, tcx, port, alone>>, r.pc \in Closing,
             s.pc \in {"drain"} \cup Closing,
             r.pc \in {"release", "return"} <=> s.pc \in {"release", "return"},
             r.pc \in {"detach", "release", "return"} => r.rbReader = "closed",
             r.pc = "return" \/ r.objs = s.objs,
             r.mode = s.mode, r.busy = s.busy, r.exit = s.exit, r.server = s.server,
             r.busy # {} => r.late, r.kept = s.kept
      PROVE  IInv'
  <2>1. OnHook(r, legacy = p, p \in tcx)
    BY <1>0, <1>3 DEF OnHook, Attached, Loading, Closing
  <2>2. OnPort(r, port = p)
    BY <1>0, <1>3 DEF OnPort, Running, Closing, Attached, Loading
  <2> QED
    BY <1>1, <1>3, <2>1, <2>2, StepInside DEF Attached, Closing
<1>4. CASE Drained(p)
  <2> DEFINE r == [s EXCEPT !.pc = "close"]
  <2>1. /\ s.pc = "drain" /\ s.busy = {} /\ UNCHANGED <<legacy, tcx, port, alone>>
    BY <1>4 DEF Drained, At
  <2>2. Becomes(p, r)
    BY <1>4, GotoBecomes DEF Drained, IInv, PC, Closing
  <2>3. /\ r.pc = "close" /\ r.mode = s.mode /\ r.objs = s.objs /\ r.busy = s.busy
        /\ r.exit = s.exit /\ r.server = s.server /\ r.kept = s.kept
    BY <1>0 DEF State
  <2> HIDE DEF r
  <2> QED
    BY <1>3, <2>1, <2>2, <2>3 DEF Closing
<1>5. CASE Timeout(p)
  <2> DEFINE r == [s EXCEPT !.pc = "close", !.late = TRUE]
  <2>1. /\ s.pc = "drain" /\ UNCHANGED <<legacy, tcx, port, alone>>
    BY <1>5 DEF Timeout, At
  <2>2. Becomes(p, r)
    BY <1>0, <1>5 DEF Timeout, Becomes, State, PC, Closing, IInv, Typed
  <2>3. /\ r.pc = "close" /\ r.mode = s.mode /\ r.objs = s.objs /\ r.busy = s.busy
        /\ r.exit = s.exit /\ r.server = s.server /\ r.late /\ r.kept = s.kept
    BY <1>0 DEF State
  <2> HIDE DEF r
  <2> QED
    BY <1>3, <2>1, <2>2, <2>3 DEF Closing
<1>6. s.pc \in Closing => (s.busy # {} => s.late)
  BY <1>0 DEF OnPort, Running, Closing, State
<1>7. CASE CloseReader(p)
  <2> DEFINE r == [s EXCEPT !.pc = "detach", !.rbReader = "closed"]
  <2>1. /\ s.pc = "close" /\ UNCHANGED <<legacy, tcx, port, alone>>
    BY <1>7 DEF CloseReader, At
  <2>2. Becomes(p, r)
    BY <1>0, <1>7 DEF CloseReader, Becomes, State, PC, Closing, IInv, Typed
  <2>3. /\ r.pc = "detach" /\ r.mode = s.mode /\ r.objs = s.objs /\ r.busy = s.busy
        /\ r.exit = s.exit /\ r.server = s.server /\ r.late = s.late
        /\ r.rbReader = "closed" /\ r.kept = s.kept
    BY <1>0 DEF State
  <2> HIDE DEF r
  <2> QED
    BY <1>3, <1>6, <2>1, <2>2, <2>3 DEF Closing
<1>8. CASE Detach(p)
  <2>1. /\ s.pc = "detach" /\ UNCHANGED <<port, alone>>
    BY <1>8 DEF Detach, At
  <2>7. PICK failed \in BOOLEAN :
          /\ proc' = [proc EXCEPT ![p].pc = "release", ![p].kept = failed /\ legacy = p]
          /\ s.mode = "legacy" =>
               legacy' \in {legacy, Nobody} /\ (~failed => legacy' = Nobody) /\ tcx' = tcx
          /\ s.mode # "legacy" => legacy' = legacy /\ tcx' = tcx \ {p}
    BY <1>8 DEF Detach, FilterDel
  <2> DEFINE r == [s EXCEPT !.pc = "release", !.kept = failed /\ legacy = p]
  <2>2. Becomes(p, r)
    BY <1>0, <2>7 DEF Becomes, State, PC, Closing, IInv, Typed
  <2>3. /\ r.kept = (failed /\ legacy = p)
        /\ r.pc = "release" /\ r.mode = s.mode /\ r.objs = s.objs /\ r.busy = s.busy
        /\ r.exit = s.exit /\ r.server = s.server /\ r.late = s.late
        /\ r.rbReader = s.rbReader
    BY <1>0 DEF State
  <2> HIDE DEF r
  <2>4. /\ (legacy' = p => failed /\ legacy = p /\ s.mode = "legacy") /\ p \notin tcx'
        /\ legacy' \in {legacy, Nobody} /\ tcx' \in {tcx, tcx \ {p}} /\ s.exit = "none"
    BY <1>0, <2>1, <2>7 DEF OnHook, Nobody, Attached, State
  <2>5. OnHook(r, legacy' = p, p \in tcx')
    BY <2>3, <2>4 DEF OnHook, Attached, Loading
  <2>6. OnPort(r, port' = p)
    BY <1>0, <1>6, <2>1, <2>3 DEF OnPort, Running, Closing, Attached, Loading
  <2> QED
    BY <1>1, <2>1, <2>2, <2>3, <2>4, <2>5, <2>6, StepOf DEF Attached
<1>9. CASE Release(p)
  <2> DEFINE r == [s EXCEPT !.pc = "return", !.objs = FALSE]
  <2>1. /\ s.pc = "release" /\ UNCHANGED <<legacy, tcx, port, alone>>
    BY <1>9 DEF Release, At
  <2>2. Becomes(p, r)
    BY <1>0, <1>9 DEF Release, Becomes, State, PC, Closing, IInv, Typed
  <2>3. /\ r.pc = "return" /\ r.mode = s.mode /\ r.busy = s.busy
        /\ r.exit = s.exit /\ r.server = s.server /\ r.late = s.late
        /\ r.rbReader = s.rbReader /\ r.kept = s.kept
    BY <1>0 DEF State
  <2> HIDE DEF r
  <2>4. r.rbReader = "closed"
    BY <1>0, <2>1, <2>3 DEF OnPort
  <2> QED
    BY <1>3, <1>6, <2>1, <2>2, <2>3, <2>4 DEF Closing
<1>10. CASE Return(p)
  <2>1. s.pc = "return" /\ Exit(p, "ended") /\ UNCHANGED <<legacy, alone>>
    BY <1>10 DEF Return, At
  <2>2. legacy = p => s.kept
    BY <1>0, <2>1 DEF OnHook
  <2> QED
    BY <1>1, <2>1, <2>2, ExitStep
<1> QED
  BY <1>2, <1>4, <1>5, <1>7, <1>8, <1>9, <1>10 DEF Shutdown

LEMMA KillStep ==
  ASSUME IInv, NEW p \in Processes, Kill(p)
  PROVE  IInv'
BY ExitStep DEF Kill

(***************************************************************************)
(* A process that starts joins those that are alive: none of them is alone *)
(* any more.                                                               *)
(***************************************************************************)
LEMMA StartStep ==
  ASSUME IInv, NEW p \in Processes, Start(p)
  PROVE  IInv'
<1> DEFINE s == proc[p]
           r == [s EXCEPT !.pc = "load"]
<1>0. /\ s \in State /\ 0 \notin Processes
      /\ OnHook(s, legacy = p, p \in tcx) /\ OnPort(s, port = p)
  BY Here
<1>1. /\ s.pc = "unborn" /\ UNCHANGED <<legacy, tcx, port>> /\ Goto(p, "load")
      /\ alone' = (alone \ Others(p)) \cup (IF Others(p) = {} THEN {p} ELSE {})
  BY DEF Start, At
<1>2. Becomes(p, r)
  BY <1>1, GotoBecomes DEF IInv, PC, Loading
<1>3. /\ r.pc = "load" /\ r.mode = s.mode /\ r.objs = s.objs /\ r.busy = s.busy
      /\ r.exit = s.exit /\ r.server = s.server /\ r.late = s.late /\ r.monitor = s.monitor
  BY <1>0 DEF State
<1> HIDE DEF r
<1>4. /\ proc' \in [Processes -> State] /\ proc'[p] = r
      /\ \A q \in Processes : q # p => proc'[q] = proc[q]
  BY <1>2, BecomesAt DEF IInv
<1>5. alone' \subseteq Processes
  BY <1>1 DEF IInv, Typed, Others
<1>6. Typed'
  BY <1>1, <1>4, <1>5 DEF IInv, Typed
<1>7. OnHook(r, legacy' = p, p \in tcx')
  BY <1>0, <1>1, <1>3 DEF OnHook, Attached, Loading
<1>8. OnPort(r, port' = p)
  BY <1>0, <1>1, <1>3 DEF OnPort, Running, Closing, Attached, Loading
<1>9. \A q \in Processes : OnHook(proc'[q], legacy' = q, q \in tcx')
                           /\ OnPort(proc'[q], port' = q)
  BY <1>1, <1>4, <1>7, <1>8 DEF IInv
<1>10. \A q \in Processes : q \in alone' /\ Alive(q)' => q = p /\ Others(p) = {}
  <2> SUFFICES ASSUME NEW q \in Processes, q \in alone', Alive(q)'
               PROVE  q = p /\ Others(p) = {}
    OBVIOUS
  <2>1. CASE q = p
    <3>1. Others(p) = {} \/ p \in alone
      BY <1>1, <2>1
    <3>2. CASE Others(p) # {}
      <4>1. p \in alone
        BY <3>1, <3>2
      <4>2. p \notin alone
        BY <1>1 DEF IInv, Lonely
      <4> QED
        BY <4>1, <4>2
    <3> QED
      BY <2>1, <3>2
  <2>2. CASE q # p
    <3>1. Alive(q) /\ q \in Others(p)
      BY <1>4, <2>2 DEF Alive, Others
    <3> QED
      BY <1>1, <2>2, <3>1
  <2> QED
    BY <2>1, <2>2
<1>11. ASSUME NEW q \in Processes
       PROVE  Lonely(q)'
  <2>1. q \in alone' => q = p \/ q \in alone
    BY <1>1
  <2>2. q \in alone' => proc'[q].pc # "unborn"
    BY <1>3, <1>4, <2>1 DEF IInv, Lonely
  <2>3. Others(p) = {} => \A o \in Processes : o # p => ~Alive(o)'
    BY <1>4 DEF Others, Alive
  <2> QED
    BY <1>10, <2>2, <2>3 DEF Lonely
<1>12. ASSUME NEW q \in Processes
       PROVE  Owns(q)'
  BY <1>3, <1>4, <1>10 DEF Owns, Alive, Attached
<1> QED
  BY <1>6, <1>9, <1>11, <1>12 DEF IInv

-----------------------------------------------------------------------------
LEMMA StepIInv == IInv /\ [Next]_vars => IInv'
<1> SUFFICES ASSUME IInv, [Next]_vars PROVE IInv'
  OBVIOUS
<1>1. CASE Next
  BY <1>1, NewStep, SetupStep, AsideStep, ShutdownStep, KillStep, StartStep DEF Next
<1>2. CASE UNCHANGED vars
  BY <1>2 DEF vars, IInv, Typed, Lonely, Owns, Alive
<1> QED
  BY <1>1, <1>2

LEMMA SpecIInv == Spec => []IInv
<1> QED
  BY InitIInv, StepIInv, PTL DEF Spec

(***************************************************************************)
(* A lonely agent enforces from New to Close, whatever dead processes left *)
(* on the hook.                                                            *)
(***************************************************************************)
THEOREM LonelyAgentEnforces == Spec => []ServingEnforces
<1>1. IInv => ServingEnforces
  <2> SUFFICES ASSUME IInv, NEW p \in alone, proc[p].pc \in Attached
               PROVE  \/ proc[p].mode = "tcx" /\ tcx = {p}
                      \/ proc[p].mode = "legacy" /\ legacy = p /\ tcx = {}
    BY DEF ServingEnforces
  <2>0. p \in Processes /\ tcx \subseteq Processes
    BY DEF IInv, Typed
  <2>1. OnHook(proc[p], legacy = p, p \in tcx) /\ Lonely(p) /\ Owns(p)
    BY <2>0, Here
  <2>2. \A q \in Processes : q # p => q \notin tcx
    <3> SUFFICES ASSUME NEW q \in Processes, q # p PROVE q \notin tcx
      OBVIOUS
    <3>1. ~Alive(q)
      BY <2>0, <2>1 DEF Lonely, Alive, Attached
    <3>2. q \in tcx => proc[q].pc \in Attached
      BY Here DEF OnHook
    <3> QED
      BY <3>1, <3>2 DEF Alive, Attached
  <2>3. CASE proc[p].mode = "legacy"
    <3>1. p \notin tcx /\ legacy = p
      BY <2>0, <2>1, <2>3 DEF OnHook, Owns
    <3> QED
      BY <2>0, <2>2, <2>3, <3>1
  <2>4. CASE proc[p].mode = "tcx" /\ p \in tcx
    BY <2>0, <2>2, <2>4
  <2> QED
    BY <2>1, <2>3, <2>4 DEF OnHook
<1> QED
  BY <1>1, SpecIInv, PTL

(***************************************************************************)
(* A process that gave up or was shut down leaves a filter on the hook     *)
(* only if the call that was to remove it failed, alone or not.            *)
(***************************************************************************)
THEOREM ExitsAreClean == Spec => []CleanExit
<1>1. IInv => CleanExit
  BY DEF IInv, OnHook, CleanExit
<1> QED
  BY <1>1, SpecIInv, PTL

(***************************************************************************)
(* A request loses the maps only when Stop has given it up.                *)
(***************************************************************************)
THEOREM RequestsKeepMaps == Spec => []RequestsSeeMaps
<1>1. IInv => RequestsSeeMaps
  <2> SUFFICES ASSUME IInv, NEW p \in Processes
               PROVE  LET r == proc[p]
                      IN  /\ r.busy # {} /\ ~r.late =>
                               r.objs /\ r.pc \notin {"release", "return"}
                          /\ r.pc \in {"detach", "release", "return"} =>
                               port # p /\ r.rbReader = "closed"
    BY DEF RequestsSeeMaps
  <2>1. OnPort(proc[p], port = p)
    BY Here
  <2> QED
    BY <2>1 DEF OnPort, Running, Closing, Attached
<1> QED
  BY <1>1, SpecIInv, PTL
=============================================================================
