--------------------------- MODULE AgentLifecycle ---------------------------
(***************************************************************************)
(* The life of agent processes on one interface: main (cmd/main.go), the   *)
(* data plane it creates and closes (pkg/dataplane/dataplane.go) and its   *)
(* API server (pkg/api/server.go), which listens in a goroutine of its     *)
(* own.  A process may be killed at any moment; the kernel then takes back *)
(* what it owns, but a filter attached by netlink stays.  Nothing keeps    *)
(* two processes from running on one interface at once.                    *)
(***************************************************************************)
EXTENDS Naturals, FiniteSets

CONSTANTS
  MaxProcesses,  \* bound: processes started, one after the other
  MaxAlive,      \* bound: processes alive at once
  Requests       \* API requests a process may be handling

ASSUME BoundAssumption == MaxProcesses \in Nat /\ MaxAlive \in Nat

Processes == 1 .. MaxProcesses
Nobody    == 0

VARIABLES
  proc,    \* the state of each process
  legacy,  \* whose filter is at handle 1, priority 1 of the clsact qdisc
  tcx,     \* the processes whose filter is attached by a TCX link
  port,    \* who listens on the API port
  alone    \* auxiliary: processes during whose life no other was alive

vars == <<proc, legacy, tcx, port, alone>>

-----------------------------------------------------------------------------
(***************************************************************************)
(* pc is the next step of main, mode how the filter was attached, objs     *)
(* whether the maps are open, rbReader and monitor the ring buffer and the *)
(* goroutine that reads it, server and busy the API server and the         *)
(* requests it handles, late whether Stop gave up on them, kept whether    *)
(* FilterDel failed to remove its own filter.  A process has ended when    *)
(* New gave up or main returned, and is killed by anything else, Fatalf of *)
(* the goroutine that listens included.                                    *)
(***************************************************************************)
Unborn == [pc |-> "unborn", mode |-> "none", objs |-> FALSE,
           rbReader |-> "none", monitor |-> FALSE, server |-> "none", busy |-> {},
           late |-> FALSE, kept |-> FALSE, exit |-> "none"]

Dead(why, kept) ==
  [Unborn EXCEPT !.pc = "exited", !.exit = why, !.kept = kept]

Alive(p)     == proc[p].pc \notin {"unborn", "exited"}
Before(p)    == {q \in Processes : q < p}
Others(p)    == {q \in Processes \ {p} : Alive(q)}

At(p, pc)    == proc[p].pc = pc
Goto(p, pc)  == proc' = [proc EXCEPT ![p].pc = pc]

\* The kernel closes what is left of a process: its link, its socket.
Leave(p, why, kept) ==
  /\ proc' = [proc EXCEPT ![p] = Dead(why, kept)]
  /\ tcx' = tcx \ {p}
  /\ port' = IF port = p THEN Nobody ELSE port

Exit(p, why) == Leave(p, why, proc[p].kept)

Init ==
  /\ proc = [p \in Processes |-> Unborn]
  /\ legacy = Nobody /\ tcx = {} /\ port = Nobody /\ alone = {}

Start(p) ==
  /\ At(p, "unborn")
  /\ \A q \in Before(p) : ~At(q, "unborn")
  /\ Cardinality(Others(p)) < MaxAlive
  /\ Goto(p, "load")
  /\ alone' = (alone \ Others(p)) \cup (IF Others(p) = {} THEN {p} ELSE {})
  /\ UNCHANGED <<legacy, tcx, port>>

-----------------------------------------------------------------------------
(***************************************************************************)
(* New.  Every error ends in log.Fatalf of main.                           *)
(***************************************************************************)
Load(p) ==
  /\ At(p, "load")
  /\ \/ /\ proc' = [proc EXCEPT ![p].pc = "attach", ![p].objs = TRUE]
        /\ UNCHANGED <<tcx, port>>
     \/ Exit(p, "ended")
  /\ UNCHANGED <<legacy, alone>>

\* Any error of AttachTCX leads to the legacy hook.
AttachTCX(p) ==
  /\ At(p, "attach")
  /\ \/ /\ tcx' = tcx \cup {p}
        /\ proc' = [proc EXCEPT ![p].pc = "reader", ![p].mode = "tcx"]
     \/ Goto(p, "qdisc") /\ UNCHANGED tcx
  /\ UNCHANGED <<legacy, port, alone>>

QdiscAdd(p) ==
  /\ At(p, "qdisc")
  /\ \/ Goto(p, "list") /\ UNCHANGED <<tcx, port>>
     \/ Exit(p, "ended")
  /\ UNCHANGED <<legacy, alone>>

\* An error of FilterList only means that nothing is cleaned up.
FilterList(p) ==
  /\ At(p, "list")
  /\ \/ legacy # Nobody /\ Goto(p, "clean")
     \/ Goto(p, "filter")
  /\ UNCHANGED <<legacy, tcx, port, alone>>

\* FilterDel names a handle and a priority, not a filter.  When it fails
\* its caller goes on as if it had not.
FilterDel(failed) == legacy' = IF failed THEN legacy ELSE Nobody

CleanUp(p) ==
  /\ At(p, "clean")
  /\ \E failed \in BOOLEAN : FilterDel(failed)
  /\ Goto(p, "filter")
  /\ UNCHANGED <<tcx, port, alone>>

\* Bug: "file exists" is ignored for the filter as it is for the qdisc
FilterAddIfMissing(p) ==
  /\ At(p, "filter")
  /\ \/ /\ legacy' = IF legacy = Nobody THEN p ELSE legacy
        /\ proc' = [proc EXCEPT ![p].pc = "reader", ![p].mode = "legacy"]
        /\ UNCHANGED <<tcx, port>>
     \/ Exit(p, "ended") /\ UNCHANGED legacy
  /\ UNCHANGED alone

FilterAdd(p) ==
  /\ At(p, "filter")
  /\ \/ /\ legacy = Nobody
        /\ legacy' = p
        /\ proc' = [proc EXCEPT ![p].pc = "reader", ![p].mode = "legacy"]
        /\ UNCHANGED <<tcx, port>>
     \/ Exit(p, "ended") /\ UNCHANGED legacy
  /\ UNCHANGED alone

NewReader(p) ==
  /\ At(p, "reader")
  /\ \/ proc' = [proc EXCEPT ![p].pc = "api", ![p].rbReader = "open"]
     \/ Goto(p, "undo")
  /\ UNCHANGED <<legacy, tcx, port, alone>>

\* Bug: only the objects are closed
UndoObjects(p) ==
  /\ At(p, "undo")
  /\ Exit(p, "ended")
  /\ UNCHANGED <<legacy, alone>>

Undo(p) ==
  /\ At(p, "undo")
  /\ \E failed \in BOOLEAN :
       /\ IF proc[p].mode = "legacy" THEN FilterDel(failed)
          ELSE ~failed /\ UNCHANGED legacy
       /\ Leave(p, "ended", failed /\ legacy = p)
  /\ UNCHANGED alone

-----------------------------------------------------------------------------
(***************************************************************************)
(* main goes on: the API server if it is enabled, the monitor, and the     *)
(* handler of signals.  A signal before that kills the process.            *)
(***************************************************************************)
StartServer(p) ==
  /\ At(p, "api")
  /\ \E s \in {"none", "starting"} :
       proc' = [proc EXCEPT ![p].pc = "monitor", ![p].server = s]
  /\ UNCHANGED <<legacy, tcx, port, alone>>

StartMonitor(p) ==
  /\ At(p, "monitor")
  /\ proc' = [proc EXCEPT ![p].pc = "notify", ![p].monitor = TRUE]
  /\ UNCHANGED <<legacy, tcx, port, alone>>

Notify(p) ==
  /\ At(p, "notify")
  /\ Goto(p, "wait")
  /\ UNCHANGED <<legacy, tcx, port, alone>>

\* ListenAndServe; if it fails log.Fatalf kills the process there and then.
Listen(p) ==
  /\ proc[p].server = "starting"
  /\ \/ /\ port = Nobody
        /\ port' = p
        /\ proc' = [proc EXCEPT ![p].server = "listening"]
        /\ UNCHANGED tcx
     \/ Exit(p, "killed")
  /\ UNCHANGED <<legacy, alone>>

Request(p) ==
  /\ \/ /\ proc[p].server = "listening"
        /\ \E r \in Requests \ proc[p].busy :
             proc' = [proc EXCEPT ![p].busy = @ \cup {r}]
     \/ \E r \in proc[p].busy : proc' = [proc EXCEPT ![p].busy = @ \ {r}]
  /\ UNCHANGED <<legacy, tcx, port, alone>>

MonitorEnds(p) ==
  /\ proc[p].monitor /\ proc[p].rbReader = "closed"
  /\ proc' = [proc EXCEPT ![p].monitor = FALSE]
  /\ UNCHANGED <<legacy, tcx, port, alone>>

-----------------------------------------------------------------------------
(***************************************************************************)
(* Shutdown: a signal, Stop, which closes the listener and waits for the   *)
(* requests up to 30 seconds, and the deferred Close.                      *)
(***************************************************************************)
Interrupt(p) ==
  /\ At(p, "wait")
  /\ Goto(p, "stop")
  /\ UNCHANGED <<legacy, tcx, port, alone>>

\* Bug: the requests are not waited for
StopAtOnce(p) ==
  /\ At(p, "stop")
  /\ proc' = [proc EXCEPT ![p].pc = "close",
       ![p].server = IF @ = "none" THEN "none" ELSE "closed"]
  /\ port' = IF port = p THEN Nobody ELSE port
  /\ UNCHANGED <<legacy, tcx, alone>>

Stop(p) ==
  /\ At(p, "stop")
  /\ proc' = [proc EXCEPT ![p].pc = "drain",
       ![p].server = IF @ = "none" THEN "none" ELSE "closed"]
  /\ port' = IF port = p THEN Nobody ELSE port
  /\ UNCHANGED <<legacy, tcx, alone>>

Drained(p) ==
  /\ At(p, "drain") /\ proc[p].busy = {}
  /\ Goto(p, "close")
  /\ UNCHANGED <<legacy, tcx, port, alone>>

\* Bug: a context without a deadline
TimeoutNever(p) == FALSE /\ UNCHANGED vars

Timeout(p) ==
  /\ At(p, "drain") /\ proc[p].busy # {}
  /\ proc' = [proc EXCEPT ![p].pc = "close", ![p].late = TRUE]
  /\ UNCHANGED <<legacy, tcx, port, alone>>

CloseReader(p) ==
  /\ At(p, "close")
  /\ proc' = [proc EXCEPT ![p].pc = "detach", ![p].rbReader = "closed"]
  /\ UNCHANGED <<legacy, tcx, port, alone>>

Detach(p) ==
  /\ At(p, "detach")
  /\ \E failed \in BOOLEAN :
       /\ IF proc[p].mode = "legacy" THEN FilterDel(failed) /\ UNCHANGED tcx
          ELSE ~failed /\ tcx' = tcx \ {p} /\ UNCHANGED legacy
       /\ proc' = [proc EXCEPT ![p].pc = "release", ![p].kept = failed /\ legacy = p]
  /\ UNCHANGED <<port, alone>>

Release(p) ==
  /\ At(p, "release")
  /\ proc' = [proc EXCEPT ![p].pc = "return", ![p].objs = FALSE]
  /\ UNCHANGED <<legacy, tcx, port, alone>>

Return(p) ==
  /\ At(p, "return")
  /\ Exit(p, "ended")
  /\ UNCHANGED <<legacy, alone>>

Kill(p) ==
  /\ Alive(p)
  /\ Exit(p, "killed")
  /\ UNCHANGED <<legacy, alone>>

-----------------------------------------------------------------------------
New(p) == Load(p) \/ AttachTCX(p) \/ QdiscAdd(p) \/ FilterList(p) \/ CleanUp(p)
          \/ FilterAdd(p) \/ NewReader(p) \/ Undo(p)

Setup(p) == StartServer(p) \/ StartMonitor(p) \/ Notify(p)

Shutdown(p) == Stop(p) \/ Drained(p) \/ Timeout(p) \/ CloseReader(p) \/ Detach(p)
               \/ Release(p) \/ Return(p)

Next == \E p \in Processes :
          \/ Start(p) \/ Interrupt(p) \/ Kill(p)
          \/ New(p) \/ Setup(p) \/ Shutdown(p)
          \/ Listen(p) \/ Request(p) \/ MonitorEnds(p)

(***************************************************************************)
(* main and the goroutine that listens run on; the timeout of Stop fires.  *)
(* Nothing makes a request end, or an administrator stop a process.        *)
(***************************************************************************)
Fairness == \A p \in Processes : /\ WF_vars(New(p) \/ Setup(p) \/ Shutdown(p))
                                 /\ WF_vars(Listen(p))

Spec     == Init /\ [][Next]_vars
FairSpec == Spec /\ Fairness
-----------------------------------------------------------------------------
(***************************************************************************)
(* An agent that was never joined by another and has come out of New has   *)
(* its filter on the interface until it closes it, whatever earlier        *)
(* processes left there; and on the legacy hook, where an earlier filter   *)
(* survives its process, it is the only one (New, from AttachTCX on).      *)
(***************************************************************************)
Attached == {"reader", "undo", "api", "monitor", "notify", "wait", "stop", "drain",
             "close", "detach"}

ServingEnforces ==
  \A p \in alone : proc[p].pc \in Attached =>
    \/ proc[p].mode = "tcx" /\ tcx = {p}
    \/ proc[p].mode = "legacy" /\ legacy = p /\ tcx = {}

(***************************************************************************)
(* A process that gave up in New, or that was shut down, leaves a filter   *)
(* of its own behind only if the very call that was to remove it failed,   *)
(* whatever other processes did to the hook meanwhile; so a filter nobody  *)
(* maintains is that of a killed process, of log.Fatalf, or of a FilterDel *)
(* whose error New and main drop (the error paths of New, and Close).      *)
(***************************************************************************)
CleanExit ==
  \A p \in Processes : proc[p].exit = "ended" =>
    p \notin tcx /\ (legacy = p => proc[p].kept)

(***************************************************************************)
(* The filter is detached and the maps are closed under a request only     *)
(* when Stop has waited for it in vain, and never while the server still   *)
(* accepts requests or the ring buffer is still open (Stop, then Close).   *)
(***************************************************************************)
RequestsSeeMaps ==
  \A p \in Processes :
    LET r == proc[p]
    IN  /\ r.busy # {} /\ ~r.late => r.objs /\ r.pc \notin {"release", "return"}
        /\ r.pc \in {"detach", "release", "return"} =>
             port # p /\ r.rbReader = "closed"

(***************************************************************************)
(* A process that has received its signal ends, whether or not the         *)
(* requests in progress ever do (Stop gives up after 30 seconds).          *)
(***************************************************************************)
ShutdownEnds == \A p \in Processes : At(p, "stop") ~> At(p, "exited")
=============================================================================
