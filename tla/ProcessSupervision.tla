------------------------- MODULE ProcessSupervision -------------------------
(***************************************************************************)
(* The supervisor of the Python service (serving/lifecycle.py): the        *)
(* desktop shell starts the supervisor, which forks a watchdog and then    *)
(* the service ("sidecar"), and between them they promise that nothing of  *)
(* the service outlives the shell.                                         *)
(*                                                                         *)
(* The supervisor and the watchdog speak over pipes: R (registered), A     *)
(* (arm, with the sidecar's identity, and its acknowledgement), N (clean   *)
(* up) with C or E, and the end of a pipe when its writer is gone.  The    *)
(* sidecar waits at a gate for G before it executes the service.           *)
(* From then on it, and all it forks, carry a marker by which a process    *)
(* table scan finds them.  A scan lists the processes in one step and      *)
(* inspects them in another.  A process stands for its identity (pid and   *)
(* start time): that pids are reused is left out.                          *)
(***************************************************************************)
EXTENDS Naturals, FiniteSets

CONSTANTS Workers,       \* processes the service may fork
          MaxCrashes,    \* kills of the supervisor or of the watchdog
          MaxScanFaults, \* scans that miss processes and know it, clean-ups out of time
          MaxHandOffs    \* forks behind a scan of a clean-up

SupervisionAssumption ==
  /\ Workers # {} /\ Workers \cap {"parent", "supervisor", "watchdog", "sidecar"} = {}
  /\ {MaxCrashes, MaxScanFaults, MaxHandOffs} \subseteq Nat

Service == {"sidecar"} \cup Workers
Keepers == {"supervisor", "watchdog"}
Processes == {"parent"} \cup Keepers \cup Service

VARIABLES proc,      \* process -> "absent", "alive", "stopped" or "gone"
          executed,  \* the sidecar has executed the service
          at,        \* keeper -> where its program is
          pipe,      \* what is in the pipes
          bound,     \* keeper -> the identities it has bound
          captured,  \* the supervisor's children the watchdog captured
          clean,     \* keeper -> its clean-up of the marked processes
          result,    \* what the supervisor returned
          budget,    \* what is left of the bounds
          lost       \* a keeper was killed when the other one did not run, the
                     \* watchdog before its work ended, or a clean-up ran out of time

vars == <<proc, executed, at, pipe, bound, captured, clean, result, budget, lost>>

Alive(p) == proc[p] \in {"alive", "stopped"}
Runs(p) == proc[p] = "alive"
\* The processes a scan can tell by their marker: not the sidecar before it
\* has executed the service.
Marked == {p \in Service : Alive(p) /\ (p = "sidecar" => executed)}
AllGone == \A p \in Service : ~Alive(p)

NoCleanup == [on |-> FALSE, listed |-> {}, scanned |-> FALSE, empty |-> 0,
              term |-> FALSE]
Started == [NoCleanup EXCEPT !.on = TRUE]

Init ==
  /\ proc = [p \in Processes |->
               IF p = "parent" \/ p \in Keepers THEN "alive" ELSE "absent"]
  /\ executed = FALSE
  /\ at = [supervisor |-> "ready", watchdog |-> "register"]
  /\ pipe = [ready |-> FALSE, control |-> "empty", ack |-> "empty", gate |-> "empty"]
  /\ bound = [k \in Keepers |-> {}]
  /\ captured = {}
  /\ clean = [k \in Keepers |-> NoCleanup]
  /\ result = "none"
  /\ budget = [crashes |-> MaxCrashes, scans |-> MaxScanFaults, handoffs |-> MaxHandOffs]
  /\ lost = FALSE

Gone(set) == [p \in Processes |-> IF p \in set THEN "gone" ELSE proc[p]]
\* Keeper k, running at pc.
At(k, pc) == Runs(k) /\ at[k] = pc
Goto(k, pc) == at' = [at EXCEPT ![k] = pc]
\* The supervisor is gone or has closed its ends, and what it wrote was read.
WritesNoMore == ~Alive("supervisor") \/ at["supervisor"] \in {"failing", "reap"}
ControlEnds == WritesNoMore /\ pipe.control = "empty"
GateEnds == WritesNoMore /\ pipe.gate = "empty"

(***************************************************************************)
(* The clean-up of the marked processes, by either keeper                  *)
(***************************************************************************)

\* The processes are listed.
CleanupList(k) ==
  /\ Runs(k) /\ clean[k].on /\ ~clean[k].scanned
  /\ clean' = [clean EXCEPT ![k].listed = {p \in Service : Alive(p)},
                            ![k].scanned = TRUE]
  /\ UNCHANGED <<proc, executed, at, pipe, bound, captured, result, budget, lost>>

\* A mutant of StableScans: one scan with nothing found is enough.
OneScan == 1

\* Scans with nothing found that a clean-up asks for.
StableScans == 2

\* The listed are inspected, the marked ones bound; whatever is bound and lives
\* gets SIGTERM the first time and SIGKILL from then on.  Two complete scans
\* in a row with nothing left end it.
CleanupInspect(k) ==
  /\ Runs(k) /\ clean[k].on /\ clean[k].scanned
  /\ clean[k].empty < StableScans
  /\ \E complete \in {TRUE} \cup (IF budget.scans > 0 THEN {FALSE} ELSE {}) :
       LET found == IF complete THEN clean[k].listed \cap Marked ELSE {}
           known == bound[k] \cup found
           live == {p \in known : Alive(p)}
       IN /\ bound' = [bound EXCEPT ![k] = known]
          /\ budget' = [budget EXCEPT !.scans = IF complete THEN @ ELSE @ - 1]
          /\ \/ /\ live = {}
                /\ clean' = [clean EXCEPT ![k].scanned = FALSE, ![k].listed = {},
                               ![k].empty = IF complete THEN @ + 1 ELSE 0]
                /\ UNCHANGED proc
             \/ /\ live # {}
                /\ \E ended \in IF clean[k].term THEN {live} ELSE SUBSET live :
                     proc' = Gone(ended)
                /\ clean' = [clean EXCEPT ![k].scanned = FALSE, ![k].listed = {},
                               ![k].empty = 0, ![k].term = TRUE]
  /\ UNCHANGED <<executed, at, pipe, captured, result, lost>>

\* The clean-up runs out of time.
CleanupGivesUp(k, pc) ==
  /\ Runs(k) /\ clean[k].on /\ budget.scans > 0
  /\ budget' = [budget EXCEPT !.scans = @ - 1]
  /\ clean' = [clean EXCEPT ![k] = NoCleanup]
  /\ lost' = TRUE
  /\ Goto(k, pc)
  /\ UNCHANGED <<proc, executed, pipe, bound, captured, result>>

\* It ends with nothing left.
CleanupEnds(k) == Runs(k) /\ clean[k].on /\ clean[k].empty = StableScans

\* _bind_marked_identities, from the loops of both keepers.
Bind(k) ==
  /\ At(k, "loop") /\ (k = "watchdog" => "sidecar" \in bound[k])
  /\ ~(Marked \subseteq bound[k])
  /\ bound' = [bound EXCEPT ![k] = @ \cup Marked]
  /\ UNCHANGED <<proc, executed, at, pipe, captured, clean, result, budget, lost>>

(***************************************************************************)
(* The supervisor                                                          *)
(***************************************************************************)

\* The protocol fails: the finally block closes the gate and the control pipe,
\* then cleans up.  What was written to them can still be read.
ProtocolFails ==
  /\ clean' = [clean EXCEPT !.supervisor = Started]
  /\ Goto("supervisor", "failing")
  /\ UNCHANGED pipe

\* Waiting for R; then the sidecar is forked, with the marker.
ForkSidecar ==
  /\ At("supervisor", "ready")
  /\ pipe.ready
  /\ proc' = [proc EXCEPT !["sidecar"] = "alive"]
  /\ Goto("supervisor", "verify")
  /\ UNCHANGED <<executed, pipe, bound, captured, clean, result, budget, lost>>

\* No R in time, or the watchdog is gone: nothing was forked yet.
NotReady ==
  /\ At("supervisor", "ready")
  /\ ~pipe.ready
  /\ Goto("supervisor", "reap")
  /\ UNCHANGED <<proc, executed, pipe, bound, captured, clean, result, budget, lost>>

\* _verify_child_binding, by either keeper: the sidecar is the supervisor's own
\* child, twice in a row.
Verified == Alive("sidecar") /\ Alive("supervisor")

\* The identity of the sidecar is captured and verified, and sent.
Arm ==
  /\ At("supervisor", "verify")
  /\ \/ /\ Verified
        /\ bound' = [bound EXCEPT !.supervisor = @ \cup {"sidecar"}]
        /\ pipe' = [pipe EXCEPT !.control = "A"]
        /\ Goto("supervisor", "armed")
        /\ UNCHANGED clean
     \/ /\ ProtocolFails
        /\ UNCHANGED bound
  /\ UNCHANGED <<proc, executed, captured, result, budget, lost>>

\* The gate opens when the watchdog has acknowledged and is still there.
OpenGate ==
  /\ At("supervisor", "armed")
  /\ \/ /\ pipe.ack = "A" /\ Alive("watchdog")
        /\ pipe' = [pipe EXCEPT !.gate = "G", !.ack = "empty"]
        /\ Goto("supervisor", "loop")
        /\ UNCHANGED clean
     \/ /\ pipe.ack # "A" \/ ~Alive("watchdog")
        /\ ProtocolFails
  /\ UNCHANGED <<proc, executed, bound, captured, result, budget, lost>>

\* The loop: the watchdog must not end before the sidecar; when the sidecar
\* ends the watchdog is asked to clean up.
WatchSidecar ==
  /\ At("supervisor", "loop")
  /\ \/ /\ ~Alive("watchdog")
        /\ ProtocolFails
     \/ /\ Alive("watchdog") /\ ~Alive("sidecar")
        /\ pipe' = [pipe EXCEPT !.control = "N"]
        /\ Goto("supervisor", "cleaned")
        /\ UNCHANGED clean
  /\ UNCHANGED <<proc, executed, bound, captured, result, budget, lost>>

\* It returns the status of the sidecar only when the watchdog has confirmed
\* and ended well.
Confirm ==
  /\ At("supervisor", "cleaned")
  /\ \/ /\ pipe.ack = "C" /\ ~Alive("watchdog") /\ at["watchdog"] = "ended"
        /\ proc' = Gone({"supervisor"})
        /\ result' = "status"
        /\ UNCHANGED <<at, pipe, clean>>
     \/ /\ pipe.ack # "C" \/ at["watchdog"] # "ended"
        /\ pipe.ack = "E" \/ ~Alive("watchdog")
        /\ ProtocolFails
        /\ UNCHANGED <<proc, result>>
  /\ UNCHANGED <<executed, bound, captured, budget, lost>>

\* It has not confirmed in time, its own clean-up being slow.
ConfirmTimesOut ==
  /\ At("supervisor", "cleaned")
  /\ Alive("watchdog") /\ budget.scans > 0
  /\ budget' = [budget EXCEPT !.scans = @ - 1]
  /\ ProtocolFails
  /\ UNCHANGED <<proc, executed, bound, captured, result, lost>>

\* A mutant of CleanupFailed: the supervisor leaves the clean-up to the
\* watchdog.
LeaveIt ==
  /\ At("supervisor", "failing")
  /\ clean' = [clean EXCEPT !.supervisor = NoCleanup]
  /\ Goto("supervisor", "reap")
  /\ UNCHANGED <<proc, executed, pipe, bound, captured, result, budget, lost>>

\* After its own clean-up the supervisor ends the sidecar if it has bound it;
\* one it has not is still at the gate, where nothing was written.
CleanupFailed ==
  /\ At("supervisor", "failing")
  /\ CleanupEnds("supervisor") \/ ~clean["supervisor"].on
  /\ clean' = [clean EXCEPT !.supervisor = NoCleanup]
  /\ proc' = IF "sidecar" \in bound["supervisor"] THEN Gone({"sidecar"}) ELSE proc
  /\ Goto("supervisor", "reap")
  /\ UNCHANGED <<executed, pipe, bound, captured, result, budget, lost>>

\* The watchdog is given time to end, more than its clean-up may take, then
\* killed, and 70 is returned.
ReapWatchdog ==
  /\ At("supervisor", "reap")
  /\ proc["sidecar"] \in {"absent", "gone"} \/ "sidecar" \notin bound["supervisor"]
  /\ clean["watchdog"].on => lost
  /\ proc' = Gone({"watchdog", "supervisor"})
  /\ result' = "70"
  /\ UNCHANGED <<executed, at, pipe, bound, captured, clean, budget, lost>>

(***************************************************************************)
(* The watchdog                                                            *)
(***************************************************************************)

\* It watches the parent and the control pipe, then looks whether the parent
\* is still the one it was told of.
Register ==
  /\ At("watchdog", "register")
  /\ Goto("watchdog", IF Alive("parent") THEN "loop" ELSE "stop")
  /\ pipe' = [pipe EXCEPT !.ready = Alive("parent")]
  /\ UNCHANGED <<proc, executed, bound, captured, clean, result, budget, lost>>

\* ARM: the sidecar is bound if it is verified.
TakeArm ==
  /\ At("watchdog", "loop") /\ pipe.control = "A"
  /\ "sidecar" \notin bound["watchdog"]
  /\ \/ /\ Verified
        /\ bound' = [bound EXCEPT !.watchdog = @ \cup {"sidecar"}]
        /\ pipe' = [pipe EXCEPT !.control = "empty", !.ack = "A"]
        /\ UNCHANGED <<at, clean>>
     \/ /\ ~Verified
        /\ Goto("watchdog", "crash")
        /\ clean' = [clean EXCEPT !.watchdog = Started]
        /\ UNCHANGED <<bound, pipe>>
  /\ UNCHANGED <<proc, executed, captured, result, budget, lost>>

\* N, or the end of the control pipe, which is a crash of the supervisor.
TakeEnd ==
  /\ At("watchdog", "loop")
  /\ ControlEnds \/ pipe.control = "N"
  /\ Goto("watchdog", IF pipe.control = "N" THEN "asked" ELSE "crash")
  /\ clean' = [clean EXCEPT !.watchdog = Started]
  /\ UNCHANGED <<proc, executed, pipe, bound, captured, result, budget, lost>>

\* The parent is gone, told by the event or by the poll.
NoticeParent ==
  /\ At("watchdog", "loop")
  /\ ~Alive("parent")
  /\ Goto("watchdog", "stop")
  /\ UNCHANGED <<proc, executed, pipe, bound, captured, clean, result, budget, lost>>

\* _handle_parent_exit: the supervisor is stopped, so that it forks no more...
StopSupervisor ==
  /\ At("watchdog", "stop")
  /\ \E sent \in {TRUE} \cup (IF budget.scans > 0 THEN {FALSE} ELSE {}) :
       /\ proc' = IF sent /\ Runs("supervisor")
                  THEN [proc EXCEPT !["supervisor"] = "stopped"] ELSE proc
       /\ budget' = [budget EXCEPT !.scans = IF sent THEN @ ELSE @ - 1]
  /\ Goto("watchdog", "capture")
  /\ UNCHANGED <<executed, pipe, bound, captured, clean, result, lost>>

\* ... its children are captured, if the stop was sent...
CaptureChildren ==
  /\ At("watchdog", "capture")
  /\ captured' = IF proc["supervisor"] = "stopped" /\ Alive("sidecar")
                 THEN {"sidecar"} ELSE {}
  /\ Goto("watchdog", "end")
  /\ UNCHANGED <<proc, executed, pipe, bound, clean, result, budget, lost>>

\* ... it is terminated, resumed to receive that, and killed if it is slow...
EndSupervisor ==
  /\ At("watchdog", "end")
  /\ proc' = Gone({"supervisor"})
  /\ Goto("watchdog", "children")
  /\ UNCHANGED <<executed, pipe, bound, captured, clean, result, budget, lost>>

\* ... and then the captured children, by SIGTERM and SIGKILL, before the
\* marked processes.
EndCaptured ==
  /\ At("watchdog", "children")
  /\ proc' = Gone(captured)
  /\ Goto("watchdog", "crash")
  /\ clean' = [clean EXCEPT !.watchdog = Started]
  /\ UNCHANGED <<executed, pipe, bound, captured, result, budget, lost>>

\* The watchdog ends; asked by N it tells the supervisor how it went.
WatchdogEnds ==
  /\ at["watchdog"] \in {"crash", "asked"}
  /\ CleanupEnds("watchdog")
  /\ pipe' = [pipe EXCEPT !.ack = IF at["watchdog"] = "asked" THEN "C" ELSE @]
  /\ proc' = Gone({"watchdog"})
  /\ Goto("watchdog", "ended")
  /\ clean' = [clean EXCEPT !.watchdog = NoCleanup]
  /\ UNCHANGED <<executed, bound, captured, result, budget, lost>>

WatchdogFails ==
  /\ At("watchdog", "failed")
  /\ pipe' = [pipe EXCEPT !.ack = "E"]
  /\ proc' = Gone({"watchdog"})
  /\ UNCHANGED <<executed, at, bound, captured, clean, result, budget, lost>>

(***************************************************************************)
(* The service and the faults                                              *)
(***************************************************************************)

\* The sidecar leaves the gate: with G it executes the service, else it ends.
PassGate ==
  /\ Runs("sidecar") /\ ~executed
  /\ \/ /\ pipe.gate = "G"
        /\ executed' = TRUE
        /\ UNCHANGED proc
     \/ /\ GateEnds
        /\ proc' = Gone({"sidecar"})
        /\ UNCHANGED executed
  /\ UNCHANGED <<at, pipe, bound, captured, clean, result, budget, lost>>

\* It has waited too long at the gate, or the service ends by itself.
ServiceEnds(p) ==
  /\ p \in Service /\ Runs(p)
  /\ ~(p = "sidecar" /\ ~executed /\ pipe.gate = "G")
  /\ proc' = Gone({p})
  /\ UNCHANGED <<executed, at, pipe, bound, captured, clean, result, budget, lost>>

\* A process of the service forks another, which carries the marker on; behind a
\* scan, when it does so after the processes were listed and before they are inspected.
Fork(p, w) ==
  /\ p \in Marked /\ Runs(p)
  /\ proc[w] = "absent"
  /\ LET behind == \E k \in Keepers : clean[k].on /\ clean[k].scanned /\ Runs(k)
     IN /\ behind => budget.handoffs > 0
        /\ budget' = [budget EXCEPT !.handoffs = IF behind THEN @ - 1 ELSE @]
  /\ proc' = [proc EXCEPT ![w] = "alive"]
  /\ UNCHANGED <<executed, at, pipe, bound, captured, clean, result, lost>>

ParentExits ==
  /\ Alive("parent")
  /\ proc' = Gone({"parent"})
  /\ UNCHANGED <<executed, at, pipe, bound, captured, clean, result, budget, lost>>

\* A keeper is killed.  The supervisor has no handler for SIGTERM.
Crash(k) ==
  /\ k \in Keepers /\ Alive(k)
  /\ budget.crashes > 0
  /\ budget' = [budget EXCEPT !.crashes = @ - 1]
  /\ proc' = Gone({k})
  /\ lost' = (\/ lost
              \/ k = "watchdog" /\ ~Runs("supervisor")
              \/ k = "supervisor" /\ ~Runs("watchdog") /\ at["watchdog"] # "ended")
  /\ UNCHANGED <<executed, at, pipe, bound, captured, clean, result>>

-----------------------------------------------------------------------------

Cleanup(k) == CleanupList(k) \/ CleanupInspect(k)
Supervisor == \/ ForkSidecar \/ Arm \/ OpenGate \/ WatchSidecar \/ Confirm
              \/ CleanupFailed \/ ReapWatchdog \/ Cleanup("supervisor")
Watchdog == \/ Register \/ TakeArm \/ TakeEnd \/ NoticeParent \/ StopSupervisor
            \/ CaptureChildren \/ EndSupervisor \/ EndCaptured \/ WatchdogEnds
            \/ WatchdogFails \/ Cleanup("watchdog")

Next == \/ Supervisor \/ NotReady \/ ConfirmTimesOut \/ Watchdog \/ PassGate
        \/ \E k \in Keepers : Bind(k) \/ Crash(k)
        \/ CleanupGivesUp("supervisor", "failing")
        \/ CleanupGivesUp("watchdog", "failed")
        \/ \E p \in Service : ServiceEnds(p) \/ \E w \in Workers : Fork(p, w)
        \/ ParentExits

Spec == Init /\ [][Next]_vars

\* The operating system runs both keepers and the sidecar at its gate.
FairSpec == /\ Spec
            /\ WF_vars(Supervisor \/ NotReady)
            /\ WF_vars(Watchdog)
            /\ WF_vars(PassGate)

-----------------------------------------------------------------------------
TypeOK ==
  /\ proc \in [Processes -> {"absent", "alive", "stopped", "gone"}]
  /\ {executed, lost} \subseteq BOOLEAN
  /\ bound \in [Keepers -> SUBSET Service] /\ captured \subseteq Service
  /\ pipe.control \in {"empty", "A", "N"} /\ pipe.ack \in {"empty", "A", "C", "E"}
  /\ pipe.gate \in {"empty", "G"}
  /\ result \in {"none", "status", "70"}
  /\ \A k \in Keepers : clean[k].empty \in 0..StableScans

\* Forks behind a scan so far.
HandOffs == MaxHandOffs - budget.handoffs

\* When the supervisor returns the status of the service, no process of the
\* service is left, unless work was handed on behind a scan of a clean-up twice:
\* one process that forks and ends between the list of a scan and its inspection
\* does not escape (lifecycle.py:489-560, 1400-1428).
StatusMeansClean == result = "status" => AllGone \/ HandOffs >= 2

\* When the shell, the supervisor or the watchdog ends, the whole service
\* comes to its end, unless a keeper is killed at a time when the other does
\* not run either, a clean-up runs out of time, or work is handed on behind two scans
\* (lifecycle.py:735-876, 937-1109, 1233-1473).
NothingOutlivesTheShell ==
  (\E p \in {"parent"} \cup Keepers : ~Alive(p)) ~> (AllGone \/ lost \/ HandOffs >= 2)
=============================================================================
