------------------------- MODULE SidecarLifecycle -------------------------
(***************************************************************************)
(* The desktop shell's manager of its Python service (sidecar.rs) and the  *)
(* controlled exit of the application (main.rs).                           *)
(*                                                                         *)
(* The commands of the window, the health loop, the exit request and the   *)
(* cleanup threads share one AppState behind one mutex.  A step of the     *)
(* model is one section of code under that mutex, or one thing done        *)
(* without it: waiting for the child to answer, ending a child.  A start   *)
(* is known by its generation, which also names the child it spawns; 0     *)
(* stands for None.  The supervisor and the service behind it are one      *)
(* child here: lifecycle.py, which ties them together, is another module's *)
(* subject.                                                                *)
(***************************************************************************)
EXTENDS Naturals, FiniteSets

CONSTANTS Callers,          \* threads that run a command of the window
          Setup,            \* the task main() spawns for the first start
          Health,           \* the health loop
          MaxCommands,      \* commands of the window and restarts of the health loop
          MaxFaults         \* children that exit or do not answer, attempts to
                            \* end a child that fail, log readers that fail

ASSUME SidecarAssumption ==
  /\ Health \notin Callers /\ Setup \notin Callers \cup {Health}
  /\ (Callers \cup {Setup, Health}) \cap ({"startup", "logging"} \X Nat) = {}
  /\ {MaxCommands, MaxFaults} \subseteq Nat

\* A command takes two generations at most, one for its stop and one for its
\* start or for the stop by force; the first start takes one.
MaxGeneration == 1 + 2 * MaxCommands
Generations == 1..MaxGeneration
\* A cleanup thread carries the generation whose failure started it.
Cleanups == {"startup", "logging"} \X Generations
Threads == Callers \cup {Setup, Health} \cup Cleanups

VARIABLES app,      \* AppState
          child,    \* generation -> the child that start spawned
          thread,   \* thread -> where it is and what it holds
          budget,   \* what is left of the bounds
          struck    \* a cleanup thread has taken the child of another generation

vars == <<app, child, thread, budget, struck>>

\* A thread between two commands.
Idle == [pc |-> "idle", command |-> "none", generation |-> 0, lease |-> 0,
         force |-> FALSE, failed |-> FALSE]

\* The fields of AppState that some decision reads.
AppStates ==
  [generation: 0..MaxGeneration, starting: BOOLEAN, running: BOOLEAN,
   stopping: BOOLEAN, desired_running: BOOLEAN, manual_stopped: BOOLEAN,
   application_exiting: BOOLEAN, exit_stop_requested: BOOLEAN,
   exit_cleanup_in_flight: BOOLEAN, approved_exit: {"none", "clean", "forced"},
   service_state: {"starting", "running", "restarting", "failed"},
   error: {"none", "start", "logging", "shutdown", "manual_stop"},
   session_token: 0..MaxGeneration, owner: 0..MaxGeneration,
   stopping_identity: 0..MaxGeneration, logging_cleanup_scheduled: BOOLEAN]


\* force_exit_available
ForceExitAvailable(s) == s.application_exiting /\ s.error = "shutdown"

\* record_shutdown_failure_locked
ShutdownFailure(s) ==
  [s EXCEPT !.starting = FALSE, !.running = FALSE, !.service_state = "failed",
            !.error = "shutdown", !.session_token = 0]

\* What main() manages, the first start being spawned.
Init ==
  /\ app = [generation |-> 0, starting |-> FALSE, running |-> FALSE,
            stopping |-> FALSE, desired_running |-> TRUE, manual_stopped |-> FALSE,
            application_exiting |-> FALSE, exit_stop_requested |-> FALSE,
            exit_cleanup_in_flight |-> FALSE, approved_exit |-> "none",
            service_state |-> "starting", error |-> "none", session_token |-> 0,
            owner |-> 0, stopping_identity |-> 0, logging_cleanup_scheduled |-> FALSE]
  /\ child = [g \in Generations |-> "none"]
  /\ thread = [t \in Threads |->
                IF t = Setup THEN [Idle EXCEPT !.command = "start", !.pc = "begin"] ELSE Idle]
  /\ budget = [commands |-> MaxCommands, faults |-> MaxFaults]
  /\ struck = FALSE

(***************************************************************************)
(* The commands                                                            *)
(***************************************************************************)

\* Thread t goes to pc.
Goto(t, pc) == thread' = [thread EXCEPT ![t].pc = pc]
Return(t) == thread' = [thread EXCEPT ![t] = Idle]

\* Caller t takes up a command of the window.
Command(t, name, pc) ==
  /\ t \in Callers
  /\ thread[t] = Idle
  /\ budget.commands > 0
  /\ budget' = [budget EXCEPT !.commands = @ - 1]
  /\ thread' = [thread EXCEPT ![t] = [Idle EXCEPT !.command = name, !.pc = pc]]
  /\ UNCHANGED <<child, struck>>

\* start_service.
StartService(t) ==
  /\ Command(t, "start", "begin")
  /\ UNCHANGED app

\* retry_service: prepare_retry, then a restart.
PrepareRetry(s) ==
  IF s.application_exiting THEN s
  ELSE [s EXCEPT !.desired_running = TRUE, !.manual_stopped = FALSE,
                 !.service_state = "restarting", !.error = "none"]
RetryService(t) ==
  /\ Command(t, "retry", "restart")
  /\ app' = PrepareRetry(app)

\* stop_service.
StopService(t) ==
  /\ Command(t, "stop", "stop")
  /\ UNCHANGED app

\* begin_exit_request: one cleanup at a time, and none after an approved exit.
MayBeginExit == app.approved_exit = "none" /\ ~app.exit_cleanup_in_flight

\* The window is closed or the application is asked to quit.
RequestExit(t) ==
  /\ Command(t, "exit", "exit")
  /\ MayBeginExit
  /\ app' = [app EXCEPT !.exit_cleanup_in_flight = TRUE]

\* begin_failed_cleanup_retry
MayRetryExit == ForceExitAvailable(app) /\ ~app.exit_cleanup_in_flight

\* retry_exit_cleanup and request_force_exit_confirmation, offered after a
\* cleanup that failed.
RetryExit(t, name) ==
  /\ Command(t, name, "exit")
  /\ MayRetryExit
  /\ app' = [app EXCEPT !.exit_cleanup_in_flight = TRUE]

\* The health loop: it looks at a service that runs, finds three times in a
\* row that it does not answer, and pauses before the restart.
Answers == app.session_token # 0 /\ child[app.session_token] = "alive"
HealthProbe ==
  /\ thread[Health] = Idle
  /\ app.desired_running /\ ~app.manual_stopped /\ app.running
  /\ (Answers => budget.faults > 0)
  /\ budget' = [budget EXCEPT !.faults = IF Answers THEN @ - 1 ELSE @]
  /\ thread' = [thread EXCEPT ![Health].pc = "probed",
                              ![Health].generation = app.generation]
  /\ UNCHANGED <<app, child, struck>>

\* health_failure_requires_restart, the third time.
HealthFailed ==
  /\ thread[Health].pc = "probed"
  /\ IF /\ app.generation = thread[Health].generation
        /\ ~app.application_exiting /\ app.desired_running /\ ~app.manual_stopped
     THEN /\ app' = [app EXCEPT !.service_state = "restarting"]
          /\ Goto(Health, "pausing")
     ELSE /\ Return(Health)
          /\ UNCHANGED app
  /\ UNCHANGED <<child, budget, struck>>

HealthRestart ==
  /\ thread[Health].pc = "pausing"
  /\ IF app.generation # thread[Health].generation \/ app.application_exiting
     THEN /\ Return(Health)
          /\ UNCHANGED budget
     ELSE /\ budget.commands > 0
          /\ budget' = [budget EXCEPT !.commands = @ - 1]
          /\ thread' = [thread EXCEPT ![Health] = [Idle EXCEPT
                          !.command = "restart", !.pc = "restart"]]
  /\ UNCHANGED <<app, child, struck>>

\* restart_sidecar_core and run_prepared_sidecar look for an exit first.
Restart(t) ==
  /\ thread[t].pc = "restart"
  /\ IF app.application_exiting THEN Return(t) ELSE Goto(t, "stop")
  /\ UNCHANGED <<app, child, budget, struck>>

(***************************************************************************)
(* Starting                                                                *)
(***************************************************************************)

\* VacantOwnerSlot: child, session, group and log threads are taken and given
\* together, so one generation stands for them.
Vacant == app.owner = 0

\* Section 1 of start_sidecar_core: the generation of this start, unless no port
\* can be had for it.
BeginStart(t) ==
  /\ thread[t].pc = "begin"
  /\ LET asked == thread[t].command = "start"
         refused == \/ app.application_exiting
                    \/ app.running \/ app.starting \/ app.stopping \/ ~Vacant
                    \/ (~asked /\ (~app.desired_running \/ app.manual_stopped))
         wanted == [app EXCEPT !.desired_running = TRUE, !.manual_stopped = FALSE]
     IN \/ /\ refused
           /\ Return(t)
           /\ UNCHANGED <<app, budget>>
        \/ /\ ~refused
           /\ app' = [wanted EXCEPT !.generation = @ + 1, !.starting = TRUE,
                                    !.service_state = "starting", !.error = "none",
                                    !.session_token = app.generation + 1]
           /\ thread' = [thread EXCEPT ![t].pc = "spawn",
                                       ![t].generation = app.generation + 1]
           /\ UNCHANGED budget
        \/ /\ ~refused /\ budget.faults > 0
           /\ budget' = [budget EXCEPT !.faults = @ - 1]
           /\ app' = wanted
           /\ thread' = [thread EXCEPT ![t].pc = "record", ![t].failed = TRUE,
                                       ![t].generation = app.generation]
  /\ UNCHANGED <<child, struck>>

\* The checks a start makes before it spawns and before it commits.
Superseded(t) ==
  \/ app.generation # thread[t].generation
  \/ app.application_exiting
  \/ ~app.desired_running
  \/ app.manual_stopped

\* Thread t gives its start up; failed says whether there is a failure to tell.
GiveUp(t, failed) ==
  thread' = [thread EXCEPT ![t].pc = "guard", ![t].failed = failed]

\* The child is spawned and owned under the lock.  When neither its identity
\* nor its end can be had it stays owned, with a shutdown failure.
Spawn(t) ==
  /\ thread[t].pc = "spawn"
  /\ LET g == thread[t].generation
     IN \/ /\ Superseded(t) \/ ~Vacant
           /\ GiveUp(t, FALSE)
           /\ UNCHANGED <<app, child, budget>>
        \/ /\ ~Superseded(t) /\ Vacant
           /\ child' = [child EXCEPT ![g] = "alive"]
           /\ app' = [app EXCEPT !.owner = g]
           /\ Goto(t, "wait")
           /\ UNCHANGED budget
        \/ /\ ~Superseded(t)
           /\ budget.faults > 0
           /\ budget' = [budget EXCEPT !.faults = @ - 1]
           /\ GiveUp(t, TRUE)
           /\ UNCHANGED <<app, child>>
        \/ /\ ~Superseded(t) /\ Vacant
           /\ budget.faults > 0
           /\ budget' = [budget EXCEPT !.faults = @ - 1]
           /\ child' = [child EXCEPT ![g] = "alive"]
           /\ app' = ShutdownFailure([app EXCEPT !.owner = g, !.stopping = FALSE,
                                                 !.stopping_identity = 0])
           /\ GiveUp(t, TRUE)
  /\ UNCHANGED struck

\* generation_is_current, then startup_child_exited.
StartLost(t) ==
  \/ app.generation # thread[t].generation
  \/ app.application_exiting
  \/ app.owner # thread[t].generation

\* The wait for the ready line and for the first healthy answer.
AwaitHealthy(t) ==
  /\ thread[t].pc = "wait"
  /\ LET g == thread[t].generation
     IN \/ /\ StartLost(t)
           /\ GiveUp(t, app.generation = g /\ app.error = "logging")
        \/ /\ ~StartLost(t)
           /\ (child[g] # "alive" \/ app.error = "logging")
           /\ GiveUp(t, TRUE)
        \/ /\ app.generation = g /\ ~app.application_exiting
           /\ child[g] = "alive"
           /\ Goto(t, "commit")
  /\ UNCHANGED <<app, child, budget, struck>>

\* The child lives and does not answer in time.
StartTimesOut(t) ==
  /\ thread[t].pc = "wait"
  /\ budget.faults > 0
  /\ budget' = [budget EXCEPT !.faults = @ - 1]
  /\ GiveUp(t, TRUE)
  /\ UNCHANGED <<app, child, struck>>

\* The last section of start_sidecar_core.
CommitStart(t) ==
  /\ thread[t].pc = "commit"
  /\ \/ /\ Superseded(t) \/ (app.error # "logging" /\ app.owner # thread[t].generation)
        /\ GiveUp(t, FALSE)
        /\ UNCHANGED app
     \/ /\ ~Superseded(t) /\ app.error = "logging"
        /\ GiveUp(t, TRUE)
        /\ UNCHANGED app
     \/ /\ ~Superseded(t) /\ app.error # "logging"
        /\ app.owner = thread[t].generation
        /\ app' = [app EXCEPT !.starting = FALSE, !.running = TRUE,
                              !.service_state = "running"]
        /\ Return(t)
  /\ UNCHANGED <<child, budget, struck>>

\* A thread that runs the startup cleanup of generation g.
ScheduleStartup(th, g) ==
  [th EXCEPT ![<<"startup", g>>] = [Idle EXCEPT !.pc = "check", !.generation = g]]

\* StartupGuard::drop: a start that did not commit.
DropGuard(t) ==
  /\ thread[t].pc = "guard"
  /\ LET g == thread[t].generation
         told == [thread EXCEPT ![t].pc = "record"]
     IN /\ app' = IF app.generation = g
                  THEN [app EXCEPT !.starting = FALSE, !.running = FALSE]
                  ELSE app
        /\ thread' = IF app.owner = g THEN ScheduleStartup(told, g) ELSE told
  /\ UNCHANGED <<child, budget, struck>>

\* A restart whose stop failed reads the generation its failure belongs to.
ReadFailure(t) ==
  /\ thread[t].pc = "unstopped"
  /\ thread' = [thread EXCEPT ![t].pc = "record", ![t].failed = TRUE,
                              ![t].generation = app.generation]
  /\ UNCHANGED <<app, child, budget, struck>>

\* A mutant of RecordFailure: the failure of a start is not told.
RecordNothing(t) ==
  /\ thread[t].pc = "record"
  /\ Return(t)
  /\ UNCHANGED <<app, child, budget, struck>>

\* record_start_failure
RecordFailure(t) ==
  /\ thread[t].pc = "record"
  /\ LET tells == /\ thread[t].failed
                  /\ ~app.application_exiting
                  /\ app.generation = thread[t].generation
     IN app' = IF ~tells THEN app
               ELSE IF app.error \in {"logging", "shutdown"}
               THEN [app EXCEPT !.starting = FALSE, !.running = FALSE,
                                !.session_token = 0]
               ELSE [app EXCEPT !.starting = FALSE, !.running = FALSE,
                                !.service_state = "failed", !.error = "start",
                                !.session_token = 0]
  /\ Return(t)
  /\ UNCHANGED <<child, budget, struck>>

(***************************************************************************)
(* Stopping                                                                *)
(***************************************************************************)

Reason(t) ==
  CASE t \in Cleanups /\ t[1] = "startup" -> "StartupFailure"
    [] t \in Cleanups /\ t[1] = "logging" -> "LoggingFailure"
    [] thread[t].command = "stop" -> "Manual"
    [] thread[t].command \in {"retry", "restart"} -> "Restart"
    [] OTHER -> "Exit"

StopIntent(s, reason) ==
  CASE reason = "Manual" ->
         [s EXCEPT !.desired_running = FALSE, !.manual_stopped = TRUE,
                   !.exit_stop_requested = FALSE]
    [] reason = "Exit" ->
         [s EXCEPT !.application_exiting = TRUE, !.desired_running = FALSE,
                   !.exit_stop_requested = (@ \/ ~s.manual_stopped)]
    [] OTHER -> s

\* finish_empty_stop: what the stop ends as is decided by the last intent.
FinishEmptyStop(s, reason) ==
  LET last == IF s.manual_stopped THEN "Manual"
              ELSE IF s.exit_stop_requested THEN "Exit" ELSE reason
      rest == [s EXCEPT !.stopping_identity = 0, !.stopping = FALSE,
                        !.exit_stop_requested = FALSE,
                        !.logging_cleanup_scheduled = FALSE, !.running = FALSE,
                        !.starting = FALSE, !.session_token = 0]
  IN CASE last = "Manual" ->
            [rest EXCEPT !.service_state = "failed", !.error = "manual_stop"]
       [] last = "Restart" -> [rest EXCEPT !.service_state = "restarting"]
       [] OTHER -> rest

\* concurrent_exit_stop_finished
StopFinished(s) ==
  ~s.stopping /\ ~s.starting /\ ~s.running /\ s.stopping_identity = 0
  /\ s.owner = 0 /\ s.session_token = 0

\* What thread t goes on with after a stop that answered ok.
After(th, t, ok) ==
  LET command == th[t].command
  IN CASE command \in {"retry", "restart"} ->
            [th EXCEPT ![t].pc = IF ok THEN "begin" ELSE "unstopped", ![t].lease = 0]
       [] command \in {"exit", "retryExit", "forceExit"} ->
            [th EXCEPT ![t].pc = IF ok THEN "exitCheck"
                                 ELSE IF th[t].force THEN "exitFailed" ELSE "stop",
                       ![t].force = TRUE, ![t].lease = 0]
       [] OTHER -> [th EXCEPT ![t] = Idle]

\* A startup cleanup looks whether its generation still owns the child, and
\* stops in another section.
CheckCleanup(t) ==
  /\ thread[t].pc = "check"
  /\ IF app.owner = t[2] THEN Goto(t, "stop") ELSE Return(t)
  /\ UNCHANGED <<app, child, budget, struck>>

\* The first section of stop_sidecar_internal: the intent, then either another
\* stop is under way, or there is nothing to stop, or the owner is leased.
BeginStop(t) ==
  /\ thread[t].pc = "stop"
  /\ LET reason == Reason(t)
         meant == StopIntent(app, reason)
         counts == reason \in {"Manual", "Exit"}
                   \/ (reason = "Restart" /\ ~app.stopping)
         now == IF counts THEN [meant EXCEPT !.generation = @ + 1] ELSE meant
         taken == [now EXCEPT !.stopping = TRUE, !.starting = FALSE, !.owner = 0,
                              !.stopping_identity = app.owner]
     IN \/ /\ app.stopping /\ reason \in {"Manual", "Exit"}
           /\ app' = now
           /\ Goto(t, IF thread[t].force THEN "kill" ELSE "await")
           /\ UNCHANGED struck
        \/ /\ app.stopping /\ reason \notin {"Manual", "Exit"}
           /\ app' = now
           /\ thread' = After(thread, t, FALSE)
           /\ UNCHANGED struck
        \/ /\ ~app.stopping /\ app.owner = 0
           /\ app' = FinishEmptyStop(taken, reason)
           /\ thread' = After(thread, t, TRUE)
           /\ struck' = (struck \/ (t \in Cleanups /\ app.starting /\ app.generation # t[2]))
        \/ /\ ~app.stopping /\ app.owner # 0
           /\ app' = taken
           /\ thread' = [thread EXCEPT ![t].pc = "end", ![t].lease = app.owner]
           /\ struck' = (struck \/ (t \in Cleanups /\ app.owner # t[2]))
  /\ UNCHANGED <<child, budget>>

\* The leased child is asked to shut down, then signalled, then killed.  An error
\* of that, with the child gone, or of a log reader is told at the end; a stop by
\* force may always meet one.
EndChild(t) ==
  /\ thread[t].pc = "end"
  /\ child' = [child EXCEPT ![thread[t].lease] = "exited"]
  /\ \E error \in {FALSE} \cup (IF thread[t].force \/ budget.faults > 0 THEN {TRUE} ELSE {}) :
       /\ thread' = [thread EXCEPT ![t].pc = "finish", ![t].failed = error]
       /\ budget' = IF error /\ ~thread[t].force THEN [budget EXCEPT !.faults = @ - 1] ELSE budget
  /\ UNCHANGED <<app, struck>>

\* A mutant of EndChildFails: a child that outlives its stop is let go.
LeaseLost(t) ==
  /\ thread[t].pc = "end"
  /\ child[thread[t].lease] = "alive"
  /\ budget.faults > 0
  /\ budget' = [budget EXCEPT !.faults = @ - 1]
  /\ app' = ShutdownFailure([app EXCEPT !.stopping = FALSE, !.stopping_identity = 0])
  /\ thread' = After(thread, t, FALSE)
  /\ UNCHANGED <<child, struck>>

\* It cannot be ended: the failure is recorded, and OwnerLease::drop gives the
\* child back to its slot when that is empty.
EndChildFails(t) ==
  /\ thread[t].pc = "end"
  /\ child[thread[t].lease] = "alive"
  /\ budget.faults > 0
  /\ budget' = [budget EXCEPT !.faults = @ - 1]
  /\ app' = ShutdownFailure([app EXCEPT
                !.owner = IF @ = 0 THEN thread[t].lease ELSE @,
                !.stopping = FALSE, !.stopping_identity = 0,
                !.logging_cleanup_scheduled = FALSE])
  /\ thread' = After(thread, t, FALSE)
  /\ UNCHANGED <<child, struck>>

\* The last section of stop_sidecar_internal, after the log readers ended.
FinishStop(t) ==
  /\ thread[t].pc = "finish"
  /\ LET ended == FinishEmptyStop([app EXCEPT !.owner = 0], Reason(t))
         error == thread[t].failed
     IN /\ app' = IF error
                  THEN [ended EXCEPT !.service_state = "failed", !.error = "shutdown"]
                  ELSE ended
        /\ thread' = After([thread EXCEPT ![t].failed = FALSE], t, ~error)
  /\ UNCHANGED <<child, budget, struck>>

\* resolve_concurrent_exit_stop by force: the session being stopped is killed
\* from here, and its stop is waited for.
KillStopping(t) ==
  /\ thread[t].pc = "kill"
  /\ \/ /\ app.stopping /\ app.stopping_identity # 0
        /\ child' = [child EXCEPT ![app.stopping_identity] = "exited"]
        /\ UNCHANGED budget
     \/ /\ app.stopping /\ budget.faults > 0
        /\ budget' = [budget EXCEPT !.faults = @ - 1]
        /\ UNCHANGED child
     \/ /\ ~app.stopping
        /\ UNCHANGED <<child, budget>>
  /\ Goto(t, "await")
  /\ UNCHANGED <<app, struck>>

\* wait_for_stop_completion, until the other stop ends.
AwaitStop(t) ==
  /\ thread[t].pc = "await"
  /\ ~app.stopping
  /\ Goto(t, "awaited")
  /\ UNCHANGED <<app, child, budget, struck>>

\* ... or until the time allowed has passed.
AwaitTimesOut(t) ==
  /\ thread[t].pc = "await"
  /\ app.stopping
  /\ thread' = After(thread, t, FALSE)
  /\ UNCHANGED <<app, child, budget, struck>>

\* The answer is ok only if the other stop left nothing.
Awaited(t) ==
  /\ thread[t].pc = "awaited"
  /\ thread' = After(thread, t, StopFinished(app))
  /\ UNCHANGED <<app, child, budget, struck>>

(***************************************************************************)
(* The controlled exit                                                     *)
(***************************************************************************)

\* shutdown_sidecar_for_exit
BeginExit(t) ==
  /\ thread[t].pc = "exit"
  /\ app' = [app EXCEPT !.application_exiting = TRUE, !.desired_running = FALSE]
  /\ Goto(t, "stop")
  /\ UNCHANGED <<child, budget, struck>>

\* A mutant of CompleteExit: the cleanup's answer is enough.
ExitUnchecked(t) ==
  /\ thread[t].pc \in {"exitCheck", "exitFailed"}
  /\ app' = [app EXCEPT !.exit_cleanup_in_flight = FALSE, !.approved_exit = "clean"]
  /\ Return(t)
  /\ UNCHANGED <<child, budget, struck>>

\* What a clean-up that failed ends in.  A force exit whose failure is a shutdown's
\* asks the user, who may leave the child behind.
MayForce(t, s) == thread[t].command = "forceExit" /\ ForceExitAvailable(s)
FailedExit(t, s) ==
  \E forced \in {FALSE} \cup (IF MayForce(t, s) THEN {TRUE} ELSE {}) :
    app' = [s EXCEPT !.exit_cleanup_in_flight = FALSE,
                     !.approved_exit = IF forced THEN "forced" ELSE @]

\* The exit is approved when nothing managed is left.
CompleteExit(t) ==
  /\ thread[t].pc = "exitCheck"
  /\ \/ /\ StopFinished(app)
        /\ app' = [app EXCEPT !.exit_cleanup_in_flight = FALSE, !.approved_exit = "clean"]
     \/ ~StopFinished(app) /\ FailedExit(t, app)
  /\ Return(t)
  /\ UNCHANGED <<child, budget, struck>>

\* The graceful stop and the forced one both failed.
FailExit(t) ==
  /\ thread[t].pc = "exitFailed"
  /\ FailedExit(t, ShutdownFailure(app))
  /\ Return(t)
  /\ UNCHANGED <<child, budget, struck>>

(***************************************************************************)
(* The child and its log readers                                           *)
(***************************************************************************)

ChildExits(g) ==
  /\ child[g] = "alive"
  /\ budget.faults > 0
  /\ budget' = [budget EXCEPT !.faults = @ - 1]
  /\ child' = [child EXCEPT ![g] = "exited"]
  /\ UNCHANGED <<app, thread, struck>>

\* copy_output_to_log fails in a reader of generation g: the failure counts if
\* g is current or owns the child, and the owner's cleanup is scheduled once.
LogFails(g) ==
  /\ child[g] # "none"
  /\ budget.faults > 0
  /\ app.generation = g \/ app.owner = g
  /\ thread[<<"logging", g>>] = Idle
  /\ budget' = [budget EXCEPT !.faults = @ - 1]
  /\ LET cleanup == app.owner = g /\ ~app.logging_cleanup_scheduled
         marked == [app EXCEPT !.running = FALSE, !.session_token = 0,
                               !.logging_cleanup_scheduled = (@ \/ cleanup)]
     IN /\ app' = IF app.error = "shutdown" THEN marked
                  ELSE [marked EXCEPT !.service_state = "failed", !.error = "logging"]
        /\ thread' = IF cleanup
                     THEN [thread EXCEPT ![<<"logging", g>>] =
                             [Idle EXCEPT !.pc = "stop", !.generation = g]]
                     ELSE thread
  /\ UNCHANGED <<child, struck>>

-----------------------------------------------------------------------------

\* The threads that are at work.
Busy == {t \in Threads : thread[t].pc # "idle"}

Start(t) == \/ BeginStart(t) \/ Spawn(t) \/ AwaitHealthy(t) \/ CommitStart(t)
            \/ DropGuard(t) \/ ReadFailure(t) \/ RecordFailure(t)
Stop(t) == \/ CheckCleanup(t) \/ BeginStop(t) \/ EndChild(t) \/ FinishStop(t)
           \/ KillStopping(t) \/ AwaitStop(t) \/ Awaited(t)
Exit(t) == BeginExit(t) \/ CompleteExit(t) \/ FailExit(t)
\* What a thread does with nothing from outside.
Step(t) == Restart(t) \/ Start(t) \/ Stop(t) \/ Exit(t)

Asked(t) == \/ StartService(t) \/ RetryService(t) \/ StopService(t) \/ RequestExit(t)
            \/ \E name \in {"retryExit", "forceExit"} : RetryExit(t, name)
HealthStep == HealthProbe \/ HealthFailed \/ HealthRestart
Fault == \/ \E t \in Busy : StartTimesOut(t) \/ EndChildFails(t) \/ AwaitTimesOut(t)
         \/ \E g \in Generations : ChildExits(g) \/ LogFails(g)

Next == \/ \E t \in Callers : Asked(t)
        \/ \E t \in Busy : Step(t)
        \/ HealthStep
        \/ Fault

Spec == Init /\ [][Next]_vars

\* The runtime runs its threads and timers; nobody has to press a button and
\* nothing has to fail.  Every run of steps is finite but the health loop's, so
\* it is enough that some step is taken.
Progress == (\E t \in Busy : Step(t)) \/ HealthStep
FairSpec == Spec /\ WF_vars(Progress)

-----------------------------------------------------------------------------
TypeOK ==
  /\ app \in AppStates
  /\ child \in [Generations -> {"none", "alive", "exited"}]
  /\ DOMAIN thread = Threads
  /\ \A t \in Threads : /\ thread[t].lease \in 0..MaxGeneration
                        /\ thread[t].generation \in 0..MaxGeneration
                        /\ {thread[t].force, thread[t].failed} \subseteq BOOLEAN
  /\ struck \in BOOLEAN

\* No child is lost: one that lives is in the owner's slot or leased by one
\* stop, whatever starts, stops, cleanups and failed kills overlap
\* (VacantOwnerSlot and OwnerLease::drop, sidecar.rs:460-505 and 1668-1692).
NoChildIsLost ==
  \A g \in Generations : child[g] = "alive" =>
    Cardinality({t \in Threads : thread[t].lease = g}) + (IF app.owner = g THEN 1 ELSE 0) = 1

\* An exit approved as clean leaves no child behind, and none is spawned after
\* it (shutdown_sidecar_for_exit, sidecar.rs:2178-2201; main.rs:46-70).
CleanExitLeavesNothing ==
  app.approved_exit = "clean" => \A g \in Generations : child[g] # "alive"

\* A wanted service that neither runs nor shows an error.
InBetween ==
  /\ app.desired_running /\ ~app.manual_stopped /\ ~app.application_exiting
  /\ ~app.running /\ app.error = "none"

\* A wanted service comes to run or is told as failed, the health loop and the
\* window being there for the rest (sidecar.rs:2249-2300). It does NOT hold: a late
\* cleanup thread stops the child of a later start; ShellSettles of MCProcesses
\* leaves this case out.
WantedServiceSettles == InBetween ~> ~InBetween

=============================================================================
