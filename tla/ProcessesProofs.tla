--------------------------- MODULE ProcessesProofs ---------------------------
(***************************************************************************)
(* What TLAPS proves of module Processes: of the desktop shell, for any    *)
(* number of callers and commands and for any faults; of the supervisor    *)
(* and the watchdog, for any number of workers, crashes and scans that     *)
(* fail, and for one process handed on during a clean-up.                  *)
(***************************************************************************)
EXTENDS Processes, FiniteSetTheorems, TLAPS

\* Where a thread may be, and what for.
Places == {"idle", "begin", "spawn", "wait", "commit", "guard", "unstopped", "record",
           "restart", "stop", "check", "end", "finish", "kill", "await", "awaited",
           "exit", "exitCheck", "exitFailed", "probed", "pausing"}
ExitCommands == {"exit", "retryExit", "forceExit"}
Commands == {"none", "start", "stop", "retry", "restart"} \cup ExitCommands

\* The generations are numbers; how many there are plays no part.
AppTypes ==
  [generation: Nat, starting: BOOLEAN, running: BOOLEAN,
   stopping: BOOLEAN, desired_running: BOOLEAN, manual_stopped: BOOLEAN,
   application_exiting: BOOLEAN, exit_stop_requested: BOOLEAN,
   exit_cleanup_in_flight: BOOLEAN, approved_exit: {"none", "clean", "forced"},
   service_state: {"starting", "running", "restarting", "failed"},
   error: {"none", "start", "logging", "shutdown", "manual_stop"},
   session_token: Nat, owner: Nat, stopping_identity: Nat,
   logging_cleanup_scheduled: BOOLEAN]
ThreadTypes == [pc: Places, command: Commands, generation: Nat, lease: Nat,
                force: BOOLEAN, failed: BOOLEAN]
Typed ==
  /\ app \in AppTypes
  /\ child \in [Generations -> {"none", "alive", "exited"}]
  /\ thread \in [Threads -> ThreadTypes]

\* A thread that has begun a start, until the start is committed or given up.
Starting(t) == thread[t].pc \in {"spawn", "wait", "commit", "guard"}

\* A start has a generation of its own, whose cleanup thread has not run yet.
Starts ==
  /\ \A t \in Threads : Starting(t) =>
       /\ thread[t].generation \in 1..app.generation
       /\ \A u \in Threads : u = <<"startup", thread[t].generation>> => thread[u].pc = "idle"
       /\ \A u \in Threads : Starting(u) /\ thread[u].generation = thread[t].generation => u = t
  /\ \A t \in Threads, g \in Nat : t = <<"startup", g>> /\ g > app.generation => thread[t].pc = "idle"

\* Until it has spawned, nothing is owned and nothing is being stopped.
Spawns ==
  \A t \in Threads : thread[t].pc = "spawn" /\ thread[t].generation = app.generation =>
    app.owner = 0 /\ ~app.stopping

\* One thread at a time ends a child, and has it instead of the slot.
Ends(t) == thread[t].pc \in {"end", "finish"}
Leases ==
  /\ \A t \in Threads : thread[t].lease # 0 => Ends(t)
  /\ \A t \in Threads : Ends(t) => app.stopping
  /\ \A t, u \in Threads : Ends(t) /\ Ends(u) => t = u
  /\ app.stopping => app.owner = 0

\* A child that lives is owned, or leased by the thread that ends it.
Kept ==
  \A g \in Generations : child[g] = "alive" =>
    app.owner = g \/ \E t \in Threads : thread[t].pc = "end" /\ thread[t].lease = g

\* The application is told to exit before the exit stops anything.
Exits ==
  /\ \A t \in Threads : thread[t].command \in ExitCommands /\ thread[t].pc # "exit" =>
       app.application_exiting
  /\ \A t \in Threads : thread[t].pc = "exitCheck" => thread[t].command \in ExitCommands
  /\ app.approved_exit = "clean" =>
       app.application_exiting /\ \A g \in Generations : child[g] # "alive"

IInv == Typed /\ Starts /\ Spawns /\ Leases /\ Kept /\ Exits

-----------------------------------------------------------------------------
(* Threads *)

\* The threads of the commands are no cleanup threads.
LEMMA ThreadsApart ==
  ASSUME NEW t \in Callers \cup {Setup, Health}, NEW g \in Nat
  PROVE  t # <<"startup", g>>
  BY SidecarAssumption

LEMMA MaxGenerationNat == MaxGeneration \in Nat /\ Generations \subseteq Nat \ {0}
  BY SidecarAssumption DEF MaxGeneration, Generations

-----------------------------------------------------------------------------
(* Steps that take nothing, give nothing back and begin no start *)

\* Only thread t moves, between places where it has no lease; it begins no
\* start, and wakes up only if it is no cleanup thread of a start.
Moves(t) ==
  /\ \A u \in Threads : u # t => thread'[u] = thread[u]
  /\ ~Ends(t) /\ thread'[t].pc \notin {"end", "finish", "spawn"} /\ thread'[t].lease = 0
  /\ thread'[t].pc \in {"wait", "commit", "guard"} =>
       Starting(t) /\ thread'[t].generation = thread[t].generation
  /\ thread[t].pc = "idle" => \A g \in Nat : t # <<"startup", g>>
  /\ thread'[t].command \in ExitCommands /\ thread'[t].pc # "exit" => app'.application_exiting
  /\ thread'[t].pc = "exitCheck" => thread'[t].command \in ExitCommands

\* Nothing changes hands, and the generation only grows.
Holds ==
  /\ app'.generation >= app.generation /\ app'.owner = app.owner
  /\ app'.stopping = app.stopping
  /\ app.application_exiting => app'.application_exiting
  /\ \A g \in Generations : child'[g] = "alive" => child[g] = "alive"
  /\ app'.approved_exit = "clean" =>
       \/ app.approved_exit = "clean"
       \/ app.application_exiting /\ ~app.stopping /\ app.owner = 0

\* What a step that leaves these fields holds.
LEMMA SameHolds ==
  ASSUME IInv, child' = child, app'.generation = app.generation, app'.owner = app.owner,
         app'.stopping = app.stopping,
         app.application_exiting => app'.application_exiting,
         app'.approved_exit = app.approved_exit
  PROVE  Holds
  BY DEF IInv, Typed, AppTypes, Holds

\* No start begins, and no startup cleanup wakes up.
LEMMA StartsKept ==
  ASSUME IInv, app' \in AppTypes, app'.generation >= app.generation,
         \A u \in Threads : Starting(u)' =>
             Starting(u) /\ thread'[u].generation = thread[u].generation,
         \A u \in Threads, k \in Nat : u = <<"startup", k>> /\ thread[u].pc = "idle" =>
             thread'[u].pc = "idle"
  PROVE  Starts'
<1>1. app.generation \in Nat /\ app'.generation \in Nat
  BY DEF IInv, Typed, AppTypes
<1>2. \A u \in Threads : Starting(u)' =>
        /\ thread'[u].generation \in 1..app'.generation
        /\ \A v \in Threads : v = <<"startup", thread'[u].generation>> => thread'[v].pc = "idle"
        /\ \A v \in Threads : Starting(v)' /\ thread'[v].generation = thread'[u].generation => v = u
  BY <1>1 DEF IInv, Starts
<1>3. \A u \in Threads, g \in Nat : u = <<"startup", g>> /\ g > app'.generation => thread'[u].pc = "idle"
  BY <1>1 DEF IInv, Starts
<1> QED
  BY <1>2, <1>3 DEF Starts, Starting

\* A thread that has yet to spawn is none of a later generation.
LEMMA SpawnIsCurrent ==
  ASSUME IInv, app' \in AppTypes, app'.generation >= app.generation, NEW u \in Threads,
         thread[u].pc = "spawn", thread[u].generation = app'.generation
  PROVE  thread[u].generation = app.generation /\ app.owner = 0 /\ ~app.stopping
<1>1. app.generation \in Nat /\ app'.generation \in Nat
  BY DEF IInv, Typed, AppTypes
<1>2. thread[u].generation \in 1..app.generation
  BY DEF IInv, Starts, Starting
<1> QED
  BY <1>1, <1>2 DEF IInv, Spawns

LEMMA MovesKeep ==
  ASSUME IInv, Typed', NEW t \in Threads, Moves(t), Holds
  PROVE  IInv'
<1>1. Starts'
  <2>1. \A u \in Threads : Starting(u)' =>
          Starting(u) /\ thread'[u].generation = thread[u].generation
    BY DEF Moves, Starting
  <2>2. \A u \in Threads, k \in Nat : u = <<"startup", k>> /\ thread[u].pc = "idle" =>
          thread'[u].pc = "idle"
    BY DEF Moves
  <2> QED
    BY <2>1, <2>2, StartsKept DEF Holds, Typed
<1>2. Spawns'
  <2>1. \A u \in Threads : thread'[u].pc = "spawn" => thread'[u] = thread[u]
    BY DEF Moves
  <2> QED
    BY <2>1, SpawnIsCurrent DEF Typed, Spawns, Holds
<1>3. Leases'
  BY DEF IInv, Leases, Ends, Moves, Holds
<1>4. Kept'
  BY DEF IInv, Kept, Ends, Moves, Holds
<1>5. Exits'
  <2>1. \A u \in Threads : thread'[u].command \in ExitCommands /\ thread'[u].pc # "exit" =>
          app'.application_exiting
    BY DEF IInv, Exits, Moves, Holds
  <2>3. \A u \in Threads : thread'[u].pc = "exitCheck" => thread'[u].command \in ExitCommands
    BY DEF IInv, Exits, Moves
  <2>2. ~app.stopping /\ app.owner = 0 => \A g \in Generations : child[g] # "alive"
    BY MaxGenerationNat DEF IInv, Kept, Leases, Ends
  <2> QED
    BY <2>1, <2>2, <2>3 DEF IInv, Exits, Holds
<1> QED
  BY <1>1, <1>2, <1>3, <1>4, <1>5 DEF IInv

-----------------------------------------------------------------------------
(* The actions that only move *)

\* What a command of the window does, by the kind of command.
LEMMA CommandMoves ==
  ASSUME IInv, NEW t \in Callers, Asked(t)
  PROVE  Typed' /\ Moves(t) /\ Holds
<1>1. t \in Threads
  BY DEF Threads
<1>2. PICK name \in Commands \ {"none"}, pc \in {"begin", "restart", "stop", "exit"} :
        /\ Command(t, name, pc) /\ (name \in ExitCommands => pc = "exit")
        /\ \/ app' = app
           \/ app' = PrepareRetry(app)
           \/ app' = [app EXCEPT !.exit_cleanup_in_flight = TRUE]
  <2>1. CASE StartService(t)
    BY <2>1 DEF StartService, Commands, ExitCommands
  <2>2. CASE RetryService(t)
    BY <2>2 DEF RetryService, Commands, ExitCommands
  <2>3. CASE StopService(t)
    BY <2>3 DEF StopService, Commands, ExitCommands
  <2>4. CASE RequestExit(t)
    BY <2>4 DEF RequestExit, Commands, ExitCommands
  <2>5. CASE \E name \in {"retryExit", "forceExit"} : RetryExit(t, name)
    BY <2>5 DEF RetryExit, Commands, ExitCommands
  <2> QED
    BY <2>1, <2>2, <2>3, <2>4, <2>5 DEF Asked
<1> DEFINE r == [Idle EXCEPT !.command = name, !.pc = pc]
<1>3. /\ thread[t] = Idle /\ child' = child /\ thread' = [thread EXCEPT ![t] = r]
      /\ r \in ThreadTypes /\ r.pc = pc /\ r.command = name /\ r.lease = 0
  BY <1>2 DEF Command, Idle, ThreadTypes, Places, Commands, ExitCommands
<1>4. app' \in AppTypes
  <2>1. PrepareRetry(app) \in AppTypes
    <3>1. [app EXCEPT !.desired_running = TRUE, !.manual_stopped = FALSE,
                      !.service_state = "restarting", !.error = "none"] \in AppTypes
      BY DEF IInv, Typed, AppTypes
    <3> QED
      BY <3>1 DEF IInv, Typed, PrepareRetry
  <2>2. [app EXCEPT !.exit_cleanup_in_flight = TRUE] \in AppTypes
    BY DEF IInv, Typed, AppTypes
  <2> QED
    BY <1>2, <2>1, <2>2 DEF IInv, Typed
<1> HIDE DEF r
<1>5. thread' \in [Threads -> ThreadTypes]
  BY <1>1, <1>3 DEF IInv, Typed
<1>6. Moves(t)
  BY <1>1, <1>2, <1>3, ThreadsApart DEF IInv, Typed, Moves, Idle, Ends
<1>7. Holds
  <2>1. /\ app'.generation = app.generation /\ app'.owner = app.owner
        /\ app'.stopping = app.stopping /\ app'.approved_exit = app.approved_exit
        /\ app'.application_exiting = app.application_exiting
    BY <1>2 DEF IInv, Typed, AppTypes, PrepareRetry
  <2> QED
    BY <1>3, <2>1, SameHolds
<1> QED
  BY <1>3, <1>4, <1>5, <1>6, <1>7 DEF IInv, Typed

LEMMA HealthMoves ==
  ASSUME IInv, HealthStep
  PROVE  Typed' /\ Moves(Health) /\ Holds
<1>1. Health \in Threads
  BY DEF Threads
<1>2. /\ child' = child
      /\ thread[Health].pc \in {"idle", "probed", "pausing"}
      /\ \/ thread' = [thread EXCEPT ![Health].pc = "probed",
                                     ![Health].generation = app.generation]
         \/ thread' = [thread EXCEPT ![Health].pc = "pausing"]
         \/ thread' = [thread EXCEPT ![Health] = Idle]
         \/ thread' = [thread EXCEPT ![Health] = [Idle EXCEPT
                          !.command = "restart", !.pc = "restart"]]
  BY DEF HealthStep, HealthProbe, HealthFailed, HealthRestart, Goto, Return, Idle
<1>3. app' = app \/ app' = [app EXCEPT !.service_state = "restarting"]
  BY DEF HealthStep, HealthProbe, HealthFailed, HealthRestart
<1>4. app' \in AppTypes
  BY <1>3 DEF IInv, Typed, AppTypes
<1>5. /\ thread[Health] \in ThreadTypes /\ thread[Health].lease = 0
      /\ thread[Health].command \in ExitCommands => app.application_exiting
  BY <1>1, <1>2 DEF IInv, Typed, Leases, Ends, Exits
<1>6. PICK r \in ThreadTypes :
        /\ thread' = [thread EXCEPT ![Health] = r]
        /\ r.pc \in {"probed", "pausing", "idle", "restart"} /\ r.lease = 0
        /\ r.command \in {"none", "restart", thread[Health].command}
  <2>1. [thread[Health] EXCEPT !.pc = "probed", !.generation = app.generation] \in ThreadTypes
    BY <1>5 DEF IInv, Typed, AppTypes, ThreadTypes, Places
  <2>2. [thread[Health] EXCEPT !.pc = "pausing"] \in ThreadTypes
    BY <1>5 DEF ThreadTypes, Places
  <2>3. Idle \in ThreadTypes
    BY DEF Idle, ThreadTypes, Places, Commands
  <2>4. [Idle EXCEPT !.command = "restart", !.pc = "restart"] \in ThreadTypes
    BY DEF Idle, ThreadTypes, Places, Commands
  <2>5. CASE thread' = [thread EXCEPT ![Health].pc = "probed",
                                     ![Health].generation = app.generation]
    BY <2>1, <2>5, <1>5, <1>1 DEF IInv, Typed, ThreadTypes
  <2>6. CASE thread' = [thread EXCEPT ![Health].pc = "pausing"]
    BY <2>2, <2>6, <1>5, <1>1 DEF IInv, Typed, ThreadTypes
  <2>7. CASE thread' = [thread EXCEPT ![Health] = Idle]
    BY <2>3, <2>7 DEF Idle
  <2>8. CASE thread' = [thread EXCEPT ![Health] = [Idle EXCEPT
                          !.command = "restart", !.pc = "restart"]]
    BY <2>4, <2>8 DEF Idle
  <2> QED
    BY <1>2, <2>5, <2>6, <2>7, <2>8
<1>7. thread' \in [Threads -> ThreadTypes]
  BY <1>1, <1>6 DEF IInv, Typed
<1>8. Moves(Health)
  BY <1>1, <1>2, <1>3, <1>5, <1>6, ThreadsApart DEF IInv, Typed, AppTypes, Moves, Ends, ExitCommands
<1>9. Holds
  BY <1>2, <1>3 DEF IInv, Typed, AppTypes, Holds
<1> QED
  BY <1>2, <1>4, <1>7, <1>8, <1>9 DEF IInv, Typed

\* A thread that goes on without a lease, having begun no start.
LEMMA GoesOn ==
  ASSUME IInv, NEW t \in Threads, ~Ends(t), thread[t].pc # "idle",
         NEW r \in ThreadTypes, thread' = [thread EXCEPT ![t] = r],
         r.pc \notin {"end", "finish", "spawn"}, r.lease = 0,
         r.pc \in {"wait", "commit", "guard"} => Starting(t) /\ r.generation = thread[t].generation,
         r.command \in ExitCommands =>
             app'.application_exiting \/ r.pc = "exit",
         r.pc = "exitCheck" => r.command \in ExitCommands,
         app' \in AppTypes, child' \in [Generations -> {"none", "alive", "exited"}]
  PROVE  Typed' /\ Moves(t)
<1>1. thread' \in [Threads -> ThreadTypes] /\ thread'[t] = r
  BY DEF IInv, Typed
<1>2. Moves(t)
  BY <1>1 DEF IInv, Typed, Moves
<1> QED
  BY <1>1, <1>2 DEF Typed

\* What a thread that has no lease is known by.
LEMMA Here ==
  ASSUME IInv, NEW t \in Threads, ~Ends(t)
  PROVE  /\ thread[t] \in ThreadTypes /\ thread[t].lease = 0
         /\ thread[t].command \in ExitCommands /\ thread[t].pc # "exit" => app.application_exiting
  BY DEF IInv, Typed, Leases, Exits

LEMMA After2 ==
  ASSUME IInv, NEW t \in Threads, NEW th \in [Threads -> ThreadTypes], NEW ok \in BOOLEAN
  PROVE  \E r \in ThreadTypes :
           /\ After(th, t, ok) = [th EXCEPT ![t] = r]
           /\ r.pc \in {"idle", "begin", "unstopped", "exitCheck", "exitFailed", "stop"}
           /\ r.lease = 0
           /\ r.command \in {"none", th[t].command}
           /\ r.pc = "exitCheck" => r.command \in ExitCommands
<1>1. CASE th[t].command \in {"retry", "restart"}
  <2> DEFINE r == [th[t] EXCEPT !.pc = IF ok THEN "begin" ELSE "unstopped", !.lease = 0]
  <2>1. r \in ThreadTypes /\ r.pc \in {"begin", "unstopped"} /\ r.lease = 0 /\ r.command = th[t].command
    BY DEF ThreadTypes, Places
  <2>2. After(th, t, ok) = [th EXCEPT ![t] = r]
    BY <1>1 DEF After
  <2> QED
    BY <2>1, <2>2
<1>2. CASE th[t].command \in ExitCommands
  <2> DEFINE r == [th[t] EXCEPT !.pc = IF ok THEN "exitCheck"
                                 ELSE IF th[t].force THEN "exitFailed" ELSE "stop",
                                !.force = TRUE, !.lease = 0]
  <2>1. /\ r \in ThreadTypes /\ r.pc \in {"exitCheck", "exitFailed", "stop"} /\ r.lease = 0
        /\ r.command = th[t].command
    BY DEF ThreadTypes, Places
  <2>2. After(th, t, ok) = [th EXCEPT ![t] = r]
    BY <1>2 DEF After, ExitCommands
  <2> HIDE DEF r
  <2> QED
    BY <1>2, <2>1, <2>2
<1>3. CASE th[t].command \notin {"retry", "restart"} \cup ExitCommands
  <2>1. Idle \in ThreadTypes /\ Idle.pc = "idle" /\ Idle.lease = 0 /\ Idle.command = "none"
    BY DEF Idle, ThreadTypes, Places, Commands
  <2>2. After(th, t, ok) = [th EXCEPT ![t] = Idle]
    BY <1>3 DEF After, ExitCommands
  <2> QED
    BY <2>1, <2>2
<1> QED
  BY <1>1, <1>2, <1>3

\* A thread that goes to another place.
LEMMA GotoMoves ==
  ASSUME IInv, NEW t \in Threads, ~Ends(t), thread[t].pc # "idle", NEW pc \in Places,
         thread' = [thread EXCEPT ![t].pc = pc],
         pc \notin {"end", "finish", "spawn", "wait", "commit", "guard", "exitCheck"},
         thread[t].command \in ExitCommands => app'.application_exiting,
         app' \in AppTypes, child' \in [Generations -> {"none", "alive", "exited"}]
  PROVE  Typed' /\ Moves(t)
<1> DEFINE r == [thread[t] EXCEPT !.pc = pc]
<1>1. /\ r \in ThreadTypes /\ r.pc = pc /\ r.lease = 0 /\ r.command = thread[t].command
      /\ thread' = [thread EXCEPT ![t] = r]
  BY Here DEF IInv, Typed, ThreadTypes
<1> HIDE DEF r
<1> QED
  BY <1>1, GoesOn

\* A thread whose command is over.
LEMMA ReturnMoves ==
  ASSUME IInv, NEW t \in Threads, ~Ends(t), thread[t].pc # "idle", Return(t),
         app' \in AppTypes, child' \in [Generations -> {"none", "alive", "exited"}]
  PROVE  Typed' /\ Moves(t)
<1>1. Idle \in ThreadTypes
  BY DEF Idle, ThreadTypes, Places, Commands
<1>2. Idle.pc = "idle" /\ Idle.lease = 0 /\ Idle.command = "none"
  BY DEF Idle
<1> QED
  BY <1>1, <1>2, GoesOn DEF Return, ExitCommands

\* A thread that gives its start up.
LEMMA GiveUpMoves ==
  ASSUME IInv, NEW t \in Threads, Starting(t), NEW f \in BOOLEAN, GiveUp(t, f),
         app.application_exiting => app'.application_exiting,
         app' \in AppTypes, child' \in [Generations -> {"none", "alive", "exited"}]
  PROVE  Typed' /\ Moves(t)
<1> DEFINE r == [thread[t] EXCEPT !.pc = "guard", !.failed = f]
<1>1. ~Ends(t) /\ thread[t].pc \notin {"idle", "exit"}
  BY DEF Starting, Ends
<1>2. /\ r \in ThreadTypes /\ r.pc = "guard" /\ r.lease = 0
      /\ r.command = thread[t].command /\ r.generation = thread[t].generation
      /\ thread' = [thread EXCEPT ![t] = r]
  BY <1>1, Here DEF GiveUp, IInv, Typed, ThreadTypes, Places
<1> HIDE DEF r
<1> QED
  BY <1>1, <1>2, Here, GoesOn

\* A start that waits or ends.
LEMMA StartMoves ==
  ASSUME IInv, NEW t \in Threads,
         AwaitHealthy(t) \/ StartTimesOut(t) \/ CommitStart(t)
  PROVE  Typed' /\ Moves(t) /\ Holds
<1>1. /\ thread[t].pc \in {"wait", "commit"} /\ ~Ends(t) /\ Starting(t)
      /\ child' = child /\ child' \in [Generations -> {"none", "alive", "exited"}]
  BY DEF AwaitHealthy, StartTimesOut, CommitStart, Ends, Starting, IInv, Typed
<1>2. \/ app' = app
      \/ app' = [app EXCEPT !.starting = FALSE, !.running = TRUE, !.service_state = "running"]
  BY DEF AwaitHealthy, StartTimesOut, CommitStart
<1>3. /\ app' \in AppTypes
      /\ app'.generation = app.generation /\ app'.owner = app.owner
      /\ app'.stopping = app.stopping /\ app'.approved_exit = app.approved_exit
      /\ app'.application_exiting = app.application_exiting
  BY <1>2 DEF IInv, Typed, AppTypes
<1>4. Holds
  BY <1>1, <1>3, SameHolds
<1>5. \/ \E f \in BOOLEAN : GiveUp(t, f)
      \/ Goto(t, "commit")
      \/ Return(t)
  BY DEF AwaitHealthy, StartTimesOut, CommitStart
<1>6. CASE \E f \in BOOLEAN : GiveUp(t, f)
  BY <1>1, <1>3, <1>4, <1>6, GiveUpMoves
<1>7. CASE Goto(t, "commit")
  <2> DEFINE r == [thread[t] EXCEPT !.pc = "commit"]
  <2>1. /\ r \in ThreadTypes /\ r.pc = "commit" /\ r.lease = 0
        /\ r.command = thread[t].command /\ r.generation = thread[t].generation
        /\ thread' = [thread EXCEPT ![t] = r]
    BY <1>1, <1>7, Here DEF Goto, IInv, Typed, ThreadTypes, Places
  <2>2. r.command \in ExitCommands => app'.application_exiting
    BY <1>1, <1>3, <2>1, Here
  <2> HIDE DEF r
  <2>3. Typed' /\ Moves(t)
    BY <1>1, <1>3, <2>1, <2>2, GoesOn
  <2> QED
    BY <1>4, <2>3
<1>8. CASE Return(t)
  BY <1>1, <1>3, <1>4, <1>8, ReturnMoves
<1> QED
  BY <1>5, <1>6, <1>7, <1>8

\* A record of a failed start.
LEMMA RecordMoves ==
  ASSUME IInv, NEW t \in Threads, ReadFailure(t) \/ RecordFailure(t)
  PROVE  Typed' /\ Moves(t) /\ Holds
<1>1. thread[t].pc \in {"unstopped", "record"} /\ ~Ends(t) /\ child' = child
  BY DEF ReadFailure, RecordFailure, Ends
<1>2. app' \in AppTypes /\ Holds
  <2>1. /\ app' \in AppTypes
        /\ app'.generation = app.generation /\ app'.owner = app.owner
        /\ app'.stopping = app.stopping /\ app'.approved_exit = app.approved_exit
        /\ app'.application_exiting = app.application_exiting
    <3>1. \/ app' = app
          \/ app' = [app EXCEPT !.starting = FALSE, !.running = FALSE, !.session_token = 0]
          \/ app' = [app EXCEPT !.starting = FALSE, !.running = FALSE,
                                !.service_state = "failed", !.error = "start",
                                !.session_token = 0]
      BY DEF ReadFailure, RecordFailure
    <3>2. CASE app' = app
      BY <3>2 DEF IInv, Typed
    <3>3. CASE app' = [app EXCEPT !.starting = FALSE, !.running = FALSE, !.session_token = 0]
      BY <3>3 DEF IInv, Typed, AppTypes
    <3>4. CASE app' = [app EXCEPT !.starting = FALSE, !.running = FALSE,
                                !.service_state = "failed", !.error = "start",
                                !.session_token = 0]
      BY <3>4 DEF IInv, Typed, AppTypes
    <3> QED
      BY <3>1, <3>2, <3>3, <3>4
  <2> QED
    BY <1>1, <2>1, SameHolds
<1>3. PICK r \in ThreadTypes :
        /\ thread' = [thread EXCEPT ![t] = r]
        /\ r.pc \in {"record", "idle"} /\ r.lease = 0
        /\ r.command \in {"none", thread[t].command}
  <2>1. CASE ReadFailure(t)
    <3> DEFINE r == [thread[t] EXCEPT !.pc = "record", !.failed = TRUE, !.generation = app.generation]
    <3>1. r \in ThreadTypes /\ r.pc = "record" /\ r.lease = 0 /\ r.command = thread[t].command
      BY <1>1, Here DEF IInv, Typed, AppTypes, ThreadTypes, Places
    <3>2. thread' = [thread EXCEPT ![t] = r]
      BY <2>1 DEF ReadFailure, IInv, Typed, ThreadTypes
    <3> QED
      BY <3>1, <3>2
  <2>2. CASE RecordFailure(t)
    <3>1. Idle \in ThreadTypes
      BY DEF Idle, ThreadTypes, Places, Commands
    <3> QED
      BY <2>2, <3>1 DEF RecordFailure, Return, Idle
  <2> QED
    BY <2>1, <2>2
<1>4. r.command \in ExitCommands => app'.application_exiting
  BY <1>1, <1>2, <1>3, Here DEF Holds, ExitCommands
<1> QED
  BY <1>1, <1>2, <1>3, <1>4, GoesOn DEF IInv, Typed

\* A thread that goes on after a stop.
LEMMA AfterMoves ==
  ASSUME IInv, NEW t \in Threads, ~Ends(t), thread[t].pc \notin {"idle", "exit"},
         NEW ok \in BOOLEAN, thread' = After(thread, t, ok),
         app.application_exiting => app'.application_exiting,
         app' \in AppTypes, child' \in [Generations -> {"none", "alive", "exited"}]
  PROVE  Typed' /\ Moves(t)
<1>1. PICK r \in ThreadTypes :
        /\ thread' = [thread EXCEPT ![t] = r]
        /\ r.pc \in {"idle", "begin", "unstopped", "exitCheck", "exitFailed", "stop"}
        /\ r.lease = 0
        /\ r.command \in {"none", thread[t].command}
        /\ r.pc = "exitCheck" => r.command \in ExitCommands
  BY After2 DEF IInv, Typed
<1>2. r.command \in ExitCommands => app'.application_exiting
  BY <1>1, Here DEF ExitCommands
<1> QED
  BY <1>1, <1>2, GoesOn

\* The steps of a stop but its ends, and of the exit.
LEMMA RestartMoves ==
  ASSUME IInv, NEW t \in Threads, Restart(t) \/ CheckCleanup(t) \/ AwaitStop(t)
  PROVE  Typed' /\ Moves(t) /\ Holds
<1>1. /\ ~Ends(t) /\ thread[t].pc \in {"restart", "check", "await"} /\ UNCHANGED <<app, child>>
      /\ \/ Return(t)
         \/ thread' = [thread EXCEPT ![t].pc = "stop"]
         \/ thread' = [thread EXCEPT ![t].pc = "awaited"]
  BY DEF Restart, CheckCleanup, AwaitStop, Ends, Goto
<1>2. {"stop", "awaited"} \subseteq Places
  BY DEF Places
<1>3. thread[t].command \in ExitCommands => app'.application_exiting
  BY <1>1, Here
<1>4. app' \in AppTypes /\ child' \in [Generations -> {"none", "alive", "exited"}]
  BY <1>1 DEF IInv, Typed
<1>5. Typed' /\ Moves(t)
  BY <1>1, <1>2, <1>3, <1>4, GotoMoves, ReturnMoves
<1> QED
  BY <1>1, <1>5, SameHolds

LEMMA AwaitMoves ==
  ASSUME IInv, NEW t \in Threads, AwaitTimesOut(t) \/ Awaited(t)
  PROVE  Typed' /\ Moves(t) /\ Holds
<1>1. /\ ~Ends(t) /\ thread[t].pc \in {"await", "awaited"} /\ UNCHANGED <<app, child>>
      /\ \E ok \in BOOLEAN : thread' = After(thread, t, ok)
  BY DEF AwaitTimesOut, Awaited, StopFinished, Ends
<1>2. app' \in AppTypes /\ child' \in [Generations -> {"none", "alive", "exited"}]
  BY <1>1 DEF IInv, Typed
<1>3. Typed' /\ Moves(t)
  BY <1>1, <1>2, AfterMoves
<1> QED
  BY <1>1, <1>3, SameHolds

LEMMA KillMoves ==
  ASSUME IInv, NEW t \in Threads, KillStopping(t)
  PROVE  Typed' /\ Moves(t) /\ Holds
<1>1. /\ ~Ends(t) /\ thread[t].pc = "kill" /\ app' = app
      /\ thread' = [thread EXCEPT ![t].pc = "await"]
      /\ child' = child \/ child' = [child EXCEPT ![app.stopping_identity] = "exited"]
  BY DEF KillStopping, Ends, Goto
<1>2. /\ child' \in [Generations -> {"none", "alive", "exited"}]
      /\ \A g \in Generations : child'[g] = "alive" => child[g] = "alive"
  BY <1>1 DEF IInv, Typed
<1>3. "await" \in Places /\ app' \in AppTypes
  BY <1>1 DEF Places, IInv, Typed
<1>4. thread[t].command \in ExitCommands => app'.application_exiting
  BY <1>1, Here
<1>5. Typed' /\ Moves(t)
  BY <1>1, <1>2, <1>3, <1>4, GotoMoves
<1>6. Holds
  BY <1>1, <1>2 DEF IInv, Typed, AppTypes, Holds
<1> QED
  BY <1>5, <1>6

LEMMA ExitMoves ==
  ASSUME IInv, NEW t \in Threads, Exit(t)
  PROVE  Typed' /\ Moves(t) /\ Holds
<1>1. CASE BeginExit(t)
  <2>1. app' \in AppTypes /\ app'.application_exiting /\ Holds
    <3>1. /\ app' \in AppTypes /\ app'.application_exiting
          /\ app'.generation = app.generation /\ app'.owner = app.owner
          /\ app'.stopping = app.stopping /\ app'.approved_exit = app.approved_exit
      BY <1>1 DEF BeginExit, IInv, Typed, AppTypes
    <3> QED
      BY <1>1, <3>1, SameHolds DEF BeginExit
  <2>2. "stop" \in Places /\ ~Ends(t) /\ thread[t].pc = "exit"
    BY <1>1 DEF BeginExit, Places, Ends
  <2> QED
    BY <1>1, <2>1, <2>2, GotoMoves DEF BeginExit, Goto, IInv, Typed
<1>2. CASE CompleteExit(t)
  <2>1. /\ ~Ends(t) /\ thread[t].pc = "exitCheck" /\ app.application_exiting = TRUE
        /\ child' = child
    <3>1. thread[t].command \in ExitCommands
      BY <1>2 DEF CompleteExit, IInv, Exits
    <3> QED
      BY <1>2, <3>1, Here DEF CompleteExit, Ends, IInv, Typed, AppTypes
  <2>2. /\ app' \in AppTypes
        /\ app'.generation = app.generation /\ app'.owner = app.owner
        /\ app'.stopping = app.stopping /\ app'.application_exiting = app.application_exiting
        /\ \/ app'.approved_exit \in {app.approved_exit, "forced"}
           \/ ~app.stopping /\ app.owner = 0
    <3>1. CASE StopFinished(app)
      <4>1. app' = [app EXCEPT !.exit_cleanup_in_flight = FALSE, !.approved_exit = "clean"]
        BY <1>2, <3>1 DEF CompleteExit
      <4> QED
        BY <3>1, <4>1 DEF StopFinished, IInv, Typed, AppTypes
    <3>2. CASE ~StopFinished(app)
      <4>1. PICK last \in {app.approved_exit, "forced"} :
              app' = [app EXCEPT !.exit_cleanup_in_flight = FALSE, !.approved_exit = last]
        BY <1>2, <3>2 DEF CompleteExit, FailedExit
      <4> QED
        BY <4>1 DEF IInv, Typed, AppTypes
    <3> QED
      BY <3>1, <3>2
  <2>3. Holds
    BY <2>1, <2>2 DEF IInv, Typed, AppTypes, Holds
  <2> QED
    BY <1>2, <2>1, <2>2, <2>3, ReturnMoves DEF CompleteExit, IInv, Typed
<1>3. CASE FailExit(t)
  <2>1. /\ ~Ends(t) /\ thread[t].pc = "exitFailed" /\ child' = child
    BY <1>3 DEF FailExit, Ends
  <2>2. /\ app' \in AppTypes
        /\ app'.generation = app.generation /\ app'.owner = app.owner
        /\ app'.stopping = app.stopping /\ app'.application_exiting = app.application_exiting
        /\ app'.approved_exit \in {app.approved_exit, "forced"}
    <3>1. PICK last \in {app.approved_exit, "forced"} :
            app' = [ShutdownFailure(app) EXCEPT !.exit_cleanup_in_flight = FALSE,
                                                !.approved_exit = last]
      <4>1. ShutdownFailure(app).approved_exit = app.approved_exit
        BY DEF ShutdownFailure, IInv, Typed, AppTypes
      <4> QED
        BY <1>3, <4>1 DEF FailExit, FailedExit
    <3> QED
      BY <3>1 DEF ShutdownFailure, IInv, Typed, AppTypes
  <2>3. Holds
    BY <2>1, <2>2 DEF IInv, Typed, AppTypes, Holds
  <2> QED
    BY <1>3, <2>1, <2>2, <2>3, ReturnMoves DEF FailExit, IInv, Typed
<1> QED
  BY <1>1, <1>2, <1>3 DEF Exit

-----------------------------------------------------------------------------
(* Stopping *)

LEMMA IntentTyped ==
  ASSUME NEW s \in AppTypes, NEW reason
  PROVE  /\ StopIntent(s, reason) \in AppTypes
         /\ StopIntent(s, reason).generation = s.generation
         /\ StopIntent(s, reason).owner = s.owner
         /\ StopIntent(s, reason).stopping = s.stopping
         /\ StopIntent(s, reason).approved_exit = s.approved_exit
         /\ s.application_exiting => StopIntent(s, reason).application_exiting
<1>1. CASE reason = "Manual"
  <2>1. StopIntent(s, reason) = [s EXCEPT !.desired_running = FALSE, !.manual_stopped = TRUE,
                                          !.exit_stop_requested = FALSE]
    BY <1>1 DEF StopIntent
  <2> QED
    BY <2>1 DEF AppTypes
<1>2. CASE reason = "Exit"
  <2>1. PICK b \in BOOLEAN :
          StopIntent(s, reason) = [s EXCEPT !.application_exiting = TRUE, !.desired_running = FALSE,
                                            !.exit_stop_requested = b]
    <3> DEFINE b == s.exit_stop_requested \/ ~s.manual_stopped
    <3>1. b \in BOOLEAN
      OBVIOUS
    <3>2. StopIntent(s, reason) = [s EXCEPT !.application_exiting = TRUE, !.desired_running = FALSE,
                                            !.exit_stop_requested = b]
      BY <1>2 DEF StopIntent
    <3> HIDE DEF b
    <3> QED
      BY <3>1, <3>2
  <2> QED
    BY <2>1 DEF AppTypes
<1>3. CASE reason \notin {"Manual", "Exit"}
  BY <1>3 DEF StopIntent
<1> QED
  BY <1>1, <1>2, <1>3

LEMMA FinishTyped ==
  ASSUME NEW s \in AppTypes, NEW reason
  PROVE  /\ FinishEmptyStop(s, reason) \in AppTypes
         /\ FinishEmptyStop(s, reason).generation = s.generation
         /\ FinishEmptyStop(s, reason).owner = s.owner
         /\ FinishEmptyStop(s, reason).stopping = FALSE
         /\ FinishEmptyStop(s, reason).approved_exit = s.approved_exit
         /\ FinishEmptyStop(s, reason).application_exiting = s.application_exiting
<1> DEFINE rest == [s EXCEPT !.stopping_identity = 0, !.stopping = FALSE,
                             !.exit_stop_requested = FALSE,
                             !.logging_cleanup_scheduled = FALSE, !.running = FALSE,
                             !.starting = FALSE, !.session_token = 0]
<1>1. /\ rest \in AppTypes /\ rest.generation = s.generation /\ rest.owner = s.owner
      /\ rest.stopping = FALSE /\ rest.approved_exit = s.approved_exit
      /\ rest.application_exiting = s.application_exiting
  BY DEF AppTypes
<1>2. \/ FinishEmptyStop(s, reason) = [rest EXCEPT !.service_state = "failed", !.error = "manual_stop"]
      \/ FinishEmptyStop(s, reason) = [rest EXCEPT !.service_state = "restarting"]
      \/ FinishEmptyStop(s, reason) = rest
  BY DEF FinishEmptyStop
<1> HIDE DEF rest
<1>3. CASE FinishEmptyStop(s, reason) = [rest EXCEPT !.service_state = "failed", !.error = "manual_stop"]
  BY <1>1, <1>3 DEF AppTypes
<1>4. CASE FinishEmptyStop(s, reason) = [rest EXCEPT !.service_state = "restarting"]
  BY <1>1, <1>4 DEF AppTypes
<1> QED
  BY <1>1, <1>2, <1>3, <1>4

\* The stop that leases the child: nothing else is being stopped, and no start
\* is about to spawn.
LEMMA LeaseKeeps ==
  ASSUME IInv, NEW t \in Threads, thread[t].pc = "stop", ~app.stopping, app.owner # 0,
         child' = child, app' \in AppTypes, app'.generation >= app.generation,
         app'.stopping, app'.owner = 0, app'.approved_exit = app.approved_exit,
         app.application_exiting => app'.application_exiting,
         thread' = [thread EXCEPT ![t].pc = "end", ![t].lease = app.owner]
  PROVE  IInv'
<1>1. /\ thread'[t] = [thread[t] EXCEPT !.pc = "end", !.lease = app.owner]
      /\ thread'[t].pc = "end" /\ thread'[t].lease = app.owner
      /\ thread'[t].command = thread[t].command
      /\ \A u \in Threads : u # t => thread'[u] = thread[u]
  BY DEF IInv, Typed, ThreadTypes
<1>2. Typed'
  <2>1. thread[t] \in ThreadTypes /\ app.owner \in Nat
    BY DEF IInv, Typed, AppTypes
  <2> DEFINE r == [thread[t] EXCEPT !.pc = "end", !.lease = app.owner]
  <2>2. r \in ThreadTypes
    BY <2>1 DEF ThreadTypes, Places
  <2>3. thread' = [thread EXCEPT ![t] = r]
    BY DEF IInv, Typed
  <2> HIDE DEF r
  <2> QED
    BY <2>2, <2>3 DEF IInv, Typed
<1>3. Starts'
  <2>1. \A u \in Threads : Starting(u)' =>
          Starting(u) /\ thread'[u].generation = thread[u].generation
    BY <1>1 DEF Starting
  <2>2. \A u \in Threads, k \in Nat : u = <<"startup", k>> /\ thread[u].pc = "idle" =>
          thread'[u].pc = "idle"
    BY <1>1
  <2> QED
    BY <2>1, <2>2, StartsKept
<1>4. Spawns'
  <2>1. \A u \in Threads : thread'[u].pc = "spawn" => thread'[u] = thread[u]
    BY <1>1
  <2> QED
    BY <2>1, SpawnIsCurrent DEF Spawns
<1>5. \A u \in Threads : ~Ends(u)
  BY DEF IInv, Leases
<1>6. Leases'
  <2>1. \A u \in Threads : Ends(u)' => u = t
    BY <1>1, <1>5 DEF Ends
  <2>2. \A u \in Threads : thread'[u].lease # 0 => Ends(u)'
    BY <1>1, <1>5 DEF IInv, Leases, Ends
  <2> QED
    BY <2>1, <2>2 DEF Leases, Ends
<1>7. Kept'
  BY <1>1, <1>5 DEF IInv, Kept, Ends
<1>8. Exits'
  BY <1>1 DEF IInv, Exits
<1> QED
  BY <1>2, <1>3, <1>4, <1>6, <1>7, <1>8 DEF IInv

LEMMA BeginStopKeeps ==
  ASSUME IInv, NEW t \in Threads, BeginStop(t)
  PROVE  IInv'
<1> DEFINE reason == Reason(t)
           meant == StopIntent(app, reason)
           counts == reason \in {"Manual", "Exit"}
                     \/ (reason = "Restart" /\ ~app.stopping)
           now == IF counts THEN [meant EXCEPT !.generation = @ + 1] ELSE meant
           taken == [now EXCEPT !.stopping = TRUE, !.starting = FALSE, !.owner = 0,
                                !.stopping_identity = app.owner]
<1>0. app \in AppTypes /\ app.generation \in Nat /\ app.owner \in Nat
  BY DEF IInv, Typed, AppTypes
<1>1. /\ meant \in AppTypes /\ meant.generation = app.generation /\ meant.owner = app.owner
      /\ meant.stopping = app.stopping /\ meant.approved_exit = app.approved_exit
      /\ app.application_exiting => meant.application_exiting
  BY <1>0, IntentTyped
<1> HIDE DEF meant
<1>2. /\ now \in AppTypes /\ now.generation >= app.generation /\ now.owner = app.owner
      /\ now.stopping = app.stopping /\ now.approved_exit = app.approved_exit
      /\ app.application_exiting => now.application_exiting
  <2>1. CASE counts
    <3>1. now = [meant EXCEPT !.generation = app.generation + 1]
      BY <1>1, <2>1
    <3> HIDE DEF now
    <3> QED
      BY <1>0, <1>1, <3>1 DEF AppTypes
  <2>2. CASE ~counts
    BY <1>0, <1>1, <2>2
  <2> QED
    BY <2>1, <2>2
<1> HIDE DEF now
<1>3. /\ taken \in AppTypes /\ taken.generation >= app.generation /\ taken.owner = 0
      /\ taken.stopping /\ taken.approved_exit = app.approved_exit
      /\ app.application_exiting => taken.application_exiting
  BY <1>0, <1>2 DEF AppTypes
<1> HIDE DEF taken
<1>4. thread[t].pc = "stop" /\ ~Ends(t) /\ child' = child /\ child' \in [Generations -> {"none", "alive", "exited"}]
  BY DEF BeginStop, Ends, IInv, Typed
<1>5. \/ /\ app' = now
         /\ thread' = [thread EXCEPT ![t].pc = "kill"] \/ thread' = [thread EXCEPT ![t].pc = "await"]
      \/ /\ app' = now
         /\ thread' = After(thread, t, FALSE)
      \/ /\ ~app.stopping /\ app.owner = 0
         /\ app' = FinishEmptyStop(taken, reason)
         /\ thread' = After(thread, t, TRUE)
      \/ /\ ~app.stopping /\ app.owner # 0
         /\ app' = taken
         /\ thread' = [thread EXCEPT ![t].pc = "end", ![t].lease = app.owner]
  BY DEF BeginStop, Goto, taken, now, meant
<1>6. CASE /\ app' = now
           /\ thread' = [thread EXCEPT ![t].pc = "kill"] \/ thread' = [thread EXCEPT ![t].pc = "await"]
  <2>1. Holds
    BY <1>2, <1>4, <1>6 DEF Holds
  <2>2. thread[t].command \in ExitCommands => app'.application_exiting
    BY <1>2, <1>4, <1>6, Here
  <2>3. {"kill", "await"} \subseteq Places
    BY DEF Places
  <2>4. Typed' /\ Moves(t)
    BY <1>2, <1>4, <1>6, <2>2, <2>3, GotoMoves
  <2> QED
    BY <2>1, <2>4, MovesKeep
<1>7. CASE app' = now /\ thread' = After(thread, t, FALSE)
  <2>1. Holds
    BY <1>2, <1>4, <1>7 DEF Holds
  <2>2. Typed' /\ Moves(t)
    BY <1>2, <1>4, <1>7, AfterMoves
  <2> QED
    BY <2>1, <2>2, MovesKeep
<1>8. CASE /\ ~app.stopping /\ app.owner = 0
           /\ app' = FinishEmptyStop(taken, reason)
           /\ thread' = After(thread, t, TRUE)
  <2>1. /\ app' \in AppTypes /\ app'.generation >= app.generation /\ app'.owner = 0
        /\ app'.stopping = FALSE /\ app'.approved_exit = app.approved_exit
        /\ app.application_exiting => app'.application_exiting
    BY <1>3, <1>8, FinishTyped
  <2>2. app.stopping = FALSE
    BY <1>0, <1>8 DEF AppTypes
  <2>3. Holds
    BY <1>4, <1>8, <2>1, <2>2 DEF Holds
  <2>4. Typed' /\ Moves(t)
    BY <1>4, <1>8, <2>1, AfterMoves
  <2> QED
    BY <2>3, <2>4, MovesKeep
<1>9. CASE /\ ~app.stopping /\ app.owner # 0
           /\ app' = taken
           /\ thread' = [thread EXCEPT ![t].pc = "end", ![t].lease = app.owner]
  BY <1>3, <1>4, <1>9, LeaseKeeps
<1> QED
  BY <1>5, <1>6, <1>7, <1>8, <1>9

\* The end of a lease: what lives goes back to the slot.
LEMMA ReleaseKeeps ==
  ASSUME IInv, NEW t \in Threads, Ends(t), NEW r \in ThreadTypes,
         thread' = [thread EXCEPT ![t] = r],
         r.pc \in {"idle", "begin", "unstopped", "exitCheck", "exitFailed", "stop"},
         r.lease = 0, r.command \in {"none", thread[t].command},
         r.pc = "exitCheck" => r.command \in ExitCommands,
         child' = child, app' \in AppTypes, app'.generation = app.generation,
         app'.stopping = FALSE, app'.approved_exit = app.approved_exit,
         app'.application_exiting = app.application_exiting,
         \A g \in Generations : child[g] = "alive" => app'.owner = g
  PROVE  IInv'
<1>1. thread'[t] = r /\ \A u \in Threads : u # t => thread'[u] = thread[u]
  BY DEF IInv, Typed
<1>2. Typed'
  BY DEF IInv, Typed
<1>3. app.stopping /\ \A u \in Threads : Ends(u) => u = t
  BY DEF IInv, Leases
<1>4. Starts'
  <2>1. \A u \in Threads : Starting(u)' =>
          Starting(u) /\ thread'[u].generation = thread[u].generation
    BY <1>1 DEF Starting
  <2>2. \A u \in Threads, k \in Nat : u = <<"startup", k>> /\ thread[u].pc = "idle" =>
          thread'[u].pc = "idle"
    BY <1>1 DEF Ends
  <2>3. app'.generation >= app.generation
    BY DEF AppTypes
  <2> QED
    BY <2>1, <2>2, <2>3, StartsKept
<1>5. Spawns'
  BY <1>1, <1>3 DEF IInv, Spawns
<1>6. Leases'
  <2>1. \A u \in Threads : ~Ends(u)'
    BY <1>1, <1>3 DEF Ends
  <2>2. \A u \in Threads : thread'[u].lease = 0
    BY <1>1, <1>3 DEF IInv, Leases
  <2> QED
    BY <2>1, <2>2 DEF Leases, Ends
<1>7. Kept'
  BY DEF Kept
<1>8. Exits'
  <2>1. thread[t].command \in ExitCommands => app.application_exiting
    BY DEF IInv, Exits, Ends
  <2>2. \A u \in Threads : thread'[u].command \in ExitCommands /\ thread'[u].pc # "exit" =>
          app'.application_exiting
    BY <1>1, <2>1 DEF IInv, Exits, ExitCommands
  <2>3. \A u \in Threads : thread'[u].pc = "exitCheck" => thread'[u].command \in ExitCommands
    BY <1>1 DEF IInv, Exits
  <2> QED
    BY <2>2, <2>3 DEF IInv, Exits
<1> QED
  BY <1>2, <1>4, <1>5, <1>6, <1>7, <1>8 DEF IInv

LEMMA EndChildKeeps ==
  ASSUME IInv, NEW t \in Threads, EndChild(t)
  PROVE  IInv'
<1>1. PICK f \in BOOLEAN :
        /\ thread[t].pc = "end" /\ app' = app
        /\ child' = [child EXCEPT ![thread[t].lease] = "exited"]
        /\ thread' = [thread EXCEPT ![t].pc = "finish", ![t].failed = f]
  BY DEF EndChild
<1> DEFINE r == [thread[t] EXCEPT !.pc = "finish", !.failed = f]
<1>2. r \in ThreadTypes /\ r.pc = "finish" /\ r.command = thread[t].command
      /\ thread' = [thread EXCEPT ![t] = r]
  BY <1>1 DEF IInv, Typed, ThreadTypes, Places
<1> HIDE DEF r
<1>3. thread'[t] = r /\ \A u \in Threads : u # t => thread'[u] = thread[u]
  BY <1>2 DEF IInv, Typed
<1>4. Typed'
  BY <1>1, <1>2 DEF IInv, Typed
<1>5. app.stopping /\ app.owner = 0 /\ \A u \in Threads : Ends(u) => u = t
  BY <1>1 DEF IInv, Leases, Ends
<1>6. Starts'
  <2>1. \A u \in Threads : Starting(u)' =>
          Starting(u) /\ thread'[u].generation = thread[u].generation
    BY <1>2, <1>3 DEF Starting
  <2>2. \A u \in Threads, k \in Nat : u = <<"startup", k>> /\ thread[u].pc = "idle" =>
          thread'[u].pc = "idle"
    BY <1>1, <1>3
  <2>3. app' \in AppTypes /\ app'.generation >= app.generation
    BY <1>1 DEF IInv, Typed, AppTypes
  <2> QED
    BY <2>1, <2>2, <2>3, StartsKept
<1>7. Spawns'
  BY <1>1, <1>2, <1>3 DEF IInv, Spawns
<1>8. Leases'
  <2>1. \A u \in Threads : Ends(u)' => u = t
    BY <1>3, <1>5 DEF Ends
  <2>2. \A u \in Threads : thread'[u].lease # 0 => Ends(u)'
    BY <1>2, <1>3 DEF IInv, Leases, Ends
  <2> QED
    BY <1>1, <1>5, <2>1, <2>2 DEF Leases, Ends
<1>9. Kept'
  BY <1>1, <1>5, MaxGenerationNat DEF IInv, Kept, Typed, Ends
<1>10. Exits'
  BY <1>1, <1>2, <1>3 DEF IInv, Exits, Typed
<1> QED
  BY <1>4, <1>6, <1>7, <1>8, <1>9, <1>10 DEF IInv

LEMMA EndChildFailsKeeps ==
  ASSUME IInv, NEW t \in Threads, EndChildFails(t)
  PROVE  IInv'
<1>1. thread[t].pc = "end" /\ Ends(t) /\ child' = child /\ thread' = After(thread, t, FALSE)
  BY DEF EndChildFails, Ends
<1>2. app.owner = 0 /\ \A u \in Threads : Ends(u) => u = t
  BY <1>1 DEF IInv, Leases
<1>3. thread[t].lease \in Nat
  BY DEF IInv, Typed, ThreadTypes
<1>4. app' = ShutdownFailure([app EXCEPT !.owner = thread[t].lease, !.stopping = FALSE,
                                         !.stopping_identity = 0,
                                         !.logging_cleanup_scheduled = FALSE])
  BY <1>2 DEF EndChildFails, IInv, Typed, AppTypes
<1>5. /\ app' \in AppTypes /\ app'.generation = app.generation
      /\ app'.stopping = FALSE /\ app'.approved_exit = app.approved_exit
      /\ app'.application_exiting = app.application_exiting
      /\ app'.owner = thread[t].lease
  BY <1>3, <1>4 DEF ShutdownFailure, IInv, Typed, AppTypes
<1>6. \A g \in Generations : child[g] = "alive" => app'.owner = g
  BY <1>2, <1>5, MaxGenerationNat DEF IInv, Kept, Ends
<1>7. PICK r \in ThreadTypes :
        /\ thread' = [thread EXCEPT ![t] = r]
        /\ r.pc \in {"idle", "begin", "unstopped", "exitCheck", "exitFailed", "stop"}
        /\ r.lease = 0
        /\ r.command \in {"none", thread[t].command}
        /\ r.pc = "exitCheck" => r.command \in ExitCommands
  BY <1>1, After2 DEF IInv, Typed
<1> QED
  BY <1>1, <1>5, <1>6, <1>7, ReleaseKeeps

LEMMA FinishStopKeeps ==
  ASSUME IInv, NEW t \in Threads, FinishStop(t)
  PROVE  IInv'
<1> DEFINE emptied == [app EXCEPT !.owner = 0]
           ended == FinishEmptyStop(emptied, Reason(t))
           told == [thread EXCEPT ![t].failed = FALSE]
<1>1. /\ thread[t].pc = "finish" /\ Ends(t) /\ child' = child
      /\ app' = ended \/ app' = [ended EXCEPT !.service_state = "failed", !.error = "shutdown"]
      /\ \E ok \in BOOLEAN : thread' = After(told, t, ok)
  <2>1. thread[t].failed \in BOOLEAN
    BY DEF IInv, Typed, ThreadTypes
  <2> QED
    BY <2>1 DEF FinishStop, Ends
<1>2. /\ emptied \in AppTypes /\ emptied.generation = app.generation
      /\ emptied.approved_exit = app.approved_exit
      /\ emptied.application_exiting = app.application_exiting
  BY DEF IInv, Typed, AppTypes
<1> HIDE DEF emptied
<1>3. /\ ended \in AppTypes /\ ended.generation = app.generation
      /\ ended.stopping = FALSE /\ ended.approved_exit = app.approved_exit
      /\ ended.application_exiting = app.application_exiting
  BY <1>2, FinishTyped
<1> HIDE DEF ended
<1>4. /\ app' \in AppTypes /\ app'.generation = app.generation
      /\ app'.stopping = FALSE /\ app'.approved_exit = app.approved_exit
      /\ app'.application_exiting = app.application_exiting
  BY <1>1, <1>3 DEF AppTypes
<1>5. \A g \in Generations : child[g] # "alive"
  <2>1. app.owner = 0 /\ \A u \in Threads : Ends(u) => u = t
    BY <1>1 DEF IInv, Leases
  <2> QED
    BY <1>1, <2>1, MaxGenerationNat DEF IInv, Kept, Ends
<1>6. /\ told \in [Threads -> ThreadTypes] /\ told[t].command = thread[t].command
      /\ \A r \in ThreadTypes : [told EXCEPT ![t] = r] = [thread EXCEPT ![t] = r]
  <2> DEFINE mine == [thread[t] EXCEPT !.failed = FALSE]
  <2>1. thread \in [Threads -> ThreadTypes] /\ mine \in ThreadTypes /\ mine.command = thread[t].command
    BY DEF IInv, Typed, ThreadTypes
  <2>2. told = [thread EXCEPT ![t] = mine]
    OBVIOUS
  <2> HIDE DEF told, mine
  <2> QED
    BY <2>1, <2>2
<1> HIDE DEF told
<1>7. PICK r \in ThreadTypes :
        /\ thread' = [thread EXCEPT ![t] = r]
        /\ r.pc \in {"idle", "begin", "unstopped", "exitCheck", "exitFailed", "stop"}
        /\ r.lease = 0
        /\ r.command \in {"none", thread[t].command}
        /\ r.pc = "exitCheck" => r.command \in ExitCommands
  <2>1. PICK ok \in BOOLEAN : thread' = After(told, t, ok)
    BY <1>1
  <2>2. PICK r \in ThreadTypes :
          /\ After(told, t, ok) = [told EXCEPT ![t] = r]
          /\ r.pc \in {"idle", "begin", "unstopped", "exitCheck", "exitFailed", "stop"}
          /\ r.lease = 0
          /\ r.command \in {"none", told[t].command}
          /\ r.pc = "exitCheck" => r.command \in ExitCommands
    BY <1>6, After2
  <2> QED
    BY <1>6, <2>1, <2>2
<1> QED
  BY <1>1, <1>4, <1>5, <1>7, ReleaseKeeps

-----------------------------------------------------------------------------
(* Starting *)

\* A start that may spawn is the current one, and nothing else has a child.
LEMMA SpawnKeeps ==
  ASSUME IInv, NEW t \in Threads, thread[t].pc = "spawn", ~Superseded(t), Vacant,
         NEW pc \in {"wait", "guard"}, NEW f \in BOOLEAN,
         thread' = [thread EXCEPT ![t].pc = pc, ![t].failed = f],
         child' = [child EXCEPT ![thread[t].generation] = "alive"],
         app' \in AppTypes, app'.generation = app.generation,
         app'.owner = thread[t].generation, app'.stopping = FALSE,
         app'.approved_exit = app.approved_exit,
         app'.application_exiting = app.application_exiting
  PROVE  IInv'
<1>1. /\ thread[t].generation = app.generation /\ ~app.application_exiting
      /\ app.owner = 0 /\ ~app.stopping /\ Starting(t)
  BY DEF Superseded, Vacant, IInv, Spawns, Starting
<1> DEFINE r == [thread[t] EXCEPT !.pc = pc, !.failed = f]
<1>2. /\ r \in ThreadTypes /\ r.pc = pc /\ r.command = thread[t].command
      /\ r.generation = thread[t].generation /\ r.lease = thread[t].lease
      /\ thread' = [thread EXCEPT ![t] = r]
  BY DEF IInv, Typed, ThreadTypes, Places
<1> HIDE DEF r
<1>3. thread'[t] = r /\ \A u \in Threads : u # t => thread'[u] = thread[u]
  BY <1>2 DEF IInv, Typed
<1>4. Typed'
  BY <1>2 DEF IInv, Typed
<1>5. \A u \in Threads : ~Ends(u)
  BY <1>1 DEF IInv, Leases
<1>6. Starts'
  <2>1. \A u \in Threads : Starting(u)' =>
          Starting(u) /\ thread'[u].generation = thread[u].generation
    BY <1>1, <1>2, <1>3 DEF Starting
  <2>2. \A u \in Threads, k \in Nat : u = <<"startup", k>> /\ thread[u].pc = "idle" =>
          thread'[u].pc = "idle"
    BY <1>3
  <2>3. app'.generation >= app.generation
    BY DEF AppTypes
  <2> QED
    BY <2>1, <2>2, <2>3, StartsKept
<1>7. Spawns'
  <2>1. \A u \in Threads : thread'[u].pc = "spawn" => u # t /\ thread'[u] = thread[u]
    BY <1>2, <1>3
  <2>2. \A u \in Threads : thread[u].pc = "spawn" /\ thread[u].generation = app.generation => u = t
    BY <1>1 DEF IInv, Starts, Starting
  <2> QED
    BY <2>1, <2>2 DEF Spawns
<1>8. Leases'
  <2>1. \A u \in Threads : ~Ends(u)' /\ thread'[u].lease = 0
    BY <1>2, <1>3, <1>5 DEF IInv, Leases, Ends
  <2> QED
    BY <2>1 DEF Leases, Ends
<1>9. Kept'
  <2>1. \A g \in Generations : child[g] # "alive"
    BY <1>1, <1>5, MaxGenerationNat DEF IInv, Kept, Ends
  <2> QED
    BY <2>1 DEF IInv, Typed, Kept
<1>10. Exits'
  BY <1>1, <1>2, <1>3 DEF IInv, Exits
<1> QED
  BY <1>4, <1>6, <1>7, <1>8, <1>9, <1>10 DEF IInv

LEMMA SpawnStepKeeps ==
  ASSUME IInv, NEW t \in Threads, Spawn(t)
  PROVE  IInv'
<1> DEFINE g == thread[t].generation
<1>1. thread[t].pc = "spawn" /\ Starting(t) /\ ~Ends(t) /\ thread[t].failed \in BOOLEAN /\ g \in Nat
  BY DEF Spawn, Starting, Ends, IInv, Typed, ThreadTypes
<1>2. CASE UNCHANGED <<app, child>> /\ \E f \in BOOLEAN : GiveUp(t, f)
  <2>1. app' \in AppTypes /\ child' \in [Generations -> {"none", "alive", "exited"}]
    BY <1>2 DEF IInv, Typed
  <2>2. Typed' /\ Moves(t)
    BY <1>1, <1>2, <2>1, GiveUpMoves
  <2> QED
    BY <1>2, <2>2, SameHolds, MovesKeep
<1>3. CASE /\ ~Superseded(t) /\ Vacant
           /\ child' = [child EXCEPT ![g] = "alive"]
           /\ app' = [app EXCEPT !.owner = g]
           /\ Goto(t, "wait")
  <2>1. thread' = [thread EXCEPT ![t].pc = "wait", ![t].failed = thread[t].failed]
    BY <1>3 DEF Goto, IInv, Typed, ThreadTypes
  <2>2. ~app.stopping
    BY <1>1, <1>3 DEF Superseded, IInv, Spawns
  <2>3. /\ app' \in AppTypes /\ app'.generation = app.generation
        /\ app'.owner = g /\ app'.stopping = FALSE
        /\ app'.approved_exit = app.approved_exit
        /\ app'.application_exiting = app.application_exiting
    BY <1>1, <1>3, <2>2 DEF IInv, Typed, AppTypes
  <2> QED
    BY <1>1, <1>3, <2>1, <2>3, SpawnKeeps
<1>4. CASE /\ ~Superseded(t) /\ Vacant
           /\ child' = [child EXCEPT ![g] = "alive"]
           /\ app' = ShutdownFailure([app EXCEPT !.owner = g, !.stopping = FALSE,
                                                 !.stopping_identity = 0])
           /\ GiveUp(t, TRUE)
  <2>1. /\ app' \in AppTypes /\ app'.generation = app.generation
        /\ app'.owner = g /\ app'.stopping = FALSE
        /\ app'.approved_exit = app.approved_exit
        /\ app'.application_exiting = app.application_exiting
    BY <1>1, <1>4 DEF ShutdownFailure, IInv, Typed, AppTypes
  <2> QED
    BY <1>1, <1>4, <2>1, SpawnKeeps DEF GiveUp
<1> QED
  BY <1>2, <1>3, <1>4 DEF Spawn

\* A start that is let in takes the next generation.
LEMMA BeginStartKeeps ==
  ASSUME IInv, NEW t \in Threads, BeginStart(t)
  PROVE  IInv'
<1>1. thread[t].pc = "begin" /\ ~Ends(t) /\ child' = child
      /\ child' \in [Generations -> {"none", "alive", "exited"}]
  BY DEF BeginStart, Ends, IInv, Typed
<1>2. CASE Return(t) /\ app' = app
  <2>1. app' \in AppTypes
    BY <1>2 DEF IInv, Typed
  <2> QED
    BY <1>1, <1>2, <2>1, ReturnMoves, SameHolds, MovesKeep
<1>3. CASE /\ ~app.application_exiting /\ ~app.stopping /\ Vacant
           /\ app' = [app EXCEPT !.desired_running = TRUE, !.manual_stopped = FALSE,
                                 !.generation = @ + 1, !.starting = TRUE,
                                 !.service_state = "starting", !.error = "none",
                                 !.session_token = app.generation + 1]
           /\ thread' = [thread EXCEPT ![t].pc = "spawn", ![t].generation = app.generation + 1]
  <2>1. app.generation \in Nat /\ app.owner = 0
    BY <1>3 DEF Vacant, IInv, Typed, AppTypes
  <2> DEFINE next == app.generation + 1
  <2>12. next \in Nat
    BY <2>1
  <2>13. /\ app' = [app EXCEPT !.desired_running = TRUE, !.manual_stopped = FALSE,
                              !.generation = next, !.starting = TRUE,
                              !.service_state = "starting", !.error = "none",
                              !.session_token = next]
        /\ thread' = [thread EXCEPT ![t].pc = "spawn", ![t].generation = next]
    BY <1>3
  <2>14. next = app.generation + 1
    OBVIOUS
  <2> HIDE DEF next
  <2>2. /\ app' \in AppTypes /\ app'.generation = next
        /\ app'.owner = 0 /\ app'.stopping = app.stopping
        /\ app'.approved_exit = app.approved_exit
        /\ app'.application_exiting = app.application_exiting
    BY <2>1, <2>12, <2>13 DEF IInv, Typed, AppTypes
  <2> DEFINE r == [thread[t] EXCEPT !.pc = "spawn", !.generation = next]
  <2>3. /\ r \in ThreadTypes /\ r.pc = "spawn" /\ r.command = thread[t].command
        /\ r.generation = next /\ r.lease = thread[t].lease
        /\ thread' = [thread EXCEPT ![t] = r]
    BY <2>12, <2>13 DEF IInv, Typed, ThreadTypes, Places
  <2> HIDE DEF r
  <2>4. thread'[t] = r /\ \A u \in Threads : u # t => thread'[u] = thread[u]
    BY <2>3 DEF IInv, Typed
  <2>5. Typed'
    BY <1>1, <2>2, <2>3 DEF IInv, Typed
  <2>6. Starts'
    <3>1. \A u \in Threads, k \in Nat : u = <<"startup", k>> /\ thread[u].pc = "idle" =>
            thread'[u].pc = "idle"
      BY <1>1, <2>4
    <3>2. \A u \in Threads : Starting(u) => thread[u].generation \in 1..app.generation
      BY DEF IInv, Starts
    <3>3. \A u \in Threads : Starting(u)' =>
            \/ u # t /\ Starting(u) /\ thread'[u].generation = thread[u].generation
            \/ u = t /\ thread'[u].generation = next
      BY <2>3, <2>4 DEF Starting
    <3>4. ASSUME NEW u \in Threads, Starting(u)'
          PROVE  /\ thread'[u].generation \in 1..app'.generation
                 /\ \A v \in Threads : v = <<"startup", thread'[u].generation>> => thread'[v].pc = "idle"
      <4>1. CASE u # t /\ Starting(u) /\ thread'[u].generation = thread[u].generation
        <5>1. thread[u].generation \in 1..app.generation
              /\ \A v \in Threads : v = <<"startup", thread[u].generation>> => thread[v].pc = "idle"
          BY <4>1 DEF IInv, Starts
        <5> QED
          BY <2>1, <2>2, <2>14, <3>1, <4>1, <5>1
      <4>2. CASE u = t /\ thread'[u].generation = next
        <5>1. next \in Nat /\ next > app.generation
          BY <2>1, <2>14
        <5>2. \A v \in Threads : v = <<"startup", next>> => thread[v].pc = "idle"
          BY <5>1 DEF IInv, Starts
        <5> QED
          BY <2>1, <2>2, <2>14, <3>1, <4>2, <5>1, <5>2
      <4> QED
        BY <3>3, <3>4, <4>1, <4>2
    <3>5. \A u, v \in Threads :
            Starting(u)' /\ Starting(v)' /\ thread'[v].generation = thread'[u].generation => v = u
      <4>1. \A u, v \in Threads :
              Starting(u) /\ Starting(v) /\ thread[v].generation = thread[u].generation => v = u
        BY DEF IInv, Starts
      <4>2. next \notin 1..app.generation
        BY <2>1, <2>14
      <4> QED
        BY <3>2, <3>3, <4>1, <4>2
    <3>6. \A u \in Threads, g \in Nat : u = <<"startup", g>> /\ g > app'.generation => thread'[u].pc = "idle"
      BY <2>1, <2>2, <2>14, <3>1 DEF IInv, Starts
    <3> QED
      BY <3>4, <3>5, <3>6 DEF Starts, Starting
  <2>7. Spawns'
    <3>1. app'.owner = 0 /\ ~app'.stopping
      BY <1>3, <2>2 DEF IInv, Typed, AppTypes
    <3> QED
      BY <3>1 DEF Spawns
  <2>8. \A u \in Threads : ~Ends(u)
    BY <1>3 DEF IInv, Leases
  <2>9. Leases'
    <3>1. \A u \in Threads : ~Ends(u)' /\ thread'[u].lease = 0
      BY <2>3, <2>4, <2>8 DEF IInv, Leases, Ends
    <3> QED
      BY <2>2, <3>1 DEF Leases, Ends
  <2>10. Kept'
    BY <1>1, <2>1, <2>8, MaxGenerationNat DEF IInv, Kept, Ends
  <2>11. Exits'
    BY <1>1, <2>2, <2>3, <2>4 DEF IInv, Exits
  <2> QED
    BY <2>5, <2>6, <2>7, <2>9, <2>10, <2>11 DEF IInv
<1>4. CASE /\ app' = [app EXCEPT !.desired_running = TRUE, !.manual_stopped = FALSE]
           /\ thread' = [thread EXCEPT ![t].pc = "record", ![t].failed = TRUE,
                                       ![t].generation = app.generation]
  <2>1. /\ app' \in AppTypes /\ app'.generation = app.generation /\ app'.owner = app.owner
        /\ app'.stopping = app.stopping /\ app'.approved_exit = app.approved_exit
        /\ app'.application_exiting = app.application_exiting
    BY <1>4 DEF IInv, Typed, AppTypes
  <2>2. Holds
    BY <1>1, <2>1, SameHolds
  <2> DEFINE r == [thread[t] EXCEPT !.pc = "record", !.failed = TRUE,
                                    !.generation = app.generation]
  <2>3. r \in ThreadTypes /\ r.pc = "record" /\ r.lease = 0 /\ r.command = thread[t].command
    BY <1>1, Here DEF IInv, Typed, AppTypes, ThreadTypes, Places
  <2>4. thread' = [thread EXCEPT ![t] = r]
    BY <1>4 DEF IInv, Typed, ThreadTypes
  <2> HIDE DEF r
  <2>5. r.command \in ExitCommands => app'.application_exiting
    BY <1>1, <2>1, <2>3, Here
  <2>6. Typed' /\ Moves(t)
    BY <1>1, <2>1, <2>3, <2>4, <2>5, GoesOn
  <2> QED
    BY <2>2, <2>6, MovesKeep
<1> DEFINE wanted == [app EXCEPT !.desired_running = TRUE, !.manual_stopped = FALSE]
<1>5. [wanted EXCEPT !.generation = @ + 1, !.starting = TRUE, !.service_state = "starting",
                     !.error = "none", !.session_token = app.generation + 1]
        = [app EXCEPT !.desired_running = TRUE, !.manual_stopped = FALSE,
                      !.generation = @ + 1, !.starting = TRUE, !.service_state = "starting",
                      !.error = "none", !.session_token = app.generation + 1]
  BY DEF IInv, Typed, AppTypes
<1> QED
  BY <1>2, <1>3, <1>4, <1>5 DEF BeginStart

\* A start that is given up may wake the cleanup thread of its generation,
\* which has not run yet and which no other start will wake.
LEMMA DropGuardKeeps ==
  ASSUME IInv, NEW t \in Threads, DropGuard(t)
  PROVE  IInv'
<1> DEFINE g == thread[t].generation
           s == <<"startup", g>>
           r == [thread[t] EXCEPT !.pc = "record"]
           woken == [Idle EXCEPT !.pc = "check", !.generation = g]
<1>1. /\ thread[t].pc = "guard" /\ ~Ends(t) /\ Starting(t) /\ child' = child
      /\ thread[t].generation \in Nat
  BY DEF DropGuard, Ends, Starting, IInv, Typed, ThreadTypes
<1>2. /\ app' \in AppTypes
      /\ app'.generation = app.generation /\ app'.owner = app.owner
      /\ app'.stopping = app.stopping /\ app'.approved_exit = app.approved_exit
      /\ app'.application_exiting = app.application_exiting
  <2>1. app' = app \/ app' = [app EXCEPT !.starting = FALSE, !.running = FALSE]
    BY DEF DropGuard
  <2> QED
    BY <2>1 DEF IInv, Typed, AppTypes
<1>3. /\ r \in ThreadTypes /\ r.pc = "record" /\ r.lease = 0 /\ r.command = thread[t].command
      /\ [thread EXCEPT ![t].pc = "record"] = [thread EXCEPT ![t] = r]
  BY <1>1, Here DEF IInv, Typed, ThreadTypes, Places
<1>4. woken \in ThreadTypes /\ woken.pc = "check" /\ woken.lease = 0 /\ woken.command = "none"
  BY <1>1 DEF Idle, ThreadTypes, Places, Commands
<1>5. \/ thread' = [thread EXCEPT ![t] = r]
      \/ thread' = [[thread EXCEPT ![t] = r] EXCEPT ![s] = woken]
  BY <1>3 DEF DropGuard, ScheduleStartup
<1>6. s \in Threads => thread[s].pc = "idle" /\ s # t
  BY <1>1 DEF IInv, Starts
<1>7. g \in 1..app.generation
  BY <1>1 DEF IInv, Starts
<1>8. \A k : s = <<"startup", k>> => k = g
  OBVIOUS
<1>9. Typed'
  BY <1>1, <1>2, <1>3, <1>4, <1>5 DEF IInv, Typed
<1> HIDE DEF r, woken, s
<1>10. /\ thread'[t] = r
       /\ \A u \in Threads : u # t =>
            thread'[u] = thread[u] \/ (u = s /\ thread'[u] = woken)
  BY <1>5, <1>6 DEF IInv, Typed
<1>11. Starts'
  <2>1. app.generation \in Nat
    BY DEF IInv, Typed, AppTypes
  <2>2. \A u \in Threads : Starting(u)' =>
          u # t /\ Starting(u) /\ thread'[u] = thread[u]
    BY <1>3, <1>4, <1>10 DEF Starting
  <2>3. ASSUME NEW u \in Threads, Starting(u)', NEW v \in Threads,
               v = <<"startup", thread'[u].generation>>
        PROVE  thread'[v].pc = "idle"
    <3>1. u # t /\ Starting(u) /\ thread'[u].generation = thread[u].generation
      BY <2>2, <2>3
    <3>2. thread[v].pc = "idle"
      BY <2>3, <3>1 DEF IInv, Starts
    <3>3. thread[u].generation # g
      BY <1>1, <3>1 DEF IInv, Starts
    <3>4. v # s
      BY <1>8, <2>3, <3>1, <3>3 DEF s
    <3>5. v # t
      BY <1>1, <3>2
    <3> QED
      BY <1>10, <3>2, <3>4, <3>5
  <2>4. ASSUME NEW u \in Threads, NEW k \in Nat, u = <<"startup", k>>, k > app'.generation
        PROVE  thread'[u].pc = "idle"
    <3>1. thread[u].pc = "idle"
      BY <1>2, <2>4 DEF IInv, Starts
    <3>2. k # g
      BY <1>2, <1>7, <2>1, <2>4
    <3>3. u # s /\ u # t
      BY <1>1, <1>8, <2>4, <3>1, <3>2
    <3> QED
      BY <1>10, <3>1, <3>3
  <2>5. \A u \in Threads : Starting(u)' =>
          /\ thread'[u].generation \in 1..app'.generation
          /\ \A v \in Threads : Starting(v)' /\ thread'[v].generation = thread'[u].generation => v = u
    BY <1>2, <2>2 DEF IInv, Starts
  <2> QED
    BY <2>3, <2>4, <2>5 DEF Starts, Starting
<1>12. Spawns'
  BY <1>2, <1>3, <1>4, <1>10 DEF IInv, Spawns
<1>13. Leases'
  <2>1. \A u \in Threads : Ends(u)' => Ends(u) /\ thread'[u] = thread[u]
    BY <1>3, <1>4, <1>10 DEF Ends
  <2>2. \A u \in Threads : thread'[u].lease # 0 => thread'[u] = thread[u]
    BY <1>3, <1>4, <1>10
  <2> QED
    BY <1>2, <2>1, <2>2 DEF IInv, Leases, Ends
<1>14. Kept'
  <2>1. \A u \in Threads : thread[u].pc = "end" => thread'[u] = thread[u]
    BY <1>1, <1>6, <1>10
  <2> QED
    BY <1>1, <1>2, <2>1 DEF IInv, Kept
<1>15. Exits'
  BY <1>1, <1>2, <1>3, <1>4, <1>10 DEF IInv, Exits, ExitCommands
<1> QED
  BY <1>9, <1>11, <1>12, <1>13, <1>14, <1>15 DEF IInv

-----------------------------------------------------------------------------
(* The child and its log readers *)

LEMMA ChildExitsKeeps ==
  ASSUME IInv, NEW g \in Generations, ChildExits(g)
  PROVE  IInv'
<1>1. UNCHANGED <<app, thread>> /\ child' = [child EXCEPT ![g] = "exited"]
  BY DEF ChildExits
<1>2. Typed' /\ \A h \in Generations : child'[h] = "alive" => child[h] = "alive"
  BY <1>1 DEF IInv, Typed
<1>3. Starts' /\ Spawns' /\ Leases'
  BY <1>1 DEF IInv, Starts, Starting, Spawns, Leases, Ends
<1>4. Kept' /\ Exits'
  BY <1>1, <1>2 DEF IInv, Kept, Exits
<1> QED
  BY <1>2, <1>3, <1>4 DEF IInv

LEMMA LogFailsKeeps ==
  ASSUME IInv, NEW g \in Generations, LogFails(g)
  PROVE  IInv'
<1> DEFINE t == <<"logging", g>>
           woken == [Idle EXCEPT !.pc = "stop", !.generation = g]
<1>1. t \in Threads /\ (\A k : t # <<"startup", k>>)
  BY DEF Threads, Cleanups
<1>2. thread[t] = Idle /\ Idle.pc = "idle" /\ Idle.lease = 0 /\ Idle.command = "none" /\ Idle \in ThreadTypes
  BY DEF LogFails, Idle, ThreadTypes, Places, Commands
<1>3. woken.pc = "stop" /\ woken.lease = 0 /\ woken.command = "none" /\ woken \in ThreadTypes
  BY MaxGenerationNat DEF Idle, ThreadTypes, Places, Commands
<1>4. child' = child /\ (thread' = [thread EXCEPT ![t] = woken] \/ thread' = thread)
  BY DEF LogFails
<1>5. /\ app' \in AppTypes
      /\ app'.generation = app.generation /\ app'.owner = app.owner
      /\ app'.stopping = app.stopping /\ app'.approved_exit = app.approved_exit
      /\ app'.application_exiting = app.application_exiting
  <2> DEFINE cleanup == app.owner = g /\ ~app.logging_cleanup_scheduled
             marked == [app EXCEPT !.running = FALSE, !.session_token = 0,
                                   !.logging_cleanup_scheduled = (@ \/ cleanup)]
  <2>1. /\ marked \in AppTypes
        /\ marked.generation = app.generation /\ marked.owner = app.owner
        /\ marked.stopping = app.stopping /\ marked.approved_exit = app.approved_exit
        /\ marked.application_exiting = app.application_exiting
    <3> DEFINE b == app.logging_cleanup_scheduled \/ cleanup
    <3>1. b \in BOOLEAN /\ marked = [app EXCEPT !.running = FALSE, !.session_token = 0,
                                                !.logging_cleanup_scheduled = b]
      OBVIOUS
    <3> HIDE DEF b, marked
    <3> QED
      BY <3>1 DEF IInv, Typed, AppTypes
  <2>2. app' = marked \/ app' = [marked EXCEPT !.service_state = "failed", !.error = "logging"]
    BY DEF LogFails
  <2> HIDE DEF marked
  <2>3. CASE app' = marked
    BY <2>1, <2>3
  <2>4. CASE app' = [marked EXCEPT !.service_state = "failed", !.error = "logging"]
    BY <2>1, <2>4 DEF AppTypes
  <2> QED
    BY <2>2, <2>3, <2>4
<1> HIDE DEF t, woken
<1>6. Typed'
  BY <1>1, <1>3, <1>4, <1>5 DEF IInv, Typed
<1>7. Moves(t)
  <2>1. thread'[t] \in {woken, Idle} /\ \A u \in Threads : u # t => thread'[u] = thread[u]
    BY <1>1, <1>2, <1>4 DEF IInv, Typed
  <2> QED
    BY <1>1, <1>2, <1>3, <2>1 DEF Moves, Ends, ExitCommands
<1> QED
  BY <1>1, <1>4, <1>5, <1>6, <1>7, SameHolds, MovesKeep

-----------------------------------------------------------------------------
(* The invariant *)

LEMMA InitIInv == Init => IInv
<1> SUFFICES ASSUME Init PROVE IInv
  OBVIOUS
<1> DEFINE first == [Idle EXCEPT !.command = "start", !.pc = "begin"]
<1>1. /\ Idle \in ThreadTypes /\ Idle.pc = "idle" /\ Idle.lease = 0 /\ Idle.command = "none"
      /\ first \in ThreadTypes /\ first.pc = "begin" /\ first.lease = 0 /\ first.command = "start"
  BY DEF Idle, ThreadTypes, Places, Commands
<1>2. thread = [t \in Threads |-> IF t = Setup THEN first ELSE Idle]
  BY DEF Init
<1> HIDE DEF first
<1>3. Typed
  <2>1. app \in AppTypes
    BY DEF Init, AppTypes
  <2> QED
    BY <1>1, <1>2, <2>1 DEF Init, Typed
<1>4. \A t \in Threads : /\ thread[t].pc \in {"idle", "begin"} /\ thread[t].lease = 0
                         /\ thread[t].command \in {"none", "start"}
                         /\ t # Setup => thread[t].pc = "idle"
  BY <1>1, <1>2
<1>5. /\ app.owner = 0 /\ app.stopping = FALSE /\ app.approved_exit = "none"
      /\ \A g \in Generations : child[g] = "none"
  BY DEF Init
<1>6. Starts
  BY <1>4, ThreadsApart DEF Starts, Starting
<1>7. Spawns /\ Leases /\ Kept
  BY <1>4, <1>5 DEF Spawns, Leases, Kept, Ends
<1>8. Exits
  BY <1>4, <1>5 DEF Exits, ExitCommands
<1> QED
  BY <1>3, <1>6, <1>7, <1>8 DEF IInv

LEMMA NextIInv == IInv /\ [Next]_vars => IInv'
<1> SUFFICES ASSUME IInv, [Next]_vars PROVE IInv'
  OBVIOUS
<1>0. Busy \subseteq Threads /\ Callers \subseteq Threads /\ Health \in Threads
  BY DEF Busy, Threads
<1>1. CASE \E t \in Callers : Asked(t)
  BY <1>0, <1>1, CommandMoves, MovesKeep
<1>2. ASSUME NEW t \in Busy, Step(t) PROVE IInv'
  <2>1. CASE Restart(t) \/ CheckCleanup(t) \/ AwaitStop(t)
    BY <1>0, <2>1, RestartMoves, MovesKeep
  <2>2. CASE AwaitHealthy(t) \/ CommitStart(t)
    BY <1>0, <2>2, StartMoves, MovesKeep
  <2>3. CASE ReadFailure(t) \/ RecordFailure(t)
    BY <1>0, <2>3, RecordMoves, MovesKeep
  <2>4. CASE BeginStart(t)
    BY <1>0, <2>4, BeginStartKeeps
  <2>5. CASE Spawn(t)
    BY <1>0, <2>5, SpawnStepKeeps
  <2>6. CASE DropGuard(t)
    BY <1>0, <2>6, DropGuardKeeps
  <2>7. CASE BeginStop(t)
    BY <1>0, <2>7, BeginStopKeeps
  <2>8. CASE EndChild(t)
    BY <1>0, <2>8, EndChildKeeps
  <2>9. CASE FinishStop(t)
    BY <1>0, <2>9, FinishStopKeeps
  <2>10. CASE KillStopping(t)
    BY <1>0, <2>10, KillMoves, MovesKeep
  <2>11. CASE Awaited(t)
    BY <1>0, <2>11, AwaitMoves, MovesKeep
  <2>12. CASE Exit(t)
    BY <1>0, <2>12, ExitMoves, MovesKeep
  <2> QED
    BY <1>2, <2>1, <2>2, <2>3, <2>4, <2>5, <2>6, <2>7, <2>8, <2>9, <2>10, <2>11, <2>12
       DEF Step, Start, Stop
<1>3. CASE HealthStep
  BY <1>0, <1>3, HealthMoves, MovesKeep
<1>4. CASE Fault
  <2>1. ASSUME NEW t \in Busy, StartTimesOut(t) PROVE IInv'
    BY <1>0, <2>1, StartMoves, MovesKeep
  <2>2. ASSUME NEW t \in Busy, EndChildFails(t) PROVE IInv'
    BY <1>0, <2>2, EndChildFailsKeeps
  <2>3. ASSUME NEW t \in Busy, AwaitTimesOut(t) PROVE IInv'
    BY <1>0, <2>3, AwaitMoves, MovesKeep
  <2> QED
    BY <1>4, <2>1, <2>2, <2>3, ChildExitsKeeps, LogFailsKeeps DEF Fault
<1>5. CASE UNCHANGED vars
  BY <1>5 DEF vars, IInv, Typed, Starts, Starting, Spawns, Leases, Ends, Kept, Exits
<1> QED
  BY <1>1, <1>2, <1>3, <1>4, <1>5 DEF Next

LEMMA Invariance == Spec => []IInv
<1> QED
  BY InitIInv, NextIInv, PTL DEF Spec

\* No child is lost, however starts, stops, cleanups and failed kills of any
\* number of callers overlap: one that lives is in the owner's slot or leased
\* by exactly one stop, and never both (sidecar.rs:460-505 and 1668-1692).
THEOREM ShellLosesNoChild == Spec => []NoChildIsLost
<1>1. IInv => NoChildIsLost
  <2> SUFFICES ASSUME IInv, NEW g \in Generations, child[g] = "alive"
               PROVE  Cardinality({t \in Threads : thread[t].lease = g})
                        + (IF app.owner = g THEN 1 ELSE 0) = 1
    BY DEF NoChildIsLost
  <2> DEFINE lessees == {t \in Threads : thread[t].lease = g}
  <2>0. g # 0
    BY MaxGenerationNat
  <2>1. CASE app.owner = g
    <3>1. lessees = {}
      BY <2>0, <2>1 DEF IInv, Leases
    <3> HIDE DEF lessees
    <3>2. Cardinality(lessees) = 0
      BY <3>1, FS_EmptySet
    <3> QED
      BY <2>1, <3>2 DEF lessees
  <2>2. CASE app.owner # g
    <3>1. PICK t \in Threads : thread[t].pc = "end" /\ thread[t].lease = g
      BY <2>2 DEF IInv, Kept
    <3>2. lessees = {t}
      BY <2>0, <3>1 DEF IInv, Leases
    <3> HIDE DEF lessees
    <3>3. Cardinality(lessees) = 1
      BY <3>2, FS_Singleton
    <3> QED
      BY <2>2, <3>3 DEF lessees
  <2> QED
    BY <2>1, <2>2
<1> QED
  BY Invariance, <1>1, PTL

\* An exit that is approved as clean leaves no child behind, and none is
\* spawned after it, whatever starts and cleanups are still under way
\* (sidecar.rs:2178-2201; main.rs:46-70).
THEOREM ShellExitsClean == Spec => []CleanExitLeavesNothing
<1>1. IInv => CleanExitLeavesNothing
  BY DEF IInv, Exits, CleanExitLeavesNothing
<1> QED
  BY Invariance, <1>1, PTL

-----------------------------------------------------------------------------
(* The supervisor and the watchdog *)

\* Where a keeper is.
KeeperPlaces == {"ready", "verify", "armed", "loop", "cleaned", "failing", "reap",
           "register", "stop", "capture", "end", "children", "crash", "asked", "ended", "failed"}

CleanUps == [on : BOOLEAN, listed : SUBSET K!Service, scanned : BOOLEAN,
             empty : 0..K!StableScans, term : BOOLEAN]
Pipes == [ready : BOOLEAN, control : {"empty", "A", "N"},
          ack : {"empty", "A", "C", "E"}, gate : {"empty", "G"}]

KeepersTyped ==
    /\ proc \in [K!Processes -> {"absent", "alive", "stopped", "gone"}]
    /\ at \in [K!Keepers -> KeeperPlaces]
    /\ pipe \in Pipes
    /\ bound \in [K!Keepers -> SUBSET K!Service] /\ captured \subseteq K!Service
    /\ clean \in [K!Keepers -> CleanUps]
    /\ result \in {"none", "status", "70"} /\ {executed, lost} \subseteq BOOLEAN
    /\ left \in [crashes : Nat, scans : Nat, handoffs : 0..MaxHandOffs]

\* There is no sidecar before the supervisor has forked it, and none when the
\* watchdog is asked to clean up.
SidecarIs ==
    /\ at["supervisor"] = "ready" => proc["sidecar"] = "absent" /\ captured = {}
    /\ pipe.control = "N" \/ at["watchdog"] = "asked" =>
           ~K!Alive("sidecar") /\ at["supervisor"] # "ready"

\* What the scans of a watchdog that was asked have left.  Who lives though e scans
\* in a row were empty has been handed on behind each of them; who was not listed by
\* the scan under way, behind that one too.
Escapes(e) == K!AllGone \/ K!HandOffs >= e
Unlisted(e, listed) == (\A p \in K!Service : K!Alive(p) => p \in listed) \/ K!HandOffs > e
Scans ==
    K!Runs("watchdog") /\ at["watchdog"] = "asked" /\ clean["watchdog"].on =>
        LET c == clean["watchdog"]
        IN Escapes(c.empty) /\ (c.scanned => Unlisted(c.empty, c.listed))

Answered == pipe.ack = "C" \/ result = "status" =>
    Escapes(K!StableScans) /\ at["supervisor"] # "ready"

KeepersInv == KeepersTyped /\ SidecarIs /\ Scans /\ Answered

Named == /\ K!Keepers = {"supervisor", "watchdog"} /\ K!Service = {"sidecar"} \cup ServiceWorkers
         /\ K!Processes = {"parent", "supervisor", "watchdog", "sidecar"} \cup ServiceWorkers
         /\ {"parent", "supervisor", "watchdog"} \cap K!Service = {}
         /\ "sidecar" \notin ServiceWorkers

LEMMA NamesDiffer == K!SupervisionAssumption => Named
BY DEF K!SupervisionAssumption, Named, K!Keepers, K!Service, K!Processes

LEMMA NewCleanUps ==
    /\ K!Started \in CleanUps /\ K!NoCleanup \in CleanUps
    /\ ~K!NoCleanup.on /\ ~K!Started.scanned /\ K!Started.empty = 0
<1>1. K!NoCleanup \in CleanUps /\ ~K!NoCleanup.on /\ ~K!NoCleanup.scanned /\ K!NoCleanup.empty = 0
  BY DEF K!NoCleanup, CleanUps, K!StableScans
<1>2. /\ K!Started \in CleanUps
      /\ K!Started.scanned = K!NoCleanup.scanned /\ K!Started.empty = K!NoCleanup.empty
  BY <1>1 DEF K!Started, CleanUps
<1> QED
  BY <1>1, <1>2

LEMMA GoneOnes ==
    ASSUME KeepersTyped, NEW set
    PROVE  /\ K!Gone(set) \in [K!Processes -> {"absent", "alive", "stopped", "gone"}]
           /\ \A p \in K!Processes : K!Gone(set)[p] = IF p \in set THEN "gone" ELSE proc[p]
BY DEF KeepersTyped, K!Gone

\* A step that makes no process live, forks no sidecar and touches neither the
\* clean-up of the watchdog nor the answers.
LEMMA Quiet ==
    ASSUME K!SupervisionAssumption, KeepersInv, KeepersTyped', SidecarIs',
           \A p \in K!Service : K!Alive(p)' => K!Alive(p),
           at'["supervisor"] = "ready" => at["supervisor"] = "ready",
           K!Runs("watchdog")' => K!Runs("watchdog"),
           left'.handoffs = left.handoffs,
           at'["watchdog"] = "asked" => at["watchdog"] = "asked",
           clean'["watchdog"] = clean["watchdog"] \/ ~clean'["watchdog"].on
             \/ at'["watchdog"] # "asked",
           pipe'.ack = "C" => pipe.ack = "C", result' = "status" => result = "status"
    PROVE  KeepersInv'
<1>1. \A e \in Nat : Escapes(e) => Escapes(e)'
  BY DEF Escapes, K!AllGone, K!HandOffs
<1>2. \A e \in Nat, listed \in SUBSET K!Service :
        Unlisted(e, listed) => Unlisted(e, listed)'
  BY DEF Unlisted, K!HandOffs
<1>3. Answered'
  BY <1>1 DEF KeepersInv, Answered, K!StableScans
<1>4. Scans'
  <2> SUFFICES ASSUME (K!Runs("watchdog") /\ at["watchdog"] = "asked" /\ clean["watchdog"].on)'
               PROVE  /\ Escapes(clean["watchdog"].empty)'
                      /\ clean'["watchdog"].scanned =>
                           Unlisted(clean["watchdog"].empty, clean["watchdog"].listed)'
    BY DEF Scans
  <2>1. clean'["watchdog"] = clean["watchdog"]
    OBVIOUS
  <2>2. K!Runs("watchdog") /\ at["watchdog"] = "asked" /\ clean["watchdog"].on
    BY <2>1
  <2>3. clean["watchdog"].empty \in Nat /\ clean["watchdog"].listed \in SUBSET K!Service
    BY DEF KeepersInv, KeepersTyped, CleanUps, K!StableScans, K!Keepers
  <2>4. /\ Escapes(clean["watchdog"].empty)
        /\ clean["watchdog"].scanned =>
             Unlisted(clean["watchdog"].empty, clean["watchdog"].listed)
    BY <2>2 DEF KeepersInv, Scans
  <2>5. Escapes(clean["watchdog"].empty)'
    BY <1>1, <2>1, <2>3, <2>4 DEF Escapes
  <2>6. clean'["watchdog"].scanned =>
          Unlisted(clean["watchdog"].empty, clean["watchdog"].listed)'
    BY <1>2, <2>1, <2>3, <2>4 DEF Unlisted
  <2> QED
    BY <2>5, <2>6
<1> QED
  BY <1>3, <1>4 DEF KeepersInv

LEMMA NotReadyKeeps ==
    ASSUME K!SupervisionAssumption, KeepersInv, K!NotReady
    PROVE  KeepersInv'
<1> USE NamesDiffer DEF Named, KeepersInv, KeepersTyped, K!NotReady, K!At, K!Goto
<1>1. KeepersTyped'
  <2>1. /\ proc' \in [K!Processes -> {"absent", "alive", "stopped", "gone"}]
        /\ at' \in [K!Keepers -> KeeperPlaces]
    BY GoneOnes DEF KeeperPlaces
  <2>2. pipe' \in Pipes
    BY DEF Pipes
  <2>3. clean' \in [K!Keepers -> CleanUps]
    BY NewCleanUps
  <2>4. /\ bound' \in [K!Keepers -> SUBSET K!Service] /\ captured' \subseteq K!Service
        /\ result' \in {"none", "status", "70"} /\ {executed', lost'} \subseteq BOOLEAN
        /\ left' \in [crashes : Nat, scans : Nat, handoffs : 0..MaxHandOffs]
    OBVIOUS
  <2> QED
    BY <2>1, <2>2, <2>3, <2>4
<1>2. SidecarIs'
  BY GoneOnes DEF SidecarIs, K!Runs, Pipes, K!Alive
<1>3. /\ \A p \in K!Service : K!Alive(p)' => K!Alive(p)
      /\ at'["supervisor"] = "ready" => at["supervisor"] = "ready"
      /\ K!Runs("watchdog")' => K!Runs("watchdog")
      /\ left'.handoffs = left.handoffs
      /\ at'["watchdog"] = "asked" => at["watchdog"] = "asked"
      /\ \/ clean'["watchdog"] = clean["watchdog"]
         \/ ~clean'["watchdog"].on
         \/ at'["watchdog"] # "asked"
      /\ pipe'.ack = "C" => pipe.ack = "C"
      /\ result' = "status" => result = "status"
  BY GoneOnes, NewCleanUps DEF K!Alive, K!Runs, Pipes
<1> QED
  BY <1>1, <1>2, <1>3, Quiet

LEMMA CleanupFailedKeeps ==
    ASSUME K!SupervisionAssumption, KeepersInv, K!CleanupFailed
    PROVE  KeepersInv'
<1> USE NamesDiffer DEF Named, KeepersInv, KeepersTyped, K!CleanupFailed, K!At, K!Goto
<1>1. KeepersTyped'
  <2>1. /\ proc' \in [K!Processes -> {"absent", "alive", "stopped", "gone"}]
        /\ at' \in [K!Keepers -> KeeperPlaces]
    BY GoneOnes DEF KeeperPlaces
  <2>2. pipe' \in Pipes
    BY DEF Pipes
  <2>3. clean' \in [K!Keepers -> CleanUps]
    BY NewCleanUps
  <2>4. /\ bound' \in [K!Keepers -> SUBSET K!Service] /\ captured' \subseteq K!Service
        /\ result' \in {"none", "status", "70"} /\ {executed', lost'} \subseteq BOOLEAN
        /\ left' \in [crashes : Nat, scans : Nat, handoffs : 0..MaxHandOffs]
    OBVIOUS
  <2> QED
    BY <2>1, <2>2, <2>3, <2>4
<1>2. SidecarIs'
  BY GoneOnes DEF SidecarIs, K!Runs, Pipes, K!Alive
<1>3. /\ \A p \in K!Service : K!Alive(p)' => K!Alive(p)
      /\ at'["supervisor"] = "ready" => at["supervisor"] = "ready"
      /\ K!Runs("watchdog")' => K!Runs("watchdog")
      /\ left'.handoffs = left.handoffs
      /\ at'["watchdog"] = "asked" => at["watchdog"] = "asked"
      /\ \/ clean'["watchdog"] = clean["watchdog"]
         \/ ~clean'["watchdog"].on
         \/ at'["watchdog"] # "asked"
      /\ pipe'.ack = "C" => pipe.ack = "C"
      /\ result' = "status" => result = "status"
  BY GoneOnes, NewCleanUps DEF K!Alive, K!Runs, Pipes
<1> QED
  BY <1>1, <1>2, <1>3, Quiet

LEMMA ReapWatchdogKeeps ==
    ASSUME K!SupervisionAssumption, KeepersInv, K!ReapWatchdog
    PROVE  KeepersInv'
<1> USE NamesDiffer DEF Named, KeepersInv, KeepersTyped, K!ReapWatchdog, K!At, K!Goto
<1>1. KeepersTyped'
  <2>1. /\ proc' \in [K!Processes -> {"absent", "alive", "stopped", "gone"}]
        /\ at' \in [K!Keepers -> KeeperPlaces]
    BY GoneOnes DEF KeeperPlaces
  <2>2. pipe' \in Pipes
    BY DEF Pipes
  <2>3. clean' \in [K!Keepers -> CleanUps]
    BY NewCleanUps
  <2>4. /\ bound' \in [K!Keepers -> SUBSET K!Service] /\ captured' \subseteq K!Service
        /\ result' \in {"none", "status", "70"} /\ {executed', lost'} \subseteq BOOLEAN
        /\ left' \in [crashes : Nat, scans : Nat, handoffs : 0..MaxHandOffs]
    OBVIOUS
  <2> QED
    BY <2>1, <2>2, <2>3, <2>4
<1>2. SidecarIs'
  BY GoneOnes DEF SidecarIs, K!Runs, Pipes, K!Alive
<1>3. /\ \A p \in K!Service : K!Alive(p)' => K!Alive(p)
      /\ at'["supervisor"] = "ready" => at["supervisor"] = "ready"
      /\ K!Runs("watchdog")' => K!Runs("watchdog")
      /\ left'.handoffs = left.handoffs
      /\ at'["watchdog"] = "asked" => at["watchdog"] = "asked"
      /\ \/ clean'["watchdog"] = clean["watchdog"]
         \/ ~clean'["watchdog"].on
         \/ at'["watchdog"] # "asked"
      /\ pipe'.ack = "C" => pipe.ack = "C"
      /\ result' = "status" => result = "status"
  BY GoneOnes, NewCleanUps DEF K!Alive, K!Runs, Pipes
<1> QED
  BY <1>1, <1>2, <1>3, Quiet

LEMMA NoticeParentKeeps ==
    ASSUME K!SupervisionAssumption, KeepersInv, K!NoticeParent
    PROVE  KeepersInv'
<1> USE NamesDiffer DEF Named, KeepersInv, KeepersTyped, K!NoticeParent, K!At, K!Goto
<1>1. KeepersTyped'
  <2>1. /\ proc' \in [K!Processes -> {"absent", "alive", "stopped", "gone"}]
        /\ at' \in [K!Keepers -> KeeperPlaces]
    BY GoneOnes DEF KeeperPlaces
  <2>2. pipe' \in Pipes
    BY DEF Pipes
  <2>3. clean' \in [K!Keepers -> CleanUps]
    BY NewCleanUps
  <2>4. /\ bound' \in [K!Keepers -> SUBSET K!Service] /\ captured' \subseteq K!Service
        /\ result' \in {"none", "status", "70"} /\ {executed', lost'} \subseteq BOOLEAN
        /\ left' \in [crashes : Nat, scans : Nat, handoffs : 0..MaxHandOffs]
    OBVIOUS
  <2> QED
    BY <2>1, <2>2, <2>3, <2>4
<1>2. SidecarIs'
  BY GoneOnes DEF SidecarIs, K!Runs, Pipes, K!Alive
<1>3. /\ \A p \in K!Service : K!Alive(p)' => K!Alive(p)
      /\ at'["supervisor"] = "ready" => at["supervisor"] = "ready"
      /\ K!Runs("watchdog")' => K!Runs("watchdog")
      /\ left'.handoffs = left.handoffs
      /\ at'["watchdog"] = "asked" => at["watchdog"] = "asked"
      /\ \/ clean'["watchdog"] = clean["watchdog"]
         \/ ~clean'["watchdog"].on
         \/ at'["watchdog"] # "asked"
      /\ pipe'.ack = "C" => pipe.ack = "C"
      /\ result' = "status" => result = "status"
  BY GoneOnes, NewCleanUps DEF K!Alive, K!Runs, Pipes
<1> QED
  BY <1>1, <1>2, <1>3, Quiet

LEMMA EndSupervisorKeeps ==
    ASSUME K!SupervisionAssumption, KeepersInv, K!EndSupervisor
    PROVE  KeepersInv'
<1> USE NamesDiffer DEF Named, KeepersInv, KeepersTyped, K!EndSupervisor, K!At, K!Goto
<1>1. KeepersTyped'
  <2>1. /\ proc' \in [K!Processes -> {"absent", "alive", "stopped", "gone"}]
        /\ at' \in [K!Keepers -> KeeperPlaces]
    BY GoneOnes DEF KeeperPlaces
  <2>2. pipe' \in Pipes
    BY DEF Pipes
  <2>3. clean' \in [K!Keepers -> CleanUps]
    BY NewCleanUps
  <2>4. /\ bound' \in [K!Keepers -> SUBSET K!Service] /\ captured' \subseteq K!Service
        /\ result' \in {"none", "status", "70"} /\ {executed', lost'} \subseteq BOOLEAN
        /\ left' \in [crashes : Nat, scans : Nat, handoffs : 0..MaxHandOffs]
    OBVIOUS
  <2> QED
    BY <2>1, <2>2, <2>3, <2>4
<1>2. SidecarIs'
  BY GoneOnes DEF SidecarIs, K!Runs, Pipes, K!Alive
<1>3. /\ \A p \in K!Service : K!Alive(p)' => K!Alive(p)
      /\ at'["supervisor"] = "ready" => at["supervisor"] = "ready"
      /\ K!Runs("watchdog")' => K!Runs("watchdog")
      /\ left'.handoffs = left.handoffs
      /\ at'["watchdog"] = "asked" => at["watchdog"] = "asked"
      /\ \/ clean'["watchdog"] = clean["watchdog"]
         \/ ~clean'["watchdog"].on
         \/ at'["watchdog"] # "asked"
      /\ pipe'.ack = "C" => pipe.ack = "C"
      /\ result' = "status" => result = "status"
  BY GoneOnes, NewCleanUps DEF K!Alive, K!Runs, Pipes
<1> QED
  BY <1>1, <1>2, <1>3, Quiet

LEMMA EndCapturedKeeps ==
    ASSUME K!SupervisionAssumption, KeepersInv, K!EndCaptured
    PROVE  KeepersInv'
<1> USE NamesDiffer DEF Named, KeepersInv, KeepersTyped, K!EndCaptured, K!At, K!Goto
<1>1. KeepersTyped'
  <2>1. /\ proc' \in [K!Processes -> {"absent", "alive", "stopped", "gone"}]
        /\ at' \in [K!Keepers -> KeeperPlaces]
    BY GoneOnes DEF KeeperPlaces
  <2>2. pipe' \in Pipes
    BY DEF Pipes
  <2>3. clean' \in [K!Keepers -> CleanUps]
    BY NewCleanUps
  <2>4. /\ bound' \in [K!Keepers -> SUBSET K!Service] /\ captured' \subseteq K!Service
        /\ result' \in {"none", "status", "70"} /\ {executed', lost'} \subseteq BOOLEAN
        /\ left' \in [crashes : Nat, scans : Nat, handoffs : 0..MaxHandOffs]
    OBVIOUS
  <2> QED
    BY <2>1, <2>2, <2>3, <2>4
<1>2. SidecarIs'
  BY GoneOnes DEF SidecarIs, K!Runs, Pipes, K!Alive
<1>3. /\ \A p \in K!Service : K!Alive(p)' => K!Alive(p)
      /\ at'["supervisor"] = "ready" => at["supervisor"] = "ready"
      /\ K!Runs("watchdog")' => K!Runs("watchdog")
      /\ left'.handoffs = left.handoffs
      /\ at'["watchdog"] = "asked" => at["watchdog"] = "asked"
      /\ \/ clean'["watchdog"] = clean["watchdog"]
         \/ ~clean'["watchdog"].on
         \/ at'["watchdog"] # "asked"
      /\ pipe'.ack = "C" => pipe.ack = "C"
      /\ result' = "status" => result = "status"
  BY GoneOnes, NewCleanUps DEF K!Alive, K!Runs, Pipes
<1> QED
  BY <1>1, <1>2, <1>3, Quiet

LEMMA WatchdogFailsKeeps ==
    ASSUME K!SupervisionAssumption, KeepersInv, K!WatchdogFails
    PROVE  KeepersInv'
<1> USE NamesDiffer DEF Named, KeepersInv, KeepersTyped, K!WatchdogFails, K!At, K!Goto
<1>1. KeepersTyped'
  <2>1. /\ proc' \in [K!Processes -> {"absent", "alive", "stopped", "gone"}]
        /\ at' \in [K!Keepers -> KeeperPlaces]
    BY GoneOnes DEF KeeperPlaces
  <2>2. pipe' \in Pipes
    BY DEF Pipes
  <2>3. clean' \in [K!Keepers -> CleanUps]
    BY NewCleanUps
  <2>4. /\ bound' \in [K!Keepers -> SUBSET K!Service] /\ captured' \subseteq K!Service
        /\ result' \in {"none", "status", "70"} /\ {executed', lost'} \subseteq BOOLEAN
        /\ left' \in [crashes : Nat, scans : Nat, handoffs : 0..MaxHandOffs]
    OBVIOUS
  <2> QED
    BY <2>1, <2>2, <2>3, <2>4
<1>2. SidecarIs'
  BY GoneOnes DEF SidecarIs, K!Runs, Pipes, K!Alive
<1>3. /\ \A p \in K!Service : K!Alive(p)' => K!Alive(p)
      /\ at'["supervisor"] = "ready" => at["supervisor"] = "ready"
      /\ K!Runs("watchdog")' => K!Runs("watchdog")
      /\ left'.handoffs = left.handoffs
      /\ at'["watchdog"] = "asked" => at["watchdog"] = "asked"
      /\ \/ clean'["watchdog"] = clean["watchdog"]
         \/ ~clean'["watchdog"].on
         \/ at'["watchdog"] # "asked"
      /\ pipe'.ack = "C" => pipe.ack = "C"
      /\ result' = "status" => result = "status"
  BY GoneOnes, NewCleanUps DEF K!Alive, K!Runs, Pipes
<1> QED
  BY <1>1, <1>2, <1>3, Quiet

LEMMA PassGateKeeps ==
    ASSUME K!SupervisionAssumption, KeepersInv, K!PassGate
    PROVE  KeepersInv'
<1> USE NamesDiffer DEF Named, KeepersInv, KeepersTyped, K!PassGate, K!At, K!Goto
<1>1. KeepersTyped'
  <2>1. /\ proc' \in [K!Processes -> {"absent", "alive", "stopped", "gone"}]
        /\ at' \in [K!Keepers -> KeeperPlaces]
    BY GoneOnes DEF KeeperPlaces
  <2>2. pipe' \in Pipes
    BY DEF Pipes
  <2>3. clean' \in [K!Keepers -> CleanUps]
    BY NewCleanUps
  <2>4. /\ bound' \in [K!Keepers -> SUBSET K!Service] /\ captured' \subseteq K!Service
        /\ result' \in {"none", "status", "70"} /\ {executed', lost'} \subseteq BOOLEAN
        /\ left' \in [crashes : Nat, scans : Nat, handoffs : 0..MaxHandOffs]
    OBVIOUS
  <2> QED
    BY <2>1, <2>2, <2>3, <2>4
<1>2. SidecarIs'
  BY GoneOnes DEF SidecarIs, K!Runs, Pipes, K!Alive
<1>3. /\ \A p \in K!Service : K!Alive(p)' => K!Alive(p)
      /\ at'["supervisor"] = "ready" => at["supervisor"] = "ready"
      /\ K!Runs("watchdog")' => K!Runs("watchdog")
      /\ left'.handoffs = left.handoffs
      /\ at'["watchdog"] = "asked" => at["watchdog"] = "asked"
      /\ \/ clean'["watchdog"] = clean["watchdog"]
         \/ ~clean'["watchdog"].on
         \/ at'["watchdog"] # "asked"
      /\ pipe'.ack = "C" => pipe.ack = "C"
      /\ result' = "status" => result = "status"
  BY GoneOnes, NewCleanUps DEF K!Alive, K!Runs, Pipes
<1> QED
  BY <1>1, <1>2, <1>3, Quiet

LEMMA ParentExitsKeeps ==
    ASSUME K!SupervisionAssumption, KeepersInv, K!ParentExits
    PROVE  KeepersInv'
<1> USE NamesDiffer DEF Named, KeepersInv, KeepersTyped, K!ParentExits, K!At, K!Goto
<1>1. KeepersTyped'
  <2>1. /\ proc' \in [K!Processes -> {"absent", "alive", "stopped", "gone"}]
        /\ at' \in [K!Keepers -> KeeperPlaces]
    BY GoneOnes DEF KeeperPlaces
  <2>2. pipe' \in Pipes
    BY DEF Pipes
  <2>3. clean' \in [K!Keepers -> CleanUps]
    BY NewCleanUps
  <2>4. /\ bound' \in [K!Keepers -> SUBSET K!Service] /\ captured' \subseteq K!Service
        /\ result' \in {"none", "status", "70"} /\ {executed', lost'} \subseteq BOOLEAN
        /\ left' \in [crashes : Nat, scans : Nat, handoffs : 0..MaxHandOffs]
    OBVIOUS
  <2> QED
    BY <2>1, <2>2, <2>3, <2>4
<1>2. SidecarIs'
  BY GoneOnes DEF SidecarIs, K!Runs, Pipes, K!Alive
<1>3. /\ \A p \in K!Service : K!Alive(p)' => K!Alive(p)
      /\ at'["supervisor"] = "ready" => at["supervisor"] = "ready"
      /\ K!Runs("watchdog")' => K!Runs("watchdog")
      /\ left'.handoffs = left.handoffs
      /\ at'["watchdog"] = "asked" => at["watchdog"] = "asked"
      /\ \/ clean'["watchdog"] = clean["watchdog"]
         \/ ~clean'["watchdog"].on
         \/ at'["watchdog"] # "asked"
      /\ pipe'.ack = "C" => pipe.ack = "C"
      /\ result' = "status" => result = "status"
  BY GoneOnes, NewCleanUps DEF K!Alive, K!Runs, Pipes
<1> QED
  BY <1>1, <1>2, <1>3, Quiet

LEMMA FailsFacts ==
    ASSUME KeepersTyped, K!ProtocolFails
    PROVE  /\ pipe' = pipe
           /\ at' \in [K!Keepers -> KeeperPlaces] /\ at'["supervisor"] = "failing"
           /\ at'["watchdog"] = at["watchdog"]
           /\ clean' \in [K!Keepers -> CleanUps] /\ clean'["watchdog"] = clean["watchdog"]
<1>1. /\ pipe' = pipe
      /\ clean' = [clean EXCEPT !["supervisor"] = K!Started]
      /\ at' = [at EXCEPT !["supervisor"] = "failing"]
  BY DEF K!ProtocolFails, K!Goto
<1>2. at' \in [K!Keepers -> KeeperPlaces] /\ clean' \in [K!Keepers -> CleanUps]
  BY <1>1, NewCleanUps DEF KeepersTyped, K!Keepers, KeeperPlaces
<1> QED
  BY <1>1, <1>2 DEF KeepersTyped, K!Keepers

\* A step of the supervisor that kills nothing and leaves the answers alone.
LEMMA SupervisorQuiet ==
    ASSUME K!SupervisionAssumption, KeepersInv,
           UNCHANGED <<proc, executed, captured, result, lost>>,
           left' \in [crashes : Nat, scans : Nat, handoffs : 0..MaxHandOffs],
           left'.handoffs = left.handoffs,
           bound' \in [K!Keepers -> SUBSET K!Service],
           pipe' \in Pipes, pipe'.control = "N" => pipe.control = "N", pipe'.ack = "C" => pipe.ack = "C",
           at' \in [K!Keepers -> KeeperPlaces], at'["supervisor"] # "ready",
           at'["watchdog"] = at["watchdog"],
           clean' \in [K!Keepers -> CleanUps], clean'["watchdog"] = clean["watchdog"]
    PROVE  KeepersInv'
<1>1. KeepersTyped'
  BY DEF KeepersInv, KeepersTyped
<1>2. SidecarIs'
  BY DEF KeepersInv, SidecarIs, K!Alive
<1> QED
  BY <1>1, <1>2, Quiet DEF K!Alive, K!Runs

LEMMA ArmKeeps == ASSUME K!SupervisionAssumption, KeepersInv, K!Arm PROVE KeepersInv'
<1>1. UNCHANGED <<proc, executed, captured, result, left, lost>>
  BY DEF K!Arm
<1>2. CASE K!ProtocolFails /\ UNCHANGED bound
  BY <1>1, <1>2, FailsFacts, SupervisorQuiet DEF KeepersInv, KeepersTyped
<1>3. CASE ~(K!ProtocolFails /\ UNCHANGED bound)
  <2>1. /\ bound' = [bound EXCEPT !["supervisor"] = @ \cup {"sidecar"}]
        /\ pipe' = [pipe EXCEPT !.control = "A"] /\ clean' = clean
        /\ at' = [at EXCEPT !["supervisor"] = "armed"]
    BY <1>3 DEF K!Arm, K!Goto
  <2>2. pipe' \in Pipes /\ pipe'.control # "N" /\ pipe'.ack = pipe.ack
    BY <2>1 DEF KeepersInv, KeepersTyped, Pipes
  <2>3. /\ at' \in [K!Keepers -> KeeperPlaces] /\ at'["supervisor"] # "ready"
        /\ at'["watchdog"] = at["watchdog"] /\ bound' \in [K!Keepers -> SUBSET K!Service]
    BY <2>1, NamesDiffer DEF Named, KeepersInv, KeepersTyped, KeeperPlaces
  <2> QED
    BY <1>1, <2>1, <2>2, <2>3, SupervisorQuiet DEF KeepersInv, KeepersTyped
<1> QED
  BY <1>2, <1>3

LEMMA OpenGateKeeps ==
    ASSUME K!SupervisionAssumption, KeepersInv, K!OpenGate
    PROVE  KeepersInv'
<1>1. UNCHANGED <<proc, executed, bound, captured, result, left, lost>>
  BY DEF K!OpenGate
<1>2. at["supervisor"] = "armed"
  BY DEF K!OpenGate, K!At
<1>3. CASE K!ProtocolFails
  BY <1>1, <1>3, FailsFacts, SupervisorQuiet DEF KeepersInv, KeepersTyped
<1>4. CASE ~K!ProtocolFails
  <2>1. /\ pipe' = [pipe EXCEPT !.gate = "G", !.ack = "empty"] /\ clean' = clean
        /\ at' = [at EXCEPT !["supervisor"] = "loop"]
    BY <1>4 DEF K!OpenGate, K!Goto
  <2>2. pipe' \in Pipes /\ pipe'.control = pipe.control /\ pipe'.ack = "empty"
    BY <2>1 DEF KeepersInv, KeepersTyped, Pipes
  <2>3. /\ at' \in [K!Keepers -> KeeperPlaces] /\ at'["supervisor"] # "ready"
        /\ at'["watchdog"] = at["watchdog"]
    BY <2>1 DEF K!Keepers, KeepersInv, KeepersTyped, KeeperPlaces
  <2>4. KeepersTyped'
    BY <1>1, <2>1, <2>2, <2>3 DEF KeepersInv, KeepersTyped
  <2>5. SidecarIs'
    BY <1>1, <2>2, <2>3 DEF KeepersInv, SidecarIs, K!Alive
  <2> QED
    BY <1>1, <2>1, <2>2, <2>3, <2>4, <2>5, Quiet DEF K!Alive, K!Runs
<1> QED
  BY <1>3, <1>4

LEMMA TakeArmKeeps ==
    ASSUME K!SupervisionAssumption, KeepersInv, K!TakeArm
    PROVE  KeepersInv'
<1>1. UNCHANGED <<proc, executed, captured, result, left, lost>> /\ at["watchdog"] = "loop"
      /\ pipe.control = "A"
  BY DEF K!TakeArm, K!At
<1>2. CASE K!Verified
  <2>1. /\ bound' = [bound EXCEPT !["watchdog"] = @ \cup {"sidecar"}]
        /\ pipe' = [pipe EXCEPT !.control = "empty", !.ack = "A"] /\ at' = at /\ clean' = clean
    BY <1>2 DEF K!TakeArm
  <2>2. pipe' \in Pipes /\ pipe'.control = "empty" /\ pipe'.ack = "A"
    BY <2>1 DEF KeepersInv, KeepersTyped, Pipes
  <2>3. bound' \in [K!Keepers -> SUBSET K!Service]
    BY <2>1, NamesDiffer DEF Named, KeepersInv, KeepersTyped
  <2>4. KeepersTyped' /\ SidecarIs'
    BY <1>1, <2>1, <2>2, <2>3 DEF KeepersInv, KeepersTyped, SidecarIs, K!Alive
  <2> QED
    BY <1>1, <2>1, <2>2, <2>4, Quiet DEF K!Alive, K!Runs
<1>3. CASE ~K!Verified
  <2>1. /\ at' = [at EXCEPT !["watchdog"] = "crash"] /\ bound' = bound /\ pipe' = pipe
        /\ clean' = [clean EXCEPT !["watchdog"] = K!Started]
    BY <1>3 DEF K!TakeArm, K!Goto
  <2>2. /\ at' \in [K!Keepers -> KeeperPlaces] /\ clean' \in [K!Keepers -> CleanUps]
        /\ at'["watchdog"] = "crash" /\ at'["supervisor"] = at["supervisor"]
    BY <2>1, NewCleanUps DEF K!Keepers, KeepersInv, KeepersTyped, KeeperPlaces
  <2>3. KeepersTyped' /\ SidecarIs'
    BY <1>1, <2>1, <2>2 DEF KeepersInv, KeepersTyped, SidecarIs, K!Alive
  <2> QED
    BY <1>1, <2>1, <2>2, <2>3, Quiet DEF K!Alive, K!Runs
<1> QED
  BY <1>2, <1>3

LEMMA RegisterKeeps ==
    ASSUME K!SupervisionAssumption, KeepersInv, K!Register
    PROVE  KeepersInv'
<1>1. /\ UNCHANGED <<proc, executed, bound, captured, clean, result, left, lost>>
      /\ pipe' = [pipe EXCEPT !.ready = K!Alive("parent")]
      /\ at' = [at EXCEPT !["watchdog"] = IF K!Alive("parent") THEN "loop" ELSE "stop"]
  BY DEF K!Register, K!Goto
<1>2. pipe' \in Pipes /\ pipe'.control = pipe.control /\ pipe'.ack = pipe.ack
  <2>1. K!Alive("parent") \in BOOLEAN
    BY DEF K!Alive
  <2> HIDE DEF K!Alive
  <2> QED
    BY <1>1, <2>1 DEF KeepersInv, KeepersTyped, Pipes
<1>3. /\ at' \in [K!Keepers -> KeeperPlaces] /\ at'["watchdog"] # "asked"
      /\ at'["supervisor"] = at["supervisor"]
  BY <1>1 DEF K!Keepers, KeepersInv, KeepersTyped, KeeperPlaces
<1>4. KeepersTyped' /\ SidecarIs'
  BY <1>1, <1>2, <1>3 DEF KeepersInv, KeepersTyped, SidecarIs, K!Alive
<1> QED
  BY <1>1, <1>2, <1>3, <1>4, Quiet DEF K!Alive, K!Runs

LEMMA StopSupervisorKeeps ==
    ASSUME K!SupervisionAssumption, KeepersInv, K!StopSupervisor
    PROVE  KeepersInv'
<1>1. UNCHANGED <<executed, pipe, bound, captured, clean, result, lost>>
  BY DEF K!StopSupervisor
<1>2. /\ at' = [at EXCEPT !["watchdog"] = "capture"]
      /\ (proc' # proc => K!Runs("supervisor"))
      /\ proc' \in {proc, [proc EXCEPT !["supervisor"] = "stopped"]}
      /\ \/ left' = left
         \/ /\ left.scans > 0
            /\ left' = [left EXCEPT !.scans = @ - 1]
  <2>1. PICK sent \in {TRUE} \cup (IF left.scans > 0 THEN {FALSE} ELSE {}) :
            /\ proc' = IF sent /\ K!Runs("supervisor")
                       THEN [proc EXCEPT !["supervisor"] = "stopped"] ELSE proc
            /\ left' = [left EXCEPT !.scans = IF sent THEN @ ELSE @ - 1]
    BY DEF K!StopSupervisor
  <2>2. at' = [at EXCEPT !["watchdog"] = "capture"]
    BY DEF K!StopSupervisor, K!Goto
  <2>3. CASE sent
    <3>1. left' = left
      BY <2>1, <2>3 DEF KeepersInv, KeepersTyped
    <3>2. /\ (proc' # proc => K!Runs("supervisor"))
          /\ proc' \in {proc, [proc EXCEPT !["supervisor"] = "stopped"]}
      BY <2>1, <2>3
    <3> QED
      BY <2>2, <3>1, <3>2
  <2>4. CASE ~sent
    <3>1. left.scans > 0 /\ left' = [left EXCEPT !.scans = @ - 1]
      BY <2>1, <2>4
    <3>2. proc' = proc
      BY <2>1, <2>4
    <3> QED
      BY <2>2, <3>1, <3>2
  <2> QED
    BY <2>3, <2>4
<1>3. /\ left' \in [crashes : Nat, scans : Nat, handoffs : 0..MaxHandOffs]
      /\ left'.handoffs = left.handoffs
  BY <1>2 DEF KeepersInv, KeepersTyped
<1>4. /\ at' \in [K!Keepers -> KeeperPlaces] /\ at'["watchdog"] # "asked"
      /\ at'["supervisor"] = at["supervisor"]
  BY <1>2 DEF K!Keepers, KeepersInv, KeepersTyped, KeeperPlaces
<1>5. /\ proc' \in [K!Processes -> {"absent", "alive", "stopped", "gone"}]
      /\ \A p \in K!Service : proc'[p] = proc[p] /\ proc'["watchdog"] = proc["watchdog"]
  BY <1>2, NamesDiffer DEF Named, KeepersInv, KeepersTyped
<1>6. KeepersTyped' /\ SidecarIs'
  BY <1>1, <1>3, <1>4, <1>5, NamesDiffer DEF Named, KeepersInv, KeepersTyped, SidecarIs, K!Alive
<1>7. K!Runs("watchdog")' => K!Runs("watchdog")
  BY <1>2, <1>5, NamesDiffer DEF Named, KeepersInv, KeepersTyped, K!Runs
<1> QED
  BY <1>1, <1>3, <1>4, <1>5, <1>6, <1>7, Quiet, NamesDiffer DEF Named, K!Alive

LEMMA CaptureChildrenKeeps ==
    ASSUME K!SupervisionAssumption, KeepersInv, K!CaptureChildren PROVE KeepersInv'
<1>1. /\ UNCHANGED <<proc, executed, pipe, bound, clean, result, left, lost>>
      /\ at' = [at EXCEPT !["watchdog"] = "end"]
      /\ captured' \subseteq {"sidecar"} /\ (captured' # {} => K!Alive("sidecar"))
  BY DEF K!CaptureChildren, K!Goto
<1>2. /\ at' \in [K!Keepers -> KeeperPlaces] /\ at'["watchdog"] # "asked"
      /\ at'["supervisor"] = at["supervisor"]
  BY <1>1 DEF K!Keepers, KeepersInv, KeepersTyped, KeeperPlaces
<1>3. KeepersTyped'
  BY <1>1, <1>2, NamesDiffer DEF Named, KeepersInv, KeepersTyped
<1>4. SidecarIs'
  BY <1>1, <1>2 DEF KeepersInv, SidecarIs, K!Alive
<1> QED
  BY <1>1, <1>2, <1>3, <1>4, Quiet DEF K!Alive, K!Runs

\* The sidecar is forked before anybody is asked to clean up or to answer.
LEMMA ForkSidecarKeeps ==
    ASSUME K!SupervisionAssumption, KeepersInv, K!ForkSidecar
    PROVE  KeepersInv'
<1>1. /\ UNCHANGED <<executed, pipe, bound, captured, clean, result, left, lost>>
      /\ proc' = [proc EXCEPT !["sidecar"] = "alive"]
      /\ at' = [at EXCEPT !["supervisor"] = "verify"] /\ at["supervisor"] = "ready"
  BY DEF K!ForkSidecar, K!Goto, K!At
<1>2. pipe.control # "N" /\ at["watchdog"] # "asked" /\ pipe.ack # "C" /\ result # "status"
  BY <1>1 DEF KeepersInv, SidecarIs, Answered
<1>3. /\ at' \in [K!Keepers -> KeeperPlaces] /\ at'["watchdog"] = at["watchdog"]
      /\ at'["supervisor"] = "verify"
  BY <1>1 DEF K!Keepers, KeepersInv, KeepersTyped, KeeperPlaces
<1>4. proc' \in [K!Processes -> {"absent", "alive", "stopped", "gone"}]
  BY <1>1 DEF KeepersInv, KeepersTyped
<1>5. KeepersTyped'
  BY <1>1, <1>3, <1>4 DEF KeepersInv, KeepersTyped
<1>6. SidecarIs' /\ Scans' /\ Answered'
  BY <1>1, <1>2, <1>3 DEF SidecarIs, Scans, Answered
<1> QED
  BY <1>5, <1>6 DEF KeepersInv

LEMMA WatchSidecarKeeps ==
    ASSUME K!SupervisionAssumption, KeepersInv, K!WatchSidecar
    PROVE  KeepersInv'
<1>1. UNCHANGED <<proc, executed, bound, captured, result, left, lost>>
  BY DEF K!WatchSidecar
<1>2. CASE K!ProtocolFails
  BY <1>1, <1>2, FailsFacts, SupervisorQuiet DEF KeepersInv, KeepersTyped
<1>3. CASE ~K!ProtocolFails
  <2>1. /\ pipe' = [pipe EXCEPT !.control = "N"] /\ clean' = clean /\ ~K!Alive("sidecar")
        /\ at' = [at EXCEPT !["supervisor"] = "cleaned"]
    BY <1>3 DEF K!WatchSidecar, K!Goto
  <2>2. pipe' \in Pipes /\ pipe'.ack = pipe.ack
    BY <2>1 DEF KeepersInv, KeepersTyped, Pipes
  <2>3. /\ at' \in [K!Keepers -> KeeperPlaces] /\ at'["supervisor"] = "cleaned"
        /\ at'["watchdog"] = at["watchdog"]
    BY <2>1 DEF K!Keepers, KeepersInv, KeepersTyped, KeeperPlaces
  <2>4. KeepersTyped'
    BY <1>1, <2>1, <2>2, <2>3 DEF KeepersInv, KeepersTyped
  <2>5. SidecarIs'
    BY <1>1, <2>1, <2>3 DEF SidecarIs, K!Alive
  <2> QED
    BY <1>1, <2>1, <2>2, <2>3, <2>4, <2>5, Quiet DEF K!Alive, K!Runs
<1> QED
  BY <1>2, <1>3

LEMMA ConfirmKeeps ==
    ASSUME K!SupervisionAssumption, KeepersInv, K!Confirm
    PROVE  KeepersInv'
<1>1. UNCHANGED <<executed, bound, captured, left, lost>>
  BY DEF K!Confirm
<1>2. CASE K!ProtocolFails /\ UNCHANGED <<proc, result>>
  BY <1>1, <1>2, FailsFacts, SupervisorQuiet DEF KeepersInv, KeepersTyped
<1>3. CASE ~(K!ProtocolFails /\ UNCHANGED <<proc, result>>)
  <2>1. /\ pipe.ack = "C" /\ proc' = K!Gone({"supervisor"}) /\ result' = "status"
        /\ ~K!Alive("watchdog") /\ UNCHANGED <<at, pipe, clean>>
    BY <1>3 DEF K!Confirm
  <2>2. Escapes(K!StableScans) /\ at["supervisor"] # "ready"
    BY <2>1 DEF KeepersInv, Answered
  <2>3. /\ proc' \in [K!Processes -> {"absent", "alive", "stopped", "gone"}]
        /\ ~K!Alive("watchdog")'
    BY <2>1, GoneOnes, NamesDiffer DEF Named, KeepersInv, K!Alive
  <2>4. \A p \in K!Service : K!Alive(p)' => K!Alive(p)
    BY <2>1, GoneOnes, NamesDiffer DEF Named, KeepersInv, K!Alive
  <2>5. Escapes(K!StableScans)'
    BY <1>1, <2>2, <2>4 DEF Escapes, K!AllGone, K!HandOffs
  <2>6. KeepersTyped'
    BY <1>1, <2>1, <2>3 DEF KeepersInv, KeepersTyped
  <2>7. SidecarIs'
    BY <1>1, <2>1, <2>2, <2>4, NamesDiffer DEF Named, KeepersInv, SidecarIs
  <2>8. Scans'
    BY <2>3 DEF Scans, K!Alive, K!Runs
  <2>9. Answered'
    BY <2>1, <2>2, <2>5 DEF Answered
  <2> QED
    BY <2>6, <2>7, <2>8, <2>9 DEF KeepersInv
<1> QED
  BY <1>2, <1>3

LEMMA ConfirmTimesOutKeeps ==
    ASSUME K!SupervisionAssumption, KeepersInv, K!ConfirmTimesOut
    PROVE  KeepersInv'
<1>1. /\ UNCHANGED <<proc, executed, bound, captured, result, lost>> /\ K!ProtocolFails
      /\ left' = [left EXCEPT !.scans = @ - 1] /\ left.scans > 0
  BY DEF K!ConfirmTimesOut
<1>2. /\ left' \in [crashes : Nat, scans : Nat, handoffs : 0..MaxHandOffs]
      /\ left'.handoffs = left.handoffs
  BY <1>1 DEF KeepersInv, KeepersTyped
<1> QED
  BY <1>1, <1>2, FailsFacts, SupervisorQuiet DEF KeepersInv, KeepersTyped

\* A clean-up that starts has scanned nothing yet.
LEMMA TakeEndKeeps ==
    ASSUME K!SupervisionAssumption, KeepersInv, K!TakeEnd
    PROVE  KeepersInv'
<1>1. /\ UNCHANGED <<proc, executed, pipe, bound, captured, result, left, lost>>
      /\ at' = [at EXCEPT !["watchdog"] = IF pipe.control = "N" THEN "asked" ELSE "crash"]
      /\ clean' = [clean EXCEPT !["watchdog"] = K!Started]
      /\ at["watchdog"] = "loop" /\ (K!ControlEnds \/ pipe.control = "N")
  BY DEF K!TakeEnd, K!Goto, K!At
<1>2. /\ at' \in [K!Keepers -> KeeperPlaces] /\ at'["supervisor"] = at["supervisor"]
      /\ at'["watchdog"] = "asked" => pipe.control = "N"
  BY <1>1 DEF K!Keepers, KeepersInv, KeepersTyped, KeeperPlaces
<1>3. /\ clean' \in [K!Keepers -> CleanUps] /\ ~clean'["watchdog"].scanned
      /\ clean'["watchdog"].empty = 0
  BY <1>1, NewCleanUps DEF K!Keepers, KeepersInv, KeepersTyped
<1>4. KeepersTyped'
  BY <1>1, <1>2, <1>3 DEF KeepersInv, KeepersTyped
<1>5. SidecarIs'
  BY <1>1, <1>2 DEF KeepersInv, SidecarIs, K!Alive
<1>6. Scans'
  BY <1>1, <1>3 DEF Scans, Escapes, K!HandOffs, KeepersInv, KeepersTyped, K!SupervisionAssumption
<1>7. Answered'
  BY <1>1, <1>2 DEF KeepersInv, Answered, Escapes, K!HandOffs, K!AllGone, K!Alive
<1> QED
  BY <1>4, <1>5, <1>6, <1>7 DEF KeepersInv

\* It answers when nothing is left.
LEMMA WatchdogEndsKeeps ==
    ASSUME K!SupervisionAssumption, KeepersInv, K!WatchdogEnds
    PROVE  KeepersInv'
<1>1. /\ UNCHANGED <<executed, bound, captured, result, left, lost>>
      /\ pipe' = [pipe EXCEPT !.ack = IF at["watchdog"] = "asked" THEN "C" ELSE @]
      /\ proc' = K!Gone({"watchdog"})
      /\ at' = [at EXCEPT !["watchdog"] = "ended"]
      /\ clean' = [clean EXCEPT !["watchdog"] = K!NoCleanup]
      /\ K!Runs("watchdog") /\ clean["watchdog"].on /\ clean["watchdog"].empty = K!StableScans
  BY DEF K!WatchdogEnds, K!Goto, K!CleanupEnds
<1>2. /\ at' \in [K!Keepers -> KeeperPlaces] /\ at'["supervisor"] = at["supervisor"]
      /\ at'["watchdog"] = "ended"
  BY <1>1 DEF K!Keepers, KeepersInv, KeepersTyped, KeeperPlaces
<1>3. clean' \in [K!Keepers -> CleanUps]
  BY <1>1, NewCleanUps DEF KeepersInv, KeepersTyped
<1>4. /\ pipe' \in Pipes /\ pipe'.control = pipe.control
      /\ pipe'.ack = IF at["watchdog"] = "asked" THEN "C" ELSE pipe.ack
  BY <1>1 DEF KeepersInv, KeepersTyped, Pipes
<1>5. /\ proc' \in [K!Processes -> {"absent", "alive", "stopped", "gone"}]
      /\ \A p \in K!Service : proc'[p] = proc[p]
  BY <1>1, GoneOnes, NamesDiffer DEF Named, KeepersInv
<1>6. KeepersTyped'
  BY <1>1, <1>2, <1>3, <1>4, <1>5 DEF KeepersInv, KeepersTyped
<1>7. SidecarIs'
  BY <1>1, <1>2, <1>4, <1>5, NamesDiffer DEF Named, KeepersInv, SidecarIs, K!Alive
<1>8. Scans'
  BY <1>2 DEF Scans
<1>9. Answered'
  <2>1. at["watchdog"] = "asked" => Escapes(K!StableScans) /\ at["supervisor"] # "ready"
    BY <1>1 DEF KeepersInv, Scans, SidecarIs
  <2>2. pipe'.ack = "C" \/ result' = "status" =>
          Escapes(K!StableScans) /\ at["supervisor"] # "ready"
    BY <1>1, <1>4, <2>1 DEF KeepersInv, Answered
  <2> QED
    BY <1>1, <1>2, <1>5, <2>2 DEF Answered, Escapes, K!HandOffs, K!AllGone, K!Alive
<1> QED
  BY <1>6, <1>7, <1>8, <1>9 DEF KeepersInv

LEMMA GivesUpKeeps ==
    ASSUME K!SupervisionAssumption, KeepersInv, NEW k \in K!Keepers, NEW pc \in {"failing", "failed"},
           K!CleanupGivesUp(k, pc)
    PROVE  KeepersInv'
<1>1. /\ UNCHANGED <<proc, executed, pipe, bound, captured, result>>
      /\ left' = [left EXCEPT !.scans = @ - 1] /\ left.scans > 0
      /\ clean' = [clean EXCEPT ![k] = K!NoCleanup] /\ lost' = TRUE
      /\ at' = [at EXCEPT ![k] = pc]
  BY DEF K!CleanupGivesUp, K!Goto
<1>2. /\ at' \in [K!Keepers -> KeeperPlaces]
      /\ at'["supervisor"] = "ready" => at["supervisor"] = "ready"
      /\ at'["watchdog"] = "asked" => at["watchdog"] = "asked"
  BY <1>1 DEF K!Keepers, KeepersInv, KeepersTyped, KeeperPlaces
<1>3. /\ clean' \in [K!Keepers -> CleanUps]
      /\ clean'["watchdog"] = clean["watchdog"] \/ ~clean'["watchdog"].on
  BY <1>1, NewCleanUps DEF K!Keepers, KeepersInv, KeepersTyped
<1>4. /\ left' \in [crashes : Nat, scans : Nat, handoffs : 0..MaxHandOffs]
      /\ left'.handoffs = left.handoffs
  BY <1>1 DEF KeepersInv, KeepersTyped
<1>5. KeepersTyped'
  BY <1>1, <1>2, <1>3, <1>4 DEF KeepersInv, KeepersTyped
<1>6. SidecarIs'
  BY <1>1, <1>2 DEF KeepersInv, SidecarIs, K!Alive
<1> QED
  BY <1>1, <1>2, <1>3, <1>4, <1>5, <1>6, Quiet DEF K!Alive, K!Runs

LEMMA BindKeeps ==
    ASSUME K!SupervisionAssumption, KeepersInv, NEW k \in K!Keepers, K!Bind(k)
    PROVE  KeepersInv'
<1>1. /\ UNCHANGED <<proc, executed, at, pipe, captured, clean, result, left, lost>>
      /\ bound' = [bound EXCEPT ![k] = @ \cup K!Marked]
  BY DEF K!Bind
<1>2. bound' \in [K!Keepers -> SUBSET K!Service]
  BY <1>1 DEF KeepersInv, KeepersTyped, K!Marked
<1>3. KeepersTyped'
  BY <1>1, <1>2 DEF KeepersInv, KeepersTyped
<1>4. SidecarIs'
  BY <1>1 DEF KeepersInv, SidecarIs, K!Alive
<1> QED
  BY <1>1, <1>3, <1>4, Quiet DEF K!Alive, K!Runs

LEMMA CrashKeeps ==
    ASSUME K!SupervisionAssumption, KeepersInv, NEW k \in K!Keepers, K!Crash(k)
    PROVE  KeepersInv'
<1>1. /\ UNCHANGED <<executed, at, pipe, bound, captured, clean, result>>
      /\ left' = [left EXCEPT !.crashes = @ - 1] /\ left.crashes > 0
      /\ proc' = K!Gone({k}) /\ lost' \in BOOLEAN
  BY DEF K!Crash
<1>2. /\ left' \in [crashes : Nat, scans : Nat, handoffs : 0..MaxHandOffs]
      /\ left'.handoffs = left.handoffs
  BY <1>1 DEF KeepersInv, KeepersTyped
<1>3. /\ proc' \in [K!Processes -> {"absent", "alive", "stopped", "gone"}]
      /\ \A p \in K!Processes : proc'[p] = proc[p] \/ proc'[p] = "gone"
      /\ \A p \in K!Service : proc'[p] = proc[p]
  BY <1>1, GoneOnes, NamesDiffer DEF Named, KeepersInv
<1>5. KeepersTyped'
  BY <1>1, <1>2, <1>3 DEF KeepersInv, KeepersTyped
<1>6. SidecarIs'
  BY <1>1, <1>3, NamesDiffer DEF Named, KeepersInv, SidecarIs, K!Alive
<1>7. K!Runs("watchdog")' => K!Runs("watchdog")
  BY <1>3, NamesDiffer DEF Named, K!Runs
<1> QED
  BY <1>1, <1>2, <1>3, <1>5, <1>6, <1>7, Quiet DEF K!Alive

LEMMA ServiceEndsKeeps ==
    ASSUME K!SupervisionAssumption, KeepersInv, NEW p \in K!Service, K!ServiceEnds(p)
    PROVE  KeepersInv'
<1>1. /\ UNCHANGED <<executed, at, pipe, bound, captured, clean, result, left, lost>>
      /\ proc' = K!Gone({p}) /\ proc[p] = "alive"
  BY DEF K!ServiceEnds, K!Runs
<1>2. /\ proc' \in [K!Processes -> {"absent", "alive", "stopped", "gone"}]
      /\ \A q \in K!Processes : proc'[q] = IF q = p THEN "gone" ELSE proc[q]
  BY <1>1, GoneOnes DEF KeepersInv
<1>3. KeepersTyped'
  BY <1>1, <1>2 DEF KeepersInv, KeepersTyped
<1>4. SidecarIs'
  BY <1>1, <1>2, NamesDiffer DEF Named, KeepersInv, SidecarIs, K!Alive
<1>5. K!Runs("watchdog")' => K!Runs("watchdog")
  BY <1>2, NamesDiffer DEF Named, K!Runs
<1>6. \A q \in K!Service : K!Alive(q)' => K!Alive(q)
  BY <1>2, NamesDiffer DEF Named, K!Alive
<1> QED
  BY <1>1, <1>3, <1>4, <1>5, <1>6, Quiet

\* The list of a scan holds all who live when it is made.
LEMMA ListKeeps ==
    ASSUME K!SupervisionAssumption, KeepersInv, NEW k \in K!Keepers, K!CleanupList(k)
    PROVE  KeepersInv'
<1>1. /\ UNCHANGED <<proc, executed, at, pipe, bound, captured, result, left, lost>>
      /\ clean' = [clean EXCEPT ![k].listed = {p \in K!Service : K!Alive(p)}, ![k].scanned = TRUE]
  BY DEF K!CleanupList
<1>2. /\ clean' \in [K!Keepers -> CleanUps]
      /\ \/ clean'["watchdog"] = clean["watchdog"]
         \/ /\ clean'["watchdog"].listed = {p \in K!Service : K!Alive(p)}
            /\ clean'["watchdog"].on = clean["watchdog"].on
            /\ clean'["watchdog"].empty = clean["watchdog"].empty
  BY <1>1 DEF K!Keepers, KeepersInv, KeepersTyped, CleanUps
<1>3. KeepersTyped'
  BY <1>1, <1>2 DEF KeepersInv, KeepersTyped
<1>4. SidecarIs' /\ Answered'
  BY <1>1 DEF KeepersInv, SidecarIs, Answered, Escapes, K!HandOffs, K!AllGone, K!Alive
<1>5. Scans'
  <2>1. CASE clean'["watchdog"] = clean["watchdog"]
    BY <1>1, <2>1 DEF KeepersInv, Scans, Escapes, Unlisted, K!HandOffs, K!Runs, K!AllGone, K!Alive
  <2>2. CASE clean'["watchdog"] # clean["watchdog"]
    <3>1. \A p \in K!Service : K!Alive(p)' => p \in clean'["watchdog"].listed
      BY <1>1, <1>2, <2>2 DEF K!Alive
    <3> QED
      BY <1>1, <1>2, <2>2, <3>1
      DEF KeepersInv, Scans, Escapes, Unlisted, K!HandOffs, K!Runs, K!AllGone, K!Alive
  <2> QED
    BY <2>1, <2>2
<1> QED
  BY <1>3, <1>4, <1>5 DEF KeepersInv

\* What an inspection leaves alone, and that it makes no process live.
LEMMA InspectFacts ==
    ASSUME K!SupervisionAssumption, KeepersInv, NEW k \in K!Keepers, K!CleanupInspect(k)
    PROVE  /\ KeepersTyped' /\ SidecarIs' /\ Answered'
           /\ \A p \in K!Service : K!Alive(p)' => K!Alive(p)
           /\ K!Runs("watchdog")' => K!Runs("watchdog")
           /\ at' = at /\ pipe' = pipe /\ result' = result /\ left'.handoffs = left.handoffs
           /\ k = "supervisor" => clean'["watchdog"] = clean["watchdog"]
<1>1. /\ UNCHANGED <<executed, at, pipe, captured, result, lost>>
      /\ clean[k].empty < K!StableScans
  BY DEF K!CleanupInspect
<1>2. PICK complete \in {TRUE} \cup (IF left.scans > 0 THEN {FALSE} ELSE {}) :
        LET found == IF complete THEN clean[k].listed \cap K!Marked ELSE {}
            known == bound[k] \cup found
            live == {p \in known : K!Alive(p)}
        IN /\ bound' = [bound EXCEPT ![k] = known]
           /\ left' = [left EXCEPT !.scans = IF complete THEN @ ELSE @ - 1]
           /\ \/ /\ live = {}
                 /\ clean' = [clean EXCEPT ![k].scanned = FALSE, ![k].listed = {},
                                ![k].empty = IF complete THEN @ + 1 ELSE 0]
                 /\ UNCHANGED proc
              \/ /\ live # {}
                 /\ \E ended \in IF clean[k].term THEN {live} ELSE SUBSET live :
                      proc' = K!Gone(ended)
                 /\ clean' = [clean EXCEPT ![k].scanned = FALSE, ![k].listed = {},
                                ![k].empty = 0, ![k].term = TRUE]
  BY DEF K!CleanupInspect
<1> DEFINE found == IF complete THEN clean[k].listed \cap K!Marked ELSE {}
           known == bound[k] \cup found
           live == {p \in known : K!Alive(p)}
<1>3. known \subseteq K!Service /\ live \subseteq K!Service
  BY DEF KeepersInv, KeepersTyped, CleanUps, K!Marked
<1>4. bound' \in [K!Keepers -> SUBSET K!Service]
  BY <1>2, <1>3 DEF KeepersInv, KeepersTyped
<1>5. /\ left' \in [crashes : Nat, scans : Nat, handoffs : 0..MaxHandOffs]
      /\ left'.handoffs = left.handoffs
  <2>1. complete \in BOOLEAN /\ (~complete => left.scans > 0)
    OBVIOUS
  <2>2. left' = [left EXCEPT !.scans = IF complete THEN @ ELSE @ - 1]
    BY <1>2
  <2> QED
    BY <2>1, <2>2 DEF KeepersInv, KeepersTyped
<1>6. \/ proc' = proc
      \/ \E ended \in SUBSET live : proc' = K!Gone(ended)
  BY <1>2
<1>7. /\ proc' \in [K!Processes -> {"absent", "alive", "stopped", "gone"}]
      /\ \A p \in K!Processes : proc'[p] # proc[p] => p \in K!Service /\ proc'[p] = "gone"
  BY <1>3, <1>6, GoneOnes DEF KeepersInv, KeepersTyped
<1>8. /\ clean' \in [K!Keepers -> CleanUps]
      /\ k = "supervisor" => clean'["watchdog"] = clean["watchdog"]
  <2> DEFINE e == IF complete THEN clean[k].empty + 1 ELSE 0
  <2>1. e \in 0..K!StableScans /\ 0 \in 0..K!StableScans
    BY <1>1 DEF KeepersInv, KeepersTyped, CleanUps, K!StableScans
  <2>2. CASE live = {}
    <3>1. clean' = [clean EXCEPT ![k].scanned = FALSE, ![k].listed = {}, ![k].empty = e]
      BY <1>2, <2>2
    <3> HIDE DEF e
    <3>2. clean[k] \in CleanUps /\ clean \in [K!Keepers -> CleanUps]
      BY DEF KeepersInv, KeepersTyped
    <3>3. clean'[k] = [clean[k] EXCEPT !.scanned = FALSE, !.listed = {}, !.empty = e]
      BY <3>1, <3>2
    <3>4. clean'[k] \in CleanUps
      BY <2>1, <3>2, <3>3 DEF CleanUps
    <3>5. DOMAIN clean' = K!Keepers /\ clean' = [j \in K!Keepers |-> clean'[j]]
      BY <3>1, <3>2
    <3>6. \A j \in K!Keepers : j # k => clean'[j] = clean[j]
      BY <3>1, <3>2
    <3> QED
      BY <3>2, <3>4, <3>5, <3>6 DEF K!Keepers
  <2>3. CASE live # {}
    <3>1. clean' = [clean EXCEPT ![k].scanned = FALSE, ![k].listed = {}, ![k].empty = 0,
                                 ![k].term = TRUE]
      BY <1>2, <2>3
    <3>2. clean[k] \in CleanUps /\ clean \in [K!Keepers -> CleanUps]
      BY DEF KeepersInv, KeepersTyped
    <3>3. clean'[k] = [clean[k] EXCEPT !.scanned = FALSE, !.listed = {}, !.empty = 0,
                                       !.term = TRUE]
      BY <3>1, <3>2
    <3>4. clean'[k] \in CleanUps
      BY <2>1, <3>2, <3>3 DEF CleanUps
    <3>5. DOMAIN clean' = K!Keepers /\ clean' = [j \in K!Keepers |-> clean'[j]]
      BY <3>1, <3>2
    <3>6. \A j \in K!Keepers : j # k => clean'[j] = clean[j]
      BY <3>1, <3>2
    <3> QED
      BY <3>2, <3>4, <3>5, <3>6 DEF K!Keepers
  <2> QED
    BY <2>2, <2>3
<1>9. \A p \in K!Service : K!Alive(p)' => K!Alive(p)
  BY <1>7, NamesDiffer DEF Named, K!Alive
<1>10. K!Runs("watchdog")' => K!Runs("watchdog")
  BY <1>7, NamesDiffer DEF Named, K!Runs
<1>11. KeepersTyped'
  BY <1>1, <1>4, <1>5, <1>7, <1>8 DEF KeepersInv, KeepersTyped
<1>12. SidecarIs'
  <2>1. proc["sidecar"] = "absent" => proc'["sidecar"] = "absent"
    <3>1. CASE proc' = proc
      BY <3>1
    <3>2. CASE \E ended \in SUBSET live : proc' = K!Gone(ended)
      <4>1. PICK ended \in SUBSET live : proc' = K!Gone(ended)
        BY <3>2
      <4>2. "sidecar" \in ended => K!Alive("sidecar")
        BY <4>1
      <4> QED
        BY <4>1, <4>2, GoneOnes, NamesDiffer DEF Named, KeepersInv, K!Alive
    <3> QED
      BY <1>6, <3>1, <3>2
  <2> QED
    BY <1>1, <1>9, <2>1, NamesDiffer DEF Named, KeepersInv, SidecarIs
<1>13. Answered'
  BY <1>1, <1>5, <1>9 DEF KeepersInv, Answered, Escapes, K!HandOffs, K!AllGone
<1> QED
  BY <1>1, <1>5, <1>8, <1>9, <1>10, <1>11, <1>12, <1>13

\* An inspection by the watchdog: with nothing left over of what it knows, all who
\* live came by a hand-off, after the list of the scan before if that one was empty too.
LEMMA InspectScans ==
    ASSUME K!SupervisionAssumption, KeepersInv, K!CleanupInspect("watchdog") PROVE Scans'
<1>1. /\ \A p \in K!Service : K!Alive(p)' => K!Alive(p)
      /\ at' = at /\ left'.handoffs = left.handoffs
  BY InspectFacts DEF K!Keepers
<1> SUFFICES ASSUME (K!Runs("watchdog") /\ at["watchdog"] = "asked" /\ clean["watchdog"].on)'
             PROVE  /\ Escapes(clean["watchdog"].empty)'
                    /\ clean'["watchdog"].scanned =>
                         Unlisted(clean["watchdog"].empty, clean["watchdog"].listed)'
  BY DEF Scans
<1> DEFINE c == clean["watchdog"]
<1>2. /\ K!Runs("watchdog") /\ at["watchdog"] = "asked" /\ c.on /\ c.scanned
      /\ c.empty < K!StableScans /\ c.empty \in 0..K!StableScans
  BY <1>1 DEF K!CleanupInspect, KeepersInv, KeepersTyped, CleanUps, K!Keepers
<1>3. PICK complete \in {TRUE} \cup (IF left.scans > 0 THEN {FALSE} ELSE {}) :
        LET found == IF complete THEN c.listed \cap K!Marked ELSE {}
            known == bound["watchdog"] \cup found
            live == {p \in known : K!Alive(p)}
        IN \/ /\ live = {}
              /\ clean' = [clean EXCEPT !["watchdog"].scanned = FALSE, !["watchdog"].listed = {},
                             !["watchdog"].empty = IF complete THEN @ + 1 ELSE 0]
           \/ /\ live # {}
              /\ clean' = [clean EXCEPT !["watchdog"].scanned = FALSE, !["watchdog"].listed = {},
                             !["watchdog"].empty = 0, !["watchdog"].term = TRUE]
  BY DEF K!CleanupInspect
<1> DEFINE found == IF complete THEN c.listed \cap K!Marked ELSE {}
           known == bound["watchdog"] \cup found
           live == {p \in known : K!Alive(p)}
<1>4. /\ ~clean'["watchdog"].scanned
      /\ clean'["watchdog"].empty =
             IF live = {} /\ complete THEN c.empty + 1 ELSE 0
  <2>1. clean \in [K!Keepers -> CleanUps] /\ "watchdog" \in K!Keepers
    BY DEF KeepersInv, KeepersTyped, K!Keepers
  <2>2. CASE live = {}
    BY <1>3, <2>1, <2>2 DEF CleanUps
  <2>3. CASE live # {}
    BY <1>3, <2>1, <2>3 DEF CleanUps
  <2> QED
    BY <2>2, <2>3
<1>5. CASE live = {} /\ complete
  <2>1. (\A p \in K!Service : K!Alive(p) => p \in c.listed) => K!AllGone
    <3>1. SUFFICES ASSUME \A p \in K!Service : K!Alive(p) => p \in c.listed,
                          NEW p \in K!Service, K!Alive(p)
                   PROVE  FALSE
      BY DEF K!AllGone
    <3>2. p # "sidecar"
      BY <1>2, <3>1 DEF KeepersInv, SidecarIs
    <3>3. p \in live
      BY <1>5, <3>1, <3>2 DEF K!Marked
    <3> QED
      BY <1>5, <3>3
  <2>2. K!AllGone \/ K!HandOffs > c.empty
    BY <1>2, <2>1 DEF KeepersInv, Scans, Unlisted
  <2>3. K!AllGone => K!AllGone'
    BY <1>1 DEF K!AllGone
  <2>4. K!HandOffs' = K!HandOffs /\ K!HandOffs \in Int
    BY <1>1 DEF K!HandOffs, KeepersInv, KeepersTyped, K!SupervisionAssumption
  <2>5. ~clean'["watchdog"].scanned /\ clean'["watchdog"].empty = c.empty + 1
    BY <1>4, <1>5
  <2> HIDE DEF c, live
  <2> QED
    BY <1>2, <2>2, <2>3, <2>4, <2>5 DEF Escapes
<1>6. CASE ~(live = {} /\ complete)
  <2>1. ~clean'["watchdog"].scanned /\ clean'["watchdog"].empty = 0
    BY <1>4, <1>6
  <2>2. K!HandOffs' >= 0
    BY <1>1 DEF K!HandOffs, KeepersInv, KeepersTyped, K!SupervisionAssumption
  <2> QED
    BY <2>1, <2>2 DEF Escapes
<1> QED
  BY <1>5, <1>6

LEMMA InspectKeeps ==
    ASSUME K!SupervisionAssumption, KeepersInv, NEW k \in K!Keepers, K!CleanupInspect(k)
    PROVE  KeepersInv'
<1>1. CASE k = "watchdog"
  BY <1>1, InspectFacts, InspectScans DEF KeepersInv
<1>2. CASE k = "supervisor"
  BY <1>2, InspectFacts, Quiet
<1> QED
  BY <1>1, <1>2 DEF K!Keepers

\* A fork behind a scan is counted; at another time the forked one will be listed.
LEMMA ForkKeeps ==
    ASSUME K!SupervisionAssumption, KeepersInv,
           NEW p \in K!Service, NEW w \in ServiceWorkers, K!Fork(p, w)
    PROVE  KeepersInv'
<1> DEFINE behind == \E k \in K!Keepers : clean[k].on /\ clean[k].scanned /\ K!Runs(k)
<1>1. /\ UNCHANGED <<executed, at, pipe, bound, captured, clean, result, lost>>
      /\ K!Alive(p) /\ proc' = [proc EXCEPT ![w] = "alive"]
      /\ behind => left.handoffs > 0
      /\ left' = [left EXCEPT !.handoffs = IF behind THEN @ - 1 ELSE @]
  BY DEF K!Fork, K!Marked
<1>2. /\ left' \in [crashes : Nat, scans : Nat, handoffs : 0..MaxHandOffs]
      /\ K!HandOffs \in Nat /\ K!HandOffs' \in Nat
      /\ K!HandOffs' = IF behind THEN K!HandOffs + 1 ELSE K!HandOffs
  <2> HIDE DEF behind
  <2>1. MaxHandOffs \in Nat /\ left \in [crashes : Nat, scans : Nat, handoffs : 0..MaxHandOffs]
    BY DEF K!SupervisionAssumption, KeepersInv, KeepersTyped
  <2>2. CASE behind
    BY <1>1, <2>1, <2>2 DEF K!HandOffs
  <2>3. CASE ~behind
    BY <1>1, <2>1, <2>3 DEF K!HandOffs
  <2> QED
    BY <2>2, <2>3
<1>3. /\ proc' \in [K!Processes -> {"absent", "alive", "stopped", "gone"}]
      /\ proc'["sidecar"] = proc["sidecar"] /\ proc'["watchdog"] = proc["watchdog"]
  BY <1>1, NamesDiffer DEF Named, KeepersInv, KeepersTyped
<1>4. KeepersTyped'
  BY <1>1, <1>2, <1>3 DEF KeepersInv, KeepersTyped
<1>5. SidecarIs'
  BY <1>1, <1>3 DEF KeepersInv, SidecarIs, K!Alive
<1>6. ~K!AllGone
  BY <1>1 DEF K!AllGone
<1>7. Answered'
  <2> HIDE DEF behind
  <2>1. pipe.ack = "C" \/ result = "status" => K!HandOffs >= K!StableScans
    BY <1>6 DEF KeepersInv, Answered, Escapes
  <2>2. K!HandOffs' >= K!HandOffs
    BY <1>2
  <2> QED
    BY <1>1, <1>2, <2>1, <2>2 DEF KeepersInv, Answered, Escapes, K!StableScans
<1>8. Scans'
  <2> SUFFICES ASSUME (K!Runs("watchdog") /\ at["watchdog"] = "asked" /\ clean["watchdog"].on)'
               PROVE  /\ Escapes(clean["watchdog"].empty)'
                      /\ clean'["watchdog"].scanned =>
                           Unlisted(clean["watchdog"].empty, clean["watchdog"].listed)'
    BY DEF Scans
  <2> DEFINE c == clean["watchdog"]
  <2>1. K!Runs("watchdog") /\ at["watchdog"] = "asked" /\ c.on
    BY <1>1, <1>3 DEF K!Runs
  <2>2. c.empty \in Nat /\ K!HandOffs >= c.empty
    BY <1>6, <2>1 DEF KeepersInv, KeepersTyped, Scans, Escapes, CleanUps, K!StableScans, K!Keepers
  <2>3. c.scanned => behind
    BY <2>1 DEF K!Keepers
  <2> HIDE DEF behind, c
  <2>4. K!HandOffs' >= c.empty /\ (c.scanned => K!HandOffs' > c.empty)
    BY <1>2, <2>2, <2>3
  <2> USE DEF c
  <2> QED
    BY <1>1, <2>4 DEF Escapes, Unlisted
<1> QED
  BY <1>4, <1>5, <1>7, <1>8 DEF KeepersInv

LEMMA KeepersStutter ==
    ASSUME K!SupervisionAssumption, KeepersInv, UNCHANGED K!vars
    PROVE  KeepersInv'
<1>1. KeepersTyped' /\ SidecarIs'
  BY DEF K!vars, KeepersInv, KeepersTyped, SidecarIs, K!Alive
<1> QED
  BY <1>1, Quiet DEF K!vars, K!Alive, K!Runs

LEMMA KeepersBegin == ASSUME K!SupervisionAssumption, K!Init PROVE KeepersInv
<1>1. KeepersTyped
  <2>1. /\ proc \in [K!Processes -> {"absent", "alive", "stopped", "gone"}]
        /\ bound \in [K!Keepers -> SUBSET K!Service] /\ captured \subseteq K!Service
        /\ result \in {"none", "status", "70"} /\ {executed, lost} \subseteq BOOLEAN
    BY DEF K!Init
  <2>5. at \in [K!Keepers -> KeeperPlaces]
    <3>1. at = [k \in K!Keepers |-> IF k = "supervisor" THEN "ready" ELSE "register"]
      BY DEF K!Init, K!Keepers
    <3> QED
      BY <3>1 DEF KeeperPlaces
  <2>2. pipe \in Pipes
    BY DEF K!Init, Pipes
  <2>3. clean \in [K!Keepers -> CleanUps]
    BY NewCleanUps DEF K!Init
  <2>4. left \in [crashes : Nat, scans : Nat, handoffs : 0..MaxHandOffs]
    BY DEF K!Init, K!SupervisionAssumption
  <2> QED
    BY <2>1, <2>2, <2>3, <2>4, <2>5 DEF KeepersTyped
<1>2. SidecarIs
  BY NamesDiffer DEF Named, K!Init, SidecarIs
<1>3. Scans /\ Answered
  BY DEF K!Init, Scans, Answered
<1> QED
  BY <1>1, <1>2, <1>3 DEF KeepersInv

LEMMA KeepersStep ==
    ASSUME K!SupervisionAssumption, KeepersInv, K!Next
    PROVE  KeepersInv'
<1>1. CASE K!Supervisor
  BY <1>1, ForkSidecarKeeps, ArmKeeps, OpenGateKeeps, WatchSidecarKeeps, ConfirmKeeps,
     CleanupFailedKeeps, ReapWatchdogKeeps, ListKeeps, InspectKeeps
  DEF K!Supervisor, K!Cleanup, K!Keepers
<1>2. CASE K!Watchdog
  BY <1>2, RegisterKeeps, TakeArmKeeps, TakeEndKeeps, NoticeParentKeeps, StopSupervisorKeeps,
     CaptureChildrenKeeps, EndSupervisorKeeps, EndCapturedKeeps, WatchdogEndsKeeps,
     WatchdogFailsKeeps, ListKeeps, InspectKeeps
  DEF K!Watchdog, K!Cleanup, K!Keepers
<1>3. CASE K!NotReady \/ K!ConfirmTimesOut \/ K!PassGate \/ K!ParentExits
  BY <1>3, NotReadyKeeps, ConfirmTimesOutKeeps, PassGateKeeps, ParentExitsKeeps
<1>4. CASE \E k \in K!Keepers : K!Bind(k) \/ K!Crash(k)
  BY <1>4, BindKeeps, CrashKeeps
<1>5. CASE K!CleanupGivesUp("supervisor", "failing") \/ K!CleanupGivesUp("watchdog", "failed")
  BY <1>5, GivesUpKeeps DEF K!Keepers
<1>6. CASE \E p \in K!Service : K!ServiceEnds(p) \/ \E w \in ServiceWorkers : K!Fork(p, w)
  BY <1>6, ServiceEndsKeeps, ForkKeeps
<1> QED
  BY <1>1, <1>2, <1>3, <1>4, <1>5, <1>6 DEF K!Next

\* When the supervisor returns the status of the service, no process of the service is
\* left or work was handed on behind a scan at least twice (lifecycle.py, supervise,
\* _watchdog and cleanup_marked_processes), for any workers, forks, kills and scans.
THEOREM StatusIsClean == K!Spec => []StatusMeansClean
<1>1. K!Init => KeepersInv
  BY KeepersAssumption, KeepersBegin
<1>2. KeepersInv /\ [K!Next]_(K!vars) => KeepersInv'
  BY KeepersAssumption, KeepersStep, KeepersStutter
<1>3. KeepersInv => StatusMeansClean
  BY DEF KeepersInv, Answered, Escapes, StatusMeansClean, K!StatusMeansClean, K!StableScans
<1> QED
  BY <1>1, <1>2, <1>3, PTL DEF K!Spec
==============================================================================
