--------------------------- MODULE BatchScheduler ---------------------------
(***************************************************************************)
(* serving/scheduler.py: the batch scheduler of the serve process.         *)
(*                                                                         *)
(* One asyncio task runs _run_task for every file of a batch.  It asks for *)
(* a dispatch slot (a global limit and one per batch), hands the parse to  *)
(* a worker thread, gives the slot back and records how the task ended.    *)
(* cancel_batch, delete_task, shutdown and a persistence retry loop run as *)
(* coroutines of the same event loop; the process may crash at any point   *)
(* and recover_interrupted_work (serve.py) runs at the next start.         *)
(*                                                                         *)
(* A coroutine is atomic between two awaits that really suspend: the       *)
(* asyncio locks of the scheduler are never held across such an await, so  *)
(* taking one never suspends.  One action below is one such segment, or    *)
(* one step of a worker thread between two uses of ctx.phase_lock.         *)
(***************************************************************************)
EXTENDS Naturals, FiniteSets

CONSTANTS
    Batches, Tasks,
    BatchOf,        \* BatchOf[t]: the batch that task t was submitted with
    Concurrency,    \* Concurrency[b]: the concurrency the client asked for
    MaxGlobal,      \* max_global_concurrency
    MaxActive,      \* max_active_batches
    MaxDbFaults,    \* bound of the model: batch-progress writes that fail
    FactoryFaults,  \* whether orch_factory() or submit() may raise
    Events          \* what happens to the scheduler besides submissions:
                    \* a subset of {"cancel", "delete", "shutdown", "crash"}

ASSUME BatchesAssumption == IsFiniteSet(Tasks) /\ BatchOf \in [Tasks -> Batches]
ASSUME LimitsAssumption ==
    /\ MaxGlobal \in Nat \ {0} /\ MaxActive \in Nat \ {0} /\ MaxDbFaults \in Nat
    /\ Concurrency \in [Batches -> Nat \ {0}] /\ FactoryFaults \in BOOLEAN

VARIABLES
    mode,           \* the process: "up", "draining" (shutdown) or "down"
    live,           \* the batches with a BatchContext in self._batches
    cancelled,      \* the batches with cancel_requested
    finalized,      \* the batches with ctx.finalized
    status,         \* status[b]: ctx.status
    cancelWait,     \* cancelWait[b]: the tasks a cancel_batch is gathering
    cancelling,     \* the batches with a cancel_batch suspended in its gather
    retry,          \* the batches with a live _persistence_retry_loop
    draining,       \* draining[b]: what shutdown still has to do for b
    pc,             \* pc[t]: where the coroutine _run_task of t stands
    cancelReq,      \* the tasks with a cancellation requested, not yet delivered
    request,        \* request[t]: the DispatchRequest of t
    worker,         \* worker[t]: the future in self._worker_futures
    completion,     \* completion[t]: in pending_completions, completed_task_ids or neither
    result,         \* result[t]: the status recorded with the completion
    prestart,       \* the tasks with a scheduled batch-prestart-cancel cleanup
    deleter,        \* deleter[t]: where a delete_task(t) stands
    globalRunning,  \* self._global_running
    runningTasks,   \* runningTasks[b]: ctx.running_tasks
    dbBatch,        \* dbBatch[b]: batches.status
    dbCompleted,    \* dbCompleted[b]: batches.completed_tasks
    dbTask,         \* dbTask[t]: tasks.status
    faults          \* failed progress writes so far

batchVars   == <<live, cancelled, finalized, status, cancelWait, cancelling, retry, draining>>
slotVars    == <<request, globalRunning, runningTasks>>
taskVars    == <<pc, cancelReq, worker, completion, result, prestart, deleter>>
dbVars      == <<dbBatch, dbCompleted, dbTask>>
vars == <<mode, batchVars, slotVars, taskVars, dbVars, faults>>

TasksOf(b) == {t \in Tasks : BatchOf[t] = b}

Terminal == {"COMPLETED", "FAILED", "CANCELLED"}

TypeOK ==
    /\ mode \in {"up", "draining", "down"}
    /\ live \subseteq Batches /\ cancelled \subseteq live /\ finalized \subseteq live
    /\ status \in [Batches -> Terminal \cup {"RUNNING"}]
    /\ cancelWait \in [Batches -> SUBSET Tasks]
    /\ cancelling \subseteq live /\ retry \subseteq live
    /\ draining \in [Batches -> {"idle", "cancel", "flush", "done"}]
    /\ pc \in [Tasks -> {"absent", "created", "ready", "worker", "drain", "ended"}]
    /\ cancelReq \subseteq Tasks /\ prestart \subseteq Tasks
    /\ request \in [Tasks -> {"none", "waiting", "granted", "released"}]
    /\ worker \in [Tasks -> {"none", "queued", "picked", "running",
                             "ok", "error", "skipped", "cancelled"}]
    /\ completion \in [Tasks -> {"none", "pending", "done"}]
    /\ result \in [Tasks -> Terminal \cup {"none"}]
    /\ deleter \in [Tasks -> {"none", "wait", "purge"}]
    /\ globalRunning \in Nat /\ runningTasks \in [Batches -> Nat]
    /\ dbBatch \in [Batches -> Terminal \cup {"NONE", "RUNNING", "INTERRUPTED"}]
    /\ dbCompleted \in [Batches -> Nat]
    /\ dbTask \in [Tasks -> Terminal \cup {"NONE", "WAITING", "ACTIVE",
                                           "INTERRUPTED", "DELETED"}]
    /\ faults \in 0..MaxDbFaults

Init ==
    /\ mode = "up"
    /\ live = {} /\ cancelled = {} /\ finalized = {}
    /\ status = [b \in Batches |-> "RUNNING"]
    /\ cancelWait = [b \in Batches |-> {}] /\ cancelling = {} /\ retry = {}
    /\ draining = [b \in Batches |-> "idle"]
    /\ pc = [t \in Tasks |-> "absent"] /\ cancelReq = {}
    /\ request = [t \in Tasks |-> "none"] /\ worker = [t \in Tasks |-> "none"]
    /\ prestart = {}
    /\ completion = [t \in Tasks |-> "none"] /\ result = [t \in Tasks |-> "none"]
    /\ deleter = [t \in Tasks |-> "none"]
    /\ globalRunning = 0 /\ runningTasks = [b \in Batches |-> 0]
    /\ dbBatch = [b \in Batches |-> "NONE"] /\ dbCompleted = [b \in Batches |-> 0]
    /\ dbTask = [t \in Tasks |-> "NONE"]
    /\ faults = 0

-----------------------------------------------------------------------------
(* Dispatch slots *)

Dec(n) == IF n = 0 THEN 0 ELSE n - 1

\* A cancelled `ready` future and a batch with cancel_requested are passed over.
Eligible(req, running) ==
    {t \in Tasks : /\ req[t] = "waiting" /\ t \notin cancelReq
                   /\ BatchOf[t] \in live \ cancelled
                   /\ running[BatchOf[t]] < Concurrency[BatchOf[t]]}

\* _dispatch_available_locked: slots are granted until none is free or nobody
\* is eligible.  Who is preferred is the business of DispatchPolicy.tla: here
\* every maximal set of grants may be chosen.
DispatchAvailable(req, global, running) ==
    \E G \in SUBSET Eligible(req, running) :
        LET load(b) == running[b] + Cardinality({t \in G : BatchOf[t] = b})
        IN /\ global + Cardinality(G) <= MaxGlobal
           /\ \A b \in Batches : load(b) <= Concurrency[b]
           /\ global + Cardinality(G) < MaxGlobal =>
                \A t \in Eligible(req, running) \ G : load(BatchOf[t]) = Concurrency[BatchOf[t]]
           /\ request' = [t \in Tasks |-> IF t \in G THEN "granted" ELSE req[t]]
           /\ globalRunning' = global + Cardinality(G)
           /\ runningTasks' = [b \in Batches |-> load(b)]

\* _release_dispatch_request
Release(t) ==
    DispatchAvailable([request EXCEPT ![t] = "released"], Dec(globalRunning),
                      [runningTasks EXCEPT ![BatchOf[t]] = Dec(@)])

\* A request cancelled before its grant leaves the waiters.
Withdraw(t) ==
    DispatchAvailable([request EXCEPT ![t] = "none"], globalRunning, runningTasks)

-----------------------------------------------------------------------------
(* Recording completions *)

persistVars == <<completion, result, dbVars, finalized, status, retry, faults>>

AtLeast(n, m) == IF n < m THEN m ELSE n

\* Mutant: the last task is not waited for.
AllButOneDone(b, comp) == Cardinality({t \in TasksOf(b) : comp[t] # "done"}) <= 1

AllDone(b, comp) == \A t \in TasksOf(b) : comp[t] = "done"

\* _terminal_status
TerminalStatus(b, res, canc) ==
    IF b \in canc \/ \E t \in TasksOf(b) : res[t] = "CANCELLED" THEN "CANCELLED"
    ELSE IF \E t \in TasksOf(b) : res[t] = "FAILED" THEN "FAILED"
    ELSE "COMPLETED"

\* Mutant: the failure is reported, but no retry loop is started.
WriteFailsSilently(b) ==
    /\ faults < MaxDbFaults /\ faults' = faults + 1
    /\ UNCHANGED <<finalized, status, dbBatch, retry>>

\* _report_persistence_failure and _ensure_persistence_retry
WriteFails(b) ==
    /\ faults < MaxDbFaults /\ faults' = faults + 1
    /\ retry' = retry \cup {b}
    /\ UNCHANGED <<finalized, status, dbBatch>>

\* _finalize_batch_locked, once every completion is recorded.
Finalize(b, res, canc) ==
    \/ /\ finalized' = finalized \cup {b}
       /\ status' = [status EXCEPT ![b] = TerminalStatus(b, res, canc)]
       /\ dbBatch' = [dbBatch EXCEPT ![b] = TerminalStatus(b, res, canc)]
       /\ UNCHANGED <<retry, faults>>
    \/ WriteFails(b)

\* _flush_pending_completions_locked on the completions comp and res of batch b:
\* the set F of pending ones is recorded, progress first, then the task row;
\* a write that fails stops the loop, possibly between the two.
Flush(b, comp, res, canc) ==
    LET P == {t \in TasksOf(b) : comp[t] = "pending"}
        n == Cardinality({t \in TasksOf(b) : comp[t] = "done"})
        outcome(t) == IF b \in canc THEN "CANCELLED" ELSE res[t]
    IN \E F \in SUBSET P :
        /\ completion' = [t \in Tasks |-> IF t \in F THEN "done" ELSE comp[t]]
        /\ result' = [t \in Tasks |-> IF t \in F THEN outcome(t) ELSE res[t]]
        /\ dbTask' = [t \in Tasks |-> IF t \in F /\ dbTask[t] # "DELETED"
                                      THEN outcome(t) ELSE dbTask[t]]
        /\ \/ /\ F # P /\ WriteFails(b)
              /\ \E k \in {0, 1} : dbCompleted' =
                    [dbCompleted EXCEPT ![b] = AtLeast(@, n + Cardinality(F) + k)]
           \/ /\ F = P
              /\ dbCompleted' = [dbCompleted EXCEPT ![b] = AtLeast(@, n + Cardinality(F))]
              /\ IF AllDone(b, completion') /\ b \notin finalized
                 THEN Finalize(b, result', canc)
                 ELSE UNCHANGED <<finalized, status, dbBatch, retry, faults>>

\* _complete_task for the tasks of S: a completion already registered is kept.
Register(S) == [t \in Tasks |-> IF t \in S /\ completion[t] = "none" THEN "pending"
                                ELSE completion[t]]
Record(S, s) == [t \in Tasks |-> IF t \in S /\ completion[t] = "none" THEN s ELSE result[t]]

CompleteTask(t, s) ==
    IF completion[t] = "none" /\ BatchOf[t] \in live
    THEN Flush(BatchOf[t], Register({t}), Record({t}, s), cancelled)
    ELSE UNCHANGED persistVars

-----------------------------------------------------------------------------
(* submit_batch *)

Admits(b) ==
    /\ mode = "up" /\ dbBatch[b] = "NONE"
    /\ Cardinality(live \ finalized) < MaxActive

SubmitBatch(b) ==
    /\ Admits(b) /\ TasksOf(b) # {}
    /\ live' = live \cup {b}
    /\ dbBatch' = [dbBatch EXCEPT ![b] = "RUNNING"]
    /\ dbTask' = [t \in Tasks |-> IF BatchOf[t] = b THEN "WAITING" ELSE dbTask[t]]
    /\ pc' = [t \in Tasks |-> IF BatchOf[t] = b THEN "created" ELSE pc[t]]
    /\ UNCHANGED <<mode, cancelled, finalized, status, cancelWait, cancelling, retry, draining,
                   slotVars, cancelReq, worker, completion, result, prestart, deleter,
                   dbCompleted, faults>>

\* A batch without files is finalized at once; its row is RUNNING first.
SubmitEmptyBatch(b) ==
    /\ Admits(b) /\ TasksOf(b) = {}
    /\ live' = live \cup {b}
    /\ \/ /\ finalized' = finalized \cup {b}
          /\ status' = [status EXCEPT ![b] = "COMPLETED"]
          /\ dbBatch' = [dbBatch EXCEPT ![b] = "COMPLETED"]
          /\ UNCHANGED <<retry, faults>>
       \/ /\ faults < MaxDbFaults /\ faults' = faults + 1
          /\ retry' = retry \cup {b}
          /\ dbBatch' = [dbBatch EXCEPT ![b] = "RUNNING"]
          /\ UNCHANGED <<finalized, status>>
    /\ UNCHANGED <<mode, cancelled, cancelWait, cancelling, draining, slotVars, taskVars,
                   dbCompleted, dbTask>>

-----------------------------------------------------------------------------
(* _run_task, one action per segment *)

\* The finally block: the task's completion is recorded as s.
Ends(t, s) ==
    /\ pc' = [pc EXCEPT ![t] = "ended"] /\ cancelReq' = cancelReq \ {t}
    /\ CompleteTask(t, s)

\* From the grant to the submission of the worker nothing suspends.  If
\* orch_factory() or submit() raises, no except clause of _run_task catches it
\* and the finally block runs with final_status still "COMPLETED".
SubmitWorker(t) ==
    /\ pc' = [pc EXCEPT ![t] = "worker"] /\ worker' = [worker EXCEPT ![t] = "queued"]
    /\ UNCHANGED <<cancelReq, persistVars>>

FactoryRaises(t) ==
    /\ FactoryFaults
    /\ Ends(t, "COMPLETED")
    /\ UNCHANGED worker

runFrame == <<mode, live, cancelled, cancelWait, cancelling, draining, prestart, deleter>>

\* A task cancelled before its first step never enters its body: its done
\* callback schedules the completion.
NeverStarts(t) ==
    /\ pc[t] = "created" /\ t \in cancelReq
    /\ pc' = [pc EXCEPT ![t] = "ended"] /\ cancelReq' = cancelReq \ {t}
    /\ prestart' = prestart \cup {t}
    /\ UNCHANGED <<mode, batchVars, slotVars, worker, completion, result, deleter,
                   dbVars, faults>>

\* The first segment registers the request.  Without a free slot it suspends.
AwaitSlot(t) ==
    /\ pc[t] = "created" /\ t \notin cancelReq
    /\ DispatchAvailable([request EXCEPT ![t] = "waiting"], globalRunning, runningTasks)
    /\ request'[t] = "waiting"
    /\ pc' = [pc EXCEPT ![t] = "ready"]
    /\ UNCHANGED <<runFrame, cancelReq, worker, persistVars>>

StartAtOnce(t) ==
    /\ pc[t] = "created" /\ t \notin cancelReq
    /\ DispatchAvailable([request EXCEPT ![t] = "waiting"], globalRunning, runningTasks)
    /\ request'[t] = "granted"
    /\ SubmitWorker(t)
    /\ UNCHANGED runFrame

\* The same segment when the factory raises: the slot is taken and given back.
StartFails(t) ==
    /\ pc[t] = "created" /\ t \notin cancelReq
    /\ globalRunning < MaxGlobal /\ runningTasks[BatchOf[t]] < Concurrency[BatchOf[t]]
    /\ FactoryRaises(t)
    /\ request' = [request EXCEPT ![t] = "released"]
    /\ UNCHANGED <<runFrame, globalRunning, runningTasks>>

\* Mutant: no second look at cancel_requested after the wait for a slot.
ResumeAnyway(t) ==
    /\ pc[t] = "ready" /\ request[t] = "granted" /\ t \notin cancelReq
    /\ SubmitWorker(t) /\ UNCHANGED slotVars
    /\ UNCHANGED runFrame

\* Waking from `await request.ready` with the slot, nothing cancelled.
Resume(t) ==
    /\ pc[t] = "ready" /\ request[t] = "granted"
    /\ t \notin cancelReq /\ BatchOf[t] \notin cancelled
    /\ \/ SubmitWorker(t) /\ UNCHANGED slotVars
       \/ FactoryRaises(t) /\ Release(t)
    /\ UNCHANGED runFrame

\* Waking with the slot after cancel_batch: the slot goes back unused.
ResumeCancelled(t) ==
    /\ pc[t] = "ready" /\ request[t] = "granted"
    /\ t \notin cancelReq /\ BatchOf[t] \in cancelled
    /\ Release(t)
    /\ Ends(t, "CANCELLED")
    /\ UNCHANGED <<runFrame, worker>>

\* CancelledError is delivered at `await request.ready`, before or after the grant.
CancelledAwaitingSlot(t) ==
    /\ pc[t] = "ready" /\ t \in cancelReq
    /\ IF request[t] = "granted" THEN Release(t) ELSE Withdraw(t)
    /\ Ends(t, "CANCELLED")
    /\ UNCHANGED <<runFrame, worker>>

\* The worker's future is done and no cancellation came first.
WorkerOutcome(t) ==
    IF BatchOf[t] \in cancelled \/ worker[t] = "skipped" THEN "CANCELLED"
    ELSE IF worker[t] = "error" THEN "FAILED" ELSE "COMPLETED"

WorkerDone(t) ==
    /\ pc[t] = "worker" /\ t \notin cancelReq
    /\ worker[t] \in {"ok", "error", "skipped"}
    /\ Release(t)
    /\ Ends(t, WorkerOutcome(t))
    /\ UNCHANGED <<runFrame, worker>>

\* Mutant: the coroutine ends without draining its worker.
CancelledLeavesWorker(t) ==
    /\ pc[t] = "worker" /\ t \in cancelReq
    /\ Release(t) /\ Ends(t, "CANCELLED")
    /\ UNCHANGED <<runFrame, worker>>

\* CancelledError while the worker is awaited: the coroutine keeps the slot and
\* drains the worker (_await_worker_after_outer_cancel), unless the worker's
\* future was cancelled in the executor's queue.
CancelledAwaitingWorker(t) ==
    /\ pc[t] = "worker" /\ t \in cancelReq
    /\ IF worker[t] = "cancelled"
       THEN Release(t) /\ Ends(t, "CANCELLED")
       ELSE /\ pc' = [pc EXCEPT ![t] = "drain"] /\ cancelReq' = cancelReq \ {t}
            /\ UNCHANGED <<slotVars, persistVars>>
    /\ UNCHANGED <<runFrame, worker>>

Drained(t) ==
    /\ pc[t] = "drain" /\ worker[t] \in {"ok", "error", "skipped"}
    /\ Release(t)
    /\ Ends(t, "CANCELLED")
    /\ UNCHANGED <<runFrame, worker>>

\* The cleanup coroutine of _schedule_prestart_cancel_completion.
PrestartCompletes(t) ==
    /\ t \in prestart /\ prestart' = prestart \ {t}
    /\ CompleteTask(t, "CANCELLED")
    /\ UNCHANGED <<mode, live, cancelled, cancelWait, cancelling, draining, slotVars,
                   pc, cancelReq, worker, deleter>>

-----------------------------------------------------------------------------
(* _run_worker, in a thread of the executor *)

workerFrame == <<mode, batchVars, slotVars, pc, cancelReq, completion, result, prestart,
                 deleter, dbBatch, dbCompleted, faults>>

\* From here future.cancel() no longer works.
WorkerPicked(t) ==
    /\ worker[t] = "queued"
    /\ worker' = [worker EXCEPT ![t] = "picked"]
    /\ UNCHANGED <<workerFrame, dbTask>>

\* The check under ctx.phase_lock.  externally_cancelled_task_ids is read only
\* here, and has the task of a worker exactly when a delete_task waits for it.
WorkerStarts(t) ==
    /\ worker[t] = "picked"
    /\ worker' = [worker EXCEPT ![t] =
                    IF BatchOf[t] \in cancelled \/ deleter[t] = "wait" THEN "skipped" ELSE "running"]
    /\ UNCHANGED <<workerFrame, dbTask>>

\* parse_file promotes the WAITING row of the task.
WorkerPromotes(t) ==
    /\ worker[t] = "running" /\ dbTask[t] = "WAITING"
    /\ dbTask' = [dbTask EXCEPT ![t] = "ACTIVE"]
    /\ UNCHANGED <<worker, workerFrame>>

\* A file served from the cache is completed without promotion.
WorkerReturns(t) ==
    /\ worker[t] = "running"
    /\ worker' = [worker EXCEPT ![t] = "ok"]
    /\ dbTask' = [dbTask EXCEPT ![t] = "COMPLETED"]
    /\ UNCHANGED workerFrame

\* A failure before the promotion leaves the row as it is.
WorkerRaises(t) ==
    /\ worker[t] = "running"
    /\ worker' = [worker EXCEPT ![t] = "error"]
    /\ dbTask' = [dbTask EXCEPT ![t] = IF @ = "ACTIVE" THEN "FAILED" ELSE @]
    /\ UNCHANGED <<workerFrame>>

-----------------------------------------------------------------------------
(* cancel_batch, delete_task and the retry loop *)

cancelFrame == <<mode, live, slotVars, pc, worker, prestart, deleter>>

\* The tasks in phase WAITING, and those of them whose coroutine still runs.
WaitingIds(b) ==
    {t \in TasksOf(b) : request[t] \in {"none", "waiting"} /\ completion[t] # "done"}
WaitingTasks(b) == {t \in WaitingIds(b) : pc[t] # "ended"}

\* Mutant: the waiting coroutines are gathered but not cancelled.
CancelOnlyGathers(b) ==
    /\ b \in live \ finalized /\ b \notin cancelling
    /\ cancelled' = cancelled \cup {b}
    /\ IF WaitingTasks(b) # {}
       THEN /\ cancelling' = cancelling \cup {b}
            /\ cancelWait' = [cancelWait EXCEPT ![b] = WaitingIds(b)]
            /\ UNCHANGED persistVars
       ELSE /\ Flush(b, Register(WaitingIds(b)), Record(WaitingIds(b), "CANCELLED"), cancelled')
            /\ UNCHANGED <<cancelling, cancelWait>>
    /\ UNCHANGED <<cancelFrame, cancelReq>>

\* Mutant: the flag is set on a batch that has already reported its end.
CancelFinalized(b) ==
    /\ b \in live /\ b \notin cancelling
    /\ cancelled' = cancelled \cup {b}
    /\ UNCHANGED <<cancelFrame, cancelReq, cancelling, cancelWait, persistVars>>

\* The call up to its gather, or to its end when no coroutine is waiting.
CancelCall(b) ==
    /\ b \in live \ finalized /\ b \notin cancelling
    /\ cancelled' = cancelled \cup {b}
    /\ cancelReq' = cancelReq \cup WaitingTasks(b)
    /\ IF WaitingTasks(b) # {}
       THEN /\ cancelling' = cancelling \cup {b}
            /\ cancelWait' = [cancelWait EXCEPT ![b] = WaitingIds(b)]
            /\ UNCHANGED persistVars
       ELSE /\ Flush(b, Register(WaitingIds(b)), Record(WaitingIds(b), "CANCELLED"), cancelled')
            /\ UNCHANGED <<cancelling, cancelWait>>
    /\ UNCHANGED cancelFrame

CancelBatch(b) == "cancel" \in Events /\ mode = "up" /\ CancelCall(b) /\ UNCHANGED draining

\* After the gather: what has no completion yet is completed, and
\* retry_batch_persistence runs once.
CancelReturns(b) ==
    /\ b \in cancelling /\ \A t \in cancelWait[b] : pc[t] = "ended"
    /\ cancelling' = cancelling \ {b} /\ cancelWait' = [cancelWait EXCEPT ![b] = {}]
    /\ Flush(b, Register(cancelWait[b]), Record(cancelWait[b], "CANCELLED"), cancelled)
    /\ UNCHANGED <<cancelFrame, cancelled, cancelReq, draining>>

deleteFrame == <<mode, live, cancelled, cancelWait, cancelling, draining, slotVars, pc,
                 prestart>>

\* delete_task up to its first await.  A batch of an earlier process is not in
\* self._batches: its tasks are purged right away.
DeleteTask(t) ==
    /\ "delete" \in Events
    /\ mode = "up" /\ deleter[t] = "none" /\ dbTask[t] \notin {"NONE", "DELETED"}
    /\ IF BatchOf[t] \in live
       THEN /\ worker' = [worker EXCEPT ![t] = IF @ = "queued" THEN "cancelled" ELSE @]
            /\ cancelReq' = IF pc[t] = "ended" THEN cancelReq ELSE cancelReq \cup {t}
            /\ deleter' = [deleter EXCEPT ![t] = "wait"]
       ELSE /\ deleter' = [deleter EXCEPT ![t] = "purge"]
            /\ UNCHANGED <<worker, cancelReq>>
    /\ UNCHANGED <<deleteFrame, persistVars>>

\* The worker and the coroutine of the task have ended.
DeleteSettles(t) ==
    /\ deleter[t] = "wait" /\ pc[t] = "ended"
    /\ deleter' = [deleter EXCEPT ![t] = "purge"]
    /\ CompleteTask(t, "CANCELLED")
    /\ UNCHANGED <<deleteFrame, worker, cancelReq>>

\* try_purge removes the row, or raises (an unsafe path, an I/O error).
DeletePurges(t) ==
    /\ deleter[t] = "purge"
    /\ deleter' = [deleter EXCEPT ![t] = "none"]
    /\ dbTask' \in {dbTask, [dbTask EXCEPT ![t] = "DELETED"]}
    /\ UNCHANGED <<deleteFrame, worker, cancelReq, completion, result, dbBatch,
                   dbCompleted, finalized, status, retry, faults>>

\* One round of _persistence_retry_loop.
RetryTick(b) ==
    /\ b \in retry
    /\ IF b \in finalized
       THEN retry' = retry \ {b} /\ UNCHANGED <<completion, result, dbVars, finalized, status, faults>>
       ELSE Flush(b, completion, result, cancelled)
    /\ UNCHANGED <<mode, live, cancelled, cancelWait, cancelling, draining, slotVars, pc,
                   cancelReq, worker, prestart, deleter>>

-----------------------------------------------------------------------------
(* shutdown, crash, restart *)

BeginShutdown ==
    /\ "shutdown" \in Events
    /\ mode = "up" /\ mode' = "draining"
    /\ draining' = [b \in Batches |-> IF b \in live \ finalized THEN "cancel" ELSE "idle"]
    /\ UNCHANGED <<live, cancelled, finalized, status, cancelWait, cancelling, retry,
                   slotVars, taskVars, dbVars, faults>>

\* gather(cancel_batch(b) for the active batches); a batch finalized in the
\* meantime needs nothing, one that a client is cancelling is waited for below.
ShutdownCancels(b) ==
    /\ draining[b] = "cancel" /\ draining' = [draining EXCEPT ![b] = "flush"]
    /\ IF b \in finalized \cup cancelling
       THEN UNCHANGED <<cancelFrame, cancelled, cancelReq, cancelling, cancelWait, persistVars>>
       ELSE CancelCall(b)

\* Every cancel_batch, worker, task handle and cleanup task has been awaited.
Quiesced ==
    /\ \A b \in Batches : draining[b] # "cancel"
    /\ cancelling = {} /\ prestart = {}
    /\ \A t \in Tasks : pc[t] \in {"absent", "ended"}

ShutdownFlushes(b) ==
    /\ draining[b] = "flush" /\ Quiesced
    /\ draining' = [draining EXCEPT ![b] = "done"]
    /\ Flush(b, completion, result, cancelled)
    /\ UNCHANGED <<cancelFrame, cancelled, cancelReq, cancelling, cancelWait>>

\* The memory of the process is lost.
Forget ==
    /\ mode' = "down"
    /\ live' = {} /\ cancelled' = {} /\ finalized' = {}
    /\ status' = [b \in Batches |-> "RUNNING"]
    /\ cancelWait' = [b \in Batches |-> {}] /\ cancelling' = {} /\ retry' = {}
    /\ draining' = [b \in Batches |-> "idle"]
    /\ pc' = [t \in Tasks |-> "absent"] /\ cancelReq' = {}
    /\ request' = [t \in Tasks |-> "none"] /\ worker' = [t \in Tasks |-> "none"]
    /\ prestart' = {}
    /\ completion' = [t \in Tasks |-> "none"] /\ result' = [t \in Tasks |-> "none"]
    /\ deleter' = [t \in Tasks |-> "none"]
    /\ globalRunning' = 0 /\ runningTasks' = [b \in Batches |-> 0]
    /\ UNCHANGED faults

\* Mutant: the batch rows are marked first, so no task row is found.
RecoverBatchesFirst ==
    /\ dbBatch' = [b \in Batches |-> IF dbBatch[b] = "RUNNING" THEN "INTERRUPTED" ELSE dbBatch[b]]
    /\ UNCHANGED <<dbTask, dbCompleted>>

\* recover_interrupted_work
Recover ==
    /\ dbTask' = [t \in Tasks |->
                    IF dbBatch[BatchOf[t]] = "RUNNING" /\ dbTask[t] \in {"WAITING", "ACTIVE"}
                    THEN "INTERRUPTED" ELSE dbTask[t]]
    /\ dbBatch' = [b \in Batches |-> IF dbBatch[b] = "RUNNING" THEN "INTERRUPTED" ELSE dbBatch[b]]
    /\ UNCHANGED dbCompleted

\* The retry loops are cancelled; the shutdown hook marks what is left RUNNING.
ShutdownEnds ==
    /\ mode = "draining" /\ Quiesced
    /\ \A b \in Batches : draining[b] \in {"idle", "done"}
    /\ Forget /\ Recover

\* A crash between two writes of one Flush leaves the database as a failed
\* Flush followed by a crash does, so the pair covers it.
Crash == "crash" \in Events /\ mode # "down" /\ Forget /\ UNCHANGED dbVars

Restart ==
    /\ mode = "down" /\ mode' = "up"
    /\ Recover
    /\ UNCHANGED <<batchVars, slotVars, taskVars, faults>>

-----------------------------------------------------------------------------
RunTask(t) ==
    \/ NeverStarts(t) \/ AwaitSlot(t) \/ StartAtOnce(t) \/ StartFails(t)
    \/ Resume(t) \/ ResumeCancelled(t) \/ CancelledAwaitingSlot(t)
    \/ WorkerDone(t) \/ CancelledAwaitingWorker(t) \/ Drained(t) \/ PrestartCompletes(t)

RunWorker(t) ==
    \/ WorkerPicked(t) \/ WorkerStarts(t) \/ WorkerPromotes(t)
    \/ WorkerReturns(t) \/ WorkerRaises(t)

Next ==
    \/ \E b \in Batches :
        \/ SubmitBatch(b) \/ SubmitEmptyBatch(b)
        \/ CancelBatch(b) \/ CancelReturns(b) \/ RetryTick(b)
        \/ ShutdownCancels(b) \/ ShutdownFlushes(b)
    \/ \E t \in Tasks :
        \/ RunTask(t) \/ RunWorker(t)
        \/ DeleteTask(t) \/ DeleteSettles(t) \/ DeletePurges(t)
    \/ BeginShutdown \/ ShutdownEnds \/ Crash \/ Restart

\* Whatever the event loop or the executor has to run is run, a parse ends, and
\* a stopped process is started again.  Clients and crashes owe nothing.
Fairness ==
    /\ \A b \in Batches : WF_vars(CancelReturns(b)) /\ WF_vars(RetryTick(b))
                          /\ WF_vars(ShutdownCancels(b)) /\ WF_vars(ShutdownFlushes(b))
    /\ \A t \in Tasks : WF_vars(RunTask(t)) /\ WF_vars(RunWorker(t))
                        /\ WF_vars(DeleteSettles(t)) /\ WF_vars(DeletePurges(t))
    /\ WF_vars(ShutdownEnds) /\ WF_vars(Restart)

Spec == Init /\ [][Next]_vars
FairSpec == Spec /\ Fairness

-----------------------------------------------------------------------------
(* Safety *)

LiveWorker(t) == worker[t] \in {"queued", "picked", "running"}
\* A worker thread that is queued or parsing holds the slot of its task, and
\* its coroutine waits for it: cancelling or deleting a task while it parses
\* never lets another parse exceed the limits.
WorkerHoldsSlot ==
    \A t \in Tasks : LiveWorker(t) => request[t] = "granted" /\ pc[t] \in {"worker", "drain"}

\* After BATCH_DONE the batch is quiet: every completion is recorded, no
\* coroutine of it runs, no worker parses, no slot is held, and the reported
\* status is the join of what the tasks recorded.
FinalizedIsQuiet ==
    \A b \in finalized :
        /\ \A t \in TasksOf(b) :
            /\ pc[t] = "ended" /\ ~LiveWorker(t) /\ request[t] # "granted"
            /\ completion[t] = "done"
        /\ status[b] = TerminalStatus(b, result, cancelled)
        /\ dbBatch[b] = status[b]

\* A terminal batch row is written after every task row of it, so that no
\* crash leaves a closed batch with an open task.
ClosedBatchHasClosedTasks ==
    \A t \in Tasks : dbBatch[BatchOf[t]] \in Terminal \cup {"INTERRUPTED"} =>
                        dbTask[t] \in Terminal \cup {"INTERRUPTED", "DELETED"}

\* A batch that reports COMPLETED parsed every file of it.
CompletedMeansParsed ==
    \A b \in finalized : status[b] = "COMPLETED" => \A t \in TasksOf(b) : worker[t] = "ok"

-----------------------------------------------------------------------------
(* Action properties *)

\* Once a cancellation is accepted no task of the batch starts to wait for the
\* executor, and none records another outcome than CANCELLED.
CancelIsObeyed ==
    [][\A t \in Tasks : BatchOf[t] \in cancelled =>
        /\ worker'[t] = "queued" => worker[t] = "queued"
        /\ completion[t] # "done" /\ completion'[t] = "done" => result'[t] = "CANCELLED"]_vars

-----------------------------------------------------------------------------
(* Liveness, under FairSpec *)

\* Every accepted batch ends, whatever is cancelled, deleted, lost or retried.
BatchEnds == \A b \in Batches : dbBatch[b] = "RUNNING" ~> dbBatch[b] # "RUNNING"

ShutdownCompletes == mode = "draining" ~> mode = "down"

-----------------------------------------------------------------------------
(* The contract towards the client of a batch *)

contractStage ==
    [b \in Batches |-> IF b \notin live THEN "absent"
                       ELSE IF b \in finalized THEN status[b] ELSE "running"]

contractOutcome ==
    [t \in Tasks |-> IF completion[t] = "done" THEN result[t] ELSE "open"]

Contract == INSTANCE BatchContract
    WITH stage <- contractStage, outcome <- contractOutcome, durable <- dbBatch

\* The scheduler implements the contract.
ImplementsContract == Contract!Spec
=============================================================================
