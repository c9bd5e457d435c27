------------------------ MODULE BatchSchedulerProofs ------------------------
(***************************************************************************)
(* Theorems about BatchScheduler for any number of batches, tasks and      *)
(* slots: type correctness; a worker thread never outlives the slot of     *)
(* its task; a batch that reported its end is quiet and has its rows; the  *)
(* scheduler implements BatchContract; an accepted cancellation is obeyed. *)
(***************************************************************************)
EXTENDS BatchScheduler, FiniteSetTheorems, TLAPS

\* TypeOK is not inductive: a Flush is typed because a pending completion has
\* its result, and shutdown flushes only batches that are in memory.
TypeInv ==
    /\ TypeOK
    /\ \A t \in Tasks : completion[t] = "pending" => result[t] # "none"
    /\ \A b \in Batches : draining[b] # "idle" => b \in live

\* What the persistence half of a step leaves behind.
PersistTyped ==
    /\ completion' \in [Tasks -> {"none", "pending", "done"}]
    /\ result' \in [Tasks -> Terminal \cup {"none"}]
    /\ \A t \in Tasks : completion'[t] = "pending" => result'[t] # "none"
    /\ dbBatch' \in [Batches -> Terminal \cup {"NONE", "RUNNING", "INTERRUPTED"}]
    /\ dbCompleted' \in [Batches -> Nat]
    /\ dbTask' \in [Tasks -> Terminal \cup {"NONE", "WAITING", "ACTIVE",
                                            "INTERRUPTED", "DELETED"}]
    /\ finalized' \subseteq live /\ retry' \subseteq live
    /\ status' \in [Batches -> Terminal \cup {"RUNNING"}]
    /\ faults' \in 0..MaxDbFaults

SlotsTyped ==
    /\ request' \in [Tasks -> {"none", "waiting", "granted", "released"}]
    /\ globalRunning' \in Nat /\ runningTasks' \in [Batches -> Nat]

\* Subsets of Tasks can be counted.
LEMMA TaskCount == ASSUME NEW S, S \subseteq Tasks PROVE Cardinality(S) \in Nat
BY BatchesAssumption, FS_Subset, FS_CardinalityType

\* A dispatch grants waiting requests only and keeps the counters natural numbers.
LEMMA DispatchLemma ==
    ASSUME NEW req \in [Tasks -> {"none", "waiting", "granted", "released"}],
           NEW global \in Nat, NEW running \in [Batches -> Nat],
           DispatchAvailable(req, global, running)
    PROVE  /\ SlotsTyped
           /\ \A t \in Tasks : req[t] # "waiting" => request'[t] = req[t]
<1>1. PICK G \in SUBSET Eligible(req, running) :
        /\ request' = [t \in Tasks |-> IF t \in G THEN "granted" ELSE req[t]]
        /\ globalRunning' = global + Cardinality(G)
        /\ runningTasks' = [b \in Batches |->
                running[b] + Cardinality({t \in G : BatchOf[t] = b})]
    BY Zenon DEF DispatchAvailable
<1>2. G \subseteq {t \in Tasks : req[t] = "waiting"}
    BY DEF Eligible
<1>3. Cardinality(G) \in Nat /\ \A b \in Batches : Cardinality({t \in G : BatchOf[t] = b}) \in Nat
    <2>1. \A b \in Batches : {t \in G : BatchOf[t] = b} \subseteq Tasks
        BY <1>2
    <2> QED BY <1>2, <2>1, TaskCount
<1>4. globalRunning' \in Nat
    BY <1>1, <1>3
<1>5. runningTasks' \in [Batches -> Nat]
    BY <1>1, <1>3
<1> QED BY <1>1, <1>2, <1>4, <1>5 DEF SlotsTyped

\* The two ways to leave the dispatcher touch the request of one task only.
LEMMA LeaveLemma ==
    ASSUME TypeOK, NEW t \in Tasks, Release(t) \/ Withdraw(t)
    PROVE  /\ SlotsTyped
           /\ request'[t] \in {"released", "none"}
           /\ \A u \in Tasks \ {t} : request[u] # "waiting" => request'[u] = request[u]
<1>1. Dec(globalRunning) \in Nat /\ globalRunning \in Nat
    BY DEF TypeOK, Dec
<1>2. [runningTasks EXCEPT ![BatchOf[t]] = Dec(@)] \in [Batches -> Nat]
    BY BatchesAssumption DEF TypeOK, Dec
<1>3. CASE Release(t)
    <2> DEFINE req == [request EXCEPT ![t] = "released"]
    <2>1. req \in [Tasks -> {"none", "waiting", "granted", "released"}]
        BY DEF TypeOK
    <2>2. SlotsTyped /\ \A u \in Tasks : req[u] # "waiting" => request'[u] = req[u]
        <3> HIDE DEF req
        <3> QED BY <1>1, <1>2, <1>3, <2>1, DispatchLemma DEF Release, req
    <2> QED BY <2>2 DEF TypeOK
<1>4. CASE Withdraw(t)
    <2> DEFINE req == [request EXCEPT ![t] = "none"]
    <2>1. req \in [Tasks -> {"none", "waiting", "granted", "released"}] /\ runningTasks \in [Batches -> Nat]
        BY DEF TypeOK
    <2>2. SlotsTyped /\ \A u \in Tasks : req[u] # "waiting" => request'[u] = req[u]
        <3> HIDE DEF req
        <3> QED BY <1>1, <1>4, <2>1, DispatchLemma DEF Withdraw, req
    <2> QED BY <2>2 DEF TypeOK
<1> QED BY <1>3, <1>4

-----------------------------------------------------------------------------
LEMMA TerminalStatusLemma ==
    \A b, res, canc : TerminalStatus(b, res, canc) \in Terminal
BY DEF TerminalStatus, Terminal

\* Finalizing a batch in memory, or failing to, keeps the types.
LEMMA FinalizeLemma ==
    ASSUME TypeOK, NEW b \in live, NEW res, NEW canc, Finalize(b, res, canc)
    PROVE  /\ finalized' \subseteq live /\ retry' \subseteq live
           /\ status' \in [Batches -> Terminal \cup {"RUNNING"}]
           /\ dbBatch' \in [Batches -> Terminal \cup {"NONE", "RUNNING", "INTERRUPTED"}]
           /\ faults' \in 0..MaxDbFaults
<1>1. TerminalStatus(b, res, canc) \in Terminal
    BY TerminalStatusLemma
<1>2. CASE WriteFails(b)
    BY <1>2, LimitsAssumption DEF WriteFails, TypeOK
<1>3. CASE ~WriteFails(b)
    BY <1>1, <1>3 DEF Finalize, TypeOK
<1> QED BY <1>2, <1>3

\* So does a flush of completions that have their results.
LEMMA FlushLemma ==
    ASSUME TypeOK, NEW b \in live, NEW canc,
           NEW comp \in [Tasks -> {"none", "pending", "done"}],
           NEW res \in [Tasks -> Terminal \cup {"none"}],
           \A t \in Tasks : comp[t] = "pending" => res[t] # "none",
           Flush(b, comp, res, canc)
    PROVE  PersistTyped
<1> DEFINE P == {t \in TasksOf(b) : comp[t] = "pending"}
           n == Cardinality({t \in TasksOf(b) : comp[t] = "done"})
           outcome(t) == IF b \in canc THEN "CANCELLED" ELSE res[t]
<1>1. PICK F \in SUBSET P :
        /\ completion' = [t \in Tasks |-> IF t \in F THEN "done" ELSE comp[t]]
        /\ result' = [t \in Tasks |-> IF t \in F THEN outcome(t) ELSE res[t]]
        /\ dbTask' = [t \in Tasks |-> IF t \in F /\ dbTask[t] # "DELETED"
                                      THEN outcome(t) ELSE dbTask[t]]
        /\ \/ /\ F # P /\ WriteFails(b)
              /\ \E k \in {0, 1} : dbCompleted' =
                    [dbCompleted EXCEPT ![b] = AtLeast(@, n + Cardinality(F) + k)]
           \/ /\ F = P
              /\ dbCompleted' = [dbCompleted EXCEPT ![b] = AtLeast(@, n + Cardinality(F))]
              /\ IF AllDone(b, completion') /\ b \notin finalized
                 THEN Finalize(b, result', canc)
                 ELSE UNCHANGED <<finalized, status, dbBatch, retry, faults>>
    BY Zenon DEF Flush
<1>2. \A t \in F : t \in Tasks /\ outcome(t) \in Terminal
    BY DEF Terminal, TasksOf
<1>3. n \in Nat /\ Cardinality(F) \in Nat
    <2>1. {t \in TasksOf(b) : comp[t] = "done"} \subseteq Tasks /\ F \subseteq Tasks
        BY DEF TasksOf
    <2> QED BY <2>1, TaskCount
<1>4. completion' \in [Tasks -> {"none", "pending", "done"}]
    BY <1>1
<1>5. result' \in [Tasks -> Terminal \cup {"none"}]
    BY <1>1, <1>2
<1>6. \A t \in Tasks : completion'[t] = "pending" => result'[t] # "none"
    BY <1>1
<1>7. dbTask' \in [Tasks -> Terminal \cup {"NONE", "WAITING", "ACTIVE", "INTERRUPTED", "DELETED"}]
    BY <1>1, <1>2 DEF TypeOK
<1>8. dbCompleted' \in [Batches -> Nat]
    BY <1>1, <1>3 DEF TypeOK, AtLeast
<1>9. /\ finalized' \subseteq live /\ retry' \subseteq live
      /\ status' \in [Batches -> Terminal \cup {"RUNNING"}]
      /\ dbBatch' \in [Batches -> Terminal \cup {"NONE", "RUNNING", "INTERRUPTED"}]
      /\ faults' \in 0..MaxDbFaults
    <2>1. CASE WriteFails(b)
        BY <2>1, LimitsAssumption DEF WriteFails, TypeOK
    <2>2. CASE Finalize(b, result', canc)
        BY <2>2, FinalizeLemma
    <2>3. CASE UNCHANGED <<finalized, status, dbBatch, retry, faults>>
        BY <2>3 DEF TypeOK
    <2> QED BY <1>1, <2>1, <2>2, <2>3
<1> QED BY <1>4, <1>5, <1>6, <1>7, <1>8, <1>9 DEF PersistTyped

\* Registering completions with a result keeps the two tables in step.
LEMMA RegisterLemma ==
    ASSUME TypeInv, NEW S, NEW s \in Terminal
    PROVE  /\ Register(S) \in [Tasks -> {"none", "pending", "done"}]
           /\ Record(S, s) \in [Tasks -> Terminal \cup {"none"}]
           /\ \A t \in Tasks : Register(S)[t] = "pending" => Record(S, s)[t] # "none"
BY DEF TypeInv, TypeOK, Register, Record, Terminal

LEMMA RegisterFlushLemma ==
    ASSUME TypeInv, NEW b \in live, NEW canc, NEW S, NEW s \in Terminal,
           Flush(b, Register(S), Record(S, s), canc)
    PROVE  PersistTyped
<1> DEFINE comp == Register(S)
           res == Record(S, s)
<1>1. /\ comp \in [Tasks -> {"none", "pending", "done"}]
      /\ res \in [Tasks -> Terminal \cup {"none"}]
      /\ \A t \in Tasks : comp[t] = "pending" => res[t] # "none"
    BY RegisterLemma
<1>2. Flush(b, comp, res, canc)
    OBVIOUS
<1> HIDE DEF comp, res
<1> QED BY <1>1, <1>2, FlushLemma DEF TypeInv

LEMMA UnchangedPersistLemma == ASSUME TypeInv, UNCHANGED persistVars PROVE PersistTyped
BY DEF TypeInv, TypeOK, persistVars, dbVars, PersistTyped

LEMMA CompleteTaskLemma ==
    ASSUME TypeInv, NEW t, NEW s \in Terminal, CompleteTask(t, s)
    PROVE  PersistTyped
BY RegisterFlushLemma, UnchangedPersistLemma DEF CompleteTask

LEMMA EndsLemma ==
    ASSUME TypeInv, NEW t \in Tasks, NEW s \in Terminal, Ends(t, s)
    PROVE  /\ PersistTyped
           /\ pc' = [pc EXCEPT ![t] = "ended"] /\ cancelReq' = cancelReq \ {t}
BY CompleteTaskLemma DEF Ends

\* What is left to show of TypeInv' for a step of a coroutine or a worker.
LEMMA RunTyped ==
    ASSUME TypeInv, UNCHANGED runFrame, PersistTyped, SlotsTyped,
           pc' \in [Tasks -> {"absent", "created", "ready", "worker", "drain", "ended"}],
           worker' \in [Tasks -> {"none", "queued", "picked", "running",
                                  "ok", "error", "skipped", "cancelled"}],
           cancelReq' \subseteq Tasks
    PROVE  TypeInv'
BY DEF TypeInv, TypeOK, runFrame, PersistTyped, SlotsTyped, Terminal

LEMMA UnchangedSlotsLemma == ASSUME TypeInv, UNCHANGED slotVars PROVE SlotsTyped
BY DEF TypeInv, TypeOK, slotVars, SlotsTyped

-----------------------------------------------------------------------------
LEMMA TypeInit == Init => TypeInv
BY LimitsAssumption DEF Init, TypeInv, TypeOK, Terminal

LEMMA TypeRunTask ==
    ASSUME TypeInv, NEW t \in Tasks, RunTask(t)
    PROVE  TypeInv'
<1> USE DEF Terminal
<1> DEFINE ReqTyped(r) == r \in [Tasks -> {"none", "waiting", "granted", "released"}]
<1>1. CASE NeverStarts(t)
    BY <1>1 DEF NeverStarts, TypeInv, TypeOK, batchVars, slotVars, dbVars
<1>2. ASSUME DispatchAvailable([request EXCEPT ![t] = "waiting"], globalRunning, runningTasks)
      PROVE  SlotsTyped
    <2> DEFINE req == [request EXCEPT ![t] = "waiting"]
    <2>1. ReqTyped(req) /\ globalRunning \in Nat /\ runningTasks \in [Batches -> Nat]
        BY DEF TypeInv, TypeOK
    <2> HIDE DEF req
    <2> QED BY <1>2, <2>1, DispatchLemma DEF req
<1>3. CASE AwaitSlot(t)
    <2>1. PersistTyped /\ SlotsTyped
        BY <1>2, <1>3, UnchangedPersistLemma DEF AwaitSlot, persistVars
    <2> QED BY <1>3, <2>1, RunTyped DEF AwaitSlot, TypeInv, TypeOK
<1>4. CASE StartAtOnce(t)
    <2>1. PersistTyped /\ SlotsTyped
        BY <1>2, <1>4, UnchangedPersistLemma DEF StartAtOnce, SubmitWorker, persistVars
    <2> QED BY <1>4, <2>1, RunTyped DEF StartAtOnce, SubmitWorker, TypeInv, TypeOK
<1>5. CASE StartFails(t)
    <2>1. PersistTyped /\ pc' = [pc EXCEPT ![t] = "ended"] /\ cancelReq' = cancelReq \ {t}
        BY <1>5, EndsLemma DEF StartFails, FactoryRaises
    <2>2. SlotsTyped
        BY <1>5 DEF StartFails, SlotsTyped, TypeInv, TypeOK
    <2> QED BY <1>5, <2>1, <2>2, RunTyped DEF StartFails, FactoryRaises, TypeInv, TypeOK
<1>6. CASE Resume(t)
    <2>1. CASE SubmitWorker(t) /\ UNCHANGED slotVars
        <3>1. PersistTyped /\ SlotsTyped
            BY <2>1, UnchangedPersistLemma, UnchangedSlotsLemma DEF SubmitWorker, persistVars
        <3> QED BY <1>6, <2>1, <3>1, RunTyped DEF Resume, SubmitWorker, TypeInv, TypeOK
    <2>2. CASE FactoryRaises(t) /\ Release(t)
        <3>1. PersistTyped /\ pc' = [pc EXCEPT ![t] = "ended"] /\ cancelReq' = cancelReq \ {t}
            BY <2>2, EndsLemma DEF FactoryRaises
        <3>2. SlotsTyped
            BY <2>2, LeaveLemma DEF TypeInv
        <3> QED BY <1>6, <2>2, <3>1, <3>2, RunTyped DEF Resume, FactoryRaises, TypeInv, TypeOK
    <2> QED BY <1>6, <2>1, <2>2 DEF Resume
<1>7. ASSUME UNCHANGED runFrame, UNCHANGED worker, Release(t) \/ Withdraw(t),
             NEW s \in Terminal, Ends(t, s)
      PROVE  TypeInv'
    <2>1. PersistTyped /\ pc' = [pc EXCEPT ![t] = "ended"] /\ cancelReq' = cancelReq \ {t}
        BY <1>7, EndsLemma
    <2>2. SlotsTyped
        BY <1>7, LeaveLemma DEF TypeInv
    <2> QED BY <1>7, <2>1, <2>2, RunTyped DEF TypeInv, TypeOK
<1>8. CASE ResumeCancelled(t)
    BY <1>7, <1>8 DEF ResumeCancelled
<1>9. CASE CancelledAwaitingSlot(t)
    BY <1>7, <1>9 DEF CancelledAwaitingSlot
<1>10. CASE WorkerDone(t)
    <2>1. WorkerOutcome(t) \in Terminal
        BY DEF WorkerOutcome
    <2> QED BY <1>7, <1>10, <2>1 DEF WorkerDone
<1>11. CASE CancelledAwaitingWorker(t)
    <2>1. CASE worker[t] = "cancelled"
        BY <1>7, <1>11, <2>1 DEF CancelledAwaitingWorker
    <2>2. CASE worker[t] # "cancelled"
        <3>1. PersistTyped /\ SlotsTyped
            BY <1>11, <2>2, UnchangedPersistLemma, UnchangedSlotsLemma
            DEF CancelledAwaitingWorker
        <3> QED BY <1>11, <2>2, <3>1, RunTyped DEF CancelledAwaitingWorker, TypeInv, TypeOK
    <2> QED BY <2>1, <2>2
<1>12. CASE Drained(t)
    BY <1>7, <1>12 DEF Drained
<1>13. CASE PrestartCompletes(t)
    <2>1. PersistTyped
        BY <1>13, CompleteTaskLemma DEF PrestartCompletes
    <2> QED BY <1>13, <2>1 DEF PrestartCompletes, PersistTyped, TypeInv, TypeOK, slotVars
<1> QED BY <1>1, <1>3, <1>4, <1>5, <1>6, <1>8, <1>9, <1>10, <1>11, <1>12, <1>13 DEF RunTask

LEMMA TypeRunWorker ==
    ASSUME TypeInv, NEW t \in Tasks, RunWorker(t)
    PROVE  TypeInv'
<1> USE DEF TypeInv, TypeOK, Terminal, workerFrame, batchVars, slotVars
<1>1. CASE WorkerPicked(t)
    BY <1>1 DEF WorkerPicked
<1>2. CASE WorkerStarts(t)
    BY <1>2 DEF WorkerStarts
<1>3. CASE WorkerPromotes(t)
    BY <1>3 DEF WorkerPromotes
<1>4. CASE WorkerReturns(t)
    BY <1>4 DEF WorkerReturns
<1>5. CASE WorkerRaises(t)
    BY <1>5 DEF WorkerRaises
<1> QED BY <1>1, <1>2, <1>3, <1>4, <1>5 DEF RunWorker

\* The calls of clients and of shutdown leave these alone.
LEMMA CallTyped ==
    ASSUME TypeInv, UNCHANGED cancelFrame, PersistTyped,
           cancelled' \subseteq live, cancelReq' \subseteq Tasks, cancelling' \subseteq live,
           cancelWait' \in [Batches -> SUBSET Tasks],
           draining' \in [Batches -> {"idle", "cancel", "flush", "done"}],
           \A b \in Batches : draining'[b] # "idle" => b \in live
    PROVE  TypeInv'
BY DEF TypeInv, TypeOK, cancelFrame, slotVars, PersistTyped, Terminal

LEMMA CancelCallLemma ==
    ASSUME TypeInv, NEW b \in Batches, CancelCall(b)
    PROVE  /\ UNCHANGED cancelFrame /\ PersistTyped
           /\ cancelled' \subseteq live /\ cancelReq' \subseteq Tasks /\ cancelling' \subseteq live
           /\ cancelWait' \in [Batches -> SUBSET Tasks]
<1> USE DEF TypeInv, TypeOK, Terminal
<1>1. WaitingIds(b) \subseteq Tasks /\ WaitingTasks(b) \subseteq Tasks
    BY DEF WaitingIds, WaitingTasks, TasksOf
<1>2. PersistTyped
    <2>1. CASE WaitingTasks(b) # {}
        BY <2>1, UnchangedPersistLemma DEF CancelCall
    <2>2. CASE WaitingTasks(b) = {}
        BY <2>2, RegisterFlushLemma DEF CancelCall
    <2> QED BY <2>1, <2>2
<1>3. cancelling' \subseteq live /\ cancelWait' \in [Batches -> SUBSET Tasks]
    BY <1>1 DEF CancelCall
<1> QED BY <1>1, <1>2, <1>3 DEF CancelCall

LEMMA TypeBatchCalls ==
    ASSUME TypeInv, NEW b \in Batches,
           \/ SubmitBatch(b) \/ SubmitEmptyBatch(b)
           \/ CancelBatch(b) \/ CancelReturns(b) \/ RetryTick(b)
           \/ ShutdownCancels(b) \/ ShutdownFlushes(b)
    PROVE  TypeInv'
<1> USE DEF TypeInv, TypeOK, Terminal
<1>1. CASE SubmitBatch(b)
    BY <1>1 DEF SubmitBatch, slotVars
<1>2. CASE SubmitEmptyBatch(b)
    BY <1>2, LimitsAssumption DEF SubmitEmptyBatch, slotVars, taskVars
<1>3. CASE CancelBatch(b)
    BY <1>3, CancelCallLemma, CallTyped DEF CancelBatch
<1>4. CASE CancelReturns(b)
    <2>1. PersistTyped
        BY <1>4, RegisterFlushLemma DEF CancelReturns
    <2> QED BY <1>4, <2>1, CallTyped DEF CancelReturns
<1>5. ASSUME Flush(b, completion, result, cancelled), b \in live PROVE PersistTyped
    BY <1>5, FlushLemma
<1>6. CASE RetryTick(b)
    <2>1. CASE b \in finalized
        BY <1>6, <2>1 DEF RetryTick, dbVars, slotVars
    <2>2. CASE b \notin finalized
        <3>1. PersistTyped
            BY <1>5, <1>6, <2>2 DEF RetryTick
        <3> QED BY <1>6, <2>2, <3>1 DEF RetryTick, slotVars, PersistTyped
    <2> QED BY <2>1, <2>2
<1>7. CASE ShutdownCancels(b)
    <2>1. /\ draining' \in [Batches -> {"idle", "cancel", "flush", "done"}]
          /\ \A c \in Batches : draining'[c] # "idle" => c \in live
        BY <1>7 DEF ShutdownCancels
    <2>2. CASE b \in finalized \cup cancelling
        BY <1>7, <2>1, <2>2, UnchangedPersistLemma, CallTyped DEF ShutdownCancels
    <2>3. CASE CancelCall(b)
        BY <2>1, <2>3, CancelCallLemma, CallTyped
    <2> QED BY <1>7, <2>2, <2>3 DEF ShutdownCancels
<1>8. CASE ShutdownFlushes(b)
    <2>1. PersistTyped
        BY <1>5, <1>8 DEF ShutdownFlushes
    <2>2. /\ draining' \in [Batches -> {"idle", "cancel", "flush", "done"}]
          /\ \A c \in Batches : draining'[c] # "idle" => c \in live
        BY <1>8 DEF ShutdownFlushes
    <2> QED BY <1>8, <2>1, <2>2, CallTyped DEF ShutdownFlushes
<1> QED BY <1>1, <1>2, <1>3, <1>4, <1>6, <1>7, <1>8

LEMMA TypeDelete ==
    ASSUME TypeInv, NEW t \in Tasks, DeleteTask(t) \/ DeleteSettles(t) \/ DeletePurges(t)
    PROVE  TypeInv'
<1> USE DEF TypeInv, TypeOK, Terminal, deleteFrame, slotVars
<1>1. CASE DeleteTask(t)
    BY <1>1 DEF DeleteTask, persistVars, dbVars
<1>2. CASE DeleteSettles(t)
    <2>1. PersistTyped
        BY <1>2, CompleteTaskLemma DEF DeleteSettles
    <2> QED BY <1>2, <2>1 DEF DeleteSettles, PersistTyped
<1>3. CASE DeletePurges(t)
    BY <1>3 DEF DeletePurges
<1> QED BY <1>1, <1>2, <1>3

LEMMA TypeProcess ==
    ASSUME TypeInv, BeginShutdown \/ ShutdownEnds \/ Crash \/ Restart
    PROVE  TypeInv'
<1> USE DEF TypeInv, TypeOK, Terminal
<1>1. CASE BeginShutdown
    BY <1>1 DEF BeginShutdown, slotVars, taskVars, dbVars
<1>2. CASE ShutdownEnds
    BY <1>2 DEF ShutdownEnds, Forget, Recover
<1>3. CASE Crash
    BY <1>3 DEF Crash, Forget, dbVars
<1>4. CASE Restart
    BY <1>4 DEF Restart, Recover, batchVars, slotVars, taskVars
<1> QED BY <1>1, <1>2, <1>3, <1>4

LEMMA TypeNext == TypeInv /\ [Next]_vars => TypeInv'
<1> SUFFICES ASSUME TypeInv, [Next]_vars PROVE TypeInv'
    OBVIOUS
<1>1. CASE UNCHANGED vars
    BY <1>1 DEF vars, batchVars, slotVars, taskVars, dbVars, TypeInv, TypeOK
<1>2. CASE Next
    BY <1>2, TypeBatchCalls, TypeRunTask, TypeRunWorker, TypeDelete, TypeProcess DEF Next
<1> QED BY <1>1, <1>2

LEMMA TypeInvariant == Spec => []TypeInv
<1>1. TypeInv /\ [Next]_vars => TypeInv'
    BY TypeNext
<1> QED BY TypeInit, <1>1, PTL DEF Spec

\* Type correctness of the scheduler for any batches, limits and faults: every
\* flush is of a batch in memory, and records a completion with its result.
THEOREM TypeCorrect == Spec => []TypeOK
BY TypeInvariant, PTL DEF TypeInv

-----------------------------------------------------------------------------
(***************************************************************************)
(* The strengthening behind the safety theorems.  Each part speaks of one  *)
(* table of the scheduler.                                                 *)
(***************************************************************************)

\* A coroutine outlives its worker, and holds the slot while it waits for it.
CoroutineInv ==
    \A t \in Tasks :
        /\ LiveWorker(t) => pc[t] \in {"worker", "drain"}
        /\ pc[t] \in {"worker", "drain"} => request[t] = "granted"
        /\ pc[t] = "ended" => request[t] \in {"none", "released"}
        /\ pc[t] \in {"absent", "created"} => request[t] = "none"
        /\ pc[t] # "absent" => BatchOf[t] \in live
        /\ completion[t] # "none" \/ t \in prestart => pc[t] = "ended"
        /\ pc[t] = "created" /\ BatchOf[t] \in cancelled => t \in cancelReq

\* A batch in memory is open in the database exactly until it is finalized.
BatchRowInv ==
    /\ \A b \in live : dbBatch[b] = IF b \in finalized THEN status[b] ELSE "RUNNING"
    /\ \A b \in finalized :
        /\ AllDone(b, completion)
        /\ status[b] = TerminalStatus(b, result, cancelled)
    /\ mode = "down" => live = {}

Closed == Terminal \cup {"INTERRUPTED", "DELETED"}

\* The rows of the tasks follow those of their batch and the completions.
TaskRowInv ==
    \A t \in Tasks :
        /\ dbTask[t] = "NONE" <=> dbBatch[BatchOf[t]] = "NONE"
        /\ completion[t] = "done" => dbTask[t] \in Closed
        /\ dbBatch[BatchOf[t]] \in Terminal \cup {"INTERRUPTED"} => dbTask[t] \in Closed
        /\ deleter[t] = "purge" \/ dbTask[t] = "DELETED" =>
                pc[t] \in {"absent", "ended"} /\ dbBatch[BatchOf[t]] # "NONE"

SafeInv == TypeInv /\ CoroutineInv /\ BatchRowInv /\ TaskRowInv

\* What the persistence half of a step may do, when it registers the
\* completions of S.
PersistSound(S) ==
    /\ \A t \in Tasks :
        /\ completion[t] = "done" => completion'[t] = "done" /\ result'[t] = result[t]
        /\ completion[t] # "done" /\ completion'[t] = "done" =>
                /\ dbTask'[t] \in Closed
                /\ BatchOf[t] \in cancelled' => result'[t] = "CANCELLED"
        /\ completion'[t] # "none" => completion[t] # "none" \/ t \in S
        /\ dbTask'[t] # dbTask[t] =>
                BatchOf[t] \in live /\ dbTask[t] # "DELETED" /\ dbTask'[t] \in Terminal
    /\ finalized \subseteq finalized' /\ finalized' \subseteq live
    /\ \A b \in Batches :
        /\ b \in finalized \/ b \notin finalized' => status'[b] = status[b] /\ dbBatch'[b] = dbBatch[b]
        /\ b \in finalized' \ finalized =>
                /\ b \in live /\ AllDone(b, completion')
                /\ status'[b] = TerminalStatus(b, result', cancelled')
                /\ dbBatch'[b] = status'[b]

LEMMA FinalizeSound ==
    ASSUME TypeInv, NEW b \in live, NEW res, NEW canc, b \notin finalized,
           Finalize(b, res, canc)
    PROVE  /\ finalized \subseteq finalized' /\ finalized' \subseteq finalized \cup {b}
           /\ \A c \in Batches :
               /\ c \in finalized \/ c \notin finalized' => status'[c] = status[c] /\ dbBatch'[c] = dbBatch[c]
               /\ c \in finalized' \ finalized =>
                    /\ c = b /\ status'[c] = TerminalStatus(c, res, canc)
                    /\ dbBatch'[c] = status'[c]
<1>1. CASE WriteFails(b)
    BY <1>1 DEF WriteFails
<1>2. CASE ~WriteFails(b)
    <2> DEFINE s == TerminalStatus(b, res, canc)
    <2>1. /\ finalized' = finalized \cup {b} /\ status' = [status EXCEPT ![b] = s]
          /\ dbBatch' = [dbBatch EXCEPT ![b] = s]
        BY <1>2 DEF Finalize
    <2>2. /\ b \in Batches /\ status \in [Batches -> Terminal \cup {"RUNNING"}]
          /\ dbBatch \in [Batches -> Terminal \cup {"NONE", "RUNNING", "INTERRUPTED"}]
        BY DEF TypeInv, TypeOK
    <2> HIDE DEF s
    <2>3. \A c \in Batches : /\ status'[c] = IF c = b THEN s ELSE status[c]
                             /\ dbBatch'[c] = IF c = b THEN s ELSE dbBatch[c]
        BY <2>1, <2>2
    <2> QED BY <2>1, <2>3 DEF s
<1> QED BY <1>1, <1>2

\* A flush of comp and res, which add the completions of S to the recorded ones.
LEMMA FlushSound ==
    ASSUME TypeInv, NEW b \in live, NEW S,
           NEW comp \in [Tasks -> {"none", "pending", "done"}],
           NEW res \in [Tasks -> Terminal \cup {"none"}],
           \A t \in Tasks :
                /\ comp[t] = "pending" => res[t] # "none"
                /\ completion[t] # "none" => comp[t] = completion[t] /\ res[t] = result[t]
                /\ comp[t] # "none" => completion[t] # "none" \/ t \in S
                /\ comp[t] = "done" => completion[t] = "done",
           Flush(b, comp, res, cancelled')
    PROVE  PersistSound(S)
<1> DEFINE P == {t \in TasksOf(b) : comp[t] = "pending"}
           outcome(t) == IF b \in cancelled' THEN "CANCELLED" ELSE res[t]
<1>1. PICK F \in SUBSET P :
        /\ completion' = [t \in Tasks |-> IF t \in F THEN "done" ELSE comp[t]]
        /\ result' = [t \in Tasks |-> IF t \in F THEN outcome(t) ELSE res[t]]
        /\ dbTask' = [t \in Tasks |-> IF t \in F /\ dbTask[t] # "DELETED"
                                      THEN outcome(t) ELSE dbTask[t]]
        /\ \/ WriteFails(b)
           \/ IF AllDone(b, completion') /\ b \notin finalized
              THEN Finalize(b, result', cancelled')
              ELSE UNCHANGED <<finalized, status, dbBatch, retry, faults>>
    BY Zenon DEF Flush
<1>2. \A t \in F : /\ t \in Tasks /\ BatchOf[t] = b /\ comp[t] = "pending"
                    /\ outcome(t) \in Terminal
    BY DEF Terminal, TasksOf
<1>3. \A t \in Tasks :
        /\ completion[t] = "done" => completion'[t] = "done" /\ result'[t] = result[t]
        /\ completion'[t] # "none" => completion[t] # "none" \/ t \in S
    BY <1>1, <1>2
<1>4. \A t \in Tasks : completion[t] # "done" /\ completion'[t] = "done" =>
        t \in F /\ dbTask'[t] \in Closed /\ result'[t] = outcome(t)
    <2> SUFFICES ASSUME NEW t \in Tasks, completion[t] # "done", completion'[t] = "done"
                 PROVE  t \in F /\ dbTask'[t] \in Closed /\ result'[t] = outcome(t)
        OBVIOUS
    <2>1. t \in F
        BY <1>1
    <2> QED BY <1>1, <1>2, <2>1 DEF Closed
<1>5. \A t \in Tasks : dbTask'[t] # dbTask[t] =>
        BatchOf[t] \in live /\ dbTask[t] # "DELETED" /\ dbTask'[t] \in Terminal
    BY <1>1, <1>2
<1>6. /\ finalized \subseteq finalized' /\ finalized' \subseteq finalized \cup {b}
      /\ \A c \in Batches :
          /\ c \in finalized \/ c \notin finalized' => status'[c] = status[c] /\ dbBatch'[c] = dbBatch[c]
          /\ c \in finalized' \ finalized =>
                /\ c \in live /\ AllDone(c, completion')
                /\ status'[c] = TerminalStatus(c, result', cancelled')
                /\ dbBatch'[c] = status'[c]
    <2>1. CASE WriteFails(b)
        BY <2>1 DEF WriteFails
    <2>2. CASE AllDone(b, completion') /\ b \notin finalized /\ Finalize(b, result', cancelled')
        BY <2>2, FinalizeSound
    <2>3. CASE UNCHANGED <<finalized, status, dbBatch, retry, faults>>
        BY <2>3
    <2> QED BY <1>1, <2>1, <2>2, <2>3
<1>7. finalized' \subseteq live
    BY <1>6 DEF TypeInv, TypeOK
<1> QED BY <1>2, <1>3, <1>4, <1>5, <1>6, <1>7 DEF PersistSound

LEMMA RegisterFlushSound ==
    ASSUME TypeInv, NEW b \in live, NEW S, NEW s \in Terminal,
           Flush(b, Register(S), Record(S, s), cancelled')
    PROVE  PersistSound(S)
<1> DEFINE comp == Register(S)
           res == Record(S, s)
<1>1. /\ comp \in [Tasks -> {"none", "pending", "done"}]
      /\ res \in [Tasks -> Terminal \cup {"none"}]
      /\ \A t \in Tasks : comp[t] = "pending" => res[t] # "none"
    BY RegisterLemma
<1>2. \A t \in Tasks :
        /\ completion[t] # "none" => comp[t] = completion[t] /\ res[t] = result[t]
        /\ comp[t] # "none" => completion[t] # "none" \/ t \in S
        /\ comp[t] = "done" => completion[t] = "done"
    BY DEF Register, Record
<1>3. Flush(b, comp, res, cancelled')
    OBVIOUS
<1> HIDE DEF comp, res
<1> QED BY <1>1, <1>2, <1>3, FlushSound

LEMMA UnchangedPersistSound == ASSUME TypeInv, UNCHANGED persistVars, NEW S PROVE PersistSound(S)
BY DEF persistVars, dbVars, PersistSound, TypeInv, TypeOK

LEMMA CompleteTaskSound ==
    ASSUME TypeInv, NEW t, NEW s \in Terminal, CompleteTask(t, s), UNCHANGED cancelled
    PROVE  PersistSound({t})
BY RegisterFlushSound, UnchangedPersistSound DEF CompleteTask

-----------------------------------------------------------------------------
(* Steps that preserve the parts of SafeInv *)

\* The status of a batch depends on the results of its own tasks.
LEMMA SameStatus ==
    ASSUME NEW b, NEW r1, NEW r2, NEW c1, NEW c2,
           \A t \in TasksOf(b) : r1[t] = r2[t], b \in c1 <=> b \in c2
    PROVE  TerminalStatus(b, r1, c1) = TerminalStatus(b, r2, c2)
BY DEF TerminalStatus

LEMMA BatchRowStep ==
    ASSUME SafeInv, NEW S, PersistSound(S), UNCHANGED <<mode, live>>,
           \A b \in finalized : b \in cancelled' <=> b \in cancelled
    PROVE  BatchRowInv'
<1> USE DEF SafeInv, BatchRowInv, PersistSound
<1>1. \A b \in finalized : /\ AllDone(b, completion')
                           /\ \A t \in TasksOf(b) : result'[t] = result[t]
    BY DEF AllDone, TasksOf
<1>2. \A b \in finalized : status'[b] = TerminalStatus(b, result', cancelled')
    <2> SUFFICES ASSUME NEW b \in finalized
                 PROVE  status'[b] = TerminalStatus(b, result', cancelled')
        OBVIOUS
    <2>1. TerminalStatus(b, result', cancelled') = TerminalStatus(b, result, cancelled)
        BY <1>1, SameStatus
    <2>2. b \in Batches
        BY DEF TypeInv, TypeOK
    <2> QED BY <2>1, <2>2
<1>3. live \subseteq Batches /\ finalized \subseteq live
    BY DEF TypeInv, TypeOK
<1>4. \A b \in finalized' : /\ AllDone(b, completion')
                            /\ status'[b] = TerminalStatus(b, result', cancelled')
    <2> SUFFICES ASSUME NEW b \in finalized'
                 PROVE  /\ AllDone(b, completion')
                        /\ status'[b] = TerminalStatus(b, result', cancelled')
        OBVIOUS
    <2>1. CASE b \in finalized
        BY <1>1, <1>2, <2>1
    <2>2. CASE b \in Batches /\ b \notin finalized
        BY <2>2
    <2> QED BY <1>3, <2>1, <2>2
<1>5. \A b \in live : dbBatch'[b] = IF b \in finalized' THEN status'[b] ELSE "RUNNING"
    <2> SUFFICES ASSUME NEW b \in live
                 PROVE  dbBatch'[b] = IF b \in finalized' THEN status'[b] ELSE "RUNNING"
        OBVIOUS
    <2>1. b \in Batches
        BY <1>3
    <2>2. CASE b \in finalized
        BY <2>1, <2>2
    <2>3. CASE b \notin finalized /\ b \in finalized'
        BY <2>1, <2>3
    <2>4. CASE b \notin finalized'
        BY <2>1, <2>4
    <2> QED BY <2>2, <2>3, <2>4
<1> QED BY <1>4, <1>5

LEMMA TaskRowStep ==
    ASSUME SafeInv, NEW S, PersistSound(S),
           \A t \in Tasks :
                /\ pc[t] \in {"absent", "ended"} => pc'[t] = pc[t]
                /\ deleter'[t] = "purge" => deleter[t] = "purge"
                        \/ (dbTask[t] # "NONE" /\ pc'[t] \in {"absent", "ended"})
    PROVE  TaskRowInv'
<1> SUFFICES ASSUME NEW t \in Tasks
             PROVE  /\ dbTask'[t] = "NONE" <=> dbBatch'[BatchOf[t]] = "NONE"
                    /\ completion'[t] = "done" => dbTask'[t] \in Closed
                    /\ dbBatch'[BatchOf[t]] \in Terminal \cup {"INTERRUPTED"} => dbTask'[t] \in Closed
                    /\ deleter'[t] = "purge" \/ dbTask'[t] = "DELETED" =>
                            pc'[t] \in {"absent", "ended"} /\ dbBatch'[BatchOf[t]] # "NONE"
    BY DEF TaskRowInv
<1> DEFINE b == BatchOf[t]
<1>1. b \in Batches
    BY BatchesAssumption
<1>2. b \in live => dbBatch[b] # "NONE"
    BY <1>1 DEF SafeInv, BatchRowInv, TypeInv, TypeOK, Terminal
<1>3. b \in finalized' \ finalized => /\ completion'[t] = "done" /\ dbBatch'[b] \in Terminal
                                      /\ dbBatch[b] # "NONE"
    BY <1>1, <1>2, TerminalStatusLemma DEF PersistSound, AllDone, TasksOf
<1>4. b \notin finalized' \ finalized => dbBatch'[b] = dbBatch[b]
    BY <1>1 DEF PersistSound
<1>5. dbTask'[t] = dbTask[t] \/ (b \in live /\ dbTask[t] # "DELETED" /\ dbTask'[t] \in Terminal)
    BY DEF PersistSound
<1>6. /\ dbTask[t] = "NONE" <=> dbBatch[b] = "NONE"
      /\ completion[t] = "done" => dbTask[t] \in Closed
      /\ dbBatch[b] \in Terminal \cup {"INTERRUPTED"} => dbTask[t] \in Closed
      /\ deleter[t] = "purge" \/ dbTask[t] = "DELETED" =>
              pc[t] \in {"absent", "ended"} /\ dbBatch[b] # "NONE"
    BY DEF SafeInv, TaskRowInv
<1> HIDE DEF b
<1>7. dbTask'[t] = "NONE" <=> dbBatch'[b] = "NONE"
    <2>1. dbTask'[t] = "NONE" <=> dbTask[t] = "NONE"
        BY <1>2, <1>5, <1>6 DEF Terminal
    <2>2. dbBatch'[b] = "NONE" <=> dbBatch[b] = "NONE"
        BY <1>3, <1>4 DEF Terminal
    <2> QED BY <1>6, <2>1, <2>2
<1>8. completion'[t] = "done" => dbTask'[t] \in Closed
    BY <1>5, <1>6 DEF PersistSound, Closed
<1>9. dbBatch'[b] \in Terminal \cup {"INTERRUPTED"} => dbTask'[t] \in Closed
    BY <1>3, <1>4, <1>5, <1>6, <1>8 DEF Closed
<1>10. deleter'[t] = "purge" \/ dbTask'[t] = "DELETED" =>
            pc'[t] \in {"absent", "ended"} /\ dbBatch'[b] # "NONE"
    <2> SUFFICES ASSUME deleter'[t] = "purge" \/ dbTask'[t] = "DELETED"
                 PROVE  pc'[t] \in {"absent", "ended"} /\ dbBatch'[b] # "NONE"
        OBVIOUS
    <2>1. dbTask'[t] = "DELETED" => dbTask[t] = "DELETED"
        BY <1>5 DEF Terminal
    <2>2. dbBatch[b] # "NONE" => dbBatch'[b] # "NONE"
        BY <1>3, <1>4 DEF Terminal
    <2> QED BY <1>6, <2>1, <2>2
<1> QED BY <1>7, <1>8, <1>9, <1>10 DEF b

\* The segment that ends the coroutine of t gives the slot back.
LEMMA CoroutineEnds ==
    ASSUME SafeInv, NEW t \in Tasks, PersistSound({t}), ~LiveWorker(t), pc[t] # "absent",
           UNCHANGED <<live, cancelled, prestart, worker>>,
           pc' = [pc EXCEPT ![t] = "ended"], cancelReq' = cancelReq \ {t},
           request'[t] \in {"released", "none"},
           \A u \in Tasks \ {t} : request[u] # "waiting" => request'[u] = request[u]
    PROVE  CoroutineInv'
<1> SUFFICES ASSUME NEW u \in Tasks
             PROVE  /\ LiveWorker(u)' => pc'[u] \in {"worker", "drain"}
                    /\ pc'[u] \in {"worker", "drain"} => request'[u] = "granted"
                    /\ pc'[u] = "ended" => request'[u] \in {"none", "released"}
                    /\ pc'[u] \in {"absent", "created"} => request'[u] = "none"
                    /\ pc'[u] # "absent" => BatchOf[u] \in live'
                    /\ completion'[u] # "none" \/ u \in prestart' => pc'[u] = "ended"
                    /\ pc'[u] = "created" /\ BatchOf[u] \in cancelled' => u \in cancelReq'
    BY DEF CoroutineInv
<1>1. pc'[u] = IF u = t THEN "ended" ELSE pc[u]
    BY DEF SafeInv, TypeInv, TypeOK
<1>2. completion'[u] # "none" => completion[u] # "none" \/ u = t
    BY DEF PersistSound
<1> QED BY <1>1, <1>2 DEF SafeInv, CoroutineInv, LiveWorker

\* A coroutine step that has nothing to do with the end of a task.
LEMMA CoroutineMoves ==
    ASSUME SafeInv, NEW t \in Tasks, UNCHANGED <<runFrame, persistVars>>,
           NEW p \in {"ready", "worker", "drain"}, pc' = [pc EXCEPT ![t] = p],
           pc[t] \in {"created", "ready", "worker"}
    PROVE  BatchRowInv' /\ TaskRowInv'
<1>1. PersistSound({})
    BY UnchangedPersistSound DEF SafeInv
<1>2. \A u \in Tasks : pc[u] \in {"absent", "ended"} => pc'[u] = pc[u]
    BY DEF SafeInv, TypeInv, TypeOK
<1>3. BatchRowInv'
    BY <1>1, BatchRowStep DEF runFrame
<1>4. TaskRowInv'
    BY <1>1, <1>2, TaskRowStep DEF runFrame
<1> QED BY <1>3, <1>4

LEMMA TaskEnds ==
    ASSUME SafeInv, NEW t \in Tasks, PersistSound({t}), ~LiveWorker(t),
           pc[t] \in {"created", "ready", "worker", "drain"},
           UNCHANGED <<runFrame, worker>>,
           pc' = [pc EXCEPT ![t] = "ended"], cancelReq' = cancelReq \ {t},
           request'[t] \in {"released", "none"},
           \A u \in Tasks \ {t} : request[u] # "waiting" => request'[u] = request[u]
    PROVE  CoroutineInv' /\ BatchRowInv' /\ TaskRowInv'
<1>1. \A u \in Tasks : pc[u] \in {"absent", "ended"} => pc'[u] = pc[u]
    BY DEF SafeInv, TypeInv, TypeOK
<1>2. CoroutineInv'
    BY CoroutineEnds DEF runFrame
<1>3. BatchRowInv'
    BY BatchRowStep DEF runFrame
<1>4. TaskRowInv'
    BY <1>1, TaskRowStep DEF runFrame
<1> QED BY <1>2, <1>3, <1>4

LEMMA SafeRunTask ==
    ASSUME SafeInv, NEW t \in Tasks, RunTask(t)
    PROVE  CoroutineInv' /\ BatchRowInv' /\ TaskRowInv'
<1> USE DEF Terminal
<1>0. TypeInv /\ TypeOK /\ CoroutineInv
    BY DEF SafeInv, TypeInv
<1>1. CASE NeverStarts(t)
    <2>1. PersistSound({})
        BY <1>0, <1>1, UnchangedPersistSound DEF NeverStarts, batchVars, persistVars
    <2>2. \A u \in Tasks : pc'[u] = IF u = t THEN "ended" ELSE pc[u]
        BY <1>0, <1>1 DEF NeverStarts, TypeOK
    <2>3. CoroutineInv'
        BY <1>0, <1>1, <2>2 DEF NeverStarts, CoroutineInv, LiveWorker, batchVars, slotVars
    <2>4. BatchRowInv'
        BY <1>1, <2>1, BatchRowStep DEF NeverStarts, batchVars
    <2>5. TaskRowInv'
        BY <1>1, <2>1, <2>2, TaskRowStep DEF NeverStarts
    <2> QED BY <2>3, <2>4, <2>5
<1>2. ASSUME DispatchAvailable([request EXCEPT ![t] = "waiting"], globalRunning, runningTasks)
      PROVE  \A u \in Tasks \ {t} : request[u] # "waiting" => request'[u] = request[u]
    <2> DEFINE req == [request EXCEPT ![t] = "waiting"]
    <2>1. /\ req \in [Tasks -> {"none", "waiting", "granted", "released"}]
          /\ globalRunning \in Nat /\ runningTasks \in [Batches -> Nat]
        BY <1>0 DEF TypeOK
    <2>2. \A u \in Tasks : req[u] # "waiting" => request'[u] = req[u]
        <3> HIDE DEF req
        <3> QED BY <1>2, <2>1, DispatchLemma DEF req
    <2> QED BY <1>0, <2>2 DEF TypeOK
<1>3. CASE AwaitSlot(t)
    <2>1. BatchRowInv' /\ TaskRowInv'
        BY <1>3, CoroutineMoves DEF AwaitSlot, runFrame
    <2>2. CoroutineInv'
        BY <1>0, <1>2, <1>3 DEF AwaitSlot, runFrame, persistVars, CoroutineInv, LiveWorker, TypeOK
    <2> QED BY <2>1, <2>2
<1>4. CASE StartAtOnce(t)
    <2>1. BatchRowInv' /\ TaskRowInv'
        BY <1>4, CoroutineMoves DEF StartAtOnce, SubmitWorker, runFrame
    <2>2. CoroutineInv'
        BY <1>0, <1>2, <1>4
        DEF StartAtOnce, SubmitWorker, runFrame, persistVars, CoroutineInv, LiveWorker, TypeOK
    <2> QED BY <2>1, <2>2
<1>5. CASE StartFails(t)
    <2>1. Ends(t, "COMPLETED") /\ UNCHANGED worker
        BY <1>5 DEF StartFails, FactoryRaises
    <2>2. PersistSound({t})
        BY <1>0, <1>5, <2>1, CompleteTaskSound DEF Ends, StartFails, runFrame
    <2>3. /\ request'[t] \in {"released", "none"}
          /\ \A u \in Tasks \ {t} : request'[u] = request[u]
        BY <1>0, <1>5 DEF StartFails, TypeOK
    <2>4. ~LiveWorker(t) /\ pc[t] = "created"
        BY <1>0, <1>5 DEF StartFails, CoroutineInv
    <2> QED BY <1>5, <2>1, <2>2, <2>3, <2>4, TaskEnds DEF StartFails, Ends
<1>6. ASSUME UNCHANGED <<runFrame, worker>>, Release(t) \/ Withdraw(t), ~LiveWorker(t),
             pc[t] \in {"created", "ready", "worker", "drain"},
             NEW s \in Terminal, Ends(t, s)
      PROVE  CoroutineInv' /\ BatchRowInv' /\ TaskRowInv'
    <2>1. PersistSound({t})
        BY <1>0, <1>6, CompleteTaskSound DEF Ends, runFrame
    <2>2. /\ request'[t] \in {"released", "none"}
          /\ \A u \in Tasks \ {t} : request[u] # "waiting" => request'[u] = request[u]
        BY <1>0, <1>6, LeaveLemma
    <2> QED BY <1>6, <2>1, <2>2, TaskEnds DEF Ends
<1>7. pc[t] = "ready" => ~LiveWorker(t)
    BY <1>0 DEF CoroutineInv
<1>8. CASE Resume(t)
    <2>1. CASE SubmitWorker(t) /\ UNCHANGED slotVars
        <3>1. BatchRowInv' /\ TaskRowInv'
            BY <1>8, <2>1, CoroutineMoves DEF Resume, SubmitWorker, runFrame
        <3>2. CoroutineInv'
            BY <1>0, <1>8, <2>1
            DEF Resume, SubmitWorker, runFrame, slotVars, persistVars, CoroutineInv, LiveWorker, TypeOK
        <3> QED BY <3>1, <3>2
    <2>2. CASE FactoryRaises(t) /\ Release(t)
        BY <1>6, <1>7, <1>8, <2>2 DEF Resume, FactoryRaises
    <2> QED BY <1>8, <2>1, <2>2 DEF Resume
<1>9. CASE ResumeCancelled(t)
    BY <1>6, <1>7, <1>9 DEF ResumeCancelled
<1>10. CASE CancelledAwaitingSlot(t)
    BY <1>6, <1>7, <1>10 DEF CancelledAwaitingSlot
<1>11. CASE WorkerDone(t)
    <2>1. WorkerOutcome(t) \in Terminal /\ ~LiveWorker(t)
        BY <1>11 DEF WorkerOutcome, WorkerDone, LiveWorker
    <2> QED BY <1>6, <1>11, <2>1 DEF WorkerDone
<1>12. CASE CancelledAwaitingWorker(t)
    <2>1. CASE worker[t] = "cancelled"
        BY <1>6, <1>12, <2>1 DEF CancelledAwaitingWorker, LiveWorker
    <2>2. CASE worker[t] # "cancelled"
        <3>1. BatchRowInv' /\ TaskRowInv'
            BY <1>12, <2>2, CoroutineMoves DEF CancelledAwaitingWorker, runFrame
        <3>2. CoroutineInv'
            BY <1>0, <1>12, <2>2
            DEF CancelledAwaitingWorker, runFrame, slotVars, persistVars, CoroutineInv, LiveWorker, TypeOK
        <3> QED BY <3>1, <3>2
    <2> QED BY <2>1, <2>2
<1>13. CASE Drained(t)
    BY <1>6, <1>13 DEF Drained, LiveWorker
<1>14. CASE PrestartCompletes(t)
    <2>1. PersistSound({t})
        BY <1>0, <1>14, CompleteTaskSound DEF PrestartCompletes
    <2>2. CoroutineInv'
        BY <1>0, <1>14, <2>1 DEF PrestartCompletes, PersistSound, slotVars, CoroutineInv, LiveWorker
    <2>3. BatchRowInv'
        BY <1>14, <2>1, BatchRowStep DEF PrestartCompletes
    <2>4. TaskRowInv'
        BY <1>14, <2>1, TaskRowStep DEF PrestartCompletes
    <2> QED BY <2>2, <2>3, <2>4
<1> QED BY <1>1, <1>3, <1>4, <1>5, <1>8, <1>9, <1>10, <1>11, <1>12, <1>13, <1>14 DEF RunTask

\* The row of a task at work can be written: its batch is open.
LEMMA WorkerRow ==
    ASSUME SafeInv, NEW t \in Tasks, LiveWorker(t)
    PROVE  /\ dbBatch[BatchOf[t]] = "RUNNING" /\ dbTask[t] \notin {"NONE", "DELETED"}
           /\ completion[t] = "none" /\ deleter[t] # "purge"
<1>1. pc[t] \in {"worker", "drain"} /\ BatchOf[t] \in live /\ completion[t] = "none"
    BY DEF SafeInv, CoroutineInv
<1>2. BatchOf[t] \notin finalized
    BY <1>1 DEF SafeInv, BatchRowInv, AllDone, TasksOf
<1>3. dbBatch[BatchOf[t]] = "RUNNING"
    BY <1>1, <1>2 DEF SafeInv, BatchRowInv
<1> QED BY <1>1, <1>3 DEF SafeInv, TaskRowInv

LEMMA SafeRunWorker ==
    ASSUME SafeInv, NEW t \in Tasks, RunWorker(t)
    PROVE  CoroutineInv' /\ BatchRowInv' /\ TaskRowInv'
<1>1. /\ LiveWorker(t) /\ UNCHANGED workerFrame
      /\ \A u \in Tasks : LiveWorker(u)' => LiveWorker(u)
      /\ \A u \in Tasks \ {t} : dbTask'[u] = dbTask[u]
      /\ dbTask'[t] \in {dbTask[t], "ACTIVE", "COMPLETED", "FAILED"}
    BY DEF RunWorker, WorkerPicked, WorkerStarts, WorkerPromotes, WorkerReturns, WorkerRaises,
           workerFrame, LiveWorker, SafeInv, TypeInv, TypeOK
<1>2. CoroutineInv'
    BY <1>1 DEF SafeInv, CoroutineInv, workerFrame, batchVars, slotVars
<1>3. BatchRowInv'
    BY <1>1 DEF SafeInv, BatchRowInv, workerFrame, batchVars, AllDone, TasksOf, TerminalStatus
<1>4. TaskRowInv'
    BY <1>1, WorkerRow DEF SafeInv, TaskRowInv, workerFrame, Terminal
<1> QED BY <1>2, <1>3, <1>4

\* A call that registers only completions of coroutines that have ended.
LEMMA CallStep ==
    ASSUME SafeInv, NEW S, PersistSound(S), UNCHANGED cancelFrame,
           \A t \in Tasks \cap S : pc[t] = "ended",
           cancelReq \subseteq cancelReq',
           \A b \in finalized : b \in cancelled' <=> b \in cancelled,
           \A t \in Tasks : pc[t] = "created" /\ BatchOf[t] \in cancelled' => t \in cancelReq'
    PROVE  CoroutineInv' /\ BatchRowInv' /\ TaskRowInv'
<1>1. CoroutineInv'
    BY DEF SafeInv, CoroutineInv, PersistSound, cancelFrame, slotVars, LiveWorker
<1>2. BatchRowInv'
    BY BatchRowStep DEF cancelFrame
<1>3. TaskRowInv'
    BY TaskRowStep DEF cancelFrame
<1> QED BY <1>1, <1>2, <1>3

LEMMA SafeCancelCall ==
    ASSUME SafeInv, NEW b \in Batches, CancelCall(b)
    PROVE  CoroutineInv' /\ BatchRowInv' /\ TaskRowInv'
<1>1. PersistSound(IF WaitingTasks(b) = {} THEN WaitingIds(b) ELSE {})
    <2>1. CASE WaitingTasks(b) = {}
        BY <2>1, RegisterFlushSound DEF CancelCall, SafeInv, Terminal
    <2>2. CASE WaitingTasks(b) # {}
        BY <2>2, UnchangedPersistSound DEF CancelCall, SafeInv
    <2> QED BY <2>1, <2>2
<1>2. \A t \in WaitingIds(b) : WaitingTasks(b) = {} => pc[t] = "ended"
    BY DEF WaitingTasks
<1>3. \A t \in Tasks : pc[t] = "created" /\ BatchOf[t] \in cancelled' => t \in cancelReq'
    <2> SUFFICES ASSUME NEW t \in Tasks, pc[t] = "created", BatchOf[t] \in cancelled'
                 PROVE  t \in cancelReq'
        OBVIOUS
    <2>1. cancelled' = cancelled \cup {b} /\ cancelReq' = cancelReq \cup WaitingTasks(b)
        BY DEF CancelCall
    <2>2. request[t] = "none" /\ completion[t] # "done"
        BY DEF SafeInv, CoroutineInv
    <2>3. BatchOf[t] = b => t \in WaitingTasks(b)
        BY <2>2 DEF WaitingTasks, WaitingIds, TasksOf
    <2>4. BatchOf[t] \in cancelled => t \in cancelReq
        BY DEF SafeInv, CoroutineInv
    <2> QED BY <2>1, <2>3, <2>4
<1> QED BY <1>1, <1>2, <1>3, CallStep DEF CancelCall

LEMMA SafeBatchCalls ==
    ASSUME SafeInv, NEW b \in Batches,
           \/ SubmitBatch(b) \/ SubmitEmptyBatch(b)
           \/ CancelBatch(b) \/ CancelReturns(b) \/ RetryTick(b)
           \/ ShutdownCancels(b) \/ ShutdownFlushes(b)
    PROVE  CoroutineInv' /\ BatchRowInv' /\ TaskRowInv'
<1>0. /\ TypeInv /\ TypeOK /\ CoroutineInv /\ BatchRowInv /\ TaskRowInv
      /\ \A t \in Tasks : pc[t] = "created" /\ BatchOf[t] \in cancelled => t \in cancelReq
    BY DEF SafeInv, TypeInv, CoroutineInv
<1>1. dbBatch[b] = "NONE" => b \notin live
    BY <1>0 DEF BatchRowInv, TypeOK, Terminal
<1>2. CASE SubmitBatch(b)
    <2>1. b \notin live /\ \A t \in Tasks : BatchOf[t] = b => pc[t] = "absent"
        BY <1>0, <1>1, <1>2 DEF SubmitBatch, Admits, CoroutineInv
    <2>2. /\ \A c \in Batches : dbBatch'[c] = IF c = b THEN "RUNNING" ELSE dbBatch[c]
          /\ \A t \in Tasks : dbTask'[t] = IF BatchOf[t] = b THEN "WAITING" ELSE dbTask[t]
          /\ \A t \in Tasks : pc'[t] = IF BatchOf[t] = b THEN "created" ELSE pc[t]
          /\ live' = live \cup {b} /\ mode = "up" /\ dbBatch[b] = "NONE"
          /\ UNCHANGED <<mode, cancelled, finalized, status, request, cancelReq, worker,
                         completion, result, prestart, deleter>>
        BY <1>0, <1>2 DEF SubmitBatch, Admits, TypeOK, slotVars
    <2>3. CoroutineInv'
        BY <1>0, <2>1, <2>2 DEF CoroutineInv, LiveWorker, TypeOK
    <2>4. BatchRowInv'
        BY <1>0, <2>1, <2>2 DEF BatchRowInv, AllDone, TasksOf, TerminalStatus, TypeOK
    <2>5. \A t \in Tasks : BatchOf[t] = b => completion[t] # "done" /\ deleter[t] # "purge"
                                            /\ dbTask[t] # "DELETED"
        BY <1>0, <2>1, <2>2 DEF CoroutineInv, TaskRowInv
    <2>6. TaskRowInv'
        BY <1>0, <2>2, <2>5, BatchesAssumption DEF TaskRowInv, Terminal
    <2> QED BY <2>3, <2>4, <2>6
<1>3. CASE SubmitEmptyBatch(b)
    <2>1. /\ b \notin live /\ b \notin cancelled /\ \A t \in Tasks : BatchOf[t] # b
          /\ mode = "up" /\ live' = live \cup {b} /\ b \in Batches
        BY <1>0, <1>1, <1>3 DEF SubmitEmptyBatch, Admits, TypeOK, TasksOf
    <2>2. UNCHANGED <<mode, cancelled, request, taskVars, dbTask>>
        BY <1>3 DEF SubmitEmptyBatch, slotVars
    <2>3. /\ \A c \in Batches \ {b} : dbBatch'[c] = dbBatch[c] /\ status'[c] = status[c]
          /\ \/ /\ finalized' = finalized \cup {b}
                /\ status'[b] = "COMPLETED" /\ dbBatch'[b] = "COMPLETED"
             \/ finalized' = finalized /\ dbBatch'[b] = "RUNNING"
        BY <1>0, <1>3 DEF SubmitEmptyBatch, TypeOK
    <2>4. CoroutineInv'
        BY <1>0, <2>1, <2>2 DEF CoroutineInv, LiveWorker, taskVars
    <2>5. AllDone(b, completion) /\ TerminalStatus(b, result, cancelled) = "COMPLETED"
        BY <2>1 DEF AllDone, TerminalStatus, TasksOf
    <2>6. BatchRowInv'
        <3>1. /\ UNCHANGED <<completion, result, cancelled>>
              /\ live \subseteq Batches /\ finalized \subseteq live
            BY <1>0, <2>2 DEF taskVars, TypeOK
        <3> QED BY <1>0, <2>1, <2>2, <2>3, <2>5, <3>1 DEF BatchRowInv
    <2>7. TaskRowInv'
        BY <1>0, <2>1, <2>2, <2>3, BatchesAssumption DEF TaskRowInv, taskVars
    <2> QED BY <2>4, <2>6, <2>7
<1>4. CASE CancelBatch(b)
    BY <1>4, SafeCancelCall DEF CancelBatch
<1>5. CASE CancelReturns(b)
    <2>1. PersistSound(cancelWait[b])
        BY <1>0, <1>5, RegisterFlushSound DEF CancelReturns, TypeOK, Terminal
    <2> QED BY <1>0, <1>5, <2>1, CallStep DEF CancelReturns
<1>6. ASSUME b \in live, UNCHANGED cancelled, Flush(b, completion, result, cancelled)
      PROVE  PersistSound({})
    BY <1>0, <1>6, FlushSound DEF TypeInv, TypeOK
<1>7. CASE RetryTick(b)
    <2>1. PersistSound({})
        <3>1. CASE b \in finalized
            BY <1>0, <1>7, <3>1 DEF RetryTick, PersistSound, dbVars, TypeOK
        <3>2. CASE b \notin finalized
            BY <1>0, <1>6, <1>7, <3>2 DEF RetryTick, TypeOK
        <3> QED BY <3>1, <3>2
    <2> QED BY <1>0, <1>7, <2>1, CallStep DEF RetryTick, cancelFrame
<1>8. CASE ShutdownCancels(b)
    <2>1. CASE b \in finalized \cup cancelling
        <3>1. PersistSound({}) /\ UNCHANGED <<cancelFrame, cancelled, cancelReq>>
            BY <1>0, <1>8, <2>1, UnchangedPersistSound DEF ShutdownCancels
        <3> QED BY <1>0, <3>1, CallStep
    <2>2. CASE CancelCall(b)
        BY <2>2, SafeCancelCall
    <2> QED BY <1>8, <2>1, <2>2 DEF ShutdownCancels
<1>9. CASE ShutdownFlushes(b)
    <2>1. PersistSound({})
        BY <1>0, <1>6, <1>9 DEF ShutdownFlushes, TypeInv
    <2> QED BY <1>0, <1>9, <2>1, CallStep DEF ShutdownFlushes
<1> QED BY <1>2, <1>3, <1>4, <1>5, <1>7, <1>8, <1>9

LEMMA SafeDelete ==
    ASSUME SafeInv, NEW t \in Tasks, DeleteTask(t) \/ DeleteSettles(t) \/ DeletePurges(t)
    PROVE  CoroutineInv' /\ BatchRowInv' /\ TaskRowInv'
<1>0. TypeInv /\ TypeOK /\ CoroutineInv /\ BatchRowInv /\ TaskRowInv
    BY DEF SafeInv, TypeInv
<1>1. CASE DeleteTask(t)
    <2>1. PersistSound({}) /\ UNCHANGED persistVars
        BY <1>0, <1>1, UnchangedPersistSound DEF DeleteTask
    <2>2. CoroutineInv'
        BY <1>0, <1>1
        DEF DeleteTask, deleteFrame, slotVars, persistVars, CoroutineInv, LiveWorker, TypeOK
    <2>3. BatchRowInv'
        BY <1>1, <2>1, BatchRowStep DEF DeleteTask, deleteFrame
    <2>4. \A u \in Tasks : deleter'[u] = "purge" => deleter[u] = "purge"
                \/ (dbTask[u] # "NONE" /\ pc[u] = "absent")
        BY <1>0, <1>1 DEF DeleteTask, CoroutineInv, TypeOK
    <2>5. TaskRowInv'
        BY <1>1, <2>1, <2>4, TaskRowStep DEF DeleteTask, deleteFrame
    <2> QED BY <2>2, <2>3, <2>5
<1>2. CASE DeleteSettles(t)
    <2>1. PersistSound({t})
        BY <1>0, <1>2, CompleteTaskSound DEF DeleteSettles, deleteFrame, Terminal
    <2>2. CoroutineInv'
        BY <1>0, <1>2, <2>1
        DEF DeleteSettles, deleteFrame, slotVars, PersistSound, CoroutineInv, LiveWorker
    <2>3. BatchRowInv'
        BY <1>2, <2>1, BatchRowStep DEF DeleteSettles, deleteFrame
    <2>4. dbTask[t] # "NONE"
        BY <1>0, <1>2, BatchesAssumption
        DEF DeleteSettles, CoroutineInv, BatchRowInv, TaskRowInv, TypeOK, Terminal
    <2>5. TaskRowInv'
        <3>1. \A u \in Tasks : deleter'[u] = "purge" => deleter[u] = "purge"
                    \/ (dbTask[u] # "NONE" /\ pc[u] = "ended")
            BY <1>0, <1>2, <2>4 DEF DeleteSettles, TypeOK
        <3> QED BY <1>2, <2>1, <3>1, TaskRowStep DEF DeleteSettles, deleteFrame
    <2> QED BY <2>2, <2>3, <2>5
<1>3. CASE DeletePurges(t)
    <2>1. /\ UNCHANGED <<deleteFrame, worker, cancelReq, completion, result, dbBatch,
                         finalized, status>>
          /\ deleter[t] = "purge"
          /\ \A u \in Tasks : deleter'[u] = "purge" => deleter[u] = "purge"
          /\ \A u \in Tasks \ {t} : dbTask'[u] = dbTask[u]
          /\ dbTask'[t] \in {dbTask[t], "DELETED"}
        BY <1>0, <1>3 DEF DeletePurges, TypeOK
    <2>2. CoroutineInv'
        BY <1>0, <2>1 DEF CoroutineInv, LiveWorker, deleteFrame, slotVars
    <2>3. BatchRowInv'
        BY <1>0, <2>1 DEF BatchRowInv, deleteFrame, AllDone, TasksOf, TerminalStatus
    <2>4. TaskRowInv'
        BY <1>0, <2>1 DEF TaskRowInv, deleteFrame, Closed
    <2> QED BY <2>2, <2>3, <2>4
<1> QED BY <1>1, <1>2, <1>3

LEMMA SafeProcess ==
    ASSUME SafeInv, BeginShutdown \/ ShutdownEnds \/ Crash \/ Restart
    PROVE  CoroutineInv' /\ BatchRowInv' /\ TaskRowInv'
<1>0. TypeInv /\ TypeOK /\ CoroutineInv /\ BatchRowInv /\ TaskRowInv
    BY DEF SafeInv, TypeInv
<1>1. CASE BeginShutdown
    BY <1>0, <1>1
    DEF BeginShutdown, slotVars, taskVars, dbVars, CoroutineInv, BatchRowInv, TaskRowInv,
        LiveWorker, AllDone, TasksOf, TerminalStatus
<1>2. ASSUME Forget PROVE CoroutineInv' /\ BatchRowInv'
    BY <1>0, <1>2 DEF Forget, CoroutineInv, BatchRowInv, LiveWorker
<1>3. ASSUME Recover,
             \A t \in Tasks : /\ pc'[t] = "absent" /\ completion'[t] # "done"
                              /\ deleter'[t] = "purge" => deleter[t] = "purge"
      PROVE  TaskRowInv'
    <2>1. \A t \in Tasks :
            /\ dbBatch'[BatchOf[t]] = IF dbBatch[BatchOf[t]] = "RUNNING" THEN "INTERRUPTED"
                                     ELSE dbBatch[BatchOf[t]]
            /\ dbTask'[t] = IF dbBatch[BatchOf[t]] = "RUNNING" /\ dbTask[t] \in {"WAITING", "ACTIVE"}
                           THEN "INTERRUPTED" ELSE dbTask[t]
        BY <1>3, BatchesAssumption DEF Recover
    <2>2. \A t \in Tasks : dbTask[t] \in Closed \cup {"NONE", "WAITING", "ACTIVE"}
        BY <1>0 DEF TypeOK, Closed
    <2> QED BY <1>0, <1>3, <2>1, <2>2 DEF TaskRowInv, Terminal, Closed
<1>4. CASE ShutdownEnds
    <2>1. \A t \in Tasks : pc'[t] = "absent" /\ completion'[t] # "done" /\ deleter'[t] # "purge"
        BY <1>4 DEF ShutdownEnds, Forget
    <2> QED BY <1>2, <1>3, <1>4, <2>1 DEF ShutdownEnds
<1>5. CASE Crash
    BY <1>0, <1>2, <1>5 DEF Crash, Forget, dbVars, TaskRowInv
<1>6. CASE Restart
    <2>1. /\ live = {} /\ finalized = {} /\ mode' = "up" /\ Recover
          /\ UNCHANGED <<batchVars, slotVars, taskVars>>
        BY <1>0, <1>6 DEF Restart, BatchRowInv, TypeOK
    <2>2. \A t \in Tasks : pc[t] = "absent" /\ completion[t] # "done"
        BY <1>0, <2>1 DEF CoroutineInv
    <2>3. CoroutineInv' /\ BatchRowInv'
        BY <1>0, <2>1 DEF batchVars, slotVars, taskVars, CoroutineInv, BatchRowInv, LiveWorker
    <2> QED BY <1>3, <2>1, <2>2, <2>3 DEF taskVars
<1> QED BY <1>1, <1>4, <1>5, <1>6

LEMMA SafeInit == Init => SafeInv
BY TypeInit, BatchesAssumption
DEF Init, SafeInv, CoroutineInv, BatchRowInv, TaskRowInv, LiveWorker, Terminal

LEMMA SafeNext == SafeInv /\ [Next]_vars => SafeInv'
<1> SUFFICES ASSUME SafeInv, [Next]_vars PROVE SafeInv'
    OBVIOUS
<1>1. TypeInv'
    BY TypeNext DEF SafeInv
<1>2. CASE UNCHANGED vars
    BY <1>1, <1>2
    DEF vars, batchVars, slotVars, taskVars, dbVars, SafeInv, CoroutineInv, BatchRowInv,
        TaskRowInv, LiveWorker, AllDone, TasksOf, TerminalStatus
<1>3. CASE Next
    <2>1. CoroutineInv' /\ BatchRowInv' /\ TaskRowInv'
        BY <1>3, SafeBatchCalls, SafeRunTask, SafeRunWorker, SafeDelete, SafeProcess DEF Next
    <2> QED BY <1>1, <2>1 DEF SafeInv
<1> QED BY <1>2, <1>3

LEMMA SafeInvariant == Spec => []SafeInv
BY SafeInit, SafeNext, PTL DEF Spec

-----------------------------------------------------------------------------
\* Cancelling or deleting a task while it parses never lets another parse run on
\* its slot: the slot is held until the worker thread has ended.
THEOREM WorkersHoldSlots == Spec => []WorkerHoldsSlot
<1>1. SafeInv => WorkerHoldsSlot
    BY DEF SafeInv, CoroutineInv, WorkerHoldsSlot
<1> QED BY <1>1, SafeInvariant, PTL

\* After BATCH_DONE nothing of the batch runs or holds a slot, and what was
\* reported is what the tasks recorded and what the row says.
THEOREM FinalizedBatchesAreQuiet == Spec => []FinalizedIsQuiet
<1>1. SafeInv => FinalizedIsQuiet
    BY DEF SafeInv, CoroutineInv, BatchRowInv, FinalizedIsQuiet, AllDone, TasksOf, TypeInv, TypeOK
<1> QED BY <1>1, SafeInvariant, PTL

\* No crash leaves a closed batch row with an open task row.
THEOREM ClosedBatchesHaveClosedTasks == Spec => []ClosedBatchHasClosedTasks
<1>1. SafeInv => ClosedBatchHasClosedTasks
    BY DEF SafeInv, TaskRowInv, ClosedBatchHasClosedTasks, Closed
<1> QED BY <1>1, SafeInvariant, PTL
-----------------------------------------------------------------------------
(***************************************************************************)
(* The contract.  PersistSound says what the recording half of a step may  *)
(* do; for the contract it must also be the business of one batch.         *)
(***************************************************************************)

\* Only completions of batch b, which is in memory, are recorded, with an outcome
\* each, and no other batch is closed.
PersistOf(b) ==
    /\ \A t \in Tasks : completion[t] # "done" /\ completion'[t] = "done" =>
            BatchOf[t] = b /\ b \in live /\ result'[t] \in Terminal
    /\ finalized' \subseteq finalized \cup {b}

LEMMA FlushOf ==
    ASSUME TypeInv, NEW b \in live,
           NEW comp \in [Tasks -> {"none", "pending", "done"}],
           NEW res \in [Tasks -> Terminal \cup {"none"}],
           \A t \in Tasks : /\ comp[t] = "pending" => res[t] # "none"
                            /\ comp[t] = "done" => completion[t] = "done",
           Flush(b, comp, res, cancelled')
    PROVE  PersistOf(b)
<1> DEFINE P == {t \in TasksOf(b) : comp[t] = "pending"}
           outcome(t) == IF b \in cancelled' THEN "CANCELLED" ELSE res[t]
<1>1. PICK F \in SUBSET P :
        /\ completion' = [t \in Tasks |-> IF t \in F THEN "done" ELSE comp[t]]
        /\ result' = [t \in Tasks |-> IF t \in F THEN outcome(t) ELSE res[t]]
        /\ \/ WriteFails(b)
           \/ IF AllDone(b, completion') /\ b \notin finalized
              THEN Finalize(b, result', cancelled')
              ELSE UNCHANGED <<finalized, status, dbBatch, retry, faults>>
    BY Zenon DEF Flush
<1>2. \A t \in F : t \in Tasks /\ BatchOf[t] = b /\ outcome(t) \in Terminal
    BY DEF Terminal, TasksOf
<1>3. \A t \in Tasks : completion[t] # "done" /\ completion'[t] = "done" =>
            BatchOf[t] = b /\ result'[t] \in Terminal
    <2> SUFFICES ASSUME NEW t \in Tasks, completion[t] # "done", completion'[t] = "done"
                 PROVE  BatchOf[t] = b /\ result'[t] \in Terminal
        OBVIOUS
    <2>1. t \in F
        BY <1>1
    <2> QED BY <1>1, <1>2, <2>1
<1>4. finalized' \subseteq finalized \cup {b}
    BY <1>1, FinalizeSound DEF WriteFails
<1> QED BY <1>3, <1>4 DEF PersistOf

LEMMA RegisterFlushOf ==
    ASSUME TypeInv, NEW b \in live, NEW S, NEW s \in Terminal,
           Flush(b, Register(S), Record(S, s), cancelled')
    PROVE  PersistOf(b)
<1> DEFINE comp == Register(S)
           res == Record(S, s)
<1>1. /\ comp \in [Tasks -> {"none", "pending", "done"}]
      /\ res \in [Tasks -> Terminal \cup {"none"}]
      /\ \A t \in Tasks : comp[t] = "pending" => res[t] # "none"
    BY RegisterLemma
<1>2. \A t \in Tasks : comp[t] = "done" => completion[t] = "done"
    BY DEF Register
<1>3. Flush(b, comp, res, cancelled')
    OBVIOUS
<1> HIDE DEF comp, res
<1> QED BY <1>1, <1>2, <1>3, FlushOf

LEMMA UnchangedPersistOf == ASSUME UNCHANGED persistVars, NEW b PROVE PersistOf(b)
BY DEF persistVars, PersistOf

LEMMA CompleteTaskOf ==
    ASSUME TypeInv, NEW t, NEW s \in Terminal, CompleteTask(t, s), UNCHANGED cancelled
    PROVE  PersistOf(BatchOf[t])
BY RegisterFlushOf, UnchangedPersistOf DEF CompleteTask

\* What a step does for batch b: it records completions of b, closes b when all
\* are recorded, and may accept the cancellation of b while b runs.
Serves(b) ==
    /\ PersistOf(b) /\ \E S : PersistSound(S)
    /\ UNCHANGED live
    /\ cancelled' = cancelled \/ (b \in live \ finalized /\ cancelled' = cancelled \cup {b})

\* What the contract says nothing about.
Silent == UNCHANGED <<live, finalized, status, cancelled, completion, result, dbBatch>>

LEMMA ServeRunTask ==
    ASSUME SafeInv, NEW t \in Tasks, RunTask(t)
    PROVE  Serves(BatchOf[t])
<1> USE DEF Terminal
<1>0. TypeInv
    BY DEF SafeInv
<1>1. ASSUME UNCHANGED <<live, cancelled>>, UNCHANGED persistVars
      PROVE  Serves(BatchOf[t])
    BY <1>0, <1>1, UnchangedPersistOf, UnchangedPersistSound DEF Serves
<1>2. ASSUME UNCHANGED <<live, cancelled>>, NEW s \in Terminal, CompleteTask(t, s)
      PROVE  Serves(BatchOf[t])
    BY <1>0, <1>2, CompleteTaskOf, CompleteTaskSound DEF Serves
<1>3. CASE NeverStarts(t)
    BY <1>1, <1>3 DEF NeverStarts, batchVars, persistVars
<1>4. CASE AwaitSlot(t)
    BY <1>1, <1>4 DEF AwaitSlot, runFrame
<1>5. CASE StartAtOnce(t)
    BY <1>1, <1>5 DEF StartAtOnce, SubmitWorker, runFrame
<1>6. CASE StartFails(t)
    BY <1>2, <1>6 DEF StartFails, FactoryRaises, Ends, runFrame
<1>7. CASE Resume(t)
    BY <1>1, <1>2, <1>7 DEF Resume, SubmitWorker, FactoryRaises, Ends, runFrame
<1>8. CASE ResumeCancelled(t)
    BY <1>2, <1>8 DEF ResumeCancelled, Ends, runFrame
<1>9. CASE CancelledAwaitingSlot(t)
    BY <1>2, <1>9 DEF CancelledAwaitingSlot, Ends, runFrame
<1>10. CASE WorkerDone(t)
    <2>1. WorkerOutcome(t) \in Terminal
        BY DEF WorkerOutcome
    <2> QED BY <1>2, <1>10, <2>1 DEF WorkerDone, Ends, runFrame
<1>11. CASE CancelledAwaitingWorker(t)
    BY <1>1, <1>2, <1>11 DEF CancelledAwaitingWorker, Ends, runFrame
<1>12. CASE Drained(t)
    BY <1>2, <1>12 DEF Drained, Ends, runFrame
<1>13. CASE PrestartCompletes(t)
    BY <1>2, <1>13 DEF PrestartCompletes
<1> QED BY <1>3, <1>4, <1>5, <1>6, <1>7, <1>8, <1>9, <1>10, <1>11, <1>12, <1>13 DEF RunTask

LEMMA ServeCancelCall ==
    ASSUME SafeInv, NEW b \in Batches, CancelCall(b)
    PROVE  Serves(b)
<1>1. TypeInv /\ b \in live \ finalized /\ cancelled' = cancelled \cup {b} /\ UNCHANGED live
    BY DEF SafeInv, CancelCall, cancelFrame
<1>2. CASE WaitingTasks(b) = {}
    BY <1>1, <1>2, RegisterFlushOf, RegisterFlushSound DEF CancelCall, Serves, Terminal
<1>3. CASE WaitingTasks(b) # {}
    BY <1>1, <1>3, UnchangedPersistOf, UnchangedPersistSound DEF CancelCall, Serves
<1> QED BY <1>2, <1>3

LEMMA ServeBatchCalls ==
    ASSUME SafeInv, NEW b \in Batches,
           \/ CancelBatch(b) \/ CancelReturns(b) \/ RetryTick(b)
           \/ ShutdownCancels(b) \/ ShutdownFlushes(b)
    PROVE  Serves(b) \/ Silent
<1>0. TypeInv /\ TypeOK
    BY DEF SafeInv, TypeInv
<1>1. ASSUME b \in live, UNCHANGED <<live, cancelled>>, Flush(b, completion, result, cancelled)
      PROVE  Serves(b)
    <2>1. PersistOf(b)
        BY <1>0, <1>1, FlushOf DEF TypeInv, TypeOK
    <2>2. PersistSound({})
        BY <1>0, <1>1, FlushSound DEF TypeInv, TypeOK
    <2> QED BY <1>1, <2>1, <2>2 DEF Serves
<1>2. CASE CancelBatch(b)
    BY <1>2, ServeCancelCall DEF CancelBatch
<1>3. CASE CancelReturns(b)
    BY <1>0, <1>3, RegisterFlushOf, RegisterFlushSound
    DEF CancelReturns, cancelFrame, TypeOK, Terminal, Serves
<1>4. CASE RetryTick(b)
    BY <1>0, <1>1, <1>4 DEF RetryTick, Silent, dbVars, TypeOK
<1>5. CASE ShutdownCancels(b)
    BY <1>5, ServeCancelCall DEF ShutdownCancels, Silent, persistVars, dbVars, cancelFrame
<1>6. CASE ShutdownFlushes(b)
    BY <1>0, <1>1, <1>6 DEF ShutdownFlushes, cancelFrame, TypeInv
<1> QED BY <1>2, <1>3, <1>4, <1>5, <1>6

-----------------------------------------------------------------------------
\* A recorded completion has its outcome.
DoneInv == \A t \in Tasks : completion[t] = "done" => result[t] \in Terminal

ContractInv == SafeInv /\ DoneInv

LEMMA SilentStutters ==
    ASSUME ContractInv, Silent
    PROVE  DoneInv' /\ UNCHANGED Contract!vars
BY DEF ContractInv, DoneInv, Silent, Contract!vars, contractStage, contractOutcome

\* The join of the contract is the status the scheduler computes.
LEMMA JoinIsStatus ==
    ASSUME NEW b \in Batches, NEW comp, NEW res, NEW canc, AllDone(b, comp)
    PROVE  Contract!Join(b, [t \in Tasks |-> IF comp[t] = "done" THEN res[t] ELSE "open"], b \in canc)
                = TerminalStatus(b, res, canc)
<1> DEFINE out == [t \in Tasks |-> IF comp[t] = "done" THEN res[t] ELSE "open"]
<1>1. \A t \in TasksOf(b) : out[t] = res[t]
    BY DEF AllDone, TasksOf
<1>2. Contract!TasksOf(b) = TasksOf(b)
    BY DEF Contract!TasksOf, TasksOf
<1> HIDE DEF out
<1>3. Contract!Join(b, out, b \in canc) = TerminalStatus(b, res, canc)
    BY <1>1, <1>2 DEF Contract!Join, TerminalStatus
<1> QED BY <1>3 DEF out

LEMMA ServesAdvances ==
    ASSUME ContractInv, TypeOK', NEW b \in Batches, Serves(b)
    PROVE  DoneInv' /\ (Contract!Advance(b) \/ UNCHANGED Contract!vars)
<1>0. /\ SafeInv /\ TypeInv /\ TypeOK /\ CoroutineInv /\ BatchRowInv /\ DoneInv
      /\ UNCHANGED live /\ cancelled \subseteq cancelled' /\ cancelled' \subseteq cancelled \cup {b}
    BY DEF ContractInv, SafeInv, TypeInv, Serves
<1>1. PICK S : PersistSound(S)
    BY DEF Serves
<1>2. \A t \in Tasks :
        /\ completion[t] = "done" => completion'[t] = "done" /\ result'[t] = result[t]
        /\ completion[t] # "done" /\ completion'[t] = "done" =>
                /\ BatchOf[t] = b /\ result'[t] \in Terminal
                /\ b \in cancelled' => result'[t] = "CANCELLED"
    BY <1>1 DEF PersistSound, Serves, PersistOf
<1>3. DoneInv'
    BY <1>0, <1>2 DEF DoneInv
<1>4. /\ finalized \subseteq finalized' /\ finalized' \subseteq finalized \cup {b}
      /\ \A c \in Batches :
          /\ c \in finalized \/ c \notin finalized' => status'[c] = status[c] /\ dbBatch'[c] = dbBatch[c]
          /\ c \in finalized' \ finalized =>
                /\ c \in live /\ AllDone(c, completion')
                /\ status'[c] = TerminalStatus(c, result', cancelled')
                /\ dbBatch'[c] = status'[c]
    BY <1>1 DEF PersistSound, Serves, PersistOf
<1>5. /\ finalized \subseteq live /\ live \subseteq Batches
      /\ dbBatch = [c \in Batches |-> dbBatch[c]] /\ dbBatch' = [c \in Batches |-> dbBatch'[c]]
    BY <1>0 DEF TypeOK
<1>6. \A t \in Tasks : contractOutcome'[t] = IF completion'[t] = "done" THEN result'[t] ELSE "open"
    BY DEF contractOutcome
<1>7. \A t \in Tasks : contractOutcome[t] = IF completion[t] = "done" THEN result[t] ELSE "open"
    BY DEF contractOutcome
<1>8. \A t \in Tasks : contractOutcome'[t] # contractOutcome[t] =>
        completion[t] # "done" /\ completion'[t] = "done"
    BY <1>2, <1>6, <1>7
<1>9. CASE b \in live \ finalized
    <2>1. contractStage[b] = "running"
        BY <1>9 DEF contractStage
    <2>2. cancelled' \in {cancelled, cancelled \cup {b}}
        BY DEF Serves
    <2>3. contractOutcome' \in [Tasks -> Contract!Outcomes \cup {"open"}]
        BY <1>3 DEF contractOutcome, DoneInv, Terminal, Contract!Outcomes
    <2>4. \A t \in Tasks : contractOutcome'[t] # contractOutcome[t] =>
            /\ BatchOf[t] = b /\ contractOutcome[t] = "open"
            /\ b \in cancelled' => contractOutcome'[t] = "CANCELLED"
        BY <1>2, <1>6, <1>7, <1>8
    <2>5. \/ UNCHANGED <<contractStage, dbBatch>>
          \/ /\ Contract!Settled(b, contractOutcome')
             /\ contractStage' = [contractStage EXCEPT ![b] =
                                    Contract!Join(b, contractOutcome', b \in cancelled')]
             /\ dbBatch' = [dbBatch EXCEPT ![b] = contractStage'[b]]
        <3>1. CASE b \notin finalized'
            <4>1. finalized' = finalized /\ \A c \in Batches : status'[c] = status[c] /\ dbBatch'[c] = dbBatch[c]
                BY <1>4, <3>1
            <4>2. dbBatch' = dbBatch
                BY <1>5, <4>1
            <4>3. contractStage' = contractStage
                BY <1>0, <4>1 DEF contractStage
            <4> QED BY <4>2, <4>3
        <3>2. CASE b \in finalized'
            <4> DEFINE s == TerminalStatus(b, result', cancelled')
            <4>1. /\ AllDone(b, completion') /\ status'[b] = s /\ dbBatch'[b] = s
                  /\ \A c \in Batches \ {b} : status'[c] = status[c] /\ dbBatch'[c] = dbBatch[c]
                BY <1>4, <1>9, <3>2
            <4>2. Contract!Settled(b, contractOutcome')
                <5>1. \A t \in TasksOf(b) : completion'[t] = "done"
                    BY <4>1 DEF AllDone
                <5> QED BY <1>3, <1>6, <5>1
                    DEF Contract!Settled, Contract!TasksOf, TasksOf, DoneInv, Terminal
            <4>3. Contract!Join(b, contractOutcome', b \in cancelled') = s
                BY <4>1, JoinIsStatus DEF contractOutcome
            <4> HIDE DEF s
            <4>4. \A c \in Batches : contractStage'[c] = IF c = b THEN s ELSE contractStage[c]
                BY <1>0, <1>4, <1>9, <3>2, <4>1 DEF contractStage
            <4>5. contractStage' = [contractStage EXCEPT ![b] = s]
                BY <4>4 DEF contractStage
            <4>6. dbBatch' = [dbBatch EXCEPT ![b] = contractStage'[b]]
                <5>1. \A c \in Batches : dbBatch'[c] = IF c = b THEN s ELSE dbBatch[c]
                    BY <4>1
                <5>2. contractStage'[b] = s
                    BY <4>4
                <5> QED BY <1>5, <5>1, <5>2
            <4> QED BY <4>2, <4>3, <4>5, <4>6
        <3> QED BY <3>1, <3>2
    <2> QED BY <1>3, <2>1, <2>2, <2>3, <2>4, <2>5 DEF Contract!Advance
<1>10. CASE b \notin live \ finalized
    <2>1. \A t \in Tasks : completion'[t] = "done" => completion[t] = "done"
        <3> SUFFICES ASSUME NEW t \in Tasks, completion[t] # "done", completion'[t] = "done"
                     PROVE  FALSE
            OBVIOUS
        <3>1. BatchOf[t] = b /\ b \in live
            BY DEF Serves, PersistOf
        <3> QED BY <1>0, <1>10, <3>1 DEF BatchRowInv, AllDone, TasksOf
    <2>2. finalized' = finalized /\ \A c \in Batches : status'[c] = status[c] /\ dbBatch'[c] = dbBatch[c]
        BY <1>4, <1>5, <1>10
    <2>3. cancelled' = cancelled
        BY <1>10 DEF Serves
    <2>4. dbBatch' = dbBatch
        BY <1>5, <2>2
    <2>5. contractStage' = contractStage
        BY <1>0, <2>2 DEF contractStage
    <2>6. contractOutcome' = contractOutcome
        BY <1>2, <2>1 DEF contractOutcome
    <2> QED BY <1>3, <2>3, <2>4, <2>5, <2>6 DEF Contract!vars
<1> QED BY <1>9, <1>10

LEMMA SubmitAccepts ==
    ASSUME ContractInv, NEW b \in Batches, SubmitBatch(b) \/ SubmitEmptyBatch(b)
    PROVE  DoneInv' /\ Contract!Accept(b)
<1>0. TypeOK /\ BatchRowInv /\ DoneInv
    BY DEF ContractInv, SafeInv, TypeInv
<1>1. dbBatch[b] = "NONE" /\ live' = live \cup {b}
    BY DEF SubmitBatch, SubmitEmptyBatch, Admits
<1>2. b \notin live /\ b \notin finalized
    BY <1>0, <1>1 DEF BatchRowInv, TypeOK, Terminal
<1>3. UNCHANGED <<completion, result, cancelled>>
    BY DEF SubmitBatch, SubmitEmptyBatch, taskVars
<1>4. DoneInv' /\ UNCHANGED <<contractOutcome, cancelled>> /\ contractStage[b] = "absent"
    BY <1>0, <1>2, <1>3 DEF DoneInv, contractOutcome, contractStage
<1>5. \/ /\ UNCHANGED <<finalized, status>> /\ dbBatch' = [dbBatch EXCEPT ![b] = "RUNNING"]
      \/ /\ TasksOf(b) = {} /\ finalized' = finalized \cup {b}
         /\ status' = [status EXCEPT ![b] = "COMPLETED"]
         /\ dbBatch' = [dbBatch EXCEPT ![b] = "COMPLETED"]
    BY DEF SubmitBatch, SubmitEmptyBatch
<1>6. CASE /\ UNCHANGED <<finalized, status>> /\ dbBatch' = [dbBatch EXCEPT ![b] = "RUNNING"]
    <2>1. contractStage' = [contractStage EXCEPT ![b] = "running"]
        BY <1>1, <1>2, <1>6 DEF contractStage
    <2> QED BY <1>1, <1>4, <1>6, <2>1 DEF Contract!Accept
<1>7. CASE /\ TasksOf(b) = {} /\ finalized' = finalized \cup {b}
           /\ status' = [status EXCEPT ![b] = "COMPLETED"]
           /\ dbBatch' = [dbBatch EXCEPT ![b] = "COMPLETED"]
    <2>1. contractStage' = [contractStage EXCEPT ![b] = "COMPLETED"]
        <3>1. \A c \in Batches : contractStage'[c] = IF c = b THEN "COMPLETED" ELSE contractStage[c]
            BY <1>0, <1>1, <1>2, <1>7 DEF contractStage, TypeOK
        <3> QED BY <3>1 DEF contractStage
    <2>2. Contract!TasksOf(b) = {}
        BY <1>7 DEF Contract!TasksOf, TasksOf
    <2> QED BY <1>1, <1>4, <1>7, <2>1, <2>2 DEF Contract!Accept
<1> QED BY <1>5, <1>6, <1>7

\* A process that is not there knows no batch.
Gone == live = {} /\ \A t \in Tasks : completion[t] # "done"

LEMMA StopStops ==
    ASSUME Gone', cancelled' = {}, UNCHANGED dbBatch \/ Recover
    PROVE  DoneInv' /\ Contract!Stop
<1>1. contractStage' = [b \in Batches |-> "absent"] /\ contractOutcome' = [t \in Tasks |-> "open"]
    BY DEF Gone, contractStage, contractOutcome
<1> QED BY <1>1 DEF Gone, DoneInv, Contract!Stop, Recover

LEMMA ProcessStops ==
    ASSUME ContractInv, BeginShutdown \/ ShutdownEnds \/ Crash \/ Restart
    PROVE  DoneInv' /\ (Contract!Stop \/ UNCHANGED Contract!vars)
<1>1. CASE BeginShutdown
    BY <1>1, SilentStutters DEF BeginShutdown, Silent, taskVars, dbVars
<1>2. CASE ShutdownEnds
    BY <1>2, StopStops DEF ShutdownEnds, Forget, Gone
<1>3. CASE Crash
    BY <1>3, StopStops DEF Crash, Forget, Gone, dbVars
<1>4. CASE Restart
    <2>1. live = {} /\ cancelled = {} /\ \A t \in Tasks : completion[t] # "done"
        BY <1>4, BatchesAssumption
        DEF ContractInv, SafeInv, BatchRowInv, CoroutineInv, TypeInv, TypeOK, Restart
    <2> QED BY <1>4, <2>1, StopStops DEF Restart, Gone, batchVars, taskVars
<1> QED BY <1>1, <1>2, <1>3, <1>4

LEMMA SilentSteps ==
    ASSUME NEW t \in Tasks, RunWorker(t) \/ DeleteTask(t) \/ DeletePurges(t)
    PROVE  Silent
BY DEF RunWorker, WorkerPicked, WorkerStarts, WorkerPromotes, WorkerReturns, WorkerRaises,
       workerFrame, batchVars, DeleteTask, DeletePurges, deleteFrame, persistVars, dbVars, Silent

LEMMA ServeDelete ==
    ASSUME SafeInv, NEW t \in Tasks, DeleteSettles(t)
    PROVE  Serves(BatchOf[t])
BY CompleteTaskOf, CompleteTaskSound DEF SafeInv, DeleteSettles, deleteFrame, Serves, Terminal

LEMMA ContractInit == Init => ContractInv /\ Contract!Init
<1> SUFFICES ASSUME Init PROVE ContractInv /\ Contract!Init
    OBVIOUS
<1>1. ContractInv
    BY SafeInit DEF Init, ContractInv, DoneInv
<1>2. Contract!Init
    BY DEF Init, Contract!Init, contractStage, contractOutcome
<1> QED BY <1>1, <1>2

LEMMA ContractNext ==
    ContractInv /\ [Next]_vars => ContractInv' /\ [Contract!Next]_(Contract!vars)
<1> SUFFICES ASSUME ContractInv, [Next]_vars
             PROVE  ContractInv' /\ [Contract!Next]_(Contract!vars)
    OBVIOUS
<1>0. SafeInv' /\ TypeOK'
    BY SafeNext DEF ContractInv, SafeInv, TypeInv
<1>1. CASE UNCHANGED vars
    BY <1>0, <1>1, SilentStutters DEF vars, batchVars, taskVars, dbVars, Silent, ContractInv
<1>2. ASSUME Silent \/ \E b \in Batches : Serves(b)
      PROVE  DoneInv' /\ [Contract!Next]_(Contract!vars)
    BY <1>0, <1>2, SilentStutters, ServesAdvances DEF Contract!Next
<1>3. CASE Next
    <2>1. ASSUME NEW b \in Batches,
                 \/ SubmitBatch(b) \/ SubmitEmptyBatch(b)
                 \/ CancelBatch(b) \/ CancelReturns(b) \/ RetryTick(b)
                 \/ ShutdownCancels(b) \/ ShutdownFlushes(b)
          PROVE  DoneInv' /\ [Contract!Next]_(Contract!vars)
        <3>1. CASE SubmitBatch(b) \/ SubmitEmptyBatch(b)
            BY <3>1, SubmitAccepts DEF Contract!Next
        <3>2. CASE \/ CancelBatch(b) \/ CancelReturns(b) \/ RetryTick(b)
                   \/ ShutdownCancels(b) \/ ShutdownFlushes(b)
            BY <1>2, <3>2, ServeBatchCalls DEF ContractInv
        <3> QED BY <2>1, <3>1, <3>2
    <2>2. ASSUME NEW t \in Tasks,
                 RunTask(t) \/ RunWorker(t) \/ DeleteTask(t) \/ DeleteSettles(t) \/ DeletePurges(t)
          PROVE  DoneInv' /\ [Contract!Next]_(Contract!vars)
        <3>1. BatchOf[t] \in Batches
            BY BatchesAssumption
        <3> QED BY <1>2, <2>2, <3>1, ServeRunTask, ServeDelete, SilentSteps DEF ContractInv
    <2>3. ASSUME BeginShutdown \/ ShutdownEnds \/ Crash \/ Restart
          PROVE  DoneInv' /\ [Contract!Next]_(Contract!vars)
        BY <2>3, ProcessStops DEF Contract!Next
    <2>4. DoneInv' /\ [Contract!Next]_(Contract!vars)
        <3>1. CASE \E b \in Batches :
                    \/ SubmitBatch(b) \/ SubmitEmptyBatch(b)
                    \/ CancelBatch(b) \/ CancelReturns(b) \/ RetryTick(b)
                    \/ ShutdownCancels(b) \/ ShutdownFlushes(b)
            BY <2>1, <3>1, Zenon
        <3>2. CASE \E t \in Tasks :
                    RunTask(t) \/ RunWorker(t) \/ DeleteTask(t) \/ DeleteSettles(t) \/ DeletePurges(t)
            BY <2>2, <3>2, Zenon
        <3> QED BY <1>3, <2>3, <3>1, <3>2 DEF Next
    <2> QED BY <1>0, <2>4 DEF ContractInv
<1> QED BY <1>0, <1>1, <1>3

\* The scheduler, with its coroutines, threads, retries, crashes and restarts,
\* implements the contract a client of a batch sees: every step settles open tasks
\* of one running batch, closes it with the join of their outcomes, accepts a
\* batch, ends the process, or changes nothing the client can see.
THEOREM ContractHolds == Spec => ImplementsContract
<1>1. ContractInv /\ [Next]_vars => ContractInv' /\ [Contract!Next]_(Contract!vars)
    BY ContractNext
<1>2. Init => ContractInv /\ Contract!Init
    BY ContractInit
<1> QED BY <1>1, <1>2, PTL DEF Spec, ImplementsContract, Contract!Spec

-----------------------------------------------------------------------------
\* Nothing but an uncancelled task is handed to the executor.
LEMMA OnlyUncancelledQueue ==
    ASSUME SafeInv, Next, NEW t \in Tasks, BatchOf[t] \in cancelled, worker'[t] = "queued"
    PROVE  worker[t] = "queued"
<1>0. TypeOK /\ \A u \in Tasks : pc[u] = "created" /\ BatchOf[u] \in cancelled => u \in cancelReq
    BY DEF SafeInv, TypeInv, CoroutineInv
<1>1. ASSUME NEW u \in Tasks, SubmitWorker(u), BatchOf[u] \notin cancelled
      PROVE  worker[t] = "queued"
    BY <1>0, <1>1 DEF SubmitWorker, TypeOK
<1>2. ASSUME NEW u \in Tasks, RunTask(u) PROVE worker[t] = "queued"
    BY <1>0, <1>1, <1>2
    DEF RunTask, NeverStarts, AwaitSlot, StartAtOnce, StartFails, FactoryRaises, Resume,
        ResumeCancelled, CancelledAwaitingSlot, WorkerDone, CancelledAwaitingWorker, Drained,
        PrestartCompletes
<1>3. ASSUME NEW u \in Tasks, RunWorker(u) PROVE worker[t] = "queued"
    BY <1>0, <1>3
    DEF RunWorker, WorkerPicked, WorkerStarts, WorkerPromotes, WorkerReturns, WorkerRaises, TypeOK
<1>4. ASSUME NEW u \in Tasks, DeleteTask(u) \/ DeleteSettles(u) \/ DeletePurges(u)
      PROVE  worker[t] = "queued"
    BY <1>0, <1>4 DEF DeleteTask, DeleteSettles, DeletePurges, TypeOK
<1>5. ASSUME NEW b \in Batches,
             \/ SubmitBatch(b) \/ SubmitEmptyBatch(b)
             \/ CancelBatch(b) \/ CancelReturns(b) \/ RetryTick(b)
             \/ ShutdownCancels(b) \/ ShutdownFlushes(b)
      PROVE  worker[t] = "queued"
    BY <1>5
    DEF SubmitBatch, SubmitEmptyBatch, taskVars, CancelBatch, CancelCall, CancelReturns, RetryTick,
        ShutdownCancels, ShutdownFlushes, cancelFrame
<1>6. CASE BeginShutdown \/ ShutdownEnds \/ Crash \/ Restart
    BY <1>6 DEF BeginShutdown, ShutdownEnds, Crash, Restart, Forget, taskVars
<1> QED BY <1>2, <1>3, <1>4, <1>5, <1>6 DEF Next

\* Neither is another outcome than CANCELLED recorded for a cancelled batch.
LEMMA CancelledOutcomes ==
    ASSUME SafeInv, Next, NEW t \in Tasks, BatchOf[t] \in cancelled,
           completion[t] # "done", completion'[t] = "done"
    PROVE  result'[t] = "CANCELLED"
<1>1. ASSUME NEW b, Serves(b) PROVE result'[t] = "CANCELLED"
    BY <1>1 DEF Serves, PersistSound
<1>2. ~Silent
    BY DEF Silent
<1>3. ASSUME NEW u \in Tasks,
             RunTask(u) \/ RunWorker(u) \/ DeleteTask(u) \/ DeleteSettles(u) \/ DeletePurges(u)
      PROVE  result'[t] = "CANCELLED"
    BY <1>1, <1>2, <1>3, ServeRunTask, ServeDelete, SilentSteps
<1>4. ASSUME NEW b \in Batches,
             \/ CancelBatch(b) \/ CancelReturns(b) \/ RetryTick(b)
             \/ ShutdownCancels(b) \/ ShutdownFlushes(b)
      PROVE  result'[t] = "CANCELLED"
    BY <1>1, <1>2, <1>4, ServeBatchCalls
<1>5. ASSUME NEW b \in Batches, SubmitBatch(b) \/ SubmitEmptyBatch(b) PROVE FALSE
    BY <1>5 DEF SubmitBatch, SubmitEmptyBatch, taskVars
<1>6. CASE BeginShutdown \/ ShutdownEnds \/ Crash \/ Restart
    BY <1>6 DEF BeginShutdown, ShutdownEnds, Crash, Restart, Forget, taskVars
<1> QED BY <1>3, <1>4, <1>5, <1>6 DEF Next

\* Once the cancellation of a batch is accepted, no task of it is handed to the
\* executor and none records another outcome than CANCELLED, whatever was in
\* flight: a granted slot, a parsing worker, a completion waiting to be written.
THEOREM CancellationHolds == Spec => CancelIsObeyed
<1> DEFINE A == \A t \in Tasks : BatchOf[t] \in cancelled =>
        /\ worker'[t] = "queued" => worker[t] = "queued"
        /\ completion[t] # "done" /\ completion'[t] = "done" => result'[t] = "CANCELLED"
<1>1. SafeInv /\ [Next]_vars => [A]_vars
    BY OnlyUncancelledQueue, CancelledOutcomes
<1> QED BY <1>1, SafeInvariant, PTL DEF Spec, CancelIsObeyed
=============================================================================
