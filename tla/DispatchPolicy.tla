--------------------------- MODULE DispatchPolicy ---------------------------
(***************************************************************************)
(* serving/scheduler.py: which request a free dispatch slot goes to        *)
(* (_select_dispatch_request_locked, called from                           *)
(* _dispatch_available_locked).  BatchScheduler.tla leaves the choice      *)
(* open; this module models the choice and leaves out what a task does     *)
(* with its slot.                                                          *)
(*                                                                         *)
(* Requests of one batch are served in the order of their sequence         *)
(* numbers, so the waiting requests are a sequence of batches in that      *)
(* order, the oldest first.                                                *)
(***************************************************************************)
EXTENDS Integers, SequencesExt, FiniteSetsExt

CONSTANTS
    Batches,
    NoBatch,
    Priority,       \* Priority[b]: the priority the client asked for
    Concurrency,    \* Concurrency[b]: the concurrency the client asked for
    MaxGlobal,      \* max_global_concurrency
    Burst,          \* _priority_burst
    Files           \* Files[b]: how many files the batch was submitted with

PolicyAssumption ==
    /\ IsFiniteSet(Batches) /\ NoBatch \notin Batches
    /\ Priority \in [Batches -> Nat] /\ Concurrency \in [Batches -> Nat \ {0}]
    /\ MaxGlobal \in Nat \ {0} /\ Burst \in Nat \ {0}
    /\ Files \in [Batches -> Nat]

VARIABLES
    unasked,        \* unasked[b]: the tasks of b that have not taken their first step
    waiting,        \* the batches of the waiting requests, oldest request first
    running,        \* running[b]: ctx.running_tasks
    lastBatch,      \* lastBatch[p]: _last_batch_by_priority, NoBatch when absent
    lastDeferred,   \* _last_deferred_priority, -1 for None
    streak,         \* _priority_streak
    bypassed,       \* history: selections of b's level that passed over b, since
                    \* b was last selected or not eligible
    skipped,        \* history: selections that passed over level p, likewise
    levels,         \* history: the levels that competed for the last selection
    steady          \* history: the selections in a row they have competed for

history == <<bypassed, skipped, levels, steady>>
vars == <<unasked, waiting, running, lastBatch, lastDeferred, streak, history>>

Levels == {Priority[b] : b \in Batches}
Positions(q, b) == {i \in DOMAIN q : q[i] = b}
Waits(q, b) == Positions(q, b) # {}

\* _global_running
GlobalRunning(run) == SumFunction(run)

TypeOK ==
    /\ unasked \in [Batches -> Nat] /\ waiting \in Seq(Batches)
    /\ \A b \in Batches : running[b] \in 0..Concurrency[b]
    /\ lastBatch \in [Levels -> Batches \cup {NoBatch}]
    /\ \A p \in Levels : lastBatch[p] # NoBatch => Priority[lastBatch[p]] = p
    /\ lastDeferred \in Levels \cup {-1} /\ streak \in 0..Burst
    /\ bypassed \in [Batches -> Nat] /\ skipped \in [Levels -> Nat]
    /\ levels \in SUBSET Levels /\ steady \in Nat

Init ==
    /\ unasked = Files /\ waiting = <<>> /\ running = [b \in Batches |-> 0]
    /\ lastBatch = [p \in Levels |-> NoBatch] /\ lastDeferred = -1 /\ streak = 0
    /\ bypassed = [b \in Batches |-> 0] /\ skipped = [p \in Levels |-> 0]
    /\ levels = {} /\ steady = 0

-----------------------------------------------------------------------------
\* _eligible_dispatch_requests_locked, as the set of batches with such a request.
Eligible(q, run) == {b \in Batches : Waits(q, b) /\ run[b] < Concurrency[b]}

LevelsOf(E) == {Priority[b] : b \in E}

\* Mutant: the streak is never broken off.
NeverDefers(E) == FALSE

\* Whether this selection goes to a lower level.
Defers(E) == Cardinality(LevelsOf(E)) > 1 /\ streak >= Burst

\* The next of the levels D, given from the highest down, after the level that
\* was deferred to last; the first of them if that one is not among them.
NextDeferred(D) ==
    LET after == {p \in D : p < lastDeferred}
    IN IF lastDeferred \in D /\ after # {} THEN Max(after) ELSE Max(D)

SelectedLevel(E) ==
    LET top == Max(LevelsOf(E))
    IN IF Defers(E) THEN NextDeferred(LevelsOf(E) \ {top}) ELSE top

\* Among the batches of the level, by their oldest waiting request: the one
\* after the batch selected last; the first if that one has no eligible request.
SelectedBatch(q, E) ==
    LET p == SelectedLevel(E)
        first(b) == Min(Positions(q, b))
        firsts == {first(b) : b \in {c \in E : Priority[c] = p}}
        after == {i \in firsts : lastBatch[p] \in E /\ i > first(lastBatch[p])}
    IN q[IF after # {} THEN Min(after) ELSE Min(firsts)]

\* _dispatch_available_locked on the waiting requests q and the counters run.
\* An arrival or a release makes at most one request dispatchable (see
\* WorkConserving), so one turn of its loop is enough.
Dispatch(q, run) ==
    LET E == Eligible(q, run)
        b == SelectedBatch(q, E)
    IN IF GlobalRunning(run) < MaxGlobal /\ E # {}
       THEN /\ waiting' = RemoveAt(q, Min(Positions(q, b)))
            /\ running' = [run EXCEPT ![b] = @ + 1]
            /\ lastBatch' = [lastBatch EXCEPT ![Priority[b]] = b]
            /\ lastDeferred' = IF Defers(E) THEN Priority[b] ELSE lastDeferred
            /\ streak' = IF Defers(E) \/ Cardinality(LevelsOf(E)) = 1 THEN 0 ELSE streak + 1
            /\ bypassed' = [c \in Batches |->
                    IF c = b \/ c \notin E THEN 0
                    ELSE IF Priority[c] = Priority[b] THEN bypassed[c] + 1 ELSE bypassed[c]]
            /\ skipped' = [p \in Levels |->
                    IF p = Priority[b] \/ p \notin LevelsOf(E) THEN 0 ELSE skipped[p] + 1]
            /\ levels' = LevelsOf(E)
            /\ steady' = IF levels = LevelsOf(E) THEN steady + 1 ELSE 1
       ELSE /\ waiting' = q /\ running' = run
            /\ UNCHANGED <<lastBatch, lastDeferred, streak, history>>

-----------------------------------------------------------------------------
\* The first step of a task of b: _wait_for_dispatch registers its request.  The
\* tasks of a batch are created together and take their first steps in a row.
Arrive(b) ==
    /\ unasked[b] > 0
    /\ \A c \in Batches \ {b} : unasked[c] \in {0, Files[c]}
    /\ unasked' = [unasked EXCEPT ![b] = @ - 1]
    /\ Dispatch(Append(waiting, b), running)

\* _release_dispatch_request by a task of b.
Finish(b) ==
    /\ running[b] > 0
    /\ Dispatch(waiting, [running EXCEPT ![b] = @ - 1])
    /\ UNCHANGED unasked

\* A request cancelled before its grant.
Withdraw(i) ==
    /\ Dispatch(RemoveAt(waiting, i), running)
    /\ UNCHANGED unasked

\* _purge_batch_state of a batch that is done.
Purge(b) ==
    /\ unasked[b] = 0 /\ ~Waits(waiting, b) /\ running[b] = 0
    /\ lastBatch[Priority[b]] = b
    /\ lastBatch' = [lastBatch EXCEPT ![Priority[b]] = NoBatch]
    /\ UNCHANGED <<unasked, waiting, running, lastDeferred, streak, history>>

Next ==
    \/ \E b \in Batches : Arrive(b) \/ Finish(b) \/ Purge(b)
    \/ \E i \in DOMAIN waiting : Withdraw(i)

Spec == Init /\ [][Next]_vars

-----------------------------------------------------------------------------
\* Batches of one priority take turns: a batch with an eligible request is
\* passed over at most once by each other batch of its level. It does NOT hold:
\* the only cursor, last_batch, is moved by the other levels too.
RoundRobin ==
    \A b \in Batches :
        bypassed[b] < Cardinality({c \in Batches : Priority[c] = Priority[b]})

\* While the same levels compete for the slots, each of them is served within
\* Burst selections and one deferral for each of the others.
LevelsAlternate ==
    LET patience == (Burst + 1) * (Cardinality(levels) - 1)
    IN Cardinality(levels) > 1 /\ steady >= patience => \A p \in levels : skipped[p] < patience

\* The same for a level that always has an eligible request, whatever the other
\* levels do.  It does NOT hold: with three levels and two slots the highest is
\* saturated when its burst is spent, and the deferral goes past the middle one,
\* which is the highest then, to the lowest.
NoLevelStarves ==
    \A p \in Levels : skipped[p] <= (Burst + 1) * (Cardinality(Levels) - 1)
=============================================================================
