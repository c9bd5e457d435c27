--------------------------- MODULE BatchContract ---------------------------
(***************************************************************************)
(* What the serving layer promises to the client of one batch, with no     *)
(* coroutine, worker thread or retry loop in sight.                        *)
(*                                                                         *)
(* Every task of a running batch settles once, with one outcome.  The      *)
(* batch closes in the step that settles its last task or later, with the  *)
(* join of the outcomes, and never changes after that.  A cancelled batch  *)
(* settles nothing but CANCELLED.  A process that stops forgets what it    *)
(* held in memory; the durable row of a batch it had not closed becomes    *)
(* INTERRUPTED.                                                            *)
(***************************************************************************)
EXTENDS FiniteSets

CONSTANTS Batches, Tasks, BatchOf

VARIABLES
    stage,      \* stage[b]: what the process knows of the batch
    outcome,    \* outcome[t]: "open", or how the task settled
    cancelled,  \* the batches whose cancellation was accepted
    durable     \* durable[b]: the status in the row of table batches

vars == <<stage, outcome, cancelled, durable>>

Outcomes == {"COMPLETED", "FAILED", "CANCELLED"}

TasksOf(b) == {t \in Tasks : BatchOf[t] = b}

\* The status of a batch whose tasks all settled.
Join(b, outs, isCancelled) ==
    IF isCancelled \/ \E t \in TasksOf(b) : outs[t] = "CANCELLED" THEN "CANCELLED"
    ELSE IF \E t \in TasksOf(b) : outs[t] = "FAILED" THEN "FAILED"
    ELSE "COMPLETED"

Settled(b, outs) == \A t \in TasksOf(b) : outs[t] # "open"

Init ==
    /\ stage = [b \in Batches |-> "absent"]
    /\ outcome = [t \in Tasks |-> "open"]
    /\ cancelled = {}
    /\ durable = [b \in Batches |-> "NONE"]

\* Some open tasks of a running batch settle; the batch may close with them.
\* The client may have its cancellation accepted in the same step.
Advance(b) ==
    /\ stage[b] = "running"
    /\ cancelled' \in {cancelled, cancelled \cup {b}}
    /\ outcome' \in [Tasks -> Outcomes \cup {"open"}]
    /\ \A t \in Tasks : outcome'[t] # outcome[t] =>
          /\ BatchOf[t] = b /\ outcome[t] = "open"
          /\ b \in cancelled' => outcome'[t] = "CANCELLED"
    /\ \/ UNCHANGED <<stage, durable>>
       \/ /\ Settled(b, outcome')
          /\ stage' = [stage EXCEPT ![b] = Join(b, outcome', b \in cancelled')]
          /\ durable' = [durable EXCEPT ![b] = stage'[b]]

\* A batch with no file closes in the step that accepts it.
Accept(b) ==
    /\ stage[b] = "absent" /\ durable[b] = "NONE"
    /\ \E s \in {"running"} \cup (IF TasksOf(b) = {} THEN {"COMPLETED"} ELSE {}) :
        /\ stage' = [stage EXCEPT ![b] = s]
        /\ durable' = [durable EXCEPT ![b] = IF s = "running" THEN "RUNNING" ELSE s]
    /\ UNCHANGED <<outcome, cancelled>>

\* The process ends: its memory is gone, and now or at the next start every
\* row still RUNNING becomes INTERRUPTED.
Stop ==
    /\ stage' = [b \in Batches |-> "absent"]
    /\ outcome' = [t \in Tasks |-> "open"]
    /\ cancelled' = {}
    /\ \/ durable' = durable
       \/ durable' = [b \in Batches |->
                        IF durable[b] = "RUNNING" THEN "INTERRUPTED" ELSE durable[b]]

Next == Stop \/ \E b \in Batches : Accept(b) \/ Advance(b)

Spec == Init /\ [][Next]_vars
=============================================================================
