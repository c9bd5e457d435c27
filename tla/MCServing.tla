----------------------------- MODULE MCServing -----------------------------
(***************************************************************************)
(* Serving for TLC: the part that runs is chosen at the start, and the     *)
(* other one stands still.                                                 *)
(***************************************************************************)
EXTENDS Serving

CONSTANTS b1, b2, b3, b4, c1, c2, c3

VARIABLE part

\* The clients follow b1; b2 competes with it for the history.
AllFollowFirst == [c \in Clients |-> b1]
Interchangeable == Permutations(Clients)

\* Three levels, the middle one with two batches, and enough files for a level
\* to wait as long as it may.
ThreeLevels == [b \in Queued |-> CASE b = b1 -> 2 [] b = b4 -> 0 [] OTHER -> 1]
LongQueues == b1 :> 7 @@ b2 :> 2 @@ b3 :> 1 @@ b4 :> 2
TwoEach == [b \in Queued |-> 2]

EitherInit == part \in {"events", "dispatch"} /\ Init /\ Q!Init
EitherNext ==
    \/ part = "events" /\ Next /\ UNCHANGED <<part, queueVars>>
    \/ part = "dispatch" /\ Q!Next /\ UNCHANGED <<part, vars>>
EitherSpec == EitherInit /\ [][EitherNext]_<<part, vars, queueVars>>
=============================================================================
