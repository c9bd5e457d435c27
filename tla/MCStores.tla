------------------------------ MODULE MCStores ------------------------------
(***************************************************************************)
(* Stores for TLC: the part that runs is chosen at the start, and the      *)
(* other one stands still.  Two requests on two topics; two processes on   *)
(* two tasks.                                                              *)
(***************************************************************************)
EXTENDS Stores, TLC

CONSTANTS r1, r2, d1, d2, d3, p1, p2, t1, t2

VARIABLE part

Symmetry == Permutations({r1, r2}) \cup Permutations(Procs) \cup Permutations(Tasks)

EitherInit ==
    /\ part \in {"topics", "tasks"} /\ Init /\ K!Init
    /\ part = "topics" => store = "service"
EitherNext ==
    \/ part = "topics" /\ Next /\ UNCHANGED <<part, taskVars>>
    \/ part = "tasks" /\ K!Next /\ UNCHANGED <<part, vars>>
EitherSpec == EitherInit /\ [][EitherNext]_<<part, vars, taskVars>>
=============================================================================
