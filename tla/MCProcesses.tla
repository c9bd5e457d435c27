---------------------------- MODULE MCProcesses ----------------------------
(***************************************************************************)
(* Processes for TLC: the part that runs is chosen at the start, and the   *)
(* other one stands still.  Two commands of the window, the health loop    *)
(* and the cleanup threads over a handful of starts; a service with two    *)
(* workers.                                                                *)
(***************************************************************************)
EXTENDS Processes

VARIABLE part

everyVar == <<part, vars, keeperVars>>
Shell(A) == part = "shell" /\ A /\ UNCHANGED <<part, keeperVars>>
Keepers(A) == part = "keepers" /\ A /\ UNCHANGED <<part, vars>>

EitherInit == part \in {"shell", "keepers"} /\ Init /\ K!Init
EitherNext == Shell(Next) \/ Keepers(K!Next)

\* The fairness of the two specifications, each for its own part.  The shell's and
\* the supervisor's are one condition: a behaviour has only one of the parts.
EitherSpec ==
    /\ EitherInit /\ [][EitherNext]_everyVar
    /\ WF_everyVar(Shell(Progress) \/ Keepers(K!Supervisor \/ K!NotReady))
    /\ WF_everyVar(Keepers(K!Watchdog))
    /\ WF_everyVar(Keepers(K!PassGate))

\* A wanted service comes to run or is told as failed, as long as no cleanup thread
\* has taken the child of a later start (sidecar.rs:1258-1556, 2249-2300).
ShellSettles == (part = "shell" /\ InBetween /\ ~struck) ~> (~InBetween \/ struck)

\* When the shell, the supervisor or the watchdog ends, the whole service comes
\* to its end, unless a keeper is killed at a time when the other does not run
\* either, a clean-up runs out of time or work is handed on behind two scans
\* (lifecycle.py:735-876, 937-1109, 1233-1473).
NothingOutlivesTheShell == K!NothingOutlivesTheShell
=============================================================================
