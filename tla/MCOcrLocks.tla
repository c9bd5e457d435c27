---------------------------- MODULE MCOcrLocks ----------------------------
(* Instances of OcrLocks for TLC. *)
EXTENDS OcrLocks, TLC
CONSTANTS p1, p2, c1, c2

\* One caller in each process.
Process(t) == IF t = c1 THEN p1 ELSE p2
=============================================================================
