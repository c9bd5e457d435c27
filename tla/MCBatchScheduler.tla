-------------------------- MODULE MCBatchScheduler --------------------------
(* Instances of BatchScheduler for TLC. *)
EXTENDS BatchScheduler, TLC

CONSTANTS b1, b2, t1, t2

\* b1 has two files; b2 is an empty batch.
PairBatchOf == t1 :> b1 @@ t2 :> b1

OneEach == [b \in Batches |-> 1]
=============================================================================
