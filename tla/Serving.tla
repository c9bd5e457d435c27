------------------------------ MODULE Serving ------------------------------
(***************************************************************************)
(* Two parts of the scheduler that share nothing but its batches: the      *)
(* event streams (EventStream) and the choice of the request that gets a   *)
(* free slot (DispatchPolicy).  What they promise is put together here.    *)
(***************************************************************************)
EXTENDS EventStream

CONSTANTS
    Queued,         \* the batches with requests for a slot
    NoBatch, Priority, Concurrency, MaxGlobal, Burst, Files

VARIABLES unasked, waiting, running, lastBatch, lastDeferred, streak,
          bypassed, skipped, levels, steady

queueVars ==
    <<unasked, waiting, running, lastBatch, lastDeferred, streak,
      bypassed, skipped, levels, steady>>

Q == INSTANCE DispatchPolicy WITH Batches <- Queued

ASSUME QueuesAssumption == Q!PolicyAssumption

\* While the same levels compete for the slots, each of them is served within
\* Burst selections and one deferral for each of the others
\* (_select_dispatch_request_locked).
LevelsAlternate == Q!LevelsAlternate
=============================================================================
