------------------------------- MODULE OcrFiles -------------------------------
(***************************************************************************)
(* The files of the OCR workbench: the migration of old batch files        *)
(* (LegacyMigration), the cache of rendered pages (PageCache) and the      *)
(* locks of a state root (OcrLocks).  They share no file, so that each     *)
(* runs by itself; what they promise is put together here.                 *)
(***************************************************************************)
EXTENDS LegacyMigration

CONSTANTS
    Clients, Books, Pages, Dead, None, Limit(_), MaxCache, MaxReservations, JobSlots, SlotOf(_),
    Procs, Callers, ProcOf(_),
    MaxDeaths           \* bound: clients of the cache, and processes with locks, that stop

VARIABLES
    disk, valid, committed, held, lock, slot, index, job, client,
    root, file, workerFile, turn, mutex, registered, open, through, thread,
    deaths

cacheVars == <<disk, valid, committed, held, lock, slot, index, job, client, deaths>>
lockVars == <<root, file, workerFile, turn, mutex, registered, open, through, thread, deaths>>

C == INSTANCE PageCache WITH MaxCrashes <- MaxDeaths, crashes <- deaths, pc <- client
L == INSTANCE OcrLocks WITH MaxCrashes <- MaxDeaths, crashes <- deaths, pc <- thread

ASSUME FilesAssumption ==
    /\ C!PageCacheAssumption
    /\ L!LocksAssumption
    /\ KindsAssumption /\ BoundsAssumption /\ EditsAssumption

-----------------------------------------------------------------------------
(* Promises *)

\* What a client of the cache works with stays until it has done with it, whatever the
\* others reserve, recover and evict (_recover_reservations_locked and
\* _try_candidate_lock, page_cache.py:583 and 1072).
UsedIsKept == C!UsedIsKept

\* A reservation in the cache is refused only when there is no other way
\* (_reserve_capacity, page_cache.py:819).
RefusedForAReason == C!RefusedForAReason

\* One publication at a time is inside the transaction, also when a claim is
\* released while a caller publishes through its descriptor
\* (_publication_transaction_lock, workflow.py:2527; _OcrWorkerClaim.release, 378).
OnePublication == L!OnePublication
=============================================================================
