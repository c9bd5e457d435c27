----------------------------- MODULE OcrLocks -----------------------------
(***************************************************************************)
(* The locks of an OCR state root (workbench/ocr/workflow.py).             *)
(*                                                                         *)
(* A publication holds the root's directory exclusively and then the file  *)
(* .note-publication.lock; a worker holds the file .ocr-worker.lock and    *)
(* the directory shared for as long as it runs, and its process publishes  *)
(* through the worker's descriptor of the directory.  flock belongs to the *)
(* open file description and is not upgraded atomically: the lock that is  *)
(* held goes before the one that is asked for is waited for.  Within a     *)
(* process a thread lock admits one publication and one worker at a time.  *)
(*                                                                         *)
(* Each call of flock is a step.  The number of a closed descriptor is     *)
(* taken as never used again.                                              *)
(***************************************************************************)
EXTENDS Naturals, FiniteSets

CONSTANTS
    Procs, None,
    Callers,        \* threads that answer requests
    ProcOf(_),      \* their process
    MaxCrashes      \* bound of the model: processes that stop

\* The worker of a process, and the claim that it holds, go by its name.
Threads == Procs \cup Callers
Home(t) == IF t \in Procs THEN t ELSE ProcOf(t)

LocksAssumption ==
    /\ None \notin Threads /\ Procs \cap Callers = {} /\ MaxCrashes \in Nat
    /\ \A t \in Callers : ProcOf(t) \in Procs

VARIABLES
    root,       \* root[d]: what the description d holds of the directory; that of
                \* a claim, or the one that a caller opens for itself
    file,       \* who holds the publication file
    workerFile, \* whose claim holds the worker file
    turn,       \* turn[p]: the thread with the publication RLock of p
    mutex,      \* mutex[p]: the worker lock of p is taken
    registered, \* _ACTIVE_OCR_WORKER_CLAIMS of p holds a claim
    open,       \* open[p]: the descriptors of the claim are open
    through,    \* through[t]: the description that t publishes through
    pc, crashes

vars == <<root, file, workerFile, turn, mutex, registered, open, through, pc, crashes>>

ClaimSteps == {"claim root", "claim file", "share root", "claimed"}
PublicationSteps ==
    {"turn", "look", "ask root", "wait root", "ask file", "held", "give root",
     "wait share", "failed"}
ReleaseSteps == {"unregister", "close file", "close root"}

TypeOK ==
    /\ root \in [Threads -> {"none", "shared", "exclusive"}]
    /\ file \in Threads \cup {None} /\ workerFile \in Procs \cup {None}
    /\ turn \in [Procs -> Threads \cup {None}] /\ mutex \in [Procs -> BOOLEAN]
    /\ registered \in [Procs -> BOOLEAN] /\ open \in [Procs -> BOOLEAN]
    /\ through \in [Threads -> Threads \cup {None}]
    /\ pc \in [Threads -> {"idle"} \cup ClaimSteps \cup PublicationSteps \cup ReleaseSteps]
    /\ crashes \in 0..MaxCrashes

Init ==
    /\ root = [d \in Threads |-> "none"] /\ file = None /\ workerFile = None
    /\ turn = [p \in Procs |-> None] /\ mutex = [p \in Procs |-> FALSE]
    /\ registered = [p \in Procs |-> FALSE] /\ open = [p \in Procs |-> FALSE]
    /\ through = [t \in Threads |-> None] /\ pc = [t \in Threads |-> "idle"]
    /\ crashes = 0

Go(t, where) == pc' = [pc EXCEPT ![t] = where]
Root(d, mode) == root' = [root EXCEPT ![d] = mode]

\* What flock grants to the description d beside the others.
MayHave(d, mode) ==
    \A e \in Threads \ {d} :
        root[e] = "none" \/ (mode = "shared" /\ root[e] = "shared")

-----------------------------------------------------------------------------
(* The claim of a worker: _try_claim_ocr_worker and release *)

ClaimMutex(p) ==
    /\ pc[p] = "idle" /\ ~mutex[p]
    /\ mutex' = [mutex EXCEPT ![p] = TRUE] /\ Go(p, "claim root")
    /\ UNCHANGED <<root, file, workerFile, turn, registered, open, through, crashes>>

\* Nothing is waited for: what is taken already is given up.
GiveUp(p) ==
    /\ mutex' = [mutex EXCEPT ![p] = FALSE] /\ Root(p, "none") /\ Go(p, "idle")

ClaimRoot(p) ==
    /\ pc[p] = "claim root"
    /\ IF MayHave(p, "exclusive")
       THEN Root(p, "exclusive") /\ Go(p, "claim file") /\ mutex' = mutex
       ELSE GiveUp(p)
    /\ UNCHANGED <<file, workerFile, turn, registered, open, through, crashes>>

WorkerFileFree == workerFile = None

\* The worker file, whose token may be refused.
ClaimFile(p) ==
    /\ pc[p] = "claim file"
    /\ \/ WorkerFileFree /\ workerFile' = p /\ Go(p, "share root")
          /\ Root(p, "none") /\ mutex' = mutex
       \/ GiveUp(p) /\ workerFile' = workerFile
    /\ UNCHANGED <<file, turn, registered, open, through, crashes>>

\* The directory is shared again, and the claim is there for publications to find.
ClaimShare(p) ==
    /\ pc[p] = "share root" /\ MayHave(p, "shared")
    /\ Root(p, "shared") /\ Go(p, "claimed")
    /\ registered' = [registered EXCEPT ![p] = TRUE] /\ open' = [open EXCEPT ![p] = TRUE]
    /\ UNCHANGED <<file, workerFile, turn, mutex, through, crashes>>

\* The batch is over.
EndWork(p) ==
    /\ pc[p] = "claimed" /\ Go(p, "unregister")
    /\ UNCHANGED <<root, file, workerFile, turn, mutex, registered, open, through, crashes>>

Unregister(p) ==
    /\ pc[p] = "unregister" /\ Go(p, "close file")
    /\ registered' = [registered EXCEPT ![p] = FALSE]
    /\ open' = [open EXCEPT ![p] = FALSE]
    /\ UNCHANGED <<root, file, workerFile, turn, mutex, through, crashes>>

ReleaseFile(p) ==
    /\ pc[p] = "close file" /\ Go(p, "close root") /\ workerFile' = None
    /\ UNCHANGED <<root, file, turn, mutex, registered, open, through, crashes>>

\* Whoever publishes through the descriptor loses the directory.
ReleaseRoot(p) ==
    /\ pc[p] = "close root" /\ GiveUp(p)
    /\ UNCHANGED <<file, workerFile, turn, registered, open, through, crashes>>

-----------------------------------------------------------------------------
(* A publication: _publication_transaction_lock *)

MayPublish(t) == pc[t] = IF t \in Procs THEN "claimed" ELSE "idle"

Begin(t) ==
    /\ MayPublish(t) /\ Go(t, "turn")
    /\ UNCHANGED <<root, file, workerFile, turn, mutex, registered, open, through, crashes>>

TakeTurn(t) ==
    /\ pc[t] = "turn" /\ turn[Home(t)] = None
    /\ turn' = [turn EXCEPT ![Home(t)] = t] /\ Go(t, "look")
    /\ UNCHANGED <<root, file, workerFile, mutex, registered, open, through, crashes>>

\* _active_ocr_worker_claim: the descriptor of the claim, or one of its own.
Look(t) ==
    /\ pc[t] = "look" /\ Go(t, "ask root")
    /\ through' = [through EXCEPT ![t] = IF registered[Home(t)] THEN Home(t) ELSE t]
    /\ UNCHANGED <<root, file, workerFile, turn, mutex, registered, open, crashes>>

Borrowed(t) == through[t] \in Procs
Closed(t) == Borrowed(t) /\ ~open[through[t]]

\* The directory is asked for: the lock that the description has goes first.
AskRoot(t) ==
    /\ pc[t] = "ask root"
    /\ IF Closed(t) THEN Go(t, "failed") /\ root' = root
       ELSE Root(through[t], "none") /\ Go(t, "wait root")
    /\ UNCHANGED <<file, workerFile, turn, mutex, registered, open, through, crashes>>

GetRoot(t) ==
    /\ pc[t] = "wait root"
    /\ IF Closed(t) THEN Go(t, "failed") /\ root' = root
       ELSE /\ MayHave(through[t], "exclusive")
            /\ Root(through[t], "exclusive") /\ Go(t, "ask file")
    /\ UNCHANGED <<file, workerFile, turn, mutex, registered, open, through, crashes>>

\* A mutant of FileFree: the directory is taken to be enough.
FileNotAsked == TRUE

FileFree == file = None

\* The file was replaced, or its token cannot be read or written.
LockRefused(t) == file' = file /\ Go(t, "failed")

\* The publication file and its token.
GetFile(t) ==
    /\ pc[t] = "ask file" /\ FileFree
    /\ \/ ~Closed(t) /\ file' = t /\ Go(t, "held")
       \/ LockRefused(t)
    /\ UNCHANGED <<root, workerFile, turn, mutex, registered, open, through, crashes>>

\* _cleanup_publication_lock_resources: the file, then the directory, of which a
\* borrowed descriptor keeps a share.
Leave(t) ==
    /\ pc[t] = "held" /\ file' = None /\ Go(t, "give root")
    /\ UNCHANGED <<root, workerFile, turn, mutex, registered, open, through, crashes>>

Done(t) ==
    /\ turn' = [turn EXCEPT ![Home(t)] = None]
    /\ through' = [through EXCEPT ![t] = None]
    /\ Go(t, IF t \in Procs THEN "claimed" ELSE "idle")

Given(t) == Root(through[t], "none")

GiveRoot(t) ==
    /\ pc[t] \in {"give root", "failed"}
    /\ IF Borrowed(t) /\ ~Closed(t)
       THEN Root(through[t], "none") /\ Go(t, "wait share") /\ UNCHANGED <<turn, through>>
       ELSE IF Closed(t) THEN root' = root /\ Done(t)
       ELSE Given(t) /\ Done(t)
    /\ UNCHANGED <<file, workerFile, mutex, registered, open, crashes>>

GetShare(t) ==
    /\ pc[t] = "wait share" /\ Done(t)
    /\ IF Closed(t) THEN root' = root
       ELSE MayHave(through[t], "shared") /\ Root(through[t], "shared")
    /\ UNCHANGED <<file, workerFile, mutex, registered, open, crashes>>

\* The process stops; the kernel drops its locks.
Crash(p) ==
    /\ crashes < MaxCrashes /\ crashes' = crashes + 1
    /\ LET gone == {t \in Threads : Home(t) = p} IN
       /\ \E t \in gone : pc[t] # "idle"
       /\ root' = [d \in Threads |-> IF d \in gone THEN "none" ELSE root[d]]
       /\ file' = IF file \in gone THEN None ELSE file
       /\ workerFile' = IF workerFile = p THEN None ELSE workerFile
       /\ pc' = [t \in Threads |-> IF t \in gone THEN "idle" ELSE pc[t]]
       /\ through' = [t \in Threads |-> IF t \in gone THEN None ELSE through[t]]
    /\ turn' = [turn EXCEPT ![p] = None] /\ mutex' = [mutex EXCEPT ![p] = FALSE]
    /\ registered' = [registered EXCEPT ![p] = FALSE] /\ open' = [open EXCEPT ![p] = FALSE]

Claims(p) ==
    \/ ClaimMutex(p) \/ ClaimRoot(p) \/ ClaimFile(p) \/ ClaimShare(p)

Releases(p) == EndWork(p) \/ Unregister(p) \/ ReleaseFile(p) \/ ReleaseRoot(p)

Publishes(t) ==
    \/ TakeTurn(t) \/ Look(t) \/ AskRoot(t) \/ GetRoot(t) \/ GetFile(t) \/ Leave(t)
    \/ GiveRoot(t) \/ GetShare(t)

Next ==
    \/ \E p \in Procs : Claims(p) \/ Releases(p) \/ Crash(p)
    \/ \E t \in Threads : Begin(t) \/ Publishes(t)

Spec == Init /\ [][Next]_vars

\* Threads run, waiting ones are served.
FairSpec ==
    /\ Spec
    /\ \A p \in Procs : WF_vars(ClaimShare(p)) /\ SF_vars(EndWork(p)) /\ WF_vars(Releases(p))
    /\ \A t \in Threads : SF_vars(Publishes(t))

-----------------------------------------------------------------------------
(* Properties *)

\* One publication at a time is inside the transaction, also when a claim is released
\* while a caller publishes through its descriptor and so loses the directory
\* (_publication_transaction_lock:2527, _OcrWorkerClaim.release:378).
OnePublication == \A t, u \in Threads : pc[t] = "held" /\ pc[u] = "held" => t = u

\* What the acceptance list expects of a cancelled run: it ends.
ClaimEnds == \A p \in Procs : pc[p] = "claimed" ~> pc[p] = "idle"

\* What the comment on the leases promises (workflow.py:355-357): a publication keeps
\* the directory. It does NOT hold: a worker that ends closes the descriptor.
LeaseIsHeld == \A t \in Threads : pc[t] = "held" => root[through[t]] = "exclusive"
=============================================================================
