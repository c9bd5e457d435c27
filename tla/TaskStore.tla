----------------------------- MODULE TaskStore -----------------------------
(***************************************************************************)
(* The documents of parsed tasks: rows in SQLite, a directory per task,    *)
(* and the lock file of a task (orchestrator.py, storage/repository.py,    *)
(* storage/fs_layout.py).  A store belongs either to the service, whose    *)
(* workers parse tasks that were registered before, copy the documents of  *)
(* a task with the same input, and delete tasks; or to the commands        *)
(* `parse`, `resume` and `purge`, each a process of its own.               *)
(*                                                                         *)
(* All inputs have the same bytes, so that a completed task answers for    *)
(* any other.  A document is one section with a picture: its text, the     *)
(* interpretation (numbered by the call of the model that wrote it) and    *)
(* the merged file, which names the interpretation it was merged from.     *)
(* A transaction of SQLite is one step.                                    *)
(***************************************************************************)
EXTENDS StorePromises, Naturals, FiniteSets

CONSTANTS
    None,
    MaxCalls,       \* bound of the model: calls of the language model
    MaxClaims,      \* bound of the model: resumes of one task
    MaxFaults       \* bound of the model: crashes and failing steps

StoreAssumption ==
    /\ None \notin Tasks \cup Procs
    /\ MaxCalls \in Nat \ {0} /\ MaxClaims \in Nat /\ MaxFaults \in Nat

VARIABLES
    sections,   \* sections[t]: rows of the section: "none", "pending" or "done"
    snapshot,   \* snapshot[t]: the copy of the input is there
    gen,        \* task_recovery.resume_generation
    staging,    \* staging[t]: a directory that is to be published as t's
    seen,       \* seen[p]: claims that a command listed when it began
    cut,        \* cut[p]: the pictures that p has open were erased
    read,       \* read[p]: the interpretation that p read with its hit
    calls, faults

rows  == <<row, sections, owner, gen>>
files == <<snapshot, dir, staging>>
place == <<op, at, hit, seen, cut, read>>
vars  == <<store, rows, files, lock, step, place, calls, faults>>

Statuses == {"WAITING", "PARSING", "SECTIONING", "LLM_RUNNING", "MERGING"}
Terminal == {"COMPLETED", "FAILED", "CANCELLED", "INTERRUPTED"}

NoDir    == [there |-> FALSE, text |-> FALSE, picture |-> FALSE, ai |-> 0, merged |-> 0]
EmptyDir == [NoDir EXCEPT !.there = TRUE]

PurgeSteps == {"quarantine", "erase", "drop"}

TypeOK ==
    /\ store \in {"service", "commands", "stopped", "marked"}
    /\ row \in [Tasks -> Statuses \cup Terminal \cup NoRow]
    /\ sections \in [Tasks -> {"none", "pending", "done"}]
    /\ snapshot \in [Tasks -> BOOLEAN]
    /\ owner \in [Tasks -> Procs \cup {None}] /\ gen \in [Tasks -> Nat]
    /\ lock \in [Tasks -> Procs \cup {None}]
    /\ \A d \in {dir, staging} :
        d \in [Tasks -> [there : BOOLEAN, text : BOOLEAN, picture : BOOLEAN,
                         ai : 0..MaxCalls, merged : 0..MaxCalls]]
    /\ op \in [Procs -> {"parse", "resume", "purge"}]
    /\ step \in [Procs -> {"idle", "lock"} \cup ParseSteps \cup ResumeSteps \cup PurgeSteps]
    /\ at \in [Procs -> Tasks \cup {None}] /\ hit \in [Procs -> Tasks \cup {None}]
    /\ cut \in [Procs -> BOOLEAN] /\ read \in [Procs -> 0..MaxCalls]
    /\ calls \in 0..MaxCalls /\ faults \in 0..MaxFaults

Init ==
    /\ store \in {"service", "commands"}
    /\ row = [t \in Tasks |-> "unborn"]
    /\ sections = [t \in Tasks |-> "none"] /\ snapshot = [t \in Tasks |-> FALSE]
    /\ owner = [t \in Tasks |-> None] /\ gen = [t \in Tasks |-> 0]
    /\ lock = [t \in Tasks |-> None]
    /\ dir = [t \in Tasks |-> NoDir] /\ staging = [t \in Tasks |-> NoDir]
    /\ op = [p \in Procs |-> "parse"] /\ step = [p \in Procs |-> "idle"]
    /\ at = [p \in Procs |-> None] /\ hit = [p \in Procs |-> None]
    /\ seen = [p \in Procs |-> {}] /\ cut = [p \in Procs |-> FALSE]
    /\ read = [p \in Procs |-> 0] /\ calls = 0 /\ faults = 0

Go(p, where) == step' = [step EXCEPT ![p] = where]
Status(t, s) == row' = [row EXCEPT ![t] = s]
Holds(p, t) == lock[t] = p

-----------------------------------------------------------------------------
(* The lock of a task, and the claims that dead commands left *)

\* A mutant of ClearStale: the lock file is not asked.
AnyClaimIsStale(p, c) ==
    /\ seen' = [seen EXCEPT ![p] = @ \ {c}]
    /\ owner' = IF owner[c.task] = c.owner /\ gen[c.task] = c.gen
                THEN [owner EXCEPT ![c.task] = None] ELSE owner

\* _clear_stale_resume_claims looks at one claim of the listing: unless somebody
\* has the lock, the claim goes if it still is the one that was listed.
ClearStale(p, c) ==
    /\ seen' = [seen EXCEPT ![p] = @ \ {c}]
    /\ owner' = IF lock[c.task] = None /\ owner[c.task] = c.owner /\ gen[c.task] = c.gen
                THEN [owner EXCEPT ![c.task] = None] ELSE owner

Clear(p) ==
    /\ \E c \in seen[p] : ClearStale(p, c)
    /\ UNCHANGED <<store, row, sections, gen, files, lock, step, op, at, hit, cut, read, calls, faults>>

\* An operation starts: a worker of the service takes a task that waits, or a
\* task that is over is deleted; a command lists the claims first.
Begin(p, what, t, where) ==
    /\ step[p] = "idle"
    /\ op' = [op EXCEPT ![p] = what] /\ at' = [at EXCEPT ![p] = t] /\ Go(p, where)
    /\ seen' = [seen EXCEPT ![p] = IF store = "service" THEN {}
                    ELSE {[task |-> u, owner |-> owner[u], gen |-> gen[u]] :
                          u \in {u \in Tasks : owner[u] # None}}]
    /\ UNCHANGED <<store, rows, files, lock, hit, cut, read, calls, faults>>

\* create_batch_with_tasks: the service registers its tasks before it parses them.
Submit(t) ==
    /\ store = "service" /\ row[t] = "unborn"
    /\ Status(t, "WAITING")
    /\ UNCHANGED <<store, sections, owner, gen, files, lock, step, place, calls, faults>>

Dispatch(p, t) ==
    /\ store = "service" /\ row[t] = "WAITING" /\ \A q \in Procs : at[q] # t
    /\ Begin(p, "parse", t, "lock")

ParseCommand(p, t) ==
    /\ store = "commands" /\ row[t] = "unborn" /\ \A q \in Procs : at[q] # t
    /\ Begin(p, "parse", t, "look")

ResumeCommand(p, t) ==
    /\ store = "commands" /\ row[t] \notin NoRow
    /\ gen[t] + Cardinality({q \in Procs : at[q] = t}) < MaxClaims
    /\ Begin(p, "resume", t, "lock")

\* delete_task of the service waits for the worker of the task.
Delete(p, t) ==
    /\ row[t] \notin NoRow
    /\ store = "service" => row[t] \in Terminal /\ \A q \in Procs : at[q] # t
    /\ store \in {"service", "commands"}
    /\ Begin(p, "purge", t, "lock")

\* The scheduler cancels a task that still waits; its worker may have begun.
CancelWaiting(t) ==
    /\ store = "service" /\ row[t] = "WAITING"
    /\ Status(t, "CANCELLED")
    /\ UNCHANGED <<store, sections, owner, gen, files, lock, step, place, calls, faults>>

\* _try_open_resume_lock: parsing and `purge` wait; a resume and the deletion of
\* the service go away.
Lock(p) ==
    /\ step[p] = "lock" /\ seen[p] = {}
    /\ LET t == at[p] IN
        \/ /\ lock[t] = None
           /\ lock' = [lock EXCEPT ![t] = p]
           /\ Go(p, CASE op[p] = "parse" /\ store = "service" -> "look"
                      [] op[p] = "parse" /\ store = "commands" -> "promote"
                      [] op[p] = "resume" -> "claim"
                      [] op[p] = "purge" -> "quarantine")
           /\ UNCHANGED at
        \/ /\ lock[t] # None /\ (op[p] = "resume" \/ (op[p] = "purge" /\ store = "service"))
           /\ Go(p, "idle") /\ at' = [at EXCEPT ![p] = None]
           /\ UNCHANGED lock
    /\ UNCHANGED <<store, rows, files, op, hit, seen, cut, read, calls, faults>>

\* The lock goes and the operation is over.
Leave(p) ==
    /\ step[p] = "leave"
    /\ lock' = [t \in Tasks |-> IF Holds(p, t) THEN None ELSE lock[t]]
    /\ at' = [at EXCEPT ![p] = None] /\ hit' = [hit EXCEPT ![p] = None]
    /\ cut' = [cut EXCEPT ![p] = FALSE] /\ read' = [read EXCEPT ![p] = 0]
    /\ Go(p, "idle")
    /\ UNCHANGED <<store, rows, files, op, seen, calls, faults>>

\* A worker that failed outside of the parse proper: the scheduler writes the
\* status of the task, after the lock went.
Report(p) ==
    /\ step[p] = "report"
    /\ lock' = [t \in Tasks |-> IF Holds(p, t) THEN None ELSE lock[t]]
    /\ row' = IF row[at[p]] \in Statuses THEN [row EXCEPT ![at[p]] = "FAILED"] ELSE row
    /\ Go(p, "leave")
    /\ UNCHANGED <<store, sections, owner, gen, files, place, calls, faults>>

-----------------------------------------------------------------------------
(* The cache of documents: parse_file *)

\* _load_cached_task: everything is there and renders to the merged file.
Valid(t) == sections[t] = "done" /\ WholeDocument(dir[t])

\* find_completed_task_by_file_sha256, and the validation of what it found.  A
\* worker whose task has a directory already fails (_materialize_cached_task).
Look(p) ==
    /\ step[p] = "look" /\ seen[p] = {}
    /\ LET Hits == {h \in Tasks : row[h] = "COMPLETED"} IN
        \/ /\ {h \in Hits : ~Valid(h)} # {} \/ Hits = {}
           /\ Go(p, IF store = "service" THEN "promote" ELSE "lock")
           /\ UNCHANGED <<hit, staging, read>>
        \/ \E h \in Hits :
            /\ Valid(h)
            /\ IF store = "commands" THEN Go(p, "lock hit") /\ UNCHANGED staging
               ELSE IF dir[at[p]].there THEN Go(p, "report") /\ UNCHANGED staging
               ELSE Go(p, "open pictures") /\ staging' = [staging EXCEPT ![at[p]] = EmptyDir]
            /\ hit' = [hit EXCEPT ![p] = h] /\ read' = [read EXCEPT ![p] = dir[h].ai]
    /\ UNCHANGED <<store, rows, snapshot, dir, lock, op, at, seen, cut, calls, faults>>

\* _reuse_direct_file_cache: the lock of the task that was found.
LockHit(p) ==
    /\ step[p] = "lock hit" /\ lock[hit[p]] = None
    /\ lock' = [lock EXCEPT ![hit[p]] = p] /\ Go(p, "reuse")
    /\ UNCHANGED <<store, rows, files, place, calls, faults>>

\* A mutant of Reuse: what was found before the lock is answered.
ReuseUnchecked(p) == Go(p, "leave")

\* With the lock, the row and the files are looked at again.
Reuse(p) ==
    IF row[hit[p]] = "COMPLETED" /\ Valid(hit[p]) THEN Go(p, "leave") ELSE Go(p, "lock")

Answer(p) ==
    /\ step[p] = "reuse"
    /\ Reuse(p)
    /\ lock' = IF step'[p] = "lock" THEN [lock EXCEPT ![hit[p]] = None] ELSE lock
    /\ hit' = IF step'[p] = "lock" THEN [hit EXCEPT ![p] = None] ELSE hit
    /\ UNCHANGED <<store, rows, files, op, at, seen, cut, read, calls, faults>>

\* The staging directory goes and the task is parsed.
Unstage(p) ==
    /\ staging' = [staging EXCEPT ![at[p]] = NoDir]
    /\ Go(p, "promote") /\ cut' = [cut EXCEPT ![p] = FALSE]

\* _copy_cached_images_bounded opens the pictures, and copies what it lists.
OpenPictures(p) ==
    /\ step[p] = "open pictures"
    /\ \/ ~dir[hit[p]].there /\ Unstage(p)
       \/ dir[hit[p]].there /\ Go(p, "copy pictures") /\ UNCHANGED <<staging, cut>>
    /\ UNCHANGED <<store, rows, snapshot, dir, lock, op, at, hit, seen, read, calls, faults>>

CopyPictures(p) ==
    /\ step[p] = "copy pictures"
    /\ staging' = [staging EXCEPT ![at[p]].picture = ~cut[p]]
    /\ Go(p, "write texts")
    /\ UNCHANGED <<store, rows, snapshot, dir, lock, place, calls, faults>>

\* A mutant of LinksResolve: links are rewritten as text.
LinksAreText(t) == t \in Tasks

\* _rewrite_cached_image_links resolves every link in the directory it comes from.
LinksResolve(t) == dir[t].there /\ dir[t].picture

\* The texts were read when the hit was validated.
WriteTexts(p) ==
    /\ step[p] = "write texts"
    /\ \/ /\ LinksResolve(hit[p])
          /\ staging' = [staging EXCEPT ![at[p]] =
                [@ EXCEPT !.text = TRUE, !.ai = read[p], !.merged = read[p]]]
          /\ Go(p, "publish") /\ UNCHANGED cut
       \/ ~LinksResolve(hit[p]) /\ Unstage(p)
    /\ UNCHANGED <<store, rows, snapshot, dir, lock, op, at, hit, seen, read, calls, faults>>

\* publish_task_staging: the name of the directory changes to the task's.
Publish(p) ==
    /\ step[p] = "publish"
    /\ dir' = [dir EXCEPT ![at[p]] = staging[at[p]]]
    /\ staging' = [staging EXCEPT ![at[p]] = NoDir]
    /\ Go(p, "commit")
    /\ UNCHANGED <<store, rows, snapshot, lock, place, calls, faults>>

\* materialize_cached_task: row, sections and checkpoint in one transaction, if
\* the task still waits.
CommitRows(p) ==
    /\ step[p] = "commit"
    /\ LET t == at[p] IN
        IF row[t] = "WAITING"
        THEN /\ Status(t, "COMPLETED") /\ sections' = [sections EXCEPT ![t] = "done"]
             /\ Go(p, "verify")
        ELSE Go(p, "withdraw") /\ UNCHANGED <<row, sections>>
    /\ UNCHANGED <<store, owner, gen, files, lock, place, calls, faults>>

\* The capability is verified once more; on a failure the rows are rolled back
\* first, and then the directory is removed.
Verify(p) ==
    /\ step[p] = "verify"
    /\ \/ Go(p, "leave") /\ UNCHANGED <<row, sections, faults>>
       \/ /\ faults < MaxFaults /\ faults' = faults + 1
          /\ Status(at[p], "WAITING") /\ sections' = [sections EXCEPT ![at[p]] = "none"]
          /\ Go(p, "withdraw")
    /\ UNCHANGED <<store, owner, gen, files, lock, place, calls>>

Withdraw(p) ==
    /\ step[p] = "withdraw"
    /\ dir' = [dir EXCEPT ![at[p]] = NoDir] /\ Go(p, "report")
    /\ UNCHANGED <<store, rows, snapshot, staging, lock, place, calls, faults>>

-----------------------------------------------------------------------------
(* The parse proper: _run_registered_parse, also under the claim of a resume *)

Done(p) == Go(p, IF op[p] = "resume" THEN "release" ELSE "leave")

\* update_task_status, fenced when there is a claim: _assert_resume_claim.
Writes(p, status, where) ==
    IF op[p] = "resume" => owner[at[p]] = p
    THEN Status(at[p], status) /\ Go(p, where)
    ELSE Done(p) /\ UNCHANGED row

\* promote_preregistered_task and create_task: the row and the copy of the input.
Promote(p) ==
    /\ step[p] = "promote"
    /\ LET t == at[p] IN
        IF row[t] = IF store = "service" THEN "WAITING" ELSE "unborn"
        THEN /\ Status(t, "PARSING") /\ snapshot' = [snapshot EXCEPT ![t] = TRUE]
             /\ Go(p, "extract")
        ELSE Go(p, "report") /\ UNCHANGED <<row, snapshot>>
    /\ UNCHANGED <<store, sections, owner, gen, dir, staging, lock, place, calls, faults>>

\* The directory is made, the input parsed and its pictures are written.
Extract(p) ==
    /\ step[p] = "extract"
    /\ dir' = [dir EXCEPT ![at[p]].there = TRUE, ![at[p]].picture = TRUE]
    /\ Writes(p, "SECTIONING", "section")
    /\ UNCHANGED <<store, sections, owner, gen, snapshot, staging, lock, place, calls, faults>>

\* The text, and then the rows of the sections with the checkpoint, which replace
\* what an earlier run left (replace_sections_with_checkpoint).
Section(p) ==
    /\ step[p] = "section"
    /\ dir' = [dir EXCEPT ![at[p]].text = TRUE]
    /\ sections' = [sections EXCEPT ![at[p]] = "pending"]
    /\ Writes(p, "LLM_RUNNING", "interpret")
    /\ UNCHANGED <<store, owner, gen, snapshot, staging, lock, place, calls, faults>>

\* _interpret_section calls the model and writes what it says; then the artifact
\* completes the section.
Interpret(p) ==
    /\ step[p] = "interpret" /\ calls < MaxCalls
    /\ calls' = calls + 1
    /\ dir' = [dir EXCEPT ![at[p]].ai = calls', ![at[p]].there = TRUE]
    /\ Go(p, "complete")
    /\ UNCHANGED <<store, rows, snapshot, staging, lock, place, faults>>

Complete(p) ==
    /\ step[p] = "complete"
    /\ sections' = [sections EXCEPT ![at[p]] = "done"]
    /\ Writes(p, "MERGING", "merge")
    /\ UNCHANGED <<store, owner, gen, files, lock, place, calls, faults>>

\* _merge reads the texts of the sections again; a text that is not there sends a
\* resume back to the parser.
Merge(p) ==
    /\ step[p] = "merge"
    /\ dir' = [dir EXCEPT ![at[p]].merged = dir[at[p]].ai]
    /\ Go(p, "receipt")
    /\ UNCHANGED <<store, rows, snapshot, staging, lock, place, calls, faults>>

\* COMPLETED is the last write; the copy of the input is not needed any more.
Receipt(p) ==
    /\ step[p] = "receipt"
    /\ Writes(p, "COMPLETED", IF op[p] = "resume" THEN "release" ELSE "leave")
    /\ snapshot' = [snapshot EXCEPT ![at[p]] = FALSE]
    /\ UNCHANGED <<store, sections, owner, gen, dir, staging, lock, place, calls, faults>>

\* A step fails: FAILED, and what is on disk stays for a resume.
Fail(p) ==
    /\ step[p] \in {"extract", "section", "interpret", "complete", "merge"}
    /\ faults < MaxFaults /\ faults' = faults + 1
    /\ Writes(p, "FAILED", IF op[p] = "resume" THEN "release" ELSE "leave")
    /\ UNCHANGED <<store, sections, owner, gen, files, lock, place, calls>>

-----------------------------------------------------------------------------
(* resume *)

\* _try_claim_resume: the lock file first, and then the row.
Claim(p) ==
    /\ step[p] = "claim"
    /\ LET t == at[p] IN
        IF row[t] \notin NoRow /\ owner[t] = None
        THEN /\ owner' = [owner EXCEPT ![t] = p] /\ gen' = [gen EXCEPT ![t] = @ + 1]
             /\ Go(p, "assess")
        ELSE Go(p, "leave") /\ UNCHANGED <<owner, gen>>
    /\ UNCHANGED <<store, row, sections, files, lock, place, calls, faults>>

\* _has_trusted_section_checkpoint
Trusted(t) == sections[t] # "none" /\ dir[t].there /\ dir[t].text

\* What is missing decides where the resume goes on.
Assess(p) ==
    /\ step[p] = "assess"
    /\ LET t == at[p] IN
        IF ~Trusted(t) THEN Writes(p, "PARSING", "reset")
        ELSE IF sections[t] = "done" /\ dir[t].ai > 0
             THEN IF row[t] = "COMPLETED" THEN Go(p, "release") /\ UNCHANGED row
                  ELSE Writes(p, "MERGING", "merge")
             ELSE Writes(p, "LLM_RUNNING", "interpret")
    /\ UNCHANGED <<store, sections, owner, gen, files, lock, place, calls, faults>>

\* _verified_snapshot_copy, and the removal of what an earlier run wrote.
Reset(p) ==
    /\ step[p] = "reset"
    /\ IF snapshot[at[p]]
       THEN dir' = [dir EXCEPT ![at[p]] = NoDir] /\ Go(p, "extract") /\ UNCHANGED row
       ELSE Writes(p, "FAILED", "release") /\ UNCHANGED dir
    /\ UNCHANGED <<store, sections, owner, gen, snapshot, staging, lock, place, calls, faults>>

\* _release_resume: the row first, and then the lock file.
Release(p) ==
    /\ step[p] = "release"
    /\ owner' = IF owner[at[p]] = p THEN [owner EXCEPT ![at[p]] = None] ELSE owner
    /\ Go(p, "leave")
    /\ UNCHANGED <<store, row, sections, gen, files, lock, place, calls, faults>>

-----------------------------------------------------------------------------
(* purge, crashes and the start of the service *)

\* A mutant of Removed: it is not asked whether the directory is gone.
NotRemoved(d) == {NoDir, d}

\* _remove_managed_tree and the second look at the name: a directory that is
\* still there is an error.
Removed(d) == {NoDir}

\* The directory gets another name, and only then is emptied; or that fails, and
\* the purge ends there.
Quarantine(p) ==
    /\ step[p] = "quarantine"
    /\ LET t == at[p] IN
        \/ row[t] \in NoRow /\ Go(p, "leave") /\ UNCHANGED <<dir, faults>>
        \/ /\ row[t] \notin NoRow /\ Go(p, "erase") /\ UNCHANGED faults
           /\ \E d \in Removed(dir[t]) : dir' = [dir EXCEPT ![t] = d]
        \/ /\ dir[t].there /\ faults < MaxFaults /\ faults' = faults + 1
           /\ Go(p, "leave") /\ UNCHANGED dir
    /\ UNCHANGED <<store, rows, snapshot, staging, lock, place, calls>>

\* _delete_directory_contents, under the eyes of whoever copies the pictures; the
\* copy of the input goes too.
Erase(p) ==
    /\ step[p] = "erase"
    /\ cut' = [q \in Procs |-> cut[q] \/ (step[q] = "copy pictures" /\ hit[q] = at[p])]
    /\ snapshot' = [snapshot EXCEPT ![at[p]] = FALSE]
    /\ Go(p, "drop")
    /\ UNCHANGED <<store, rows, dir, staging, lock, op, at, hit, seen, read, calls, faults>>

\* delete_task: the rows that refer to the task go with it.
Drop(p) ==
    /\ step[p] = "drop"
    /\ LET t == at[p] IN
        /\ Status(t, "purged") /\ sections' = [sections EXCEPT ![t] = "none"]
        /\ owner' = [owner EXCEPT ![t] = None] /\ gen' = [gen EXCEPT ![t] = 0]
    /\ Go(p, "leave")
    /\ UNCHANGED <<store, files, lock, place, calls, faults>>

\* A command stops; or the service, with all of its workers.
Stop(P) ==
    /\ faults < MaxFaults /\ faults' = faults + 1
    /\ lock' = [t \in Tasks |-> IF lock[t] \in P THEN None ELSE lock[t]]
    /\ step' = [p \in Procs |-> IF p \in P THEN "idle" ELSE step[p]]
    /\ at' = [p \in Procs |-> IF p \in P THEN None ELSE at[p]]
    /\ hit' = [p \in Procs |-> IF p \in P THEN None ELSE hit[p]]
    /\ seen' = [p \in Procs |-> IF p \in P THEN {} ELSE seen[p]]
    /\ cut' = [p \in Procs |-> p \notin P /\ cut[p]]
    /\ read' = [p \in Procs |-> IF p \in P THEN 0 ELSE read[p]]
    /\ UNCHANGED <<rows, files, op, calls>>

CommandStops(p) ==
    store = "commands" /\ step[p] # "idle" /\ Stop({p}) /\ UNCHANGED store

ServiceStops == store = "service" /\ Stop(Procs) /\ store' = "stopped"

\* recover_interrupted_work: every task of a running batch that was not over.
MarkInterrupted ==
    /\ store = "stopped" /\ store' = "marked"
    /\ row' = [t \in Tasks |-> IF row[t] \in Statuses THEN "INTERRUPTED" ELSE row[t]]
    /\ UNCHANGED <<sections, owner, gen, files, lock, step, place, calls, faults>>

\* _cleanup_interrupted_materializations: staging directories, and directories of
\* tasks that wait and have no sections.
SweepStart ==
    /\ store = "marked" /\ store' = "service"
    /\ staging' = [t \in Tasks |-> NoDir]
    /\ dir' = [t \in Tasks |-> IF row[t] = "WAITING" /\ sections[t] = "none"
                               THEN NoDir ELSE dir[t]]
    /\ UNCHANGED <<rows, snapshot, lock, step, place, calls, faults>>

-----------------------------------------------------------------------------

Steps(p) ==
    \/ Clear(p) \/ Lock(p) \/ Leave(p) \/ Report(p)
    \/ Look(p) \/ LockHit(p) \/ Answer(p)
    \/ OpenPictures(p) \/ CopyPictures(p) \/ WriteTexts(p) \/ Publish(p)
    \/ CommitRows(p) \/ Verify(p) \/ Withdraw(p)
    \/ Promote(p) \/ Extract(p) \/ Section(p) \/ Interpret(p) \/ Complete(p)
    \/ Merge(p) \/ Receipt(p) \/ Fail(p)
    \/ Claim(p) \/ Assess(p) \/ Reset(p) \/ Release(p)
    \/ Quarantine(p) \/ Erase(p) \/ Drop(p)

Next ==
    \/ \E p \in Procs, t \in Tasks :
        Dispatch(p, t) \/ ParseCommand(p, t) \/ ResumeCommand(p, t) \/ Delete(p, t)
    \/ \E t \in Tasks : Submit(t) \/ CancelWaiting(t)
    \/ \E p \in Procs : Steps(p) \/ CommandStops(p)
    \/ ServiceStops \/ MarkInterrupted \/ SweepStart

Spec == Init /\ [][Next]_vars
=============================================================================
