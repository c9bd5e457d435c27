---------------------------- MODULE StorePromises ----------------------------
(***************************************************************************)
(* What a store of parsed documents promises: to whoever reads a row and   *)
(* then the directory of its task, to a purge, to a parse that is answered *)
(* from an earlier one, and to a resume.  TaskStore.tla says how the rows, *)
(* the directories and the locks change.                                   *)
(***************************************************************************)
EXTENDS Naturals

CONSTANTS Tasks, Procs

VARIABLES
    store,      \* whose store it is: "service" or "commands"
    row,        \* row[t]: tasks.status; "unborn" and "purged" have no row
    owner,      \* task_recovery.resume_owner
    lock,       \* lock[t]: who holds the lock file of t
    dir,        \* dir[t]: the task's directory
    op, step,   \* what a process does, and where it is
    at, hit     \* the task it is about; the completed task that it copies

NoRow == {"unborn", "purged"}

ParseSteps == {"look", "lock hit", "reuse", "open pictures", "copy pictures", "write texts",
    "publish", "commit", "verify", "withdraw", "promote", "extract", "section",
    "interpret", "complete", "merge", "receipt", "leave", "report"}
ResumeSteps == {"claim", "assess", "reset", "release"}

\* A merged file is rendered from the texts; that is what it is checked against.
Rendered(d) == d.text /\ d.ai > 0 /\ d.merged = d.ai
WholeDocument(d) == d.there /\ d.picture /\ Rendered(d)

-----------------------------------------------------------------------------

\* A task that says COMPLETED has its whole document, pictures included, merged
\* from the interpretation that is on disk; or, once a purge has begun, nothing:
\* whatever was parsed, resumed, copied, deleted or cut short at the same time
\* (the order of the writes in _run_registered_parse, resume, _purge_locked and
\* _materialize_cached_task).
CompletedIsWhole ==
    \A t \in Tasks : row[t] = "COMPLETED" => WholeDocument(dir[t]) \/ ~dir[t].there

\* No directory outlives the row that a purge would find it by, so that what a
\* crash leaves behind can always be deleted (_purge_locked deletes the row last,
\* materialize_cached_task asks for it).
DirectoryHasRow == \A t \in Tasks : dir[t].there => row[t] \notin NoRow

\* What a parse answers from an earlier task is true when it is answered
\* (_reuse_direct_file_cache looks again with the lock).
AnswerIsTrue ==
    \A p \in Procs : step[p] = "leave" /\ op[p] = "parse" /\ hit[p] \in Tasks
                        /\ store = "commands" =>
        row[hit[p]] = "COMPLETED" /\ WholeDocument(dir[hit[p]])

\* The claim of a resume is its own until it gives it back, so that no fenced
\* write of a live resume is refused, and no second resume works on the task
\* (_clear_stale_resume_claims, claim_task_resume, _release_resume).
ClaimIsKept ==
    \A p \in Procs :
        op[p] = "resume" /\ step[p] \in (ResumeSteps \cup ParseSteps) \ {"claim", "leave"} =>
            owner[at[p]] = p /\ lock[at[p]] = p
=============================================================================
