# A verification project for PDF2MD

TLA+ models of PDF2MD (`src/`), the TLC configurations that check them on small
instances, and proofs for TLAPS. This text says what the system is made of, what
is modelled and how it corresponds to the code, what the runs and the
proofs show, and what comes next. `PROJECT.json` lists the runs, the source lines
of every definition, the known hazards and the theorems.

    tlc -workers 2 -config Serving.cfg MCServing
    tlc -workers 2 -config OcrFiles.cfg MCOcrFiles
    tlapm OcrWorkflowProofs.tla

and so on with the other configurations of section 3 and the eight modules
`BatchSchedulerProofs`, `ServingProofs`, `MarkdownPublicationProofs`,
`GenerationProofs`, `StoresProofs`, `OcrWorkflowProofs`, `OcrFilesProofs` and
`ProcessesProofs`.

## 1. The system

PDF2MD turns documents into Markdown and, for books, into chapters and topics of
reading notes. A desktop application (Tauri, `src/parsing-core-app`) starts a
local *serve* process (Python, `src/src/parsing_core/serving`) and talks to it over
HTTP and web sockets. The serve process keeps its data in SQLite and in
directories that a second process, started later or by the command line, opens
as well: hence the locks, leases, journals and recoveries below.

| Component | State | Operations | What makes it correct |
|---|---|---|---|
| Batch scheduler (`serving/scheduler.py`) | batch contexts, a coroutine and a worker future per task, slot counters, pending completions, retry loops; rows of `batches` and `tasks` | `submit_batch`, `cancel_batch`, `delete_task`, `shutdown`, `_run_task`, completion and finalization, persistence retry | slots neither leak nor are exceeded; every accepted batch ends once with the join of its outcomes; nothing of it runs afterwards; rows are consistent after any crash |
| Dispatch policy (same file) | waiting requests, last batch of each level, streak, last deferred level | `_select_dispatch_request_locked` | no free slot is wasted; batches take turns; no level starves |
| Event stream (`scheduler.py`, `ring_buffer.py`, `ws_manager.py`, `api/routes_ws.py`) | sequence numbers, ring buffer, subscriber queues and senders, finished batches | emit, subscribe with replay, send, discard, purge | a client sees its events in order, none twice, none lost that the buffer still had, and learns of the end |
| Startup recovery (`serving/serve.py`) | rows left by a dead process | `recover_interrupted_work`, recovery of pending publications | what is open becomes INTERRUPTED, what is closed stays |
| Task pipeline (`orchestrator.py`) | row and output directory of a task, resume claim, lock file | parse, resume, materialize from cache, purge | one process works on a task; a stale one writes nothing; a crash leaves no half output |
| Process supervisor (`serving/lifecycle.py`) | a supervisor, a watchdog and the service behind a gate; pipes; identities found by scans | register, arm, open the gate, watch, capture, kill and wait, confirm | nothing of the service outlives the shell; the status of the service is returned only when nothing is left, unless work was handed on twice behind a scan |
| Storage (`storage/`) | SQLite connection, claims, directories | fenced updates, nested transactions | an update of a lost claim is refused |
| Chapter generation (`workbench/repository.py`, `pipeline.py`) | lease, run and candidate rows of a chapter | start, heartbeat, rounds, finish, release, publish, recover | one owner at a time; a lost lease publishes nothing; a publication matches its inputs |
| Topic generation (`workbench/topic_pipeline.py`, `repository.py`) | row, lease, runs and notes of a topic; its chapters and their reviews; claim of a synchronisation | start, rounds, publish, fail, recover, edit, remap, split, confirm, synchronise | a result is of one input, a COMPLETED topic of the current one; a SYNCED one has its map on disk |
| Topic directories (`workbench/topic_markdown_sync.py`) | a directory per topic with marker and lock file, hidden names of a merge, rows | synchronise, merge, delete, clean up, recover | a published topic keeps its map; files of the user stay |
| Markdown publication (`workbench/markdown_sync.py`, `topic_markdown_sync.py`, fences in `repository.py`) | files of the directories of an entity, a journal, backups and temporary files in each; claim, receipts and staged publication in the database | render, claim, lock, fence, replace, commit, recover | the files of all directories change together with the receipt, to what the rows are then, whatever raises or stops |
| Source import (`workbench/source_import.py`) | copied file, journal, row | publish, recover | a registered source has its file, an unregistered one leaves none |
| Settings (`workbench/settings.py`) | one file under a lock | read, update | no update is lost |
| Model executors (`workbench/secure_codex.py`, `codex_cli.py`, `process_control.py`, `deepseek.py`) | a subprocess or a request | run with a deadline, terminate | a call ends and leaves no process |
| OCR page cache (`workbench/ocr/page_cache.py`) | entries, quota state, reservations | reserve, commit, evict, recover | the quota holds across processes and crashes |
| OCR workflow (`workbench/ocr/workflow.py`, `orchestrator.py`) | batch state and final of a book, chapter tree, confirmation, note manifest; worker thread, cancel flag | start, review, cancel, resume, publish, detect and confirm chapters, generate and bind a note | a final says what its pages hold; a completed one is kept; a note is of the current final |
| OCR locks (`workflow.py`) | `flock`s of a directory and two files, thread locks, a registry of claims | claim, publish, through an own or a borrowed descriptor, release | one publication at a time; every claim ends |
| OCR migration (`workflow.py`) | journal, receipts and witnesses of a transaction on the files of an old book | begin, write, exchange, link, commit, recover | the sealed result is whole; no file is lost, also not one that another program wrote |
| Desktop sidecar manager (`src-tauri/src/sidecar.rs`) | generation, child process, health failures | start, stop, health check, restart | one live process; an old generation never acts for the new one |
| REST API, parser, LLM clients, CLI, user interface, build scripts | none of their own, or presentation | - | not modelled |

**Interaction.** The desktop application starts the serve process and subscribes
to batches. The REST routes call the scheduler on the event loop and the
workbench components on threads. A scheduler task calls an `Orchestrator` of its
own in a worker thread; its progress comes back through
`call_soon_threadsafe`. The scheduler, the orchestrator and the workbench share
one database and the data directories; `markdown_sync.py` commits files and rows
in two phases; `serve.py` repairs both at the next start.

**Hard behaviour.** Interleavings of coroutines and worker threads around
cancellation (a coroutine cancelled while its thread parses, before its first
step, between the grant and the use of a slot); failed database writes in the
middle of a series; crashes between two writes; starvation among batches and
priority levels; a purge against a reconnecting client; leases that expire under
a slow owner; two-phase publication of files and rows. `PROJECT.json`, "hazards",
lists each at its line, with the properties that cover it, or the finding that says the
code does not cope with it (those at `scheduler.py`:517, `workflow.py`:393 and `sidecar.rs`:2153).

## 2. Modules

| Module | Models |
|---|---|
| `BatchScheduler` | the scheduler of one serve process and its restarts |
| `BatchContract` | what the scheduler promises to the client of a batch (abstract) |
| `DispatchPolicy` | which waiting request a slot goes to |
| `EventStream` | events, web sockets, retention of finished batches |
| `MarkdownPublication` | the publication of a chapter's files: journals, locks, fence, recovery |
| `AtomicPublication` | what a publication promises to a reader of the files (abstract) |
| `ChapterGeneration` | the generation of a chapter's notes: lease, rounds, candidates, staging, end |
| `TopicGeneration` | a topic: its generation, what makes it stale, its synchronisation |
| `TopicPromises` | what a topic promises about its result and its map |
| `TopicDirectories` | the directories of topics: synchronisation, merge, deletion, clean-up |
| `TaskStore` | the documents of parsed tasks: parse, resume, copy from a cache, purge |
| `StorePromises` | what the store promises about rows, directories, answers and claims |
| `OcrWorkflow` | the OCR of a book: run, review, resume, final, chapters, note |
| `OcrLocks` | the locks below it: worker claim and publication |
| `LegacyMigration` | the migration of the files of an old book |
| `PageCache` | the cache of rendered pages and its quota |
| `SidecarLifecycle` | the desktop shell's manager of its service |
| `ProcessSupervision` | supervisor, watchdog and service |
| `Serving` | `EventStream` and `DispatchPolicy` together, with what they promise |
| `Generation` | `ChapterGeneration` and `TopicGeneration`, likewise |
| `Stores` | `TaskStore` and `TopicDirectories`, likewise |
| `OcrFiles` | `PageCache`, `OcrLocks` and `LegacyMigration`, likewise |
| `Processes` | `SidecarLifecycle` and `ProcessSupervision`, likewise |
| `BatchSchedulerProofs`, `ServingProofs`, `MarkdownPublicationProofs`, `GenerationProofs`, `StoresProofs`, `OcrWorkflowProofs`, `OcrFilesProofs`, `ProcessesProofs` | theorems |
| `MCBatchScheduler`, `MCMarkdownPublication`, `MCOcrWorkflow`, `MCOcrLocks`, `MCTopicGeneration` | instances of one module for TLC |
| `MCServing`, `MCGeneration`, `MCStores`, `MCOcrFiles`, `MCProcesses` | instances of the modules that put two or three together |

In the last group a variable `part` is chosen at the start, the module it names
runs, and the others keep their initial state. The modules share no variable, so
that such a run says of each of them what a run of its own would; there is one
check for a family of small components instead of many.
Where a configuration names a SYMMETRY, the values it permutes are
interchangeable in every part, and the run checks no liveness.

The components meet at narrow points, and each module leaves the others open:

* `BatchScheduler!DispatchAvailable` allows every maximal set of grants, of
  which `DispatchPolicy` computes one; `EventStream` lets a batch emit and finish
  whenever it likes.
* The parse of a worker is one step of `BatchScheduler`; `TaskStore` is what it
  does to the store, with any number of other processes.
* `ChapterGeneration!Publish` is one step, the files and the rows together: that
  is what `MarkdownPublication` shows of it (`PublishesAtomically`), which in turn
  leaves open when a generation stages, takes over or discards.
* `TopicGeneration` sees a chapter as its review and the versions of its notes,
  which `ChapterGeneration` makes. Its `CommitSync` is one step; the directories
  of a topic are in `TopicDirectories`, and the journal below is the one of
  `MarkdownPublication`.
* A section of `OcrWorkflow` under the publication lock is one step;
  `OcrLocks!OnePublication` is why it may be. An engine's answer comes from
  `PageCache` or from a render, which `OcrWorkflow` does not tell apart. Before a
  workflow is opened its files were migrated by `LegacyMigration`.
* The child of `SidecarLifecycle` is the supervisor of `ProcessSupervision`, and
  the parent that may go away there is the shell.

### BatchScheduler

*Atomicity.* All coroutines run on one event loop. The asyncio locks of the
scheduler (`_dispatch_lock`, `persistence_lock`) are never held across an await that suspends
(the retries of a progress write happen synchronously, the retry loop sleeps
outside the lock, `_emit` never suspends), so acquiring one never suspends
either. One action is the code of a coroutine between two real suspensions; a
worker thread's actions are the segments between its uses of `ctx.phase_lock`
and the writes of its row.

| State | Code |
|---|---|
| `live`, `cancelled`, `finalized`, `status` | `_batches`, `cancel_requested`/`_cancelled`, `ctx.finalized`, `ctx.status` |
| `pc` | where `_run_task` is suspended: not started, at `request.ready`, at the worker future, in `_await_worker_after_outer_cancel`, ended |
| `cancelReq` | `asyncio.Task.cancel()` called, `CancelledError` not yet delivered |
| `request`, `globalRunning`, `runningTasks` | `DispatchRequest`, `_global_running`, `ctx.running_tasks` |
| `worker` | the future in `_worker_futures` and what its thread does |
| `completion`, `result` | `pending_completions`, `completed_task_ids`, the recorded outcome |
| `prestart` | cleanup tasks of `_schedule_prestart_cancel_completion` |
| `cancelling`, `cancelWait`, `deleter`, `draining`, `retry` | the suspended calls of `cancel_batch`, `delete_task`, `shutdown` and the retry loops |
| `dbBatch`, `dbCompleted`, `dbTask` | rows of `batches` and `tasks` |

A completion goes through `Flush` (`_flush_pending_completions_locked`): the
progress row, then the task row, task by task, then, when all are recorded, the
batch row; a failed write stops it wherever it is, and starts the retry loop.
`Crash` forgets everything but the rows, `Restart` runs `recover_interrupted_work`.

*Abstractions.* A task is in one batch with fixed limits; events and progress
are in `EventStream`. The order of pending completions is left open (any set of
them may be recorded before a failure). A second `delete_task` of a task, or
`cancel_batch` of a batch, under way is merged with the first. A task is in
`externally_cancelled_task_ids` exactly from `DeleteTask` until its `deleter`
moves on. The
cancellation check at the top of `_run_task` and the one under `phase_lock`
before the submit cannot fire separately from a pending `CancelledError`. The
purge of finished batches is in `EventStream`, so `live` only grows here until a
crash; the limits that count tracked batches are not modelled. An interrupted batch is not
resubmitted: a new submission has a new identifier.

### DispatchPolicy

The waiting requests are a sequence of batch names in order of their sequence
numbers. `Eligible`, `Defers`, `NextDeferred`, `SelectedLevel` and `SelectedBatch`
are the parts of `_select_dispatch_request_locked`. Each arrival, release or
withdrawal calls the dispatcher; one turn of its loop is modelled: an arrival adds
one request, a release frees one slot, so one turn leaves nothing to do. `Withdraw`
is the cancellation of a task as well as, one request at a time, of a batch.

`bypassed`, `skipped`, `levels` and `steady` are history variables: how often a
batch, or a level, with an eligible request was passed over since it was last
served, and which levels have competed, for how many selections in a row. A level
competes only while it has an eligible request, and a batch at its own limit has
none, so who competes may change with every selection. `LevelsAlternate` bounds the
waiting of a level while the same ones compete, counting from when they began to,
and so does not see a level starve when they change; `NoLevelStarves` asks for the same bound whoever competes, and does not hold
(finding 3).

### EventStream

`nextSeq`, `ring`, `queue`, `replay` and `conn` are the counter, the ring buffer,
the subscriber's queue, what its sender still has to replay, and the registration;
`received` is what the client got over all its connections. Replay and
registration are one step, as in `replay_and_subscribe`, which never suspends.
A sender that is cancelled in the middle of a send has sent the event or not:
the step before or after the cancellation. A full queue discards the
subscriber, and its connection is closed. Each call of `_purge_terminal_batches`
in the code is part of the action that makes it.

The client is external. It is the one of the documented protocol
(`src/docs/superpowers/specs/2026-07-06-serving-layer-design.md`, 359-366), which
reconnects with the last sequence number it saw; the web socket client of the
desktop application (`src/parsing-core-app/src/api/ws.ts`) does not reconnect by itself. Events
that the ring buffer dropped are lost without notice: the properties say so.

### MarkdownPublication

A publisher (a thread that serves a request) goes through the phases of
`_sync_chapter_markdown_entry` or `_publish_chapter_markdown_entry`:

| `pc` | Code |
|---|---|
| `render` | the revision is taken (`markdown_publication_state_snapshot`), `_sync_chapter_markdown` renders a bundle per directory; the rows may change meanwhile |
| `claimed` | `claim_markdown_publication` wrote the claim; waiting for the directory locks |
| `recover` | `_locked_atomic_write_bundles_fd` recovers what an earlier publisher left |
| `prepare`, `replace` | inside the fence, `BEGIN IMMEDIATE`: `_prepare_atomic_bundle_locked` for each directory |
| `settle` | committed: the journals are removed |
| `undo` | an exception: the transaction is rolled back, the directories are recovered |
| `boot` | the start of the server: `_recover_pending_chapter_publications` |

| State | Code |
|---|---|
| `revision`, `runsExist` | `wb_markdown_state_revision`, counted by triggers; whether the chapter has rows in `wb_runs` |
| `pending`, `claim`, `receipt`, `chapterReceipt` | `wb_chapter_generation_publications`, `wb_markdown_publications`, `wb_markdown_publication_receipts`, `wb_chapter_publication_receipts` |
| `file`, `backup`, `temp`, `journal`, `existed` | the directory: targets, hard-linked backups, temporary files, `transaction_id` and `existed` flags of the journal |
| `lock` | the thread locks and `flock`s of the directories |
| `handled` | the entries the recovery under way has dealt with |

One action is one file operation that a crash can separate from the next:
writing the journal, replacing one file, recovering one entry (its rename and
the two unlinks are idempotent and touch nothing another entry uses), removing
the journal. `Raises` may follow any step under the locks, `Crash` any step at
all; `Unlock` may leave a recovery unfinished, because that may raise too.

*Abstractions.* The content of a file is the revision it was rendered at, 0 for
a file that does not exist; `source.md`, whose text comes from the imported file
and not from rows, is treated as the others. The set of files of a directory is
fixed; `runs` belongs to the bundle once the chapter has runs. Temporary and
backup files that no journal names are not modelled: they are written and
removed with `WriteJournal`. The directory locks are taken in one step: the code
takes them in a fixed order and every publisher needs the chapter's directory.
The lease of a staged publication is its `owner`; an expiry shows as a takeover
(`StartChapter`) or as `Discard`, either of which may come at any time, and
whether the staged input is still current is left open between them. `Crash`
includes the next start; there the publication of what is pending is that of any
publisher, after `BootEnds`. A second process on the same directories, the
migration of directories, owner markers, and the loss of writes that were not
yet synced are not modelled.

`AtomicPublication` sees only what a reader is shown once the journals are dealt
with (`Shown`: a file, or what its journal undoes it to unless the receipt
names the journal) and the receipt. A step of it publishes a set of directories
at the revision of the new receipt, which is not older than the last.

### ChapterGeneration

A worker is a thread that serves a request (`IntensiveReadingPipeline.run_all`);
`pc` is where it is:

| `pc` | Code |
|---|---|
| `started` | `start_chapter_generation` returned; the checkpoints are not read yet |
| `restore`, `discard` | the loop of `_restore_candidate_prefix`, and `discard_chapter_generation_checkpoints` after it |
| `round` | before `create_chapter_generation_run` of the next round, or of the review |
| `package` | before `build_task_package` and `_accept_package` |
| `execute` | in `_run_with_heartbeat` |
| `finish` | before `finish_chapter_generation_run`, for the review `publish_chapter_generation` |
| `fail` | in the exception handler of the round |
| `sync` | in `_sync_claimed_chapter_markdown` |
| `release` | in `_release_generation_claim` |

| State | Code |
|---|---|
| `status`, `lease`, `pending` | `wb_chapters.status`, the rows of `wb_chapter_generation_leases` and `wb_chapter_generation_publications` |
| `runs` | the RUNNING and SYNC_PENDING rows of `wb_chapter_generation_runs` |
| `candidates` | `wb_chapter_generation_candidates`: round, owner, input fingerprint, and whether the configuration fingerprint can ever match again |
| `input`, `notes` | what `chapter_input_snapshot` returns; the notes and cards, by the input they come from and whether they differ from what was staged |
| `accepted`, `checkpoints` | `_input_fingerprint` of the pipeline, and the rows it read to restore |

Every transaction (`_atomic(immediate=True)`) is one action. Between two
of them another request, an edit, the end of the lease or of the process may
come; so the owner and the end of the lease are checked just where the code checks
them: `create_chapter_generation_run` looks at the owner only,
`finish_chapter_generation_run` only at its run, and the
discarding of checkpoints at neither.

*Abstractions.* An `owner_id` is a fresh uuid of each start, here it is the
worker: a worker starts again only after its call returned, and each
start gives every candidate to the new owner and closes the runs of the old one. Time is only in
`Expire`; a heartbeat has no state of its own: as long as it renews
the lease, `Expire` does not happen, and `Execute` ends with the last
renewal, which fails without the lease. A takeover closes runs of
the previous owner, so one `Running(w)` stands for a row that is identified by its id in the code. What the
executor returns, its validation and the verdict of the review are left out:
an output that is refused is a `Raises`. `Trusted` are the requests whose
executor is a `DeepSeekExecutor`, all with one configuration; the fingerprint of any other holds a nonce,
so that its candidates fit nothing. Restart closes rows as `recover_interrupted_work`
does; its publication of what is staged is a `TakeOver` and a `Publish` of some
worker. The public rows of `wb_runs`, the staleness of topics, the files of task
packages and outputs are not modelled, nor are `rerun` and
`recover_interrupted_chapter_run`, which no route of the server calls, nor the
deletion of a chapter.

### TopicGeneration

`status`, `confirmed`, `reasons` and `mapped` are the row of `wb_topics` with
`stale_reason`, and `wb_topic_chapters`; `lease`, `runs`, `rounds` and `blocks` are the
rows of a generation; `sync` is `wb_topic_markdown_sync`. `input` is what
`topic_input_snapshot` returns, as two counters: changes the topic is told of
(`_invalidate_topic`) and quiet ones. `pc` of a worker is where
`TopicFusionPipeline.run_topic` or `sync_topic_markdown` is.

Every transaction is one action. `Start` accepts an input; each round reads the
input as it is then (`BeginRound`), and what it was given is kept in `read`;
`Publish` is the one place where the accepted input is compared again. An
edit, a remapping, a split, the confirmation of a course, and a change of a
chapter or of its notes may come between any two. `Invalidate` and `Refresh` are
`_invalidate_topic` and `_topic_readiness_status`, which the actions of the
code that call them include.

*Abstractions.* One topic is looked at; others appear as the chapters a split
takes away. The lease and the claim end at a step of their own (`Expire`,
`ExpireSync`); heartbeats renew them silently. What the executors return is
valid or a failure. A synchronisation renders and commits in one step of its
claim, `fresh` telling whether a row changed since it took its snapshot, as the
revision does in `MarkdownPublication`. The proposal of an outline and the
deletion of a course are not modelled.

### TopicDirectories

A directory is an inode with a name (`place`), files and locks. A
synchronisation goes through `rename` (find the directory by its marker, or by
its title, and rename it), `open` (or make), `own` (the marker) and `commit`.
A merge goes through the locks of all its topics in the order of their ids, checks
them, renames them to hidden names one by one (`detach`), replaces the rows
(`merge`), removes the hidden directories (`clean`), and puts them back if the
transaction failed (`MergeFails`). A deletion locks, checks, unlinks, removes and
deletes the row. `Tidy` is the clean-up of hidden directories of topics without a
row, with which every merge begins.

`CrashRemoving` is a stop in the middle of a removal: any part of the files may
be gone. `UserWrites` may put a file of the user into any directory at any time.
`OtherMerge` is a merge of other topics of the course, of which only `Tidy` matters here.

*Abstractions.* A topic keeps its title. Rows, claims and fences are only as
much of `TopicGeneration` as the directories depend on. A lock file that was
replaced counts as the same one; the code then refuses, which here it may do.
In reading: a hidden directory that is struck while it is cleaned up has lost a
file of the three it is recognised by and is never cleaned; after two
failing transactions two directories may bear one marker; a merge holds the
`flock` of the lock file and a synchronisation the one of the directory, so that
a synchronisation which races a merge may leave a directory without a topic.

### TaskStore

`row`, `sections`, `snapshot`, `owner` and `gen` are the rows of a task, of its
sections and of `task_recovery`; `lock` its lock file; `dir` and `staging` what is
in its directory and in the one that will be renamed to it. `op` and `step` say
which call of the `Orchestrator` a process makes and where it is:

| `step` | Code |
|---|---|
| `look`, `lock hit`, `reuse` | `parse_file`, `_use_file_cache`: a completed task with the same input, its lock, `_reuse_direct_file_cache` |
| `open pictures` ... `commit`, `verify`, `withdraw` | `_materialize_cached_task`: copy from descriptors into a staging directory, publish it, write the rows, check the source again |
| `extract`, `section`, `interpret`, `complete`, `merge`, `receipt` | `_run_registered_parse`: the stages of a parse that write something |
| `claim`, `assess`, `reset`, `release` | `resume` |
| `quarantine`, `erase`, `drop` | `_purge_locked` |

A store is the service's or the command line's: they are two directories, so a
task of one is never resumed by the other. `Stop` ends some processes at any
place, `MarkInterrupted` and `SweepStart` are the start of the service,
`ClearStale` the clearing of claims at the start of a command, from the list of
claims it read before (`seen`).

*Abstractions.* All inputs have the same bytes. A document is one section with
one picture, a text, an interpretation and the merged file; an interpretation is
the number of the model call that wrote it, so that a merge of one and the
directory of another can be told apart. Progress events, the stages that only
compute, and the retention of the cache are left out.

### OcrWorkflow

| State | Code |
|---|---|
| `source` | the content of the PDF file, which may be replaced |
| `state`, `final`, `tree`, `confirmed`, `manifest` | `batch-state.json`, `batch-final.json`, `chapter-tree.json`, `chapter-confirmation.json`, `note-publication.json` |
| `claim`, `pub` | the worker claim and the publication lock |
| `status`, `cancel` | `OcrWorkflow._status` and `_cancel` of each process |
| `step`, `mem`, `page`, `baidu`, `prior`, `reviewing`, `ending` | the worker: where it is in `run_batch`, `_run_page` and `OcrWorkflow._run`, the batch in its memory, its page, its configuration and result |
| `api` | `generate_and_publish` of a requester |

A page gathers its evidence in the order of `Evidence`; the worker persists the
batch before each call of an engine (`Stage`, `Call`), and an answer, a failure or a
late one is a step of its own (`EngineAnswers`, `EngineFails`). A page under review goes
back to the reviewer when an engine fails, and ends the run when it times out (`orchestrator.py`:433). `PublishState` and
`PublishFinal` are the two writes of a publication under the lock;
`PublishUncertain` is a failure whose outcome is not known. `Crash` leaves
`batch-state.json` running; `Begin` resumes it. `CompletedValid` and `ReviewValid` are
the validations of a final, which the code repeats on every read.

*Abstractions.* A file is replaced atomically. The fingerprint of a final tells
its status and its source apart. A chapter tree is the final it was detected in;
the building of the tree is not modelled. The contents of the PDF come one after
the other and none comes back.

### OcrLocks

`root[d]` is what the open file description `d` holds of the directory, `through[t]`
the description that a thread publishes through: its own, or the one of the worker
claim of its process (`root_borrowed`). `turn` is the `RLock`, `mutex` the worker
lock, `registered` the entry in `_ACTIVE_OCR_WORKER_CLAIMS`. Every call of `flock`
is a step, an upgrade is two: the kernel gives the shared lock up before it waits
for the exclusive one. `LeaseIsHeld`, that a publication holds the directory, does
not hold (finding 7); what does is `OnePublication`, because of the second lock.

### LegacyMigration

`at` says which object lies at which place (a name in the root), an object being
an inode with its bytes. The journal's phases are `Phases`; `sidecar` is the receipt and the
temporary file of each file that a phase writes, `stage` the next journal before
it is exchanged with the current one. `Look` with `checked` is the verification
before a step, so that another program (`Edit`) may come between the check and
the rename. `Crash` may follow any file operation; `Open` is the next opening of the
workflow, which goes on from the journal, or blocks. `Withdraw`, `Restore` and
`LookAtDisplaced` are what it does about a file that was not its own.

*Abstractions.* Not modelled are a second transaction after a sealed one, the
files that chain the receipts, and a foreign file that is byte for byte the
expected one.

### PageCache

`disk` holds pieces, all of size one: sources, pages and jobs. `committed` and
`held` are the quota file; a reservation lives as long as the lock slot of its
client. `Steps` are the phases of `VisionClient.recognize` with the calls of the
cache it makes: the snapshot of the book, the lock of the page, the directory of the
job, the render, publication of image and metadata, clean-up. A client may die in
any of them, and in the middle of a reservation. When there is no room, the
reservations of dead clients are dropped (`Recovered`), what is there is measured
(`Measured`), and what nobody has locked is evicted (`Evictions`).

*Abstractions.* The limit on the number of entries (`max_page_cache_entries`) is left out; it leads
where the limits on bytes lead (`_capacity_exceeded`, `page_cache.py`:1004). The slots of two pages differ (16 slots serve all of them in the code,
`page_cache.py`:1486). In reading: the bytes of a dead client are not counted
until the next scan (583-620); the temporary file of a source that is being copied
may be evicted, and its copy then fails (720-740, 1072); a snapshot that was
evicted stays in the index of the client (`vision.py`:371-391); locks of pages and of the quota are
taken in both orders, which only their deadlines resolve (1313).

### SidecarLifecycle

`app` is `AppState`, changed in the sections under its mutex. A thread runs a
command of the window, the first start, the health loop, the exit or a clean-up;
its `pc` is where it is between two sections. A start is known by its generation,
which also names its child. `child` says what became of each; `struck` remembers that a
clean-up thread took the child of another generation (finding 9). Faults are a port that
cannot be reserved, a child that exits or does not answer, an attempt to end it that fails
or ends with an error, and a log reader that fails, once for a generation. A
forced exit asks the user after each failure of the clean-up, also of its last check.

*Abstractions.* The preparation of the runtime succeeds. The exit without a
window event (`RunEvent::Exit`) and the clean-up in place of a thread that cannot
be made are left out. Time is in `StartTimesOut` and `AwaitTimesOut`.

### ProcessSupervision

`at` of the two keepers is where `supervise` and `_watchdog` are; `pipe` holds what is in
the pipes between them and to the gate of the service. A scan lists the
processes in one step (`CleanupList`) and inspects them in another
(`CleanupInspect`); two empty ones in a row end a clean-up. `Bind`, `Verified` and
`CaptureChildren` are the identities that are taken before anything is killed.

*Abstractions.* Reuse of a process id is left out, and so is a process that sheds the marker.
What was written to a pipe can be read after the writer has closed it. A process that forks
between the list of a scan and its inspection hands its work on behind it; `HandOffs` counts
that, and nothing in the code bounds it. Two empty scans in a row end a clean-up, so a
service that hands on its work behind each of two escapes: `StatusMeansClean` and
`NothingOutlivesTheShell` say so. Other forks are not counted. If a keeper
is killed while the other is stopped or gone, the service stays: `lost` records it, and
`NothingOutlivesTheShell` excludes it. The run has one kill. A second one is survived only
when the clean-up is done by then: a watchdog killed first, and then the supervisor in its own
clean-up, leaves the service running. With two kills TLC finds the property true, and
that case among those it excludes.

## 3. Runs

| Run | Instance | Question |
|---|---|---|
| `scheduler_faults` | a batch of 2 files and an empty one, 2 slots, one active batch at a time, one failed progress write; cancel, delete, shutdown, crash | is what the process reports and what the rows say right after any interruption, and does it implement `BatchContract`? |
| `scheduler_live` | 2 files, 1 slot, one failed write, a failing factory; cancel, delete, shutdown, crash | does every batch end, and a shutdown complete? |
| `events_dispatch` | events: 3 clients of one batch, ring and queues of 2, 2 subscribers, 3 events, one broken connection, a history of 1; dispatch: 4 batches on 3 levels, 12 requests, 2 slots, burst 2 | order, gaps, duplicates, the end of a stream, the purge; bounded waiting of a level |
| `markdown_journal` | 2 publishers, 2 files and 1 file in two directories, revisions up to 3, 2 publication ids | do the files change together and with the receipt, and are they current? |
| `generation` | chapter: 2 workers, one of them trusted, 2 rounds and the review, 2 inputs; topic: 2 threads, 2 chapters, 1 round and the review, one change of the input | can a late request write, can something mixed be staged, published or called current? |
| `ocr_batch` | a book of 2 pages, one of them to be escalated, 2 contents of the file, 2 attempts, one crash | are finals sound and kept, are notes of the current final, does every run end? |
| `ocr_files` | cache: 2 clients, 2 books, 2 pages, room for 4 pieces, 3 reservations, 2 slots, one death; locks: 2 processes with a worker and a caller each, one death; migration: 3 kinds of old files, 2 foreign writes, 3 crashes | is what is used kept, is a refusal justified, do publications exclude each other, is the sealed migration whole and nothing lost? |
| `rows_and_directories` | topics: 2 requests, 3 inodes, 2 topics, one trouble; tasks: 2 processes, 2 tasks, 3 model calls, 3 claims, one fault | do rows and directories agree, are claims kept, do files of the user stand? |
| `processes` | shell: 2 callers, 2 commands, one fault; keepers: 2 workers, one kill, one scan that misses, one hand-off | is no child lost, are exits clean, does everything end? |
| `scheduler_factory` | 2 files and an empty batch, failing factory | violated: finding 1 |
| `ocr_locks_ends` | one process with a worker and a caller | violated: finding 5 |
| `topics_confirm` | 2 threads, 2 chapters, 2 changes | violated: finding 6 |

*Bounds.* Two files in a batch are enough for a batch to be half done; a second
batch competes for admission. One failed write is enough to stop a flush anywhere
and have the retry loop compete with every other call; a retry that fails again
is the same state with a lower budget. Crashes of the scheduler are not bounded. Queues and
buffers of two events against up to four make overflow, replay and
partial replay happen. The dispatch instance has enough files for a level to
wait as long as it may: the bound of `LevelsAlternate` is reached and not passed.
In `markdown_journal` two files in one directory and one in
another give a half replaced directory and a half replaced entity; two
publications give a journal of the first under the second; three revisions give
an edit before and after a staging. Exceptions and crashes are not bounded.
The finalization of a generation may exceed the bound on revisions by one step.
In `generation` one worker that is slow and one that takes over are
all the roles there are, an owner further back being refused as the last one is; two rounds before the
review give a prefix that is restored, a round that is not, and a candidate after a gap; two inputs
give a change and the way back. Expiries, exceptions, edits and restarts of a chapter are not bounded.
For a topic one round and the review are two readings of the input, and one change
can fall before, between or after them; every change that is not one of the input
(reviews, expiries, recoveries, confirmation) is free. The course may have been
confirmed, and chapters read, before the first step.

In `ocr_batch` one page completes directly and one waits for a reviewer; a
second content makes a running batch, a final, a tree and a note stale; two
attempts are one retry and its exhaustion. A second process changes nothing but
who resumes: the claim admits one. In `ocr_files` the cache has less room than two
clients want, so that reservation, eviction and refusal all happen, and slots that
the two books share. Each process of the locks has the two kinds of threads that
meet. Three crashes let a recovery be struck twice, two foreign writes reach both
ends of the exchange. In `rows_and_directories` a merge has two topics and a third
inode for a name that is taken meanwhile; one trouble (a crash, a failing
transaction or a file of the user) is tried at every step. Two tasks are a hit and
its copy; three calls of the model tell a parse, a resume and a second parse
apart; one fault may be a crash of the service with all its workers. In
`processes` two commands take a generation of the stop and one of the start
each, beside the first start; the second worker of the service is the one a
scan does not see.

Deadlock is checked in no run: every system here stops when all submitted work
is done or the budgets are spent.
That work that was begun does end is what the temporal properties say.

*Fairness.* The event loop runs what is ready and the thread pool runs what is
queued: weak fairness of each task's coroutine and worker, of each suspended
call, of each retry loop and of a shutdown. A parse ends (an assumption on the
pipeline). Nothing is assumed of clients, failures and crashes in the scheduler;
a process that is down is started again. In `ocr_batch` the worker thread runs,
engines and models answer or time out (they have deadlines), and a process that
stopped is started again: weak fairness of `Worker`, `Requester` and `Restart`. In the
shell, threads that are not waiting for a command run: weak fairness of
`Progress`, under which what times out may do so or not. Supervisor and watchdog are weakly
fair while they run, and so is the gate of the service; nothing says that a
worker of the service ever ends by itself. `FairSpec` of `OcrLocks` gives strong
fairness to whoever polls for a lock, which is more than `flock` promises; the
violation of `ClaimEnds` is found all the same.

## 4. Proofs

### The scheduler

`BatchSchedulerProofs` proves for every finite set of tasks, any set of batches and any limits:

* `TypeCorrect`: `Spec => []TypeOK`.
* `WorkersHoldSlots`: `Spec => []WorkerHoldsSlot`.
* `FinalizedBatchesAreQuiet`: `Spec => []FinalizedIsQuiet`.
* `ClosedBatchesHaveClosedTasks`: `Spec => []ClosedBatchHasClosedTasks`.
* `ContractHolds`: `Spec => ImplementsContract`, the refinement of `BatchContract`.
* `CancellationHolds`: `Spec => CancelIsObeyed`.

The assumptions are `BatchesAssumption` and `LimitsAssumption` of
`BatchScheduler`: the set of tasks is finite, every task has a batch, limits are positive.

None of the properties is inductive. The invariant that is, `SafeInv`, has four
parts. `TypeInv` adds to `TypeOK` what the code's data structures imply.
`CoroutineInv` ties the place of a coroutine to its request, worker and completion:
a task with a registered completion has ended; a live worker has a coroutine waiting
for it. `BatchRowInv` ties `finalized`, `status` and the batch row: only a batch
with every completion done is finalized, and its row was written in the same step.
`TaskRowInv` says which rows may be open: an open task row belongs to a batch whose
row is RUNNING. Each needs the others: `FinalizedIsQuiet` follows from "all
completions are done", which implies that coroutines have ended only by
`CoroutineInv`, and the batch row is closed after the task rows only because `Flush`
records all of them first.

Most actions record completions, so the argument about `Flush` is made once:
`PersistSound(S)` says what any such step does to the rows and completions of
the tasks `S` it registers, a lemma shows that `Flush` and its callers satisfy
it, and the lemma of each action uses only that.

The refinement adds one part to the invariant, that a recorded completion has its
outcome (`DoneInv`). `PersistOf(b)` says of the persistence half of a step that it
records completions of one batch and closes it only when all are recorded;
`Serves(b)` adds that it may accept a cancellation. A step that serves one batch is a
settlement, a closing or a silent step of the contract, and the status with
which it closes is the join of the recorded outcomes. A crash, and a start of the
process, are steps of the contract of their own.

### The event stream

`ServingProofs` proves for any batches, clients, events and broken connections and any
sizes of the buffers:

* `StreamHasNoGap`: `Spec => []NoGapNoDuplicate`.
* `BacklogIsComplete`: `Spec => []BacklogReachesTheEnd`.

The assumption is `StreamAssumption`. `IInv` has, for every batch, that its buffer holds the
last events up to the latest one and is not empty once the batch is known (`Rings`), and for
every client (`Client`) two things. What it got is in order and misses nothing above
`Floor`, the number below which the buffer has dropped everything (`Orderly`). What is under
way to it goes up to the latest event, and continues where it stopped or, where it does not,
jumps only over what is below `Floor` (`Complete`). `Floor` never falls, so neither is
disturbed by other events. The lemma on `Replay` needs the first event that is newer than a
given number; that there is one is the least-number principle of the library, used on a set
of positions and not as an induction over sequences. The rest is about a step which
moves an event from one sequence to another.

### Dispatch levels

`ServingProofs` proves for any batches, priorities, limits and burst:

* `QueueTypeCorrect`: `Q!Spec => []Q!TypeOK`.
* `LevelsTakeTurns`: `Q!Spec => []LevelsAlternate`.

The assumption is `QueuesAssumption`, which is the one of `DispatchPolicy`: the
batches are finitely many, limits and burst are positive. `QueueInv` counts: the
highest of the levels that compete waits for one deferral (`TopPatient`); a lower
one waits no longer than the streak that is running and, for each level deferred to
since its own deferral, a burst and the deferral (`LowerPatient`, where `Since` is
the set of these levels). A deferral moves the cursor down to the next level or back
to the highest of the lower ones, so it adds one level to `Since` and a level that
has all others in it is the next. This is an argument about levels that stay the
same: for a level that merely keeps an eligible request, whoever competes with it, the
bound does not hold (finding 3).

### The publication of Markdown files

`MarkdownPublicationProofs` proves for any set of publishers, any files and any
bounds:

* `TypeCorrect`: `Spec => []TypeOK`.
* `CommitsCurrent`: `Spec => CommittedIsCurrent`.
* `PublishesAtomically`: `Spec => ImplementsContract`, the refinement of
  `AtomicPublication`.

The only assumption is `PublicationAssumption`: the actors and the two
directories are distinct. `IInv` is inductive. `Locks` says who holds the locks
in which phase. `Ids` says that ids are fresh and that what is claimed or staged
is not committed, so that a journal in place before the commit is one to undo.
`Judged` says that the two receipts never disagree about a journal that is still
there, so that it does not matter who recovers it. `Rendered` bounds what
was rendered between the revision that was taken and the current one; if these
are equal, as the fence checks, everything is of that revision.
`InPlace` says how far a publication in its transaction has got: directories
done hold their journal and all new files, those left have no journal, and
every file that existed has its backup. `HandledSound` says that an entry the
recovery has dealt with needs its journal no more. A lemma for each part shows
that every action preserves it. The refinement then has one lemma for
each group of actions: recovering an entry, removing a journal, writing one and
replacing a file leave `Shown` as it is; a commit is `Publish` of its bundle.

### The generation of a chapter

`GenerationProofs` proves for any workers, any number of rounds and any
inputs:

* `TypeCorrect`: `Spec => []TypeOK`.
* `OnlyTheOwnerRuns`: `Spec => []RunsBelongToLease`.
* `StagedIsComplete`: `Spec => []StagedCanFinish`.
* `LateWorkersWriteNothing`: `Spec => LostLeaseWritesNothing`.
* `CompletesAsStaged`: `Spec => CompletedAsStaged`.
* `StagesOneInput`: `Spec => StagedFromOneInput`.

The only assumption is `GenerationAssumption`. The difficulty is that the code
checks the lease in few places, and checks other things that stand for it in the
others. `IInv` says why they do. A RUNNING row is the owner's (`RunsBelongToLease`)
and of the round its owner is at (`RunsAreCurrent`), so a check of the run is a
check of the owner. A worker that goes on without the lease owns no candidate
(`CandidatesFollow`), so what it discards is nothing. The chapter of an owner that
generates is RUNNING (`OwnersRun`). `Candidates` says how the rows of the owner
grow: they have one owner, one row a round, and `Progress` ties each row before the
round its owner is at to the accepted input and to its executor, restored or
produced. `StagedFromOneInput` is `Progress` at the review. One lemma for each
action shows that it keeps `IInv`.

### The generation of a topic

`GenerationProofs` proves, under `TopicsAssumption` of `Generation`, for any threads and
chapters and any number of changes:

* `TopicTypeCorrect`: `T!Spec => []T!TypeOK`.
* `OneInput`: `T!Spec => []PublishedFromOneInput`.
* `CompletedCurrent`: `T!Spec => []CompletedIsCurrent`.
* `SyncedCurrent`: `T!Spec => []SyncedMapIsCurrent`.

A fingerprint is a pair of counters that only grow. Every round reads the input anew and
no round looks whether it changed; only `Publish` compares the accepted input
with the present one. `AcceptedStands` and `ReadSince` say why this is enough: all that
was read lies between the two, and if these are equal, everything in between is.
`CompletedStands` says that the chapters of a COMPLETED topic keep their reviews unless the
topic is told, so that nothing makes it READY or DRAFT behind its back.

### The directories of topics

`StoresProofs` proves for any threads, inodes and number of topics:

* `TypeCorrect`: `Spec => []TypeOK`.
* `UserFilesStay`: `Spec => UserFileStands`.
* `PublishedMapStays`: `Spec => []MapIsKept`.

The only assumption is `DirectoriesAssumption`. `IInv` has three parts: the types;
`Busy`, that a request is about some topic; and `InPlace`, that
a file of the user is in a directory that has a name. The last one is needed
because a directory without a name may be used again for a new inode, which starts empty.
`Keeps` says of a step that it takes no such file away and makes none; one lemma
for each action shows `IInv'` and `Keeps`. Every removal is of files that the program
knows, followed by a removal of the directory, which needs it empty; the
lemmas of `Clean`, `DeleteDir`, `MergeFails` and `CrashRemoving` are where this is used.

`MapIsKept` needs to know which inode a request removes, for names change under it.
`KInv` adds `Held`: an inode that a request has opened for a topic has, until the
request lets it go, no name of another topic; it is held for one topic only; who
deletes or commits has opened one; and a merge cleans up after its rows are gone.
The directory of a published topic could only be emptied by one that holds it, which
holds it for this topic, and a deletion or a merge of this topic takes its row with
it.

### The store of tasks

`StoresProofs` proves, under `TasksAssumption` of `Stores`, for any processes and tasks, any
sequence of commands and any faults:

* `StoreTypeCorrect`: `K!Spec => []K!TypeOK`.
* `CompletedWhole`: `K!Spec => []CompletedIsWhole`.
* `DirectoryRow`: `K!Spec => []DirectoryHasRow`.
* `AnswersTrue`: `K!Spec => []AnswerIsTrue`.
* `ClaimStays`: `K!Spec => []ClaimIsKept`.

The argument is the lock file of a task, which the code takes in different places for
a parse, a resume, a hit and a purge. `SoundProc` is what a process knows about the
task it is about: its row, its directory, what it stages, its claim. `Frame` says that a
step changes rows and directories of the task only whose lock it holds;
`OthersStand` concludes that what the others know stands, and one lemma for each action
deals with the process that steps. One thing is read without a lock: the
pictures of a task that is copied while it is purged. `CutIsGone` says that a copy
comes out short only after the directory has gone and the row can no more be
COMPLETED, which is what `verify` finds.

### The OCR of a book

`OcrWorkflowProofs` proves for any processes, pages, contents of the file and limits:

* `TypeCorrect`: `Spec => []TypeOK`.
* `SoundFinal`: `Spec => []FinalIsSound`.
* `CompletedKept`: `Spec => CompletedIsKept`.
* `NoteBound`: `Spec => NoteIsOfCurrentFinal`.

The only assumption is `OcrAssumption`. `IInv` is `TypeOK`, which says also that the
worker lives while its process holds the claim and seals only under the lock;
`Walk`; and `NoteLock`, that a requester which binds a note has the lock. `Walk`
follows the batch: whatever is in `batch-state.json` or in memory has pages whose
evidence fits their status and the batch's content (`BatchOK`), also after any
crash; what the loop has left behind is complete or waits for the reviewer
(`Passed`); so at the end of the loop, and nowhere else, the batch is what a
final may say (`Sealing`). `CompletedKept` needs beside it that a run starts
only where no completed final of the same file is found.

### The files of the OCR

`OcrFilesProofs` proves, under `FilesAssumption` of `OcrFiles`:

* `MigrationTypeCorrect`, `SealedWhole`, `EditedStands`, `NothingLost`: `TypeOK`,
  `SealedIsWhole`, `EditedSourceStands` and `NothingIsLost` of `LegacyMigration`, for
  any kinds of old files, any edits and any number of crashes;
* `OneAtATime`: `L!Spec => []OnePublication` of `OcrLocks`, for any processes and threads;
* `UsedKept`: `C!Spec => []UsedIsKept`, and `ForAReason`: `C!Spec => RefusedForAReason`,
  of `PageCache`, for any clients, books, pages and limits.

*Migration.* A crash may leave any prefix of the file operations, and a recovery may itself be struck,
so `IInv` says of every phase in the journal what lies where. `Belongs` and
`Once` say which objects a place may hold and that what is moved away is in one place
only; `Witness` ties commit and seal to the journal; `Receipts` and
`Progress` say which labels have reached their target from which phase on; `Swapped`
and `Hidden` where the old and the new batch file are, and that a foreign file is
under the new one only until it is looked at; `Published` and `Linked` the same of the
manifest; `Modes` what the process has found out, as long as it acts on it.
`SealedIsWhole` follows from `Progress` at the last phase. `NothingIsLost` needs it too: a move
finds its target empty because of the phase. One lemma for each of the 25 actions.

The proof found that two CASE arms of `CommitMove` and of `SealFirst` overlapped in
the model, in states that are not reachable, so that TLC could not tell; the arms
now exclude each other, in the order in which the code tests them.

*Locks.* `LockInv` says that a thread inside the transaction holds the
publication file and that an owner of it is inside. The directory lock, which
does not exclude others (finding 7), is not needed.

*Cache.* `Fine(c)` is what a client has at each of its steps: reservations, the lock of its page,
its pieces. `Leaves` says that a step of one takes none of this from
another: it drops reservations of dead clients only and evicts only what is
`Unlocked`, for which the lock of the page and the slot of the job stand. A
refusal has its reason because an eviction that found enough is enough:
`MeasuredAll` says that the categories add up to the whole, and `EnoughIsEnough` that what was
evicted for being the overrun of the category and of the cache removes
both. `Countable` (everything is finite) is the invariant it needs.

### The desktop shell

`ProcessesProofs` proves for any callers, any number of commands and any faults:

* `ShellLosesNoChild`: `Spec => []NoChildIsLost`.
* `ShellExitsClean`: `Spec => []CleanExitLeavesNothing`.

The assumption is `SidecarAssumption`, among it that no thread of a command is a
cleanup thread. `IInv` has the types and five parts. `Kept`, the heart: a child that
lives is owned by the slot of the application or leased by the one thread that ends
it. `Leases` says that there is one such thread and that the slot is empty
meanwhile. `Starts` and `Spawns` say that a thread in the middle of a start has a
generation of its own and that, as long as this is still the latest one, nothing is
owned and nothing being stopped when it spawns, so that the new child takes no other
one's place. `Exits` says that an approved clean exit has found no child, and that
no start can follow, since the application has been told to exit before. Most steps
change none of this: `Moves` and `Holds` describe them, and one lemma deals with
all.

### The supervisor

`ProcessesProofs` proves for any workers of the service, any number of hand-offs,
of kills and of scans that fail:

* `StatusIsClean`: `K!Spec => []StatusMeansClean`.

The assumption is `KeepersAssumption`, that the workers are none of the four other
processes. The property says that no process is left, or that work was handed on behind
a scan at least twice; the run has one hand-off, where only the first can be. `KeepersInv` is
about the watchdog that was asked to clean up; by then there is no sidecar and none
can be forked (`SidecarIs`), so everything that lives carries the marker. `Scans`
says that after `e` empty scans nothing lives (`Escapes`), or `e` hand-offs went before, one
behind each of them; and that before the inspection of the next one what lives is on
its list (`Unlisted`), or one more hand-off went before. So what an empty inspection
does not find was handed on behind it. `Answered` carries this from the watchdog's answer
to the status that is returned. The bound is tight: with two hand-offs and three workers
TLC finds the status returned with a worker left, and none with less.

### Limits

The proofs do not use liveness, `ENABLED`, or induction over data; these are out of
the prover's reach. So the liveness properties (`BatchEnds`, `ShutdownCompletes`,
`RunEnds`, `ShellSettles`, `NothingOutlivesTheShell`) are model-checked only. Every
safety property that a passing run checks is a theorem. The `TypeOK` of a module
says what its variables may be; for `BatchScheduler`, `DispatchPolicy`,
`MarkdownPublication`, `ChapterGeneration`, `TopicGeneration`, `TopicDirectories`,
`TaskStore`, `OcrWorkflow` and `LegacyMigration` it is proved for every instance.

The theorems are about one component each. That the components fit together as
section 2 says is not proved: it is the reading of the code at the points named there.

## 5. Findings

Three are shown by runs. Of the others the module named states the property that
does not hold, marked so, where there is one.

1. *A failing orchestrator factory counts as success* (`scheduler_factory`).
   `_run_task` starts with `final_status = "COMPLETED"` and catches only
   `CancelledError` around `orch_factory()` and `executor.submit()`
   (`scheduler.py`:677). Any other exception records the task as COMPLETED; the
   design (`2026-07-06-serving-layer-design.md`:316) says FAILED.
2. *Round robin among more than two batches is not fair* (`DispatchPolicy!RoundRobin`). If
   the batch selected last has no eligible request, the selection starts again
   at the oldest one (`scheduler.py`:542-545); a third batch of the same priority
   is passed over while the first two have files.
3. *A priority level starves* (`DispatchPolicy!NoLevelStarves`, `scheduler.py`:505-527). With two slots and
   one task of a batch at a time the highest level has no eligible request while its task
   runs. If the streak is full just then, the middle level counts as the highest, the deferral goes to
   the lowest, and its grant resets the streak; the middle level waits for the next burst, after which
   the same may happen. The test of the rotation (`test_scheduler.py`:2617, 2655) asserts a bound of a burst
   and a deferral for each other level, on one slot; here it is passed, periodically and without end
   as long as the others have files. TLC shows it for one batch on each of three levels with 9, 1 and 4
   files, concurrency 1, two slots and the burst of 3.
4. *A cancelled review cannot be started again* (`workflow.py`:5984,
   `OcrWorkflow!CancelledReviewRestarts`). The cancelled run discards the final,
   and `start_review` wants one that is REVIEW_REQUIRED; the plan of the review
   (`2026-09-12-commercial-p0-a-ocr-review.md`:3012) expects another click to run it again.
5. *A publication and an OCR run of one process wait for each other*
   (`ocr_locks_ends`, `workflow.py`:2541). The publication looks for a registered
   claim before the worker has registered it, then polls for the
   directory with the turn in its hands; the worker holds the directory and
   needs the turn.
6. *Confirming the topics of a course writes over RUNNING* (`topics_confirm`,
   `repository.py`:2159). The topic becomes READY, its lease row stays, and it can
   neither be started nor recovered.
7. *The end of a worker takes the lock of a publication* (`workflow.py`:393,
   `OcrLocks!LeaseIsHeld`). It closes the descriptor that a publication of another
   thread has borrowed, although the comment at line 358 says that cooperative code cannot
   unlock it.
8. *INTERRUPTED tasks of the service are not recoverable* (`serve.py`:312). The
   message calls them so; no route and no start resumes one, and the command line has
   another store.
9. *A late clean-up thread stops a newer service* (`sidecar.rs`:2153, 2127;
   `SidecarLifecycle!WantedServiceSettles`). It compares the generation, or does not, and then
   stops whatever child there is; the wanted service stays stopped.
10. *Editing a note of a chapter marks no topic STALE* (`repository.py`:4079), as
    the design of the fusion (line 212) wants it.
11. *A STALE topic says SYNCED with an old note on disk*
    (`topic_pipeline.py`:416): a retry writes only `topic-map.md`.
12. *A directory without a marker is refused for ever*
    (`topic_markdown_sync.py`:565, `TopicDirectories!SyncCanContinue`), when a
    process is struck between `mkdir` and the write of the marker.

Noted in reading: a note block edited while a generation is SYNC_PENDING makes the
staged output differ, and the next start discards the whole generation
(`repository.py`:1335). The finalization sets the status of the review row after the
files were rendered, so `runs/review.md` shows SYNC_PENDING until the next
publication. The receipt keeps the last publication only: a publisher whose step
raises after it released the locks may find its committed publication replaced by
another one and report a failure (`markdown_sync.py`:706). The design of the reading
notes (`2026-07-09-hybrid-intensive-reading-design.md`:121) keeps the note blocks of
the rounds that succeeded when a later one fails; the code keeps their candidates
and writes note blocks only when all rounds and the review passed. Candidates
outlive a generation that completed, so a chapter that is confirmed again with the
same input and a `DeepSeekExecutor` reuses them; a stub or hybrid executor never
does. A handler that lost its lease between the two transactions of
`pipeline.py`:569-584 writes a FAILED row to `wb_runs`, if that round has none. The
design (line 316) gives a batch with some failed tasks the status PARTIAL, the code
FAILED (`_terminal_status`, asserted by the tests). The history limit may purge a
batch before the documented TTL of 30 minutes. The commit of a start in the shell
looks for the error "logging" only, not for "shutdown" (`sidecar.rs`:1533-1540); no
run finds a harm in it.

## 6. Not modelled, and plan

Not modelled, because they compute or only pass on: the document parser, LLM clients and model
executors (a call ends with any answer, fails or is late, which is a step of
the modules that make it), OCR engines and text processing (any answer in
`OcrWorkflow`), the validation and delegation of the REST routes, the argument
parsing of the command line, the React views, and everything that packages
and releases the application. Within modelled components, section 2 names
what is left out.

Not modelled yet, in the order in which it would add most:

1. `ConnectionLock`: savepoints of nested transactions on one shared connection
   (`storage/connection_lock.py`:94); each transaction is one step of the modules here.
2. `SourceImport`: the journal and the recovery of a copied file
   (`workbench/source_import.py`:532), sequential, and of the pattern of
   `MarkdownPublication`.
3. `SettingsStore`: one file replaced under a lock (`workbench/settings.py`:221).
4. The migration of chapter directories, and the loss of writes that were not yet synced,
   in `MarkdownPublication`; the proposal of outlines beside `TopicGeneration`.
5. Proofs that parts fit together, as section 2 says they do: `MarkdownPublication` under
   `ChapterGeneration!Publish`, and `OcrLocks` under the locked steps of `OcrWorkflow`.
