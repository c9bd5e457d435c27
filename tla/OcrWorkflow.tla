---------------------------- MODULE OcrWorkflow ----------------------------
(***************************************************************************)
(* The OCR of one textbook: workbench/ocr/workflow.py, the application     *)
(* workflow of a state root, and workbench/ocr/orchestrator.py, the batch  *)
(* it runs.                                                                *)
(*                                                                         *)
(* Several processes share the state root.  One of them may hold the       *)
(* worker claim and run a batch: it takes every page through the engines,  *)
(* persists the whole batch before each call of an engine, and publishes   *)
(* the batch as final.  A requester reads the final, detects and confirms  *)
(* a chapter, and binds a generated note to it.  A process may stop        *)
(* anywhere; the batch that it leaves running is resumed.                  *)
(*                                                                         *)
(* A section of code under the publication lock is one step unless it      *)
(* writes two files or waits for a model; OcrLocks is about the locks      *)
(* themselves.  The fingerprint of a final tells its status and its file   *)
(* apart.                                                                  *)
(***************************************************************************)
EXTENDS Naturals, Sequences

CONSTANTS
    Procs, None,    \* the processes; nobody
    LastPage,       \* the pages are 1..LastPage
    Escalated,      \* the pages for which needs_baidu answers yes
    MaxSource,      \* bound of the model: the contents that the PDF file has,
                    \* one after the other, are 1..MaxSource
    MaxAttempts,    \* max_page_attempts
    MaxCrashes      \* bound of the model: processes that stop

Pages == 1..LastPage
Sources == 1..MaxSource

ASSUME OcrAssumption ==
    /\ None \notin Procs \cup {"worker", "api"} /\ MaxSource \in Nat \ {0}
    /\ LastPage \in Nat \ {0} /\ Escalated \subseteq Pages
    /\ MaxAttempts \in Nat \ {0} /\ MaxCrashes \in Nat

VARIABLES
    source,     \* the content of the PDF file
    state,      \* batch-state.json
    final,      \* batch-final.json
    tree,       \* chapter-tree.json: the final that it was detected in
    confirmed,  \* chapter-confirmation.json: the final whose tree was confirmed
    manifest,   \* note-publication.json: the final that the note is bound to
    claim,      \* the process with the worker claim
    pub,        \* who holds the publication lock: "worker", "api" or None
    up,         \* up[p]: process p runs
    status,     \* status[p]: OcrWorkflow._status
    cancel,     \* cancel[p]: OcrWorkflow._cancel is set
    step,       \* where the worker is
    mem,        \* the batch of the worker, in memory
    page,       \* the page it is at
    baidu,      \* it has a Baidu engine
    prior,      \* resumed_review: the page was waiting for a review
    reviewing,  \* it was started by start_review
    ending,     \* the result of its batch
    api,        \* the call of a requester that is under way
    crashes

diskVars == <<source, state, final, tree, confirmed, manifest>>
workerVars == <<claim, step, mem, page, baidu, prior, reviewing, ending>>
procVars == <<up, status, cancel>>
vars == <<diskVars, workerVars, procVars, pub, api, crashes>>

-----------------------------------------------------------------------------
(* Batches, pages and their evidence *)

\* The evidence that engines give of a page, in the order in which it is gathered.
\* The alignment is computed from the first two and kept with them.
Evidence(pg) ==
    IF pg \in Escalated
    THEN <<"vision", "codex", "baidu", "decision">>
    ELSE <<"vision", "codex", "decision">>

\* evidence: how many pieces the page has; of: the file that was rendered.
NewPage == [status |-> "pending", evidence |-> 0, of |-> 0, attempts |-> 0]

Fresh(s) == [status |-> "running", of |-> s, pages |-> [pg \in Pages |-> NewPage]]
NoBatch == [status |-> "none", of |-> 0, pages |-> [pg \in Pages |-> NewPage]]

PageRecords ==
    [status : {"pending", "working", "review_pending", "completed", "failed", "cancelled"},
     evidence : 0..4, of : 0..MaxSource, attempts : 0..MaxAttempts]
Results == {"completed", "review_required", "blocked", "failed", "cancelled"}
Batches ==
    [status : Results \cup {"running", "none"}, of : 0..MaxSource,
     pages : [Pages -> PageRecords]]

\* _completed_evidence_is_valid: all the pieces, of the batch's snapshot.
ValidPage(b, pg) ==
    /\ b.pages[pg].status = "completed"
    /\ b.pages[pg].evidence = Len(Evidence(pg))
    /\ b.pages[pg].of = b.of

\* _completed_ocr_final_is_valid
CompletedValid(b, s) ==
    b.status = "completed" /\ b.of = s /\ \A pg \in Pages : ValidPage(b, pg)

\* _review_final_is_valid
ReviewValid(b, s) ==
    /\ b.status = "review_required" /\ b.of = s
    /\ \E pg \in Pages : b.pages[pg].status = "review_pending"
    /\ \A pg \in Pages : b.pages[pg].status = "review_pending" \/ ValidPage(b, pg)

\* A mutant of CompletedFor: the final of the request is not looked for.
FinalNotRead(s) == FALSE

\* _completed_final_for_request, _review_final_for_request
CompletedFor(s) == state = final /\ CompletedValid(final, s)
ReviewFor(s) == state = final /\ ReviewValid(final, s)

\* _completed_transaction_exists_unlocked: whatever the request.
CompletedTransaction == state = final /\ CompletedValid(final, final.of)

\* _json_fingerprint of a final, as far as the model tells finals apart.
Fingerprint(b) == <<b.status, b.of>>
NoPrint == Fingerprint(NoBatch)
Prints == {"none", "completed", "review_required"} \X (0..MaxSource)

\* _read_ocr_final
FinalStatus ==
    IF final = NoBatch THEN "missing"
    ELSE IF CompletedValid(final, source) \/ ReviewValid(final, source)
    THEN final.status ELSE "invalid"

\* _persisted_status
Persisted ==
    IF FinalStatus = "invalid" THEN "blocked"
    ELSE IF FinalStatus # "missing" THEN FinalStatus
    ELSE IF state = NoBatch THEN "idle"
    ELSE IF state.status \in {"running", "completed", "review_required"} THEN "blocked"
    ELSE state.status

\* _effective_status
Effective(p) ==
    IF status[p] = "idle" THEN Persisted
    ELSE IF status[p] \notin {"completed", "review_required"} THEN status[p]
    ELSE IF FinalStatus \in {"completed", "review_required"} THEN FinalStatus
    ELSE "blocked"

TypeOK ==
    /\ source \in Sources /\ state \in Batches /\ final \in Batches
    /\ tree \in Prints /\ confirmed \in Prints /\ manifest \in Prints
    /\ claim \in Procs \cup {None} /\ pub \in {"worker", "api", None}
    /\ up \in [Procs -> BOOLEAN] /\ cancel \in [Procs -> BOOLEAN]
    /\ status \in [Procs -> Results \cup {"idle", "running"}]
    /\ step \in {"none", "begin", "mark", "pages", "stage", "call", "engine",
                 "publish", "seal", "finish", "ending"}
    /\ mem \in Batches /\ page \in 1..(LastPage + 1)
    /\ baidu \in BOOLEAN /\ prior \in BOOLEAN /\ reviewing \in BOOLEAN
    /\ ending \in Results \cup {"none"}
    /\ api \in [op : {"none", "prepared", "generating", "bound"},
                by : Procs \cup {None}, final : Prints, before : Prints]
    /\ crashes \in 0..MaxCrashes
    \* the worker exists while its process holds the claim
    /\ (step = "none") = (claim = None)
    /\ claim # None => up[claim]
    /\ pub = "worker" <=> step = "seal"

NoCall == [op |-> "none", by |-> None, final |-> NoPrint, before |-> NoPrint]

Init ==
    /\ source = 1 /\ state = NoBatch /\ final = NoBatch
    /\ tree = NoPrint /\ confirmed = NoPrint /\ manifest = NoPrint
    /\ claim = None /\ pub = None
    /\ up = [p \in Procs |-> TRUE] /\ cancel = [p \in Procs |-> FALSE]
    /\ status = [p \in Procs |-> "idle"]
    /\ step = "none" /\ mem = NoBatch /\ page = 1
    /\ baidu = FALSE /\ prior = FALSE /\ reviewing = FALSE /\ ending = "none"
    /\ api = NoCall /\ crashes = 0

-----------------------------------------------------------------------------
(* The workflow: start, review, cancel, stop and resume *)

\* start takes the claim and launches the thread.
Launch(p, key, review) ==
    /\ claim = None
    /\ claim' = p /\ step' = "begin" /\ baidu' = key /\ reviewing' = review
    /\ status' = [status EXCEPT ![p] = "running"]
    /\ cancel' = [cancel EXCEPT ![p] = FALSE]
    /\ UNCHANGED <<mem, page, prior, ending>>

Start(p) ==
    /\ up[p] /\ \E key \in BOOLEAN : Launch(p, key, FALSE)
    /\ UNCHANGED <<diskVars, up, pub, api, crashes>>

\* The route refuses a review without a Baidu key.
StartReview(p) ==
    /\ up[p] /\ FinalStatus = "review_required" /\ Launch(p, TRUE, TRUE)
    /\ UNCHANGED <<diskVars, up, pub, api, crashes>>

Cancel(p) ==
    /\ up[p] /\ ~cancel[p]
    /\ cancel' = [cancel EXCEPT ![p] = TRUE]
    /\ UNCHANGED <<diskVars, workerVars, up, status, pub, api, crashes>>

\* The thread goes: _run sets the status and releases the claim.
WorkerGone ==
    /\ claim' = None /\ step' = "none" /\ mem' = NoBatch /\ page' = 1
    /\ baidu' = FALSE /\ prior' = FALSE /\ reviewing' = FALSE /\ ending' = "none"

EndRun ==
    /\ step = "ending" /\ WorkerGone
    /\ status' = [status EXCEPT ![claim] = ending]
    /\ UNCHANGED <<diskVars, up, cancel, pub, api, crashes>>

\* The process stops; the kernel drops its locks.
Crash(p) ==
    /\ up[p] /\ crashes < MaxCrashes /\ crashes' = crashes + 1
    /\ up' = [up EXCEPT ![p] = FALSE]
    /\ status' = [status EXCEPT ![p] = "idle"]
    /\ cancel' = [cancel EXCEPT ![p] = FALSE]
    /\ IF claim = p THEN WorkerGone ELSE UNCHANGED workerVars
    /\ api' = IF api.by = p THEN NoCall ELSE api
    /\ pub' = IF \/ claim = p /\ pub = "worker"
                 \/ api.by = p /\ pub = "api"
              THEN None ELSE pub
    /\ UNCHANGED diskVars

\* _interrupted_run_config
Interrupted == state.status = "running" /\ state.of = source

\* The constructor of a new process resumes an interrupted batch if it gets the
\* claim.
Restart(p) ==
    /\ ~up[p] /\ up' = [up EXCEPT ![p] = TRUE]
    /\ IF Interrupted /\ claim = None
       THEN \E key \in BOOLEAN : Launch(p, key, FALSE)
       ELSE UNCHANGED <<workerVars, status, cancel>>
    /\ UNCHANGED <<diskVars, pub, api, crashes>>

\* The user replaces the PDF file.
ReplaceSource ==
    /\ source < MaxSource /\ source' = source + 1
    /\ UNCHANGED <<state, final, tree, confirmed, manifest,
                   workerVars, procVars, pub, api, crashes>>

-----------------------------------------------------------------------------
(* run_batch *)

Cancelled == cancel[claim]

\* _persist: nothing is written over a completed publication.
Persist(b) == state' = IF CompletedTransaction THEN state ELSE b

\* The batch returns; what the handlers of run_batch leave to _run.
Return(result) == step' = "ending" /\ ending' = result

\* An exception, or a result other than a final: _finish is next, with the
\* current page marked unless it is completed.
Finishing(result, mark) ==
    /\ step' = "finish" /\ ending' = result
    /\ mem' = IF mark = "none" \/ mem.pages[page].status = "completed" THEN mem
              ELSE [mem EXCEPT !.pages[page].status = mark]

\* The request is answered by the final that is there, or the final is discarded
\* and the persisted batch of the same request is taken up.
Begin ==
    /\ step = "begin" /\ pub = None
    /\ IF CompletedFor(source)
       THEN Return("completed") /\ UNCHANGED <<final, mem>>
       ELSE IF ~baidu /\ ReviewFor(source)
       THEN Return("review_required") /\ UNCHANGED <<final, mem>>
       ELSE /\ final' = NoBatch
            /\ IF Cancelled
               THEN Return("cancelled") /\ UNCHANGED mem
               ELSE /\ step' = "mark" /\ ending' = ending
                    /\ mem' = IF state.of = source THEN state ELSE Fresh(source)
    /\ UNCHANGED <<source, state, tree, confirmed, manifest, claim, page, baidu, prior,
                   reviewing, procVars, pub, api, crashes>>

\* An engine is not configured, or the file cannot be read.
BeginFails ==
    /\ step = "begin" /\ \E r \in {"blocked", "failed"} : Return(r)
    /\ UNCHANGED <<diskVars, claim, mem, page, baidu, prior, reviewing, procVars, pub, api, crashes>>

\* _set_status(RUNNING)
Mark ==
    /\ step = "mark" /\ pub = None
    /\ IF Cancelled
       THEN Finishing("cancelled", "none") /\ UNCHANGED <<state, page>>
       ELSE /\ mem' = [mem EXCEPT !.status = "running"] /\ Persist(mem')
            /\ step' = "pages" /\ page' = 1 /\ ending' = ending
    /\ UNCHANGED <<source, final, tree, confirmed, manifest, claim, baidu, prior, reviewing,
                   procVars, pub, api, crashes>>

\* A page that needs nothing: done, or waiting for a review that cannot be made.
Settled(b, pg) ==
    \/ ValidPage(b, pg)
    \/ ~baidu /\ b.pages[pg].status = "review_pending"

\* Every run of a page counts as an attempt.
Charged(rec) == [rec EXCEPT !.attempts = @ + 1]

\* The next turn of the loop over the pages.
TakePage ==
    /\ step = "pages" /\ page \in Pages
    /\ LET rec == mem.pages[page]
           reset == rec.status \in {"review_pending", "completed"}
           start == IF reset THEN NewPage ELSE rec
       IN IF Cancelled
          THEN Finishing("cancelled", "cancelled") /\ UNCHANGED <<page, prior>>
          ELSE IF Settled(mem, page)
          THEN /\ page' = page + 1
               /\ UNCHANGED <<step, mem, prior, ending>>
          ELSE IF start.attempts >= MaxAttempts
          THEN Finishing("failed", "none") /\ UNCHANGED <<page, prior>>
          ELSE /\ mem' = [mem EXCEPT !.pages[page] = Charged(start)]
               /\ prior' = (rec.status = "review_pending") /\ step' = "stage"
               /\ UNCHANGED <<page, ending>>
    /\ UNCHANGED <<diskVars, claim, baidu, reviewing, procVars, pub, api, crashes>>

\* _run_page up to the next call of an engine: the batch is persisted with the
\* evidence so far.
NextEvidence == Evidence(page)[mem.pages[page].evidence + 1]

SetPage(rec) == mem' = [mem EXCEPT !.pages[page] = rec]

Stage ==
    /\ step = "stage" /\ pub = None
    /\ LET rec == mem.pages[page]
           done == rec.evidence = Len(Evidence(page))
       IN IF Cancelled
          THEN Finishing("cancelled", "cancelled") /\ UNCHANGED <<state, page>>
          ELSE IF done
          THEN /\ SetPage([rec EXCEPT !.status = "completed"]) /\ Persist(mem')
               /\ page' = page + 1 /\ step' = "pages" /\ ending' = ending
          ELSE IF NextEvidence = "baidu" /\ ~baidu
          THEN /\ SetPage([rec EXCEPT !.status = "review_pending"]) /\ Persist(mem')
               /\ page' = page + 1 /\ step' = "pages" /\ ending' = ending
          ELSE /\ SetPage([rec EXCEPT !.status = "working"]) /\ Persist(mem')
               /\ step' = "call" /\ UNCHANGED <<page, ending>>
    /\ UNCHANGED <<source, final, tree, confirmed, manifest, claim, baidu, prior, reviewing,
                   procVars, pub, api, crashes>>

\* _call_engine: the cancellation is looked at before and after the call.
Call ==
    /\ step = "call"
    /\ IF Cancelled
       THEN Finishing("cancelled", "cancelled")
       ELSE step' = "engine" /\ UNCHANGED <<mem, ending>>
    /\ UNCHANGED <<diskVars, claim, page, baidu, prior, reviewing, procVars, pub, api,
                   crashes>>

\* A mutant of SnapshotMatches: the rendered file is not compared.
AnySnapshot == TRUE

\* _validate_vision_pdf_snapshot: the page was rendered from the batch's file.
SnapshotMatches == NextEvidence = "vision" => source = mem.of

EngineAnswers ==
    /\ step = "engine" /\ ~Cancelled /\ SnapshotMatches
    /\ mem' = [mem EXCEPT !.pages[page].evidence = @ + 1,
                          !.pages[page].of = IF NextEvidence = "vision" THEN source ELSE @]
    /\ step' = "stage"
    /\ UNCHANGED <<diskVars, claim, page, baidu, prior, reviewing, ending, procVars, pub, api, crashes>>

\* A mutant of PageAfterReview: the page is tried again.
SamePageAgain == page

\* The loop goes on after the page whose review failed.
PageAfterReview == page + 1

\* _validate_decision: a decision that is not acceptable blocks the batch.
Refusable == NextEvidence = "decision"

\* The call raises, its result is refused, or the run was cancelled meanwhile.
\* A page whose review was resumed goes back to waiting for it, but not when the
\* time ran out: that ends the run as it does for any page.
EngineFails ==
    /\ step = "engine" /\ pub = None
    /\ \/ /\ Cancelled
          /\ Finishing("cancelled", "cancelled") /\ UNCHANGED <<state, page>>
       \/ /\ ~Cancelled /\ prior
          /\ mem' = [mem EXCEPT !.pages[page].status = "review_pending"]
          /\ Persist(mem') /\ page' = PageAfterReview /\ step' = "pages" /\ ending' = ending
       \/ /\ ~Cancelled
          /\ \E r \in {"failed", "blocked"} :
               /\ r = "blocked" => Refusable /\ ~prior
               /\ Finishing(r, "failed")
          /\ UNCHANGED <<state, page>>
    /\ UNCHANGED <<source, final, tree, confirmed, manifest, claim, baidu, prior, reviewing,
                   procVars, pub, api, crashes>>

\* All pages are completed or wait for a review: the state is written as final.
PublishState ==
    /\ step = "pages" /\ page > LastPage /\ pub = None
    /\ LET waiting == \E pg \in Pages : mem.pages[pg].status = "review_pending"
       IN IF Cancelled
          THEN /\ step' = "finish" /\ ending' = "cancelled" /\ pub' = pub /\ state' = state
               /\ mem' = IF mem.pages[LastPage].status = "completed" THEN mem
                         ELSE [mem EXCEPT !.pages[LastPage].status = "cancelled"]
          ELSE /\ ~CompletedTransaction
               /\ mem' = [mem EXCEPT !.status =
                              IF waiting THEN "review_required" ELSE "completed"]
               /\ state' = mem' /\ pub' = "worker" /\ step' = "seal" /\ ending' = ending
    /\ UNCHANGED <<source, final, tree, confirmed, manifest, claim, page, baidu, prior,
                   reviewing, procVars, api, crashes>>

\* The publication transaction ends.
Unlocked == pub' = None

\* _publish_atomically_unlocked, and the end of the publication transaction.
PublishFinal ==
    /\ step = "seal" /\ Unlocked
    /\ IF Cancelled
       THEN /\ step' = "finish" /\ ending' = "cancelled" /\ final' = final
            /\ mem' = IF mem.pages[LastPage].status = "completed" THEN mem
                      ELSE [mem EXCEPT !.pages[LastPage].status = "cancelled"]
       ELSE final' = mem /\ mem' = mem /\ Return(mem.status)
    /\ UNCHANGED <<source, state, tree, confirmed, manifest, claim, page, baidu, prior,
                   reviewing, procVars, api, crashes>>

\* AtomicCommitError: the directory could not be synchronised; the new final is
\* there or not, and run_batch lets the exception pass.
PublishUncertain ==
    /\ step = "seal" /\ pub' = None /\ final' \in {final, mem}
    /\ Return(IF Cancelled THEN "cancelled" ELSE "failed")
    /\ UNCHANGED <<source, state, tree, confirmed, manifest, claim, mem, page, baidu, prior,
                   reviewing, procVars, api, crashes>>

\* _finish
Finish ==
    /\ step = "finish" /\ pub = None /\ Return(ending)
    /\ IF CompletedTransaction THEN UNCHANGED <<state, final, mem>>
       ELSE /\ final' = NoBatch /\ mem' = [mem EXCEPT !.status = ending] /\ state' = mem'
    /\ UNCHANGED <<source, tree, confirmed, manifest, claim, page, baidu, prior, reviewing,
                   procVars, pub, api, crashes>>

-----------------------------------------------------------------------------
(* The chapter and the note *)

\* completed_evidence
HasEvidence(p) == Effective(p) \in {"completed", "review_required"}

DetectChapters(p) ==
    /\ up[p] /\ pub = None /\ HasEvidence(p) /\ tree # Fingerprint(final)
    /\ tree' = Fingerprint(final)
    /\ UNCHANGED <<source, state, final, confirmed, manifest, workerVars, procVars, pub, api, crashes>>

ConfirmChapter(p) ==
    /\ up[p] /\ pub = None /\ HasEvidence(p)
    /\ tree = Fingerprint(final) /\ confirmed # tree /\ confirmed' = tree
    /\ UNCHANGED <<source, state, final, tree, manifest, workerVars, procVars, pub, api, crashes>>

\* The route reads the context of the note before it asks for the note.
PrepareNote(p) ==
    /\ up[p] /\ api = NoCall /\ HasEvidence(p)
    /\ tree = Fingerprint(final) /\ confirmed = tree
    /\ api' = [NoCall EXCEPT !.op = "prepared", !.by = p, !.final = tree]
    /\ UNCHANGED <<diskVars, workerVars, procVars, pub, crashes>>

\* A mutant of ContextUnchanged: the final is not compared.
TreeUnchanged == tree = api.final /\ confirmed = api.final

\* The final, the tree and the confirmation are still those of the request.
ContextUnchanged ==
    Fingerprint(final) = api.final /\ tree = api.final /\ confirmed = api.final

\* generate_and_publish takes the publication lock and keeps it while the note
\* is generated.
LockForNote ==
    /\ api.op = "prepared" /\ pub = None
    /\ IF HasEvidence(api.by) /\ ContextUnchanged
       THEN pub' = "api" /\ api' = [api EXCEPT !.op = "generating"]
       ELSE pub' = pub /\ api' = NoCall
    /\ UNCHANGED <<diskVars, workerVars, procVars, crashes>>

\* The note was not generated, or its metadata or its text are not acceptable.
NoteRefused == manifest' = manifest /\ api' = NoCall /\ pub' = None

\* bind_published_note writes the manifest, if the note was generated and the
\* context is still the same.
BindNote ==
    /\ api.op = "generating"
    /\ \/ /\ ContextUnchanged /\ manifest' = api.final
          /\ api' = [api EXCEPT !.op = "bound", !.before = manifest] /\ pub' = pub
       \/ NoteRefused
    /\ UNCHANGED <<source, state, final, tree, confirmed, workerVars, procVars, crashes>>

\* The publication is read back; _restore_previous_manifest if that fails.
CheckNote ==
    /\ api.op = "bound" /\ api' = NoCall /\ pub' = None
    /\ \/ ContextUnchanged /\ manifest' = manifest
       \/ manifest' = api.before
    /\ UNCHANGED <<source, state, final, tree, confirmed, workerVars, procVars, crashes>>

-----------------------------------------------------------------------------
Worker ==
    \/ Begin \/ BeginFails \/ Mark \/ TakePage \/ Stage \/ Call
    \/ EngineAnswers \/ EngineFails
    \/ PublishState \/ PublishFinal \/ PublishUncertain \/ Finish \/ EndRun

Requester == LockForNote \/ BindNote \/ CheckNote

Next ==
    \/ Worker \/ Requester \/ ReplaceSource
    \/ \E p \in Procs :
        \/ Start(p) \/ StartReview(p) \/ Cancel(p) \/ Crash(p) \/ Restart(p)
        \/ DetectChapters(p) \/ ConfirmChapter(p) \/ PrepareNote(p)

Spec == Init /\ [][Next]_vars

\* The thread runs, engines and models answer or time out, and a process that
\* stopped is started again.
FairSpec ==
    /\ Spec /\ WF_vars(Worker) /\ WF_vars(Requester)
    /\ \A p \in Procs : WF_vars(Restart(p))

-----------------------------------------------------------------------------
(* Properties *)

\* A final says what its pages hold.  A completed one has the whole evidence of
\* every page, taken from the file that the batch is of; in a review the other
\* pages are the ones that a Baidu engine would have been asked about
\* (run_batch:303, _completed_evidence_is_valid:1000).
FinalIsSound ==
    \A pg \in Pages :
        /\ final.status = "completed" => ValidPage(final, pg)
        /\ final.status = "review_required" =>
            \/ ValidPage(final, pg)
            \/ final.pages[pg].status = "review_pending" /\ pg \in Escalated

\* The completed publication of a file is given up only for another file
\* (_completed_final_for_request, _finish, _persist).
CompletedIsKept == [][CompletedTransaction /\ ~CompletedTransaction' => final.of # source]_vars

\* A note is published for the final, the chapter tree and the confirmation that
\* it was generated from, and these are the current ones
\* (generate_and_publish:6172, bind_published_note:2941).
NoteIsOfCurrentFinal ==
    [][manifest' # manifest /\ api.op = "generating" =>
        /\ manifest' = api.final
        /\ Fingerprint(final') = api.final /\ tree' = api.final /\ confirmed' = api.final]_vars

\* Every run ends, whatever the engines answer, also one that goes on with a
\* review and fails again (run_batch:303; OcrWorkflow._run:6105).
RunEnds == claim # None ~> claim = None

\* What the acceptance list of the review says: a review that was cancelled can be
\* started again (2026-09-12-commercial-p0-a-ocr-review.md:3012). It does NOT hold.
CancelledReviewRestarts ==
    step = "ending" /\ ending = "cancelled" /\ reviewing => FinalStatus = "review_required"
=============================================================================
