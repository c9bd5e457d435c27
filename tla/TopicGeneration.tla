--------------------------- MODULE TopicGeneration ---------------------------
(***************************************************************************)
(* One topic of a course: its rows in workbench/repository.py, the         *)
(* generation of its notes (TopicFusionPipeline of topic_pipeline.py) and  *)
(* their publication as Markdown (topic_markdown_sync.py).                 *)
(*                                                                         *)
(* A generation starts from reviewed chapters, under a lease, runs its     *)
(* rounds one by one, each from the input as it then is, and publishes     *)
(* all of them at once.  Meanwhile chapters are generated again, their     *)
(* notes edited, the topic renamed, remapped, split or confirmed by other  *)
(* requests; a lease expires, an interrupted generation is recovered, the  *)
(* process stops.                                                          *)
(*                                                                         *)
(* A fingerprint (topic_input_snapshot) changes with every change of what  *)
(* it covers, and is a pair of counters here.  owner_id is a fresh uuid of *)
(* each start; here it is the worker.  Time is only in the two expiries.   *)
(* The journal below a publication is MarkdownPublication.tla, the rows of *)
(* a chapter are ChapterGeneration.tla, directories TopicDirectories.tla;  *)
(* what a topic promises is stated in TopicPromises.tla.                   *)
(***************************************************************************)
EXTENDS TopicPromises, Naturals, FiniteSets

CONSTANTS
    Workers,    \* threads that serve a request
    Chapters,
    None,
    LastRound,  \* the rounds of TOPIC_ROUNDS before the review are 1..LastRound
    MaxChanges  \* bound of the model: how often the input changes

TopicAssumption ==
    /\ None \notin Workers /\ Chapters # {}
    /\ LastRound \in Nat \ {0} /\ MaxChanges \in Nat

VARIABLES
    confirmed, reasons, \* of the row of wb_topics; reasons: stale_reason
    mapped,     \* wb_topic_chapters
    review,     \* review[c]: the review run of chapter c in wb_runs
    lease,      \* wb_topic_generation_leases
    runs,       \* the workers with a RUNNING row in wb_topic_runs
    rounds,     \* whether wb_topic_runs has a COMPLETED row
    pc, round,  \* of each worker
    accepted,   \* accepted[w]: start.input_fingerprint, None outside a generation
    baseline,   \* baseline[w]: start.stale_reason_baseline
    read,       \* read[w]: the inputs its finished rounds were given
    mapOnly,    \* mapOnly[w]: mapping_only of its publication
    fresh       \* fresh[w]: no row has changed since its state snapshot

topicVars == <<topicStatus, confirmed, reasons, mapped>>
genVars == <<lease, runs, rounds, blocks>>
jobVars == <<pc, round, accepted, baseline, read, mapOnly>>
vars == <<topicVars, review, topicInput, genVars, sync, shown, jobVars, fresh>>

Statuses == {"DRAFT", "NOT_READY", "READY", "RUNNING", "COMPLETED", "STALE", "FAILED"}
Review == LastRound + 1
Reasons == Chapters \cup {"topic"}
Input == [told : 0..MaxChanges, quiet : 0..MaxChanges]
NoLease == [owner |-> None, live |-> FALSE]
Owned == [owner : Workers, live : BOOLEAN] \cup {NoLease}

TypeOK ==
    /\ topicStatus \in Statuses /\ confirmed \in BOOLEAN /\ reasons \subseteq Reasons
    /\ mapped \subseteq Chapters
    /\ review \in [Chapters -> {"none", "done", "stale"}] /\ topicInput \in Input
    /\ lease \in Owned /\ runs \subseteq Workers /\ rounds \in BOOLEAN
    /\ blocks \in [input : Input, read : SUBSET Input] \cup {NoBlocks}
    /\ sync.status \in {"PENDING", "SYNCING", "SYNCED", "FAILED"} /\ sync.by \in Owned
    /\ shown \in [map : BOOLEAN, note : BOOLEAN]
    /\ pc \in [Workers -> {"idle", "round", "execute", "answered", "failRun", "fail",
                           "claim", "sync"}]
    /\ round \in [Workers -> 1..Review] /\ accepted \in [Workers -> Input \cup {None}]
    /\ baseline \in [Workers -> SUBSET Reasons] /\ read \in [Workers -> SUBSET Input]
    /\ mapOnly \in [Workers -> BOOLEAN] /\ fresh \in [Workers -> BOOLEAN]

\* The reviews of list_topic_chapter_reviews: every one is done and not stale.
ReviewsDone(S, rev) == \A c \in S : rev[c] = "done"

\* _topic_readiness_status
Readiness(conf, S, rev) ==
    IF ~conf \/ S = {} THEN "DRAFT" ELSE IF ReviewsDone(S, rev) THEN "READY" ELSE "NOT_READY"

Pending == [status |-> "PENDING", by |-> NoLease]

\* create_topic_with_chapters, of chapters that may have been read already; the
\* course may have been confirmed since.
Init ==
    /\ mapped \in SUBSET Chapters /\ review \in [Chapters -> {"none", "done"}]
    /\ confirmed \in {FALSE, mapped # {}} /\ reasons = {}
    /\ topicStatus = Readiness(confirmed, mapped, review)
    /\ topicInput = [told |-> 0, quiet |-> 0]
    /\ lease = NoLease /\ runs = {} /\ rounds = FALSE /\ blocks = NoBlocks
    /\ sync = Pending /\ shown = [map |-> FALSE, note |-> FALSE]
    /\ pc = [w \in Workers |-> "idle"] /\ round = [w \in Workers |-> 1]
    /\ accepted = [w \in Workers |-> None] /\ baseline = [w \in Workers |-> {}]
    /\ read = [w \in Workers |-> {}] /\ mapOnly = [w \in Workers |-> FALSE]
    /\ fresh = [w \in Workers |-> FALSE]

-----------------------------------------------------------------------------
(* Statuses *)

\* The triggers of wb_markdown_state_revision: a snapshot taken before is old.
RowsChange == fresh' = [w \in Workers |-> FALSE]

\* A change of the input that some step below tells the topic of.
Told ==
    /\ topicInput.told + topicInput.quiet < MaxChanges
    /\ topicInput' = [topicInput EXCEPT !.told = @ + 1]

\* _has_published_topic_output
Published == blocks # NoBlocks \/ rounds

\* Mutant: a topic that is COMPLETED is left as it is.
OnlyTheReason(reason, S, rev) ==
    /\ reasons' = reasons \cup {reason}
    /\ topicStatus' = IF topicStatus = "STALE" THEN "STALE" ELSE topicStatus

\* _invalidate_topic and _append_stale_reason
Invalidate(reason, S, rev) ==
    IF topicStatus = "RUNNING" THEN reasons' = reasons \cup {reason} /\ UNCHANGED topicStatus
    ELSE IF Published THEN reasons' = reasons \cup {reason} /\ topicStatus' = "STALE"
    ELSE reasons' = {} /\ topicStatus' = Readiness(confirmed, S, rev)

\* refresh_topic_status
Refresh(S, rev) ==
    IF topicStatus \in {"DRAFT", "NOT_READY", "READY"}
    THEN reasons' = {} /\ topicStatus' = Readiness(confirmed, S, rev)
    ELSE UNCHANGED <<reasons, topicStatus>>

-----------------------------------------------------------------------------
(* Requests that edit the topic *)

\* edit_topic_content
EditContent ==
    /\ topicStatus # "RUNNING" /\ Told
    /\ IF Published THEN Invalidate("topic", mapped, review) ELSE Refresh(mapped, review)
    /\ sync' = Pending /\ shown' = [map |-> FALSE, note |-> FALSE] /\ RowsChange
    /\ UNCHANGED <<confirmed, mapped, review, genVars, jobVars>>

\* replace_topic_chapters_and_refresh
Remap(S) ==
    /\ topicStatus # "RUNNING" /\ Told /\ mapped' = S
    /\ IF Published THEN Invalidate("topic", S, review) ELSE Refresh(S, review)
    /\ sync' = Pending /\ shown' = [shown EXCEPT !.map = FALSE] /\ RowsChange
    /\ UNCHANGED <<confirmed, review, genVars, jobVars>>

\* split_topic: the chapters S go to a new topic.
Split(S) ==
    /\ topicStatus # "RUNNING" /\ S # {} /\ S # mapped /\ Told /\ mapped' = mapped \ S
    /\ IF Published
       THEN topicStatus' = "STALE" /\ reasons' = {"topic"} /\ UNCHANGED confirmed
       ELSE topicStatus' = "DRAFT" /\ reasons' = {} /\ confirmed' = FALSE
    /\ sync' = Pending /\ shown' = [shown EXCEPT !.map = FALSE] /\ RowsChange
    /\ UNCHANGED <<review, genVars, jobVars>>

\* confirm_course_topics: every topic of the course, whatever its status.
ConfirmCourse ==
    /\ mapped # {} /\ confirmed' = TRUE
    /\ IF confirmed THEN UNCHANGED topicInput ELSE Told
    /\ topicStatus' = Readiness(TRUE, mapped, review)
    /\ sync' = Pending /\ shown' = [shown EXCEPT !.map = FALSE] /\ RowsChange
    /\ UNCHANGED <<reasons, mapped, review, genVars, jobVars>>

\* prepare_topic_note_block_update: a publication under way is in its way.
EditBlock ==
    /\ blocks # NoBlocks /\ ~(sync.status = "SYNCING" /\ sync.by.live)
    /\ sync' = Pending /\ shown' = [shown EXCEPT !.note = FALSE] /\ RowsChange
    /\ UNCHANGED <<topicVars, review, topicInput, genVars, jobVars>>

-----------------------------------------------------------------------------
(* Chapters *)

\* mark_topics_stale_for_chapter: chapter c is generated, or a round run, again.
ChapterChanges(c) ==
    /\ review' = [review EXCEPT ![c] = IF @ = "none" THEN @ ELSE "stale"]
    /\ IF c \in mapped
       THEN /\ Invalidate(c, mapped, review')
            /\ IF review[c] = "none" THEN UNCHANGED topicInput ELSE Told
       ELSE UNCHANGED <<topicStatus, reasons, topicInput>>
    /\ RowsChange
    /\ UNCHANGED <<confirmed, mapped, genVars, sync, shown, jobVars>>

\* The review of c is done, and the topics of c are refreshed.
ChapterReviewed(c) ==
    /\ review[c] # "done" /\ review' = [review EXCEPT ![c] = "done"]
    /\ IF c \in mapped THEN Told /\ Refresh(mapped, review')
                       ELSE UNCHANGED <<topicStatus, reasons, topicInput>>
    /\ RowsChange
    /\ UNCHANGED <<confirmed, mapped, genVars, sync, shown, jobVars>>

\* patch_chapter_note_block: no topic hears of it.
EditChapterNote(c) ==
    /\ c \in mapped /\ review[c] # "none"
    /\ topicInput.told + topicInput.quiet < MaxChanges
    /\ topicInput' = [topicInput EXCEPT !.quiet = @ + 1] /\ RowsChange
    /\ UNCHANGED <<topicVars, review, genVars, sync, shown, jobVars>>

-----------------------------------------------------------------------------
(* TopicFusionPipeline.run *)

Goto(w, l) == pc' = [pc EXCEPT ![w] = l]

Returns(w) ==
    /\ Goto(w, "idle") /\ round' = [round EXCEPT ![w] = 1]
    /\ accepted' = [accepted EXCEPT ![w] = None]
    /\ baseline' = [baseline EXCEPT ![w] = {}] /\ read' = [read EXCEPT ![w] = {}]
    /\ mapOnly' = [mapOnly EXCEPT ![w] = FALSE]

HoldsLease(w) == lease.owner = w /\ lease.live

\* What build_topic_task_package and start_topic_generation ask of the chapters.
DependenciesReady == confirmed /\ mapped # {} /\ ReviewsDone(mapped, review)

\* start_topic_generation; a lease row that is there already is a conflict of keys.
Start(w) ==
    /\ pc[w] = "idle" /\ topicStatus \in {"READY", "STALE", "FAILED"}
    /\ DependenciesReady /\ lease = NoLease
    /\ topicStatus' = "RUNNING" /\ lease' = [owner |-> w, live |-> TRUE]
    /\ accepted' = [accepted EXCEPT ![w] = topicInput]
    /\ baseline' = [baseline EXCEPT ![w] = reasons]
    /\ Goto(w, "round") /\ RowsChange
    /\ UNCHANGED <<confirmed, reasons, mapped, review, topicInput, runs, rounds, blocks, sync,
                   shown, round, read, mapOnly>>

\* build_topic_task_package, create_topic_run
BeginRound(w) ==
    /\ pc[w] = "round" /\ DependenciesReady
    /\ runs' = runs \cup {w} /\ read' = [read EXCEPT ![w] = @ \cup {topicInput}]
    /\ Goto(w, "execute") /\ RowsChange
    /\ UNCHANGED <<topicVars, review, topicInput, lease, rounds, blocks, sync, shown, round,
                   accepted, baseline, mapOnly>>

\* The package cannot be built: there is no row of the round yet.
NoPackage(w) ==
    /\ pc[w] = "round" /\ ~DependenciesReady
    /\ Goto(w, "fail")
    /\ UNCHANGED <<topicVars, review, topicInput, genVars, sync, shown, round, accepted, baseline,
                   read, mapOnly, fresh>>

\* _run_executor_with_heartbeat: the answer is valid and the lease still held.
Answer(w) ==
    /\ pc[w] = "execute" /\ HoldsLease(w) /\ Goto(w, "answered")
    /\ UNCHANGED <<topicVars, review, topicInput, genVars, sync, shown, round, accepted, baseline,
                   read, mapOnly, fresh>>

\* The model fails, its answer is refused, or a heartbeat finds the lease lost.
RoundFails(w) ==
    /\ pc[w] \in {"execute", "answered"} /\ Goto(w, "failRun")
    /\ UNCHANGED <<topicVars, review, topicInput, genVars, sync, shown, round, accepted, baseline,
                   read, mapOnly, fresh>>

\* finish_topic_run of a round before the review; a row that was failed by
\* recover_interrupted_topic_run is left to RoundFails.
FinishRound(w) ==
    /\ pc[w] = "answered" /\ round[w] < Review /\ w \in runs
    /\ runs' = runs \ {w} /\ rounds' = TRUE
    /\ round' = [round EXCEPT ![w] = @ + 1] /\ Goto(w, "round") /\ RowsChange
    /\ UNCHANGED <<topicVars, review, topicInput, lease, blocks, sync, shown, accepted, baseline,
                   read, mapOnly>>

\* Mutant: the input is not compared once more.
StillRunning(w) == topicStatus = "RUNNING" /\ HoldsLease(w) /\ w \in runs

\* What publish_topic_generation asks for in its transaction.
Publishable(w) ==
    /\ topicStatus = "RUNNING" /\ HoldsLease(w) /\ w \in runs
    /\ topicInput = accepted[w] /\ reasons = baseline[w]

\* publish_topic_generation
Publish(w) ==
    /\ pc[w] = "answered" /\ round[w] = Review /\ Publishable(w)
    /\ blocks' = [input |-> topicInput, read |-> read[w]] /\ rounds' = TRUE
    /\ runs' = runs \ {w} /\ lease' = NoLease
    /\ topicStatus' = "COMPLETED" /\ reasons' = {}
    /\ sync' = Pending /\ shown' = [map |-> FALSE, note |-> FALSE]
    /\ mapOnly' = [mapOnly EXCEPT ![w] = FALSE] /\ Goto(w, "claim") /\ RowsChange
    /\ UNCHANGED <<confirmed, mapped, review, topicInput, round, accepted, baseline, read>>

\* The handler of a round's exception: finish_topic_run(..., "FAILED").
FailRun(w) ==
    /\ pc[w] = "failRun" /\ runs' = runs \ {w} /\ Goto(w, "fail") /\ RowsChange
    /\ UNCHANGED <<topicVars, review, topicInput, lease, rounds, blocks, sync, shown, round,
                   accepted, baseline, read, mapOnly>>

\* The status of a topic whose generation ended without a result.
StatusAfterFailure ==
    IF blocks # NoBlocks THEN "STALE"
    ELSE IF Readiness(confirmed, mapped, review) = "READY" THEN "FAILED"
    ELSE Readiness(confirmed, mapped, review)

\* fail_topic_generation; whoever has lost the lease changes nothing.
FailTopic(w) ==
    /\ pc[w] = "fail"
    /\ IF topicStatus = "RUNNING" /\ lease.owner = w
       THEN topicStatus' = StatusAfterFailure /\ lease' = NoLease /\ RowsChange
       ELSE UNCHANGED <<topicStatus, lease, fresh>>
    /\ Returns(w)
    /\ UNCHANGED <<confirmed, reasons, mapped, review, topicInput, runs, rounds, blocks, sync,
                   shown>>

\* recover_interrupted_topic_run
Recover ==
    /\ topicStatus = "RUNNING" /\ ~lease.live
    /\ runs' = {} /\ topicStatus' = StatusAfterFailure /\ lease' = NoLease /\ RowsChange
    /\ UNCHANGED <<confirmed, reasons, mapped, review, topicInput, rounds, blocks, sync, shown,
                   jobVars>>

Expire ==
    /\ lease.live /\ lease' = [lease EXCEPT !.live = FALSE]
    /\ UNCHANGED <<topicVars, review, topicInput, runs, rounds, blocks, sync, shown, jobVars,
                   fresh>>

-----------------------------------------------------------------------------
(* The Markdown of the topic *)

\* retry_markdown_sync, and _sync_topics after an edit: only the map of a topic
\* that is not COMPLETED.
RetrySync(w) ==
    /\ pc[w] = "idle" /\ Goto(w, "claim")
    /\ mapOnly' = [mapOnly EXCEPT ![w] = topicStatus # "COMPLETED" \/ blocks = NoBlocks]
    /\ UNCHANGED <<topicVars, review, topicInput, genVars, sync, shown, round, accepted, baseline,
                   read, fresh>>

Claimable == sync.status # "SYNCING" \/ ~sync.by.live

\* claim_topic_markdown_sync, fence_topic_markdown_sync and the state snapshot
ClaimSync(w) ==
    /\ pc[w] = "claim" /\ Claimable
    /\ sync' = [status |-> "SYNCING", by |-> [owner |-> w, live |-> TRUE]]
    /\ fresh' = [fresh EXCEPT ![w] = TRUE] /\ Goto(w, "sync")
    /\ UNCHANGED <<topicVars, review, topicInput, genVars, shown, round, accepted, baseline, read,
                   mapOnly>>

\* A refused claim is an exception of the request, or of the generation.
ClaimRefused(w) ==
    /\ pc[w] = "claim" /\ ~Claimable
    /\ IF accepted[w] = None THEN Returns(w)
       ELSE Goto(w, "fail") /\ UNCHANGED <<round, accepted, baseline, read, mapOnly>>
    /\ UNCHANGED <<topicVars, review, topicInput, genVars, sync, shown, fresh>>

SyncHeld(w) == sync.status = "SYNCING" /\ sync.by.owner = w

\* Mutant: any claim will do, and the state is not compared.
AnyClaim(w) == sync.status = "SYNCING"

\* What fence_topic_markdown_publication asks for around the files' commit.
Fenced(w) == SyncHeld(w) /\ sync.by.live /\ fresh[w]

\* _sync_topic_markdown: the files that a full sync writes, or the map alone.
Written(w) == [map |-> fresh[w], note |-> IF mapOnly[w] THEN shown.note ELSE fresh[w]]

\* _publish_topic_markdown
CommitSync(w) ==
    /\ pc[w] = "sync" /\ Fenced(w)
    /\ sync' = [status |-> "SYNCED", by |-> NoLease]
    /\ shown' = Written(w)
    /\ Returns(w)
    /\ UNCHANGED <<topicVars, review, topicInput, genVars, fresh>>

\* finish_topic_markdown_sync(..., "FAILED")
FailSync(w) ==
    /\ pc[w] = "sync"
    /\ sync' = IF SyncHeld(w) THEN [status |-> "FAILED", by |-> NoLease] ELSE sync
    /\ IF accepted[w] = None THEN Returns(w)
       ELSE Goto(w, "fail") /\ UNCHANGED <<round, accepted, baseline, read, mapOnly>>
    /\ UNCHANGED <<topicVars, review, topicInput, genVars, shown, fresh>>

ExpireSync ==
    /\ sync.by.live /\ sync' = [sync EXCEPT !.by.live = FALSE]
    /\ UNCHANGED <<topicVars, review, topicInput, genVars, shown, jobVars, fresh>>

\* The process stops; a new one finds the rows and the files.
Crash ==
    /\ \E w \in Workers : pc[w] # "idle"
    /\ pc' = [w \in Workers |-> "idle"] /\ round' = [w \in Workers |-> 1]
    /\ accepted' = [w \in Workers |-> None] /\ baseline' = [w \in Workers |-> {}]
    /\ read' = [w \in Workers |-> {}] /\ mapOnly' = [w \in Workers |-> FALSE]
    /\ fresh' = [w \in Workers |-> FALSE]
    /\ UNCHANGED <<topicVars, review, topicInput, genVars, sync, shown>>

Next ==
    \/ EditContent \/ ConfirmCourse \/ EditBlock
    \/ \E S \in SUBSET Chapters \ {{}} : Remap(S)
    \/ \E S \in SUBSET mapped : Split(S)
    \/ \E c \in Chapters : ChapterChanges(c) \/ ChapterReviewed(c) \/ EditChapterNote(c)
    \/ \E w \in Workers :
        \/ Start(w) \/ BeginRound(w) \/ NoPackage(w) \/ Answer(w) \/ RoundFails(w)
        \/ FinishRound(w) \/ Publish(w) \/ FailRun(w) \/ FailTopic(w)
        \/ RetrySync(w) \/ ClaimSync(w) \/ ClaimRefused(w) \/ CommitSync(w) \/ FailSync(w)
    \/ Recover \/ Expire \/ ExpireSync \/ Crash

Spec == Init /\ [][Next]_vars

-----------------------------------------------------------------------------
\* plans/2026-07-10-multi-textbook-course-theme-fusion.md:115 "READY -> RUNNING":
\* a topic that is READY can be started.
ReadyCanStart == topicStatus = "READY" => lease = NoLease
=============================================================================
