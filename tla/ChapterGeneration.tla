-------------------------- MODULE ChapterGeneration --------------------------
(***************************************************************************)
(* The generation of a chapter's notes: IntensiveReadingPipeline of        *)
(* workbench/pipeline.py, on the rows of workbench/repository.py.          *)
(*                                                                         *)
(* A request starts a generation under a lease.  It restores the           *)
(* candidates that an earlier generation left, runs the other rounds one   *)
(* by one, has all of them reviewed, stages the reviewed notes with their  *)
(* publication, and publishes the files.  The lease of a generation that   *)
(* is slow may expire, another request then takes the chapter over while   *)
(* the first one still runs; any step may raise, the input and the notes   *)
(* are edited at any time, and the process may stop between two steps.     *)
(*                                                                         *)
(* Time is only in Expire.  owner_id is a fresh uuid of each start; here   *)
(* it is the worker that started, who keeps at most one at a time: the     *)
(* rows that an earlier start of its left change owner in its next one.    *)
(* A row of a run that is neither RUNNING nor SYNC_PENDING is not kept.    *)
(***************************************************************************)
EXTENDS Naturals

CONSTANTS
    Workers,    \* threads that serve a request
    Trusted,    \* those whose executor has an identity: its candidates are reused
    None,
    LastRound,  \* the rounds before the review are 1..LastRound
    Inputs      \* what a chapter may be generated from, by its fingerprint

ASSUME GenerationAssumption ==
    /\ Trusted \subseteq Workers /\ None \notin Workers /\ None \notin Inputs
    /\ LastRound \in Nat \ {0} /\ Inputs # {}

Rounds == 1..LastRound
Review == LastRound + 1

VARIABLES
    status,      \* wb_chapters.status
    lease,       \* the row of wb_chapter_generation_leases
    pending,     \* the row of wb_chapter_generation_publications
    runs,        \* the rows of wb_chapter_generation_runs that are not finished
    candidates,  \* the rows of wb_chapter_generation_candidates
    input,       \* chapter_input_snapshot: the source, the attachments, ...
    notes,       \* wb_note_blocks and wb_cards: the input they were made from
    pc,          \* pc[w]: what worker w does
    round,       \* round[w]: the round it is at
    accepted,    \* accepted[w]: _input_fingerprint of its pipeline
    checkpoints  \* checkpoints[w]: the candidates it read to restore

rowVars == <<status, lease, pending, runs, candidates, input, notes>>
jobVars == <<pc, round, accepted, checkpoints>>
vars == <<rowVars, jobVars>>

NoLease == [owner |-> None, live |-> FALSE]
NoPending == [owner |-> None, input |-> None]
NoNotes == [input |-> None, edited |-> FALSE]

Statuses == {"DRAFT", "CONFIRMED", "RUNNING", "SYNC_PENDING", "COMPLETED", "FAILED"}
Run == [owner : Workers, round : 1..Review, status : {"RUNNING", "SYNC_PENDING"}]
Candidate == [round : Rounds, owner : Workers, input : Inputs, reusable : BOOLEAN]

TypeOK ==
    /\ status \in Statuses
    /\ lease \in [owner : Workers, live : BOOLEAN] \cup {NoLease}
    /\ pending \in [owner : Workers, input : Inputs] \cup {NoPending}
    /\ runs \subseteq Run /\ candidates \subseteq Candidate
    /\ input \in Inputs /\ notes \in [input : Inputs, edited : BOOLEAN] \cup {NoNotes}
    /\ pc \in [Workers -> {"idle", "started", "restore", "discard", "round", "package",
                           "execute", "finish", "fail", "sync", "release"}]
    /\ round \in [Workers -> 1..Review]
    /\ accepted \in [Workers -> Inputs \cup {None}]
    /\ checkpoints \in [Workers -> SUBSET Candidate]

Init ==
    /\ status = "DRAFT" /\ lease = NoLease /\ pending = NoPending
    /\ runs = {} /\ candidates = {} /\ input \in Inputs /\ notes = NoNotes
    /\ pc = [w \in Workers |-> "idle"] /\ round = [w \in Workers |-> 1]
    /\ accepted = [w \in Workers |-> None]
    /\ checkpoints = [w \in Workers |-> {}]

Goto(w, l) == pc' = [pc EXCEPT ![w] = l]

\* A failed call goes on in the handler of its exception.
GotoOnly(w, l) == Goto(w, l) /\ UNCHANGED <<rowVars, round, accepted, checkpoints>>

\* The call returns, its variables go.
Returns(w) ==
    /\ Goto(w, "idle") /\ round' = [round EXCEPT ![w] = 1]
    /\ accepted' = [accepted EXCEPT ![w] = None]
    /\ checkpoints' = [checkpoints EXCEPT ![w] = {}]

HoldsLease(w) == lease.owner = w /\ lease.live

\* _pending_publication_is_current: neither the input nor the notes that were
\* staged have changed.
PendingIsCurrent == input = pending.input /\ ~notes.edited

\* UPDATE ... SET owner_id = w for the rows S of another owner.
GivenTo(w, S) == {[x EXCEPT !.owner = w] : x \in S}
RowsOf(o, S) == {x \in S : x.owner = o}

-----------------------------------------------------------------------------
(* start_chapter_generation: refused while a lease is live *)

\* A publication that is staged and current is only published again.
TakeOver(w) ==
    /\ pc[w] = "idle" /\ ~lease.live
    /\ pending # NoPending /\ PendingIsCurrent
    /\ runs' = (runs \ RowsOf(pending.owner, runs))
                    \cup GivenTo(w, RowsOf(pending.owner, runs))
    /\ candidates' = (candidates \ RowsOf(pending.owner, candidates))
                          \cup GivenTo(w, RowsOf(pending.owner, candidates))
    /\ pending' = [pending EXCEPT !.owner = w]
    /\ lease' = [owner |-> w, live |-> TRUE]
    /\ status' = "SYNC_PENDING"
    /\ Goto(w, "sync")
    /\ UNCHANGED <<input, notes, round, accepted, checkpoints>>

\* Mutant: the runs of the owner before stay as they are.
LeftRunning(o) == runs

\* _interrupt_generation_no_commit.
Interrupted(o) == runs \ RowsOf(o, runs)

\* What of the runs and the candidates is left when the generation before this
\* one is closed: a publication that is stale is discarded with its candidates,
\* the runs of an owner whose lease has expired are interrupted.
Closed(S) ==
    IF pending # NoPending THEN S \ RowsOf(pending.owner, S) ELSE S

\* A generation from the first round on, of a chapter that is CONFIRMED or
\* FAILED, or is FAILED now that the generation before is closed.
StartRounds(w) ==
    /\ pc[w] = "idle" /\ ~lease.live
    /\ pending # NoPending => ~PendingIsCurrent
    /\ status \in {"CONFIRMED", "FAILED", "RUNNING", "SYNC_PENDING"}
    /\ runs' = IF pending # NoPending THEN Closed(runs) ELSE Interrupted(lease.owner)
    /\ candidates' = GivenTo(w, Closed(candidates))
    /\ notes' = IF pending # NoPending THEN NoNotes ELSE notes
    /\ pending' = NoPending /\ status' = "RUNNING"
    /\ lease' = [owner |-> w, live |-> TRUE]
    /\ Goto(w, "started")
    /\ UNCHANGED <<input, round, accepted, checkpoints>>

-----------------------------------------------------------------------------
(* _restore_candidate_prefix *)

ReadCheckpoints(w) ==
    /\ pc[w] = "started"
    /\ checkpoints' = [checkpoints EXCEPT ![w] = RowsOf(w, candidates)]
    /\ Goto(w, "restore")
    /\ UNCHANGED <<rowVars, round, accepted>>

\* Mutant: every package is accepted, the last one counts.
AcceptsLatest(w) == accepted' = [accepted EXCEPT ![w] = input]

\* _accept_package: the first package says what the input of the generation is.
Accepts(w) ==
    /\ accepted[w] \in {None, input}
    /\ accepted' = [accepted EXCEPT ![w] = input]

Reusable(w, c) == c.input = input /\ c.reusable /\ w \in Trusted

\* The checkpoint of the round is compared with the package of this moment;
\* the first one that is missing or does not fit ends the prefix.
RestoreRound(w) ==
    /\ pc[w] = "restore"
    /\ \E c \in checkpoints[w] :
        /\ c.round = round[w] /\ Accepts(w)
        /\ IF Reusable(w, c)
           THEN round' = [round EXCEPT ![w] = @ + 1] /\ UNCHANGED pc
           ELSE Goto(w, "discard") /\ UNCHANGED round
    /\ UNCHANGED <<rowVars, checkpoints>>

RestoreEnds(w) ==
    /\ pc[w] = "restore" /\ \A c \in checkpoints[w] : c.round # round[w]
    /\ GotoOnly(w, "discard")

\* The candidates that were read and not restored are discarded, those of the
\* rounds after a gap too.
DiscardInvalid(w) ==
    /\ pc[w] = "discard"
    /\ candidates' = candidates \ {c \in RowsOf(w, candidates) :
                            c.round >= round[w] /\ \E r \in checkpoints[w] : r.round = c.round}
    /\ Goto(w, "round")
    /\ checkpoints' = [checkpoints EXCEPT ![w] = {}]
    /\ UNCHANGED <<status, lease, pending, runs, input, notes, round, accepted>>

-----------------------------------------------------------------------------
(* The rounds: _run_candidate and _run_review_and_stage *)

\* create_chapter_generation_run looks at the owner of the lease, not at its
\* end.  The review needs a candidate of every round.
CreateRun(w) ==
    /\ pc[w] = "round" /\ lease.owner = w
    /\ round[w] = Review => {c.round : c \in RowsOf(w, candidates)} = Rounds
    /\ runs' = runs \cup {[owner |-> w, round |-> round[w], status |-> "RUNNING"]}
    /\ Goto(w, IF round[w] = Review THEN "execute" ELSE "package")
    /\ UNCHANGED <<status, lease, pending, candidates, input, notes,
                   round, accepted, checkpoints>>

\* build_task_package reads the input of this moment.
Package(w) ==
    /\ pc[w] = "package" /\ Accepts(w)
    /\ Goto(w, "execute")
    /\ UNCHANGED <<rowVars, round, checkpoints>>

\* _run_with_heartbeat: the executor returned, and the lease is still w's.
Execute(w) ==
    /\ pc[w] = "execute" /\ HoldsLease(w)
    /\ GotoOnly(w, "finish")

Running(w) == [owner |-> w, round |-> round[w], status |-> "RUNNING"]

\* Mutant: the candidate is written although another owner closed the run.
FinishAnyway(w) ==
    /\ pc[w] = "finish" /\ round[w] # Review
    /\ runs' = runs \ {Running(w)}
    /\ candidates' = candidates \cup
            {[round |-> round[w], owner |-> w, input |-> accepted[w],
              reusable |-> w \in Trusted]}
    /\ round' = [round EXCEPT ![w] = @ + 1]
    /\ Goto(w, "round")
    /\ UNCHANGED <<status, lease, pending, input, notes, accepted, checkpoints>>

\* finish_chapter_generation_run: the run must still be RUNNING, the candidate
\* comes with it.
Finish(w) ==
    /\ pc[w] = "finish" /\ round[w] # Review /\ Running(w) \in runs
    /\ runs' = runs \ {Running(w)}
    /\ candidates' = candidates \cup
            {[round |-> round[w], owner |-> w, input |-> accepted[w],
              reusable |-> w \in Trusted]}
    /\ round' = [round EXCEPT ![w] = @ + 1]
    /\ Goto(w, "round")
    /\ UNCHANGED <<status, lease, pending, input, notes, accepted, checkpoints>>

\* publish_chapter_generation: the review passed.  The notes, the rows of the
\* publication and the status change in one transaction.
Stage(w) ==
    /\ pc[w] = "finish" /\ round[w] = Review
    /\ HoldsLease(w) /\ input = accepted[w]
    /\ Running(w) \in runs /\ status = "RUNNING" /\ pending = NoPending
    /\ notes' = [input |-> accepted[w], edited |-> FALSE]
    /\ runs' = (runs \ {Running(w)}) \cup
            {[owner |-> w, round |-> Review, status |-> "SYNC_PENDING"]}
    /\ status' = "SYNC_PENDING"
    /\ pending' = [owner |-> w, input |-> accepted[w]]
    /\ Goto(w, "sync")
    /\ UNCHANGED <<lease, candidates, input, round, accepted, checkpoints>>

\* The handler of a round marks its run FAILED if it is still RUNNING, and
\* raises again.
Fail(w) ==
    /\ pc[w] = "fail"
    /\ runs' = runs \ {Running(w)}
    /\ Goto(w, "release")
    /\ UNCHANGED <<status, lease, pending, candidates, input, notes,
                   round, accepted, checkpoints>>

-----------------------------------------------------------------------------
(* The publication and the end *)

\* publish_chapter_markdown writes the files in the transaction that finalizes
\* the generation; module MarkdownPublication shows how.
Publish(w) ==
    /\ pc[w] = "sync" /\ HoldsLease(w) /\ pending.owner = w /\ PendingIsCurrent
    /\ [owner |-> w, round |-> Review, status |-> "SYNC_PENDING"] \in runs
    /\ status = "SYNC_PENDING"
    /\ runs' = runs \ {[owner |-> w, round |-> Review, status |-> "SYNC_PENDING"]}
    /\ status' = "COMPLETED" /\ pending' = NoPending /\ lease' = NoLease
    /\ Returns(w)
    /\ UNCHANGED <<candidates, input, notes>>

\* Any other step raises, or a check of it failed.
Raises(w) ==
    \/ pc[w] \in {"started", "restore", "discard", "round", "package", "sync", "fail"}
       /\ GotoOnly(w, "release")
    \/ pc[w] = "execute" /\ GotoOnly(w, "fail")
    \/ pc[w] = "finish" /\ GotoOnly(w, "fail")

\* Mutant: the generation is interrupted, staged or not.
ReleaseInterrupts(w) ==
    /\ pc[w] = "release" /\ Returns(w)
    /\ IF lease.owner = w
       THEN /\ lease' = NoLease
            /\ runs' = Interrupted(w)
            /\ status' = IF status \in {"RUNNING", "SYNC_PENDING"} THEN "FAILED" ELSE status
       ELSE UNCHANGED <<status, lease, runs>>
    /\ UNCHANGED <<pending, candidates, input, notes>>

\* release_chapter_generation: a staged publication stays for the next start,
\* another generation is interrupted.  A worker that lost its lease leaves the
\* rows alone.
Release(w) ==
    /\ pc[w] = "release" /\ Returns(w)
    /\ IF lease.owner = w
       THEN /\ lease' = NoLease
            /\ IF pending.owner = w
               THEN status' = "SYNC_PENDING" /\ UNCHANGED runs
               ELSE /\ runs' = Interrupted(w)
                    /\ status' = IF status \in {"RUNNING", "SYNC_PENDING"}
                                 THEN "FAILED" ELSE status
       ELSE UNCHANGED <<status, lease, runs>>
    /\ UNCHANGED <<pending, candidates, input, notes>>

\* The release raises as well: only the end of the lease frees the chapter.
ReleaseRaises(w) ==
    /\ pc[w] = "release" /\ Returns(w) /\ UNCHANGED rowVars

-----------------------------------------------------------------------------
(* Time, the user and the process *)

\* The lease is not renewed in time, its owner is slow or gone.
Expire ==
    /\ lease.live /\ lease' = [lease EXCEPT !.live = FALSE]
    /\ UNCHANGED <<status, pending, runs, candidates, input, notes, jobVars>>

\* confirm_chapter, also to generate a chapter again.
Confirm ==
    /\ status \in {"DRAFT", "COMPLETED", "FAILED"} /\ status' = "CONFIRMED"
    /\ UNCHANGED <<lease, pending, runs, candidates, input, notes, jobVars>>

\* The source or the attachments change, perhaps back.
EditInput ==
    /\ input' \in Inputs \ {input}
    /\ UNCHANGED <<status, lease, pending, runs, candidates, notes, jobVars>>

\* patch_chapter_note_block: a note changes, perhaps back.
EditNote ==
    /\ notes # NoNotes /\ notes' = [notes EXCEPT !.edited = ~@]
    /\ UNCHANGED <<status, lease, pending, runs, candidates, input, jobVars>>

\* The process stops at any point.  The next one closes what was RUNNING and
\* removes every lease, then publishes what is staged, by a TakeOver.
Restart ==
    /\ runs' = {r \in runs : r.status # "RUNNING"} /\ lease' = NoLease
    /\ status' = IF status = "RUNNING" THEN "FAILED" ELSE status
    /\ pc' = [w \in Workers |-> "idle"] /\ round' = [w \in Workers |-> 1]
    /\ accepted' = [w \in Workers |-> None]
    /\ checkpoints' = [w \in Workers |-> {}]
    /\ UNCHANGED <<pending, candidates, input, notes>>

Start(w) == TakeOver(w) \/ StartRounds(w)
Proceed(w) ==
    \/ ReadCheckpoints(w) \/ RestoreRound(w) \/ RestoreEnds(w) \/ DiscardInvalid(w)
    \/ CreateRun(w) \/ Package(w) \/ Execute(w) \/ Finish(w) \/ Stage(w) \/ Fail(w)
    \/ Publish(w) \/ Raises(w) \/ Release(w) \/ ReleaseRaises(w)

Next ==
    \/ \E w \in Workers : Start(w) \/ Proceed(w)
    \/ Expire \/ Confirm \/ EditInput \/ EditNote \/ Restart

Spec == Init /\ [][Next]_vars

-----------------------------------------------------------------------------
(* Properties *)

\* A chapter that is RUNNING has a lease, and every run that is RUNNING belongs
\* to the owner of the lease: what another owner began is closed, so it cannot
\* finish a round any more.
RunsBelongToLease ==
    /\ status = "RUNNING" => lease.owner # None
    /\ \A r \in runs : r.status = "RUNNING" => status = "RUNNING" /\ r.owner = lease.owner

\* A chapter is SYNC_PENDING just when a publication is staged, and the rows
\* that its end needs are there with the same owner: whoever takes it over,
\* after whatever failed, can finish it.
StagedCanFinish ==
    /\ status = "SYNC_PENDING" <=> pending # NoPending
    /\ pending # NoPending =>
        /\ [owner |-> pending.owner, round |-> Review, status |-> "SYNC_PENDING"] \in runs
        /\ lease.owner \in {None, pending.owner} /\ notes.input = pending.input

\* What is staged is reviewed from one candidate of each round, all of them
\* made from the input of that moment and under the configuration of the
\* generation, whoever made them and whatever changed in between, or back.
StagedFromOneInput ==
    [][\A w \in Workers : pending = NoPending /\ pending'.owner = w =>
        LET used == RowsOf(w, candidates)
        IN /\ \A k \in Rounds : \E c \in used : c.round = k
           /\ \A c, d \in used : c.round = d.round => c = d
           /\ \A c \in used : c.input = input /\ c.reusable = (w \in Trusted)]_vars

\* A worker whose lease went to another one, or was removed, changes nothing
\* of the chapter, however late it goes on; only the end of the process, which
\* ends every worker, still removes leases then.
LostLeaseWritesNothing ==
    [][\A w \in Workers : pc[w] # "idle" /\ pc'[w] # pc[w] /\ lease.owner # w =>
        /\ UNCHANGED <<pending, candidates, notes>>
        /\ UNCHANGED <<status, lease>> \/ \A u \in Workers : pc'[u] = "idle"]_vars

\* A chapter becomes COMPLETED with the notes that were staged, not edited
\* since, and made from the input it has then.
CompletedAsStaged ==
    [][status # "COMPLETED" /\ status' = "COMPLETED" =>
        notes' = [input |-> input, edited |-> FALSE]]_vars

=============================================================================
