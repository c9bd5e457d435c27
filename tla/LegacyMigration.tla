--------------------------- MODULE LegacyMigration ---------------------------
(***************************************************************************)
(* The migration of a batch file of the first format (workbench/ocr/       *)
(* workflow.py) to the second one.  A transaction keeps a journal, writes  *)
(* every new file through a receipt of its own, exchanges the old and the  *)
(* new batch file, links the manifest of the note, and is sealed by moving *)
(* a witness.  A crash may come between any two of its file operations;    *)
(* the next opening of the workflow goes on from the journal.  Another     *)
(* program may replace or create one of the files meanwhile.               *)
(*                                                                         *)
(* A file is the place where an object lies: the object stands for the     *)
(* inode and its bytes, which the code always compares together.  The      *)
(* publication lock is held throughout (OcrLocks), so one process acts.    *)
(***************************************************************************)
EXTENDS Naturals, FiniteSets, Sequences, SequencesExt

CONSTANTS Kinds,        \* what the old files may be: "note", "plain", "running"
          EditedPlaces, \* the places another program may write to
          MaxEdits,     \* bound: how often it does
          MaxCrashes    \* bound: crashes

KindsAssumption == Kinds \subseteq {"note", "plain", "running"}
BoundsAssumption == MaxEdits \in Nat /\ MaxCrashes \in Nat

VARIABLES kind,    \* what the old files are
          at,      \* the object at each place
          stage,   \* the journal-stage file of each phase
          sidecar, \* for each label: its receipt and where its file is
          mode,    \* what the process is doing
          checked, \* the checks of the step at hand have passed
          edited,  \* the places another program has written to
          crashes

vars == <<kind, at, stage, sidecar, mode, checked, edited, crashes>>

Nothing == "none"
Foreign == "foreign"

AllPhases == {"intent", "prepared", "backup_published", "artifact_published", "source_swap_prepared",
              "final_published", "manifest_linked", "manifest_published", "state_published", "commit_ready"}
Labels == {"anchor", "manifest", "backup", "artifact", "swap", "commit"}
Places == {"source", "backup", "artifact", "publication", "swap", "swap-retired", "candidate",
           "manifest-retired", "manifest-aborted", "anchor", "anchor-retired", "journal",
           "journal-retired", "commit", "done", "sealed"}

EditsAssumption == EditedPlaces \subseteq {"source", "backup", "artifact", "publication"}

\* The place a label's file is published at, and the object it is.
Target(l) == IF l = "manifest" THEN "candidate" ELSE l
Object(l) == IF l = "swap" THEN "new" ELSE l

\* The phases of the transaction, in their order.
Phases ==
    CASE kind = "running" -> <<"intent", "prepared", "backup_published", "source_swap_prepared",
                               "state_published", "commit_ready">>
      [] kind = "plain" -> <<"intent", "prepared", "backup_published", "source_swap_prepared",
                             "final_published", "commit_ready">>
      [] OTHER -> <<"intent", "prepared", "backup_published", "artifact_published",
                    "source_swap_prepared", "final_published", "manifest_linked",
                    "manifest_published", "commit_ready">>

IndexOf(p) == CHOOSE i \in 1 .. Len(Phases): Phases[i] = p
HasNote == kind = "note"

\* The journal, active or retired, and how far it has come.
Journal == IF at["journal"] # Nothing THEN at["journal"] ELSE at["journal-retired"]
AtLeast(p) == p \in ToSet(Phases) /\ Journal \in ToSet(Phases) /\ IndexOf(Journal) >= IndexOf(p)
Exchanged == AtLeast("final_published") \/ AtLeast("state_published")
NextPhase == Phases[IndexOf(Journal) + 1]

Init ==
    /\ kind \in Kinds
    /\ at = [p \in Places |-> IF p = "source" THEN "old" ELSE Nothing]
    /\ stage = [p \in AllPhases |-> Nothing]
    /\ sidecar = [l \in Labels |-> [receipt |-> Nothing, file |-> Nothing, whole |-> FALSE]]
    /\ mode = "down" /\ checked = FALSE /\ edited = {} /\ crashes = 0

Block == mode' = "blocked" /\ checked' = FALSE

-----------------------------------------------------------------------------
(* Files that another program may touch, and what the transaction expects. *)

BackupBound == AtLeast("backup_published") => at["backup"] = "backup"
ArtifactBound == AtLeast("artifact_published") => at["artifact"] = "artifact"
ManifestBound == AtLeast("manifest_linked") => at["publication"] = "manifest"
\* A file that was retired may be found there once the commit is prepared.
ActiveOrRetired(active, retired, object) ==
    \/ at[active] = object
    \/ AtLeast("commit_ready") /\ at[active] = Nothing /\ at[retired] = object
SwapBound == Exchanged => at["source"] = "new" /\ ActiveOrRetired("swap", "swap-retired", "old")
AnchorBound == AtLeast("prepared") => ActiveOrRetired("anchor", "anchor-retired", "anchor")
\* Nothing may be published before the manifest is linked.
NothingPublished == kind = "running" \/ AtLeast("manifest_linked") \/ at["publication"] = Nothing

\* What a resumed transaction finds: the original in its place, and all it has written.
Original == IF AtLeast("backup_published") THEN BackupBound ELSE at["source"] = "old"
Resumable == Original /\ ArtifactBound /\ SwapBound /\ ManifestBound /\ AnchorBound

\* The bindings that are validated again and again while the transaction is committed.
Bindings ==
    /\ BackupBound /\ ArtifactBound /\ AnchorBound
    /\ at["source"] = "new"
    /\ kind = "plain" => at["publication"] = Nothing
BindingsOfRunning == BackupBound /\ AnchorBound /\ at["source"] = "new"
Bound == IF kind = "running" THEN BindingsOfRunning ELSE Bindings /\ ManifestBound

-----------------------------------------------------------------------------
(* The workflow is opened. *)

\* Migration is needed: a witness is pending, a journal is there, or the batch file is old.
Needed ==
    \/ at["commit"] # Nothing \/ at["done"] # Nothing
    \/ at["journal"] # Nothing
    \/ at["source"] = "old"

\* The witness, when it was moved to done but not sealed, is active again.
WitnessBack ==
    IF at["done"] # Nothing THEN [at EXCEPT !["commit"] = at["done"], !["done"] = Nothing] ELSE at

\* The journal comes back with a pending witness.
JournalBack(places) ==
    IF places["commit"] # Nothing /\ places["journal"] = Nothing
      THEN [places EXCEPT !["journal"] = places["journal-retired"], !["journal-retired"] = Nothing]
      ELSE places

Recovered == JournalBack(WitnessBack)

\* A journal-stage file of a transaction that was neither announced nor sealed.
Unsealed == at["sealed"] = Nothing /\ \E p \in AllPhases: stage[p] # Nothing

Open ==
    /\ mode \in {"down", "blocked"} /\ checked' = FALSE
    /\ at' = Recovered
    /\ mode' = IF ~Needed THEN "ended" ELSE "opened"
    /\ UNCHANGED <<kind, stage, sidecar, edited, crashes>>

\* The journal is read: go on with it, refuse an unannounced one, or begin.
ReadJournal ==
    /\ mode = "opened" /\ checked' = FALSE
    /\ mode' = CASE at["journal"] # Nothing -> IF Resumable THEN "work" ELSE "blocked"
                 [] at["journal"] = Nothing /\ Unsealed -> "blocked"
                 [] OTHER -> "begin"
    /\ UNCHANGED <<kind, at, stage, sidecar, edited, crashes>>

\* A new journal: the intent, as a stage file.
NewJournal == [stage EXCEPT !["intent"] = "torn"]

\* An old batch file gets its journal.
Begin ==
    /\ mode = "begin"
    /\ IF at["source"] # "old" THEN mode' = "closing" /\ UNCHANGED stage
       ELSE IF kind # "running" /\ at["publication"] # Nothing THEN mode' = "blocked" /\ UNCHANGED stage
       ELSE mode' = "staging" /\ stage' = NewJournal
    /\ UNCHANGED <<kind, at, sidecar, checked, edited, crashes>>

\* The stage file gets its bytes.
EndStage ==
    /\ mode = "staging"
    /\ \E p \in AllPhases: stage[p] = "torn" /\ stage' = [stage EXCEPT ![p] = "next"]
    /\ mode' = IF Journal = "source_swap_prepared" THEN "bind" ELSE "work"
    /\ UNCHANGED <<kind, at, sidecar, checked, edited, crashes>>

\* The journal is published, and never over another one.
PublishJournal ==
    /\ mode = "work" /\ Journal = Nothing /\ stage["intent"] = "next"
    /\ at' = [at EXCEPT !["journal"] = "intent"]
    /\ stage' = [stage EXCEPT !["intent"] = Nothing]
    /\ IF at["source"] = "old" THEN UNCHANGED <<mode, checked>> ELSE Block
    /\ UNCHANGED <<kind, sidecar, edited, crashes>>

-----------------------------------------------------------------------------
(* The files of one phase, then the journal of the next. *)

Working == mode = "work" /\ at["journal"] # Nothing

\* The labels whose files the phase has to publish before the journal goes on.
Written ==
    CASE Journal = "intent" -> IF HasNote THEN {"anchor", "manifest"} ELSE {"anchor"}
      [] Journal = "prepared" -> {"backup"}
      [] Journal = "backup_published" -> IF HasNote THEN {"artifact"} ELSE {"swap"}
      [] Journal = "artifact_published" -> {"swap"}
      [] Journal = "commit_ready" -> {"commit"}
      [] OTHER -> {}

\* What must hold when the phase is taken up.
Entry ==
    CASE Journal = "intent" -> HasNote => at["publication"] = Nothing
      [] Journal = "prepared" -> at["source"] = "old" /\ NothingPublished
      [] Journal \in {"backup_published", "artifact_published"} ->
            NothingPublished /\ ("swap" \in Written => at["source"] = "old")
      [] Journal \in {"final_published", "state_published"} -> Bound /\ SwapBound
      [] Journal = "manifest_linked" -> ManifestBound
      [] Journal = "commit_ready" -> TRUE
      [] OTHER -> Bound

\* The checks of a phase, made once; those after a manifest was published withdraw it.
Look ==
    /\ Working /\ ~checked
    /\ Journal # "source_swap_prepared"
    /\ Journal = "manifest_linked" => at["candidate"] = Nothing
    /\ IF Entry THEN mode' = mode /\ checked' = TRUE
       ELSE mode' = (IF Journal = "manifest_published" THEN "withdraw" ELSE "blocked") /\ checked' = FALSE
    /\ UNCHANGED <<kind, at, stage, sidecar, edited, crashes>>

\* The manifest candidate comes after the anchor.
Turn(l) == l = "manifest" => sidecar["anchor"].receipt = "published"

\* The receipt of a label goes on: a new one takes the place of the last.
Advanced(l, next) == [sidecar EXCEPT ![l].receipt = next]

\* The receipt is declared; a torn one is written to its end.
Declare(l) ==
    /\ sidecar[l].receipt \in {Nothing, "torn"}
    /\ sidecar' = Advanced(l, IF sidecar[l].receipt = Nothing THEN "torn" ELSE "declared")
    /\ UNCHANGED <<at, mode>>

\* The file is allocated, promoted and filled, each step noted in the receipt.
Fill(l) ==
    /\ \/ /\ sidecar[l].receipt = "declared"
          /\ sidecar' = IF sidecar[l].file = Nothing THEN [sidecar EXCEPT ![l].file = "allocation"]
                        ELSE Advanced(l, "allocated")
       \/ /\ sidecar[l].receipt = "allocated"
          /\ sidecar' = IF sidecar[l].file = "allocation" THEN [sidecar EXCEPT ![l].file = "candidate"]
                        ELSE IF ~sidecar[l].whole THEN [sidecar EXCEPT ![l].whole = TRUE]
                        ELSE Advanced(l, "ready")
    /\ UNCHANGED <<at, mode>>

\* The target is empty, or is what was published.
MayPublish(l) == at[Target(l)] = IF sidecar[l].file = "target" THEN Object(l) ELSE Nothing

\* The file goes to its target by way of the capture, and is verified there.
Publish(l) ==
    /\ sidecar[l].receipt = "ready"
    /\ IF ~MayPublish(l) THEN mode' = "blocked" /\ UNCHANGED <<at, sidecar>>
       ELSE /\ UNCHANGED mode
            /\ \/ /\ sidecar[l].file = "candidate"
                  /\ sidecar' = [sidecar EXCEPT ![l].file = "capture"] /\ UNCHANGED at
               \/ /\ sidecar[l].file = "capture"
                  /\ sidecar' = [sidecar EXCEPT ![l].file = "target"]
                  /\ at' = [at EXCEPT ![Target(l)] = Object(l)]
               \/ /\ sidecar[l].file = "target"
                  /\ sidecar' = Advanced(l, "published") /\ UNCHANGED at

WriteFile ==
    /\ Working /\ checked
    /\ \E l \in Written: Turn(l) /\ (Declare(l) \/ Fill(l) \/ Publish(l))
    /\ UNCHANGED <<kind, stage, checked, edited, crashes>>

AllWritten == \A l \in Written: sidecar[l].receipt = "published"

\* The work of the phase is done; the next journal may be written.
PhaseDone ==
    /\ AllWritten
    /\ CASE Journal = "source_swap_prepared" -> FALSE
         [] Journal = "final_published" -> ~HasNote
         [] Journal = "manifest_linked" -> at["candidate"] = Nothing
         [] OTHER -> Journal # "commit_ready"

\* The journal goes on: a stage file, written and then exchanged with the journal.
BeginStage(next) ==
    /\ stage[next] = Nothing
    /\ mode' = "staging" /\ stage' = [stage EXCEPT ![next] = "torn"]
    /\ UNCHANGED <<at, checked>>

ExchangeJournal(next) ==
    /\ stage[next] = "next"
    /\ at' = [at EXCEPT !["journal"] = next] /\ stage' = [stage EXCEPT ![next] = "past"]
    /\ mode' = "work" /\ checked' = FALSE

TornStage(next) == stage[next] = "torn" /\ Block /\ UNCHANGED <<at, stage>>

Advance(next) == BeginStage(next) \/ ExchangeJournal(next) \/ TornStage(next)

AdvancePhase ==
    /\ Working /\ checked /\ PhaseDone
    /\ \A l \in Written: at[Target(l)] = Object(l)
    /\ Advance(NextPhase)
    /\ UNCHANGED <<kind, sidecar, edited, crashes>>

\* A published file was replaced before the journal could bind it.
NotBound ==
    /\ Working /\ checked /\ AllWritten
    /\ \E l \in Written: at[Target(l)] # Object(l)
    /\ Block
    /\ UNCHANGED <<kind, at, stage, sidecar, edited, crashes>>

-----------------------------------------------------------------------------
(* The exchange of the old and the new batch file. *)

Swapping == Working /\ Journal = "source_swap_prepared"

\* A mutant of Exchange: a plain rename, which leaves no displaced file.
Overwrite == [at EXCEPT !["source"] = at["swap"], !["swap"] = Nothing]

\* Both names change hands at once.
Exchange == [at EXCEPT !["source"] = at["swap"], !["swap"] = at["source"]]

\* Both files are as they were prepared (or were exchanged before a crash).
LookAtSource ==
    /\ Swapping /\ ~checked
    /\ \/ /\ at["source"] = "old" /\ at["swap"] = "new"
          /\ checked' = TRUE /\ UNCHANGED <<at, mode>>
       \/ /\ at["source"] = "new"
          /\ mode' = "swapped" /\ checked' = FALSE /\ UNCHANGED at
       \/ /\ ~(at["source"] = "old" /\ at["swap"] = "new") /\ at["source"] # "new"
          /\ Block /\ UNCHANGED at
    /\ UNCHANGED <<kind, stage, sidecar, edited, crashes>>

ExchangeSource ==
    /\ Swapping /\ checked
    /\ at' = Exchange
    /\ mode' = "swapped" /\ checked' = FALSE
    /\ UNCHANGED <<kind, stage, sidecar, edited, crashes>>

\* A mutant of Displaced: what was displaced is not looked at.
AnyDisplaced == TRUE

\* What was displaced is the original.
Displaced == at["swap"] = "old"

\* What was displaced must be the original; otherwise the files are exchanged back.
LookAtDisplaced ==
    /\ mode = "swapped"
    /\ IF at["source"] = "new" /\ Displaced
         THEN UNCHANGED at /\ mode' = "bind"
         ELSE /\ at' = (IF at["source"] = "new" THEN Exchange ELSE at)
              /\ mode' = "blocked"
    /\ UNCHANGED <<kind, stage, sidecar, checked, edited, crashes>>

\* The exchange is noted in the journal.
BindSource ==
    /\ mode = "bind"
    /\ \/ BeginStage(NextPhase)
       \/ ExchangeJournal(NextPhase)
       \/ TornStage(NextPhase)
    /\ UNCHANGED <<kind, sidecar, edited, crashes>>

-----------------------------------------------------------------------------
(* The manifest of the note. *)

\* The phase in which the manifest is linked.
LinksAt == "final_published"

\* The candidate gets a second name, the manifest's, unless another file has it.
LinkManifest ==
    /\ Working /\ checked /\ Journal = LinksAt /\ HasNote
    /\ stage["manifest_linked"] = Nothing
    /\ CASE at["publication"] = Nothing ->
              at' = [at EXCEPT !["publication"] = at["candidate"]] /\ UNCHANGED <<mode, stage, checked>>
         [] at["publication"] = "manifest" -> BeginStage("manifest_linked")
         [] OTHER -> Block /\ UNCHANGED <<at, stage>>
    /\ UNCHANGED <<kind, sidecar, edited, crashes>>

BindManifest ==
    /\ Working /\ checked /\ Journal = LinksAt /\ HasNote
    /\ ExchangeJournal("manifest_linked") \/ TornStage("manifest_linked")
    /\ UNCHANGED <<kind, sidecar, edited, crashes>>

RetireCandidate ==
    /\ Working /\ Journal = "manifest_linked" /\ at["candidate"] # Nothing
    /\ at' = [at EXCEPT !["candidate"] = Nothing, !["manifest-retired"] = at["candidate"]]
    /\ UNCHANGED <<kind, stage, sidecar, mode, checked, edited, crashes>>

\* Its own manifest is taken back; then the workflow is blocked.
Withdrawn == IF at["publication"] = "manifest"
               THEN [at EXCEPT !["publication"] = Nothing, !["manifest-aborted"] = "manifest"] ELSE at

Withdraw ==
    /\ mode = "withdraw"
    /\ at' = Withdrawn /\ Block
    /\ UNCHANGED <<kind, stage, sidecar, edited, crashes>>

-----------------------------------------------------------------------------
(* The commit: everything is put away, then the journal, then the witness. *)

StartCommit ==
    /\ Working /\ checked /\ Journal = "commit_ready" /\ AllWritten
    /\ IF Bound THEN mode' = "tidying" /\ checked' = FALSE ELSE Block
    /\ UNCHANGED <<kind, at, stage, sidecar, edited, crashes>>

PutAway(active, retired) ==
    /\ at[active] # Nothing
    /\ at' = [at EXCEPT ![active] = Nothing, ![retired] = at[active]]

\* The displaced original and the anchor are retired.
Tidy ==
    /\ mode = "tidying"
    /\ \/ PutAway("swap", "swap-retired") /\ UNCHANGED <<mode, checked>>
       \/ at["swap"] = Nothing /\ PutAway("anchor", "anchor-retired") /\ UNCHANGED <<mode, checked>>
       \/ at["swap"] = Nothing /\ at["anchor"] = Nothing
          /\ at' = (IF Bound THEN at ELSE Withdrawn)
          /\ mode' = (IF Bound THEN "committing" ELSE "blocked") /\ checked' = Bound
    /\ UNCHANGED <<kind, stage, sidecar, edited, crashes>>

\* A mutant of CommitMove: the witness is sealed before the journal is put away.
SealFirst ==
    CASE at["commit"] # Nothing -> <<"commit", "done">>
      [] at["commit"] = Nothing /\ at["done"] # Nothing -> <<"done", "sealed">>
      [] OTHER -> <<"journal", "journal-retired">>

\* The step of the commit that comes next: the journal, the witness, its seal.
CommitMove ==
    CASE at["journal"] # Nothing -> <<"journal", "journal-retired">>
      [] at["journal"] = Nothing /\ at["commit"] # Nothing -> <<"commit", "done">>
      [] OTHER -> <<"done", "sealed">>

CommitStep ==
    /\ mode = "committing" /\ checked
    /\ PutAway(CommitMove[1], CommitMove[2])
    /\ checked' = FALSE
    /\ mode' = IF CommitMove[2] = "sealed" THEN "closing" ELSE "committing"
    /\ UNCHANGED <<kind, stage, sidecar, edited, crashes>>

\* After each move all bindings are validated again.
Revalidate ==
    /\ mode = "committing" /\ ~checked
    /\ IF Bound THEN checked' = TRUE /\ UNCHANGED <<at, mode>>
       ELSE at' = Withdrawn /\ mode' = "restoring" /\ UNCHANGED checked
    /\ UNCHANGED <<kind, stage, sidecar, edited, crashes>>

\* A commit that failed is taken back: the witness, then the journal.
Restore ==
    /\ mode = "restoring"
    /\ IF WitnessBack # at THEN at' = WitnessBack /\ UNCHANGED <<mode, checked>>
       ELSE at' = JournalBack(at) /\ Block
    /\ UNCHANGED <<kind, stage, sidecar, edited, crashes>>

\* Every file with a receipt is where the receipt says; the batch file of a run that
\* goes on may have been written again.
SidecarsFinal ==
    /\ at["sealed"] = "commit" /\ at["anchor-retired"] = "anchor" /\ at["backup"] = "backup"
    /\ kind # "running" => at["source"] = "new"
    /\ HasNote => at["artifact"] = "artifact" /\ at["manifest-retired"] = "manifest"

\* The sealed transaction is complete.
Finalized ==
    /\ SidecarsFinal /\ at["journal-retired"] = "commit_ready"
    /\ HasNote => at["publication"] = "manifest"

Close ==
    /\ mode = "closing"
    /\ mode' = IF at["sealed"] # Nothing /\ ~Finalized THEN "blocked" ELSE "ended"
    /\ checked' = FALSE
    /\ UNCHANGED <<kind, at, stage, sidecar, edited, crashes>>

-----------------------------------------------------------------------------
(* The world: other programs, crashes. *)

\* Another program writes a file, by replacing it or where there was none.
Edit ==
    /\ Cardinality(edited) < MaxEdits /\ at["sealed"] = Nothing
    /\ \E p \in EditedPlaces \ edited:
          at' = [at EXCEPT ![p] = Foreign] /\ edited' = edited \union {p}
    /\ UNCHANGED <<kind, stage, sidecar, mode, checked, crashes>>

Crash ==
    /\ crashes < MaxCrashes /\ mode \notin {"down", "ended", "blocked"}
    /\ crashes' = crashes + 1 /\ mode' = "down" /\ checked' = FALSE
    /\ UNCHANGED <<kind, at, stage, sidecar, edited>>

Steps ==
    \/ ReadJournal \/ Begin \/ EndStage \/ PublishJournal
    \/ Look \/ WriteFile \/ AdvancePhase \/ NotBound
    \/ LookAtSource \/ ExchangeSource \/ LookAtDisplaced \/ BindSource
    \/ LinkManifest \/ BindManifest \/ RetireCandidate \/ Withdraw
    \/ StartCommit \/ Tidy \/ CommitStep \/ Revalidate \/ Restore \/ Close

Next == Open \/ Steps \/ Edit \/ Crash

Spec == Init /\ [][Next]_vars

-----------------------------------------------------------------------------

TypeOK ==
    /\ kind \in Kinds
    /\ at \in [Places -> AllPhases \union Labels \union {Nothing, Foreign, "old", "new"}]
    /\ stage \in [AllPhases -> {Nothing, "torn", "next", "past"}]
    /\ sidecar \in [Labels -> [receipt: {Nothing, "torn", "declared", "allocated", "ready", "published"},
                               file: {Nothing, "allocation", "candidate", "capture", "target"},
                               whole: BOOLEAN]]
    /\ mode \in {"down", "opened", "begin", "staging", "work", "swapped", "bind", "withdraw",
                 "tidying", "committing", "restoring", "closing", "blocked", "ended"}
    /\ checked \in BOOLEAN
    /\ edited \subseteq EditedPlaces
    /\ crashes \in 0 .. MaxCrashes

\* The sealed transaction is whole: unless another program wrote there, the new
\* batch file is in place, the original is kept twice, and note and manifest
\* belong to it (_remove_migration_journal, workflow.py:4244).
SealedIsWhole ==
    at["sealed"] # Nothing =>
        /\ at["source"] = "new" \/ "source" \in edited
        /\ at["backup"] = "backup" \/ "backup" \in edited
        /\ at["swap-retired"] = "old"
        /\ at["journal"] = Nothing /\ at["commit"] = Nothing /\ at["done"] = Nothing
        /\ HasNote => /\ at["artifact"] = "artifact" \/ "artifact" \in edited
                      /\ at["publication"] = "manifest" \/ "publication" \in edited

\* A batch file that another program wrote during the migration is in its place
\* again when the process rests, never hidden by the new one
\* (_resolve_source_swap, workflow.py:5025).
EditedSourceStands ==
    mode \in {"blocked", "ended"} /\ edited = {"source"} => at["source"] = Foreign

\* The objects that have a name.
Held == {at[p]: p \in Places} \ (AllPhases \union {Nothing})

\* No step of the migration, and no crash, takes away the last name of a file:
\* neither the original, nor what another program wrote (no-replace renames and
\* exchanges, workflow.py:1039).
NothingIsLost == [][edited' = edited => Held \subseteq Held']_vars

=============================================================================
